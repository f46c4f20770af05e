-------------------------- MODULE UbifsSpaceProofs --------------------------
(***************************************************************************)
(* In UbifsSpace a LEB is taken while one and only one has it, the counters *)
(* of the LEB properties are exact, and the budgets are those the threads  *)
(* hold: for any number and sizes of LEBs, any heads, threads and mounts.  *)
(*                                                                         *)
(* The inductive invariant says where each LEB is (OwnInv), what may be    *)
(* true of a LEB there (LebOk), and what each step of a thread, of the     *)
(* garbage collector and of the commit relies on.                          *)
(***************************************************************************)
EXTENDS UbifsSpace, FiniteSums

\* f[s] is what folding s makes of b.
Folded(f, b, G, S) ==
    f = [s \in SUBSET S |-> IF s = {} THEN b ELSE G[<<First(s), f[Rest(s)]>>]]

\* Two foldings of the same step agree on the sets both know.
LEMMA FoldedAgree ==
    ASSUME NEW S, IsFiniteSet(S), NEW U, NEW b, NEW G, NEW f, NEW g, Folded(f, b, G, S), Folded(g, b, G, U),
           NEW s \in SUBSET (S \cap U)
    PROVE  f[s] = g[s]
<1> DEFINE T == {t \in SUBSET (S \cap U) : f[t] # g[t]}
<1> SUFFICES ASSUME T # {} PROVE FALSE OBVIOUS
<1>1. PICK x \in T : \A y \in T : y \subseteq x => y = x
  <2>1. T \subseteq SUBSET S OBVIOUS
  <2> HIDE DEF T
  <2> QED BY <2>1, SmallestSubset
<1>2. /\ f[x] = IF x = {} THEN b ELSE G[<<First(x), f[Rest(x)]>>]
      /\ g[x] = IF x = {} THEN b ELSE G[<<First(x), g[Rest(x)]>>] BY DEF Folded
<1> QED BY <1>1, <1>2, RestIsSmaller

\* A step can be folded.
LEMMA FoldedExists ==
    ASSUME NEW S, IsFiniteSet(S), NEW b, NEW G
    PROVE  \E f : Folded(f, b, G, S)
<1> DEFINE T == {s \in SUBSET S : ~\E f : Folded(f, b, G, s)}
<1> SUFFICES ASSUME T # {} PROVE FALSE OBVIOUS
<1>1. PICK x \in T : \A y \in T : y \subseteq x => y = x
  <2>1. T \subseteq SUBSET S OBVIOUS
  <2> HIDE DEF T
  <2> QED BY <2>1, SmallestSubset
<1> DEFINE P(s) == CHOOSE f : Folded(f, b, G, s)
           h == [s \in SUBSET x |-> IF s = {} THEN b ELSE G[<<First(s), P(Rest(s))[Rest(s)]>>]]
<1>2. \A s \in SUBSET x : s # x => Folded(P(s), b, G, s)
  <2> TAKE s \in SUBSET x
  <2> HAVE s # x
  <2> QED BY <1>1
<1> HIDE DEF P
<1>3. \A s \in SUBSET x : s # {} => h[Rest(s)] = P(Rest(s))[Rest(s)]
  <2> TAKE s \in SUBSET x
  <2> HAVE s # {}
  <2> DEFINE r == Rest(s)
  <2>1. r \in SUBSET x /\ r # x BY RestIsSmaller
  <2>2. Folded(P(r), b, G, r) BY <1>2, <2>1
  <2>3. r # {} => P(r)[Rest(r)] = P(Rest(r))[Rest(r)]
    <3> HAVE r # {}
    <3> QED BY <1>2, <2>1, <2>2, RestIsSmaller, FS_Subset, FoldedAgree
  <2> QED BY <2>1, <2>2, <2>3 DEF Folded
<1>4. Folded(h, b, G, x)
  <2>1. \A s \in SUBSET x : h[s] = IF s = {} THEN b ELSE G[<<First(s), h[Rest(s)]>>] BY <1>3
  <2>2. h = [s \in SUBSET x |-> h[s]] OBVIOUS
  <2> HIDE DEF h
  <2> QED BY <2>1, <2>2 DEF Folded
<1> QED BY <1>4

\* A fold stays in V if its step does.
LEMMA FoldedType ==
    ASSUME NEW S, IsFiniteSet(S), NEW V, NEW b \in V, NEW G \in [S \X V -> V]
    PROVE  \E f : /\ Folded(f, b, G, S)
                  /\ \A s \in SUBSET S : s # {} => First(s) \in S /\ f[Rest(s)] \in V
<1>1. PICK f : Folded(f, b, G, S) BY FoldedExists
<1> DEFINE T == {s \in SUBSET S : f[s] \notin V}
<1>2. T = {}
  <2> SUFFICES ASSUME T # {} PROVE FALSE OBVIOUS
  <2>1. PICK x \in T : \A y \in T : y \subseteq x => y = x
    <3>1. T \subseteq SUBSET S OBVIOUS
    <3> HIDE DEF T
    <3> QED BY <3>1, SmallestSubset
  <2> QED BY <1>1, <2>1, RestIsSmaller DEF Folded
<1> QED BY <1>1, <1>2, RestIsSmaller

\* What holds of the empty set and is kept by each step holds of the whole.
LEMMA FoldInduct ==
    ASSUME NEW S, IsFiniteSet(S), NEW Q, NEW g, <<{}, g[{}]>> \in Q,
           \A s \in SUBSET S : s # {} /\ <<Rest(s), g[Rest(s)]>> \in Q => <<s, g[s]>> \in Q
    PROVE  <<S, g[S]>> \in Q
<1> DEFINE T == {s \in SUBSET S : <<s, g[s]>> \notin Q}
<1> SUFFICES ASSUME T # {} PROVE FALSE OBVIOUS
<1>1. PICK x \in T : \A y \in T : y \subseteq x => y = x
  <2>1. T \subseteq SUBSET S OBVIOUS
  <2> HIDE DEF T
  <2> QED BY <2>1, SmallestSubset
<1> QED BY <1>1, RestIsSmaller

\* Sums of integers.
LEMMA SumInt ==
    ASSUME NEW S, IsFiniteSet(S), NEW w, \A x \in S : w[x] \in Int
    PROVE  SumFunctionOnSet(w, S) \in Int
<1> DEFINE T == {s \in SUBSET S : SumFunctionOnSet(w, s) \notin Int}
<1> SUFFICES ASSUME T # {} PROVE FALSE OBVIOUS
<1>1. PICK x \in T : \A y \in T : y \subseteq x => y = x
  <2>1. T \subseteq SUBSET S OBVIOUS
  <2> HIDE DEF T
  <2> QED BY <2>1, SmallestSubset
<1>2. SumFunctionOnSet(w, x) = IF x = {} THEN 0 ELSE w[First(x)] + SumFunctionOnSet(w, Rest(x))
  BY FS_Subset, SumRecursive
<1>3. x # {} BY <1>2
<1>4. First(x) \in S /\ SumFunctionOnSet(w, Rest(x)) \in Int BY <1>1, <1>3, RestIsSmaller
<1>5. SumFunctionOnSet(w, x) \notin Int BY <1>1
<1> HIDE DEF T
<1> QED BY <1>2, <1>3, <1>4, <1>5

\* An element can be taken out of a sum.
LEMMA SumRemoveInt ==
    ASSUME NEW S, IsFiniteSet(S), NEW w, \A x \in S : w[x] \in Int, NEW a \in S
    PROVE  SumFunctionOnSet(w, S) = w[a] + SumFunctionOnSet(w, S \ {a})
<1> DEFINE Sum(s) == SumFunctionOnSet(w, s)
           Bad(s) == \E b \in s : Sum(s) # w[b] + Sum(s \ {b})
           T == {s \in SUBSET S : Bad(s)}
<1> SUFFICES ASSUME T # {} PROVE FALSE OBVIOUS
<1>1. PICK x \in T : \A y \in T : y \subseteq x => y = x
  <2>1. T \subseteq SUBSET S OBVIOUS
  <2> HIDE DEF T
  <2> QED BY <2>1, SmallestSubset
<1>2. PICK b \in x : Sum(x) # w[b] + Sum(x \ {b}) BY <1>1
<1> DEFINE p == First(x)
<1>3. p \in x /\ x \subseteq S /\ IsFiniteSet(x) BY <1>1, <1>2, RestIsSmaller, FS_Subset
<1>4. Sum(x) = w[p] + Sum(x \ {p}) BY <1>2, <1>3, SumRecursive DEF Rest
<1>5. p # b BY <1>2, <1>4
<1>6. \A c, d \in x : c # d => Sum(x \ {c}) = w[d] + Sum((x \ {c}) \ {d})
  <2> TAKE c, d \in x
  <2> HAVE c # d
  <2>1. x \ {c} \subseteq x /\ x \ {c} # x OBVIOUS
  <2> QED BY <1>1, <1>3, <2>1
<1>7. (x \ {p}) \ {b} = (x \ {b}) \ {p} OBVIOUS
<1> DEFINE r == Sum((x \ {b}) \ {p})
<1>8. Sum(x) = w[p] + (w[b] + r) /\ Sum(x \ {b}) = w[p] + r BY <1>2, <1>3, <1>4, <1>5, <1>6, <1>7
<1>9. w[p] \in Int /\ w[b] \in Int /\ r \in Int BY <1>2, <1>3, FS_Subset, SumInt
<1> HIDE DEF r, Sum, p
<1> QED BY <1>2, <1>8, <1>9

\* Only one summand differs.
LEMMA SumChangeInt ==
    ASSUME NEW S, IsFiniteSet(S), NEW w, NEW v, NEW a \in S,
           \A x \in S : w[x] \in Int /\ v[x] \in Int, \A x \in S \ {a} : w[x] = v[x]
    PROVE  SumFunctionOnSet(v, S) = SumFunctionOnSet(w, S) - w[a] + v[a]
<1> DEFINE R == S \ {a}
<1>1. IsFiniteSet(R) BY FS_Subset
<1> QED BY <1>1, SumSame, SumInt, SumRemoveInt

\* The number of elements with a property is a sum.
LEMMA SumCounts ==
    ASSUME NEW S, IsFiniteSet(S), NEW w, NEW A \in SUBSET S, \A x \in S : w[x] = IF x \in A THEN 1 ELSE 0
    PROVE  SumFunctionOnSet(w, S) = Cardinality(A)
<1> DEFINE T == {s \in SUBSET S : SumFunctionOnSet(w, s) # Cardinality(A \cap s)}
<1> SUFFICES ASSUME T # {} PROVE FALSE OBVIOUS
<1>1. PICK x \in T : \A y \in T : y \subseteq x => y = x
  <2>1. T \subseteq SUBSET S OBVIOUS
  <2> HIDE DEF T
  <2> QED BY <2>1, SmallestSubset
<1>2. IsFiniteSet(x) BY FS_Subset
<1>3. SumFunctionOnSet(w, x) = IF x = {} THEN 0 ELSE w[First(x)] + SumFunctionOnSet(w, Rest(x))
  BY <1>2, SumRecursive
<1>4. x # {}
  <2> SUFFICES ASSUME x = {} PROVE FALSE OBVIOUS
  <2> QED BY <1>1, <1>3, FS_EmptySet
<1>5. First(x) \in x /\ x \in SUBSET S /\ SumFunctionOnSet(w, Rest(x)) = Cardinality(A \cap Rest(x))
  BY <1>1, <1>4, RestIsSmaller
<1>6. IsFiniteSet(A \cap Rest(x)) /\ IsFiniteSet(A \cap x) BY <1>2, FS_Subset, FS_Intersection DEF Rest
<1>7. IF First(x) \in A THEN A \cap x = (A \cap Rest(x)) \cup {First(x)} ELSE A \cap x = A \cap Rest(x)
  BY <1>5 DEF Rest
<1>8. Cardinality(A \cap x) = w[First(x)] + Cardinality(A \cap Rest(x))
  <2>1. CASE First(x) \in A
    <3>1. Cardinality(A \cap x) = Cardinality(A \cap Rest(x)) + 1 BY <1>6, <1>7, <2>1, FS_AddElement DEF Rest
    <3> QED BY <1>5, <1>6, <2>1, <3>1, FS_CardinalityType
  <2>2. CASE First(x) \notin A
    <3>1. Cardinality(A \cap Rest(x)) \in Nat /\ w[First(x)] = 0 BY <1>5, <1>6, <2>2, FS_CardinalityType
    <3> QED BY <1>7, <2>2, <3>1
  <2> QED BY <2>1, <2>2
<1> QED BY <1>1, <1>3, <1>4, <1>5, <1>8

Maybe(S) == S \cup {None}
Cats == {"uncat", "empty", "frdi_idx", "freeable", "dirty_idx", "dirty", "free"}
Props == [free : Nat, dirty : Nat, index : BOOLEAN, taken : BOOLEAN, cat : Cats]
Lst == [empty : Int, taken : Int, idx : Int, used : Int, dead : Int, dark : Int,
        freeable : Int, idx_gc : Int]
SpType == [lp : [LEBs -> Props], lst : Lst, dirty : BOOLEAN]

\* p and q differ at most in the category.
SameSpace(p, q) == /\ p.free = q.free /\ p.dirty = q.dirty
                   /\ p.index = q.index /\ p.taken = q.taken

\* A LEB is in its category, or has fallen off a heap.
InCategory(p) == \/ p.cat = Categorize(p)
                 \/ p.cat = "uncat" /\ OnHeap(Categorize(p))

\* What a LEB adds to a counter, and to the size of the index.
Term(f, p) ==
    CASE f = "empty" -> EmptyOf(p) [] f = "taken" -> TakenOf(p) [] f = "idx" -> Num(p.index)
      [] f = "used" -> UsedOf(p) [] f = "dead" -> DeadOf(p) [] f = "dark" -> DarkOf(p)
      [] f = "freeable" -> Num(p.cat = "freeable")
      [] f = "size" -> IF p.index THEN LebSize - Spc(p) ELSE 0
Terms == {"empty", "taken", "idx", "used", "dead", "dark", "freeable", "size"}
Total(f, lp) == SumFunctionOnSet([l \in LEBs |-> Term(f, lp[l])], LEBs)

\* The counters are those of the LEB properties, but for e LEBs counted twice
\* as taken; idx_gc_cnt is g.
SpOk(s, e, g) ==
    /\ s \in SpType
    /\ \A l \in LEBs : InCategory(s.lp[l])
    /\ \A f \in {"empty", "idx", "used", "dead", "dark", "freeable"} : s.lst[f] = Total(f, s.lp)
    /\ s.lst.taken = Total("taken", s.lp) + e
    /\ s.lst.idx_gc = g

\* Of several numbers one is the least.
LEMMA LeastValue ==
    ASSUME NEW S, S # {}, NEW f, \A x \in S : f[x] \in Nat
    PROVE  \E x \in S : \A y \in S : f[x] <= f[y]
<1> DEFINE A == {f[x] : x \in S}
<1>1. PICK a \in A : TRUE OBVIOUS
<1>2. A \subseteq Nat OBVIOUS
<1>3. \E x \in A : \A y \in A : ~(<<y, x>> \in OpToRel(<, Nat))
  <2> HIDE DEF A
  <2> QED BY <1>1, <1>2, NatLessThanWellFounded, WFMin
<1>4. PICK x \in A : \A y \in A : ~(y < x) BY <1>2, <1>3 DEF OpToRel
<1>5. PICK z \in S : f[z] = x BY <1>4
<1>6. \A y \in S : f[z] <= f[y]
  <2> TAKE y \in S
  <2>1. f[y] \in A /\ f[y] \in Nat /\ f[z] \in Nat BY <1>5
  <2>2. ~(f[y] < f[z]) BY <1>4, <1>5, <2>1
  <2> QED BY <2>1, <2>2
<1> QED BY <1>6

\* What the category of LEB properties says of them.
LEMMA PropsFacts ==
    ASSUME NEW p \in Props
    PROVE  /\ Categorize(p) \in Cats
           /\ Categorize(p) \in {"empty", "dirty", "free", "freeable", "frdi_idx", "dirty_idx"} => ~p.taken
           /\ Categorize(p) \in {"dirty", "free", "freeable"} => ~p.index
           /\ Categorize(p) \in {"frdi_idx", "dirty_idx"} => p.index
           /\ Categorize(p) = "empty" => p.free = LebSize
           /\ Categorize(p) \in {"freeable", "frdi_idx"} => p.free # LebSize /\ Spc(p) = LebSize
           /\ OnHeap(Categorize(p)) => p.free # LebSize /\ Spc(p) # LebSize
           /\ Categorize(p) = "uncat" => p.taken \/ (p.free # LebSize /\ Spc(p) # LebSize)
           /\ Spc(p) \in Nat
           /\ \A cat \in Cats : CompVal(p, cat) \in Nat
BY DEF Props, Categorize, Cats, OnHeap, Spc, CompVal

\* The category does not count itself.
LEMMA SameCategory ==
    ASSUME NEW p, NEW q, SameSpace(p, q)
    PROVE  Categorize(p) = Categorize(q) /\ Spc(p) = Spc(q)
BY DEF SameSpace, Categorize, Spc

\* A full heap has a LEB at its bottom.
LEMMA BottomIs ==
    ASSUME NEW lp, NEW c \in Cats, \A l \in LEBs : lp[l].cat = c => lp[l] \in Props,
           Cardinality(Cat([lp |-> lp], c)) >= HeapSize
    PROVE  Bottom([lp |-> lp], c) \in LEBs /\ lp[Bottom([lp |-> lp], c)].cat = c
<1> DEFINE S == Cat([lp |-> lp], c)
           f == [l \in S |-> CompVal(lp[l], c)]
<1>1. S # {}
  <2> SUFFICES ASSUME S = {} PROVE FALSE OBVIOUS
  <2> QED BY FS_EmptySet, SizeAssumption
<1>2. S = {l \in LEBs : lp[l].cat = c} BY DEF Cat
<1>3. \A x \in S : f[x] \in Nat BY <1>2, PropsFacts
<1>4. \E x \in S : \A y \in S : f[x] <= f[y]
  <2> HIDE DEF S, f
  <2> QED BY <1>1, <1>3, LeastValue
<1> QED BY <1>2, <1>4 DEF Bottom

\* Before a LEB is in a category.
NewProps == [free : Nat, dirty : Nat, index : BOOLEAN, taken : BOOLEAN, cat : Cats \cup {"none"}]

\* A LEB gets its first category.
LEMMA NewFacts ==
    ASSUME NEW p \in NewProps
    PROVE  /\ Categorize(p) \in Cats
           /\ p.cat # "none" => p \in Props
           /\ \A q \in Cats : /\ [p EXCEPT !.cat = q] \in Props /\ [p EXCEPT !.cat = q] \in NewProps
                              /\ [p EXCEPT !.cat = q].cat = q
                              /\ SameSpace([p EXCEPT !.cat = q], p)
           /\ [p EXCEPT !.cat = "none"].cat = "none"
           /\ \A q : [[p EXCEPT !.cat = "none"] EXCEPT !.cat = q] = [p EXCEPT !.cat = q]
BY DEF NewProps, Props, Categorize, Cats, SameSpace

\* change_category() changes nothing but categories: that of the LEB, and of one
\* that has to leave a heap.
Recategorized(r, lp, l) ==
    /\ r \in [LEBs -> NewProps]
    /\ r[l] \in Props /\ InCategory(r[l])
    /\ \A k \in LEBs : SameSpace(r[k], lp[k])
    /\ \A k \in LEBs \ {l} : /\ InCategory(lp[k]) => InCategory(r[k])
                             /\ r[k].cat = lp[k].cat \/ (OnHeap(lp[k].cat) /\ r[k].cat = "uncat")

\* change_category() of a LEB, when others are in no category yet.
LEMMA CategoryNew ==
    ASSUME NEW lp \in [LEBs -> NewProps], NEW l \in LEBs,
           \A k \in LEBs \ {l} : InCategory(lp[k]) \/ lp[k].cat = "none"
    PROVE  Recategorized(ChangeCategory(lp, l), lp, l)
<1> DEFINE c == Categorize(lp[l])
           z == [lp EXCEPT ![l].cat = "none"]
           b == Bottom([lp |-> z], c)
           r == ChangeCategory(lp, l)
<1>1. c \in Cats /\ lp[l] \in NewProps BY NewFacts
<1>2. CASE c = lp[l].cat BY <1>1, <1>2, NewFacts DEF SameSpace, Recategorized, ChangeCategory, InCategory, Cats
<1>3. ASSUME NEW q \in Cats, q = c \/ (q = "uncat" /\ OnHeap(c)), r = [lp EXCEPT ![l].cat = q]
      PROVE  Recategorized(r, lp, l)
  <2>1. PICK x : x = [lp[l] EXCEPT !.cat = q] OBVIOUS
  <2>2. x \in Props /\ x \in NewProps /\ SameSpace(x, lp[l]) /\ x.cat = q BY <1>1, <2>1, NewFacts
  <2>3. InCategory(x) BY <1>3, <2>2, SameCategory DEF InCategory
  <2> HIDE DEF r, c
  <2> QED BY <1>3, <2>1, <2>2, <2>3 DEF SameSpace, Recategorized
<1>4. CASE c # lp[l].cat /\ ~OnHeap(c) BY <1>1, <1>3, <1>4 DEF ChangeCategory
<1>5. CASE c # lp[l].cat /\ OnHeap(c)
  <2>1. \A q : [z EXCEPT ![l].cat = q] = [lp EXCEPT ![l].cat = q]
    <3> TAKE q
    <3> QED BY <1>1, NewFacts
  <2>2. CASE r = [lp EXCEPT ![l].cat = c] BY <1>1, <1>3, <2>2
  <2>3. CASE r = [lp EXCEPT ![l].cat = "uncat"] BY <1>3, <1>5, <2>3 DEF Cats
  <2>4. CASE /\ r = [[lp EXCEPT ![l].cat = c] EXCEPT ![b].cat = "uncat"]
             /\ ~(Cardinality(Cat([lp |-> z], c)) < HeapSize)
    <3>1. z[l].cat = "none" /\ \A k \in LEBs \ {l} : z[k] = lp[k] BY <1>1, NewFacts
    <3>2. c # "none" BY <1>1 DEF Cats
    <3>3. Cardinality(Cat([lp |-> z], c)) \in Nat BY SizeAssumption, FS_Subset, FS_CardinalityType DEF Cat
    <3>4. \A k \in LEBs : z[k].cat = c => z[k] \in Props BY <3>1, <3>2, NewFacts
    <3>5. b \in LEBs /\ z[b].cat = c
      <4> HIDE DEF z, c
      <4> QED BY <1>1, <2>4, <3>3, <3>4, SizeAssumption, BottomIs
    <3>6. b # l /\ lp[b].cat = c /\ lp[b] \in NewProps BY <3>1, <3>2, <3>5
    <3>7. PICK x, y : x = [lp[l] EXCEPT !.cat = c] /\ y = [lp[b] EXCEPT !.cat = "uncat"] OBVIOUS
    <3>8. /\ x \in Props /\ x \in NewProps /\ SameSpace(x, lp[l]) /\ x.cat = c
          /\ y \in Props /\ y \in NewProps /\ SameSpace(y, lp[b]) /\ y.cat = "uncat"
      <4>1. "uncat" \in Cats BY DEF Cats
      <4> HIDE DEF b, c
      <4> QED BY <1>1, <3>6, <3>7, <4>1, NewFacts
    <3> HIDE DEF z, b, r
    <3>9. r = [[lp EXCEPT ![l] = x] EXCEPT ![b] = y]
      <4>1. [[lp EXCEPT ![l] = x] EXCEPT ![b].cat = "uncat"] = [[lp EXCEPT ![l] = x] EXCEPT ![b] = y]
        <5>1. PICK w : w = [lp EXCEPT ![l] = x] OBVIOUS
        <5> QED BY <3>5, <3>6, <3>7, <5>1
      <4> QED BY <2>4, <3>7, <4>1
    <3> HIDE DEF c
    <3> QED
      BY <1>5, <3>2, <3>5, <3>6, <3>8, <3>9, SameCategory DEF r, Recategorized, InCategory, c, OnHeap, SameSpace
  <2> QED BY <1>5, <2>1, <2>2, <2>3, <2>4 DEF AddToHeap, ChangeCategory
<1> QED BY <1>2, <1>4, <1>5

\* change_category() of a LEB, when all are in one.
LEMMA CategoryIs ==
    ASSUME NEW lp \in [LEBs -> Props], NEW l \in LEBs, \A k \in LEBs \ {l} : InCategory(lp[k])
    PROVE  LET r == ChangeCategory(lp, l)
           IN /\ r \in [LEBs -> Props]
              /\ \A k \in LEBs : SameSpace(r[k], lp[k]) /\ InCategory(r[k])
              /\ \A k \in LEBs \ {l} :
                    r[k].cat = lp[k].cat \/ (OnHeap(lp[k].cat) /\ r[k].cat = "uncat")
<1>1. PICK r : r = ChangeCategory(lp, l) OBVIOUS
<1>2. Recategorized(r, lp, l) BY <1>1, CategoryNew DEF Props, NewProps
<1>3. \A k \in LEBs \ {l} : r[k].cat # "none" BY <1>2 DEF Recategorized, Props, Cats
<1> QED BY <1>1, <1>2, <1>3, NewFacts DEF Recategorized

\* What a LEB adds is an integer.
LEMMA TermType ==
    ASSUME NEW p \in Props, NEW f \in Terms
    PROVE  Term(f, p) \in Int
BY SizeAssumption DEF Term, Terms, EmptyOf, TakenOf, UsedOf, DeadOf, DarkOf, CalcDark, Props, Spc, Num

\* Only the number of freeable LEBs depends on a category.
LEMMA SameTerm ==
    ASSUME NEW p, NEW q, SameSpace(p, q), NEW f \in Terms, f # "freeable"
    PROVE  Term(f, p) = Term(f, q)
BY DEF Term, Terms, EmptyOf, TakenOf, UsedOf, DeadOf, DarkOf, SameSpace, Spc

\* Only one LEB adds something else.
LEMMA TotalChange ==
    ASSUME NEW lp \in [LEBs -> Props], NEW r \in [LEBs -> Props], NEW l \in LEBs, NEW f \in Terms,
           \A k \in LEBs \ {l} : Term(f, r[k]) = Term(f, lp[k])
    PROVE  Total(f, r) = Total(f, lp) - Term(f, lp[l]) + Term(f, r[l])
<1> DEFINE w == [k \in LEBs |-> Term(f, lp[k])]
           v == [k \in LEBs |-> Term(f, r[k])]
<1>1. \A k \in LEBs : w[k] \in Int /\ v[k] \in Int BY TermType
<1>2. \A k \in LEBs \ {l} : w[k] = v[k] OBVIOUS
<1>3. IsFiniteSet(LEBs) BY SizeAssumption
<1>4. SumFunctionOnSet(v, LEBs) = SumFunctionOnSet(w, LEBs) - w[l] + v[l]
  <2> HIDE DEF w, v
  <2> QED BY <1>1, <1>2, <1>3, SumChangeInt
<1> QED BY <1>4 DEF Total

\* The totals are integers.
LEMMA TotalType ==
    ASSUME NEW lp \in [LEBs -> Props], NEW f \in Terms
    PROVE  Total(f, lp) \in Int
<1> DEFINE w == [k \in LEBs |-> Term(f, lp[k])]
<1>1. \A k \in LEBs : w[k] \in Int BY TermType
<1>2. SumFunctionOnSet(w, LEBs) \in Int
  <2> HIDE DEF w
  <2> QED BY <1>1, SizeAssumption, SumInt
<1> QED BY <1>2 DEF Total

\* ubifs_change_lp() changes one LEB, and counts what it changes.
ChangePre(s, e, g, l, n, d) ==
    /\ e \in Int /\ g \in Int /\ d \in Int /\ SpOk(s, e, g)
    /\ l \in LEBs /\ n \in Props /\ n.cat = s.lp[l].cat

ChangePost(r, s, e, g, l, n, d) ==
    /\ SpOk(r, e, g + d)
    /\ r.dirty = TRUE
    /\ \A k \in LEBs \ {l} : SameSpace(r.lp[k], s.lp[k])
    /\ SameSpace(r.lp[l], n)
    /\ Total("size", r.lp) = Total("size", s.lp) - Term("size", s.lp[l]) + Term("size", n)

\* ubifs_change_lp() keeps the counters exact.
LEMMA ChangeIs ==
    ASSUME NEW s, NEW e, NEW g, NEW l, NEW n, NEW d, ChangePre(s, e, g, l, n, d)
    PROVE  ChangePost(ChangeLp(s, l, n, d), s, e, g, l, n, d)
<1> /\ e \in Int /\ g \in Int /\ d \in Int /\ SpOk(s, e, g)
    /\ l \in LEBs /\ n \in Props /\ n.cat = s.lp[l].cat BY DEF ChangePre
<1> DEFINE r == ChangeLp(s, l, n, d)
           o == s.lp[l]
           m == [s.lp EXCEPT ![l] = n]
           lp == ChangeCategory(m, l)
<1>1. /\ s.lp \in [LEBs -> Props] /\ o \in Props /\ m \in [LEBs -> Props] /\ s.lst \in Lst
      /\ m[l] = n /\ \A k \in LEBs \ {l} : m[k] = s.lp[k] BY DEF SpOk, SpType
<1>2. /\ lp \in [LEBs -> Props]
      /\ \A k \in LEBs : SameSpace(lp[k], m[k]) /\ InCategory(lp[k])
      /\ \A k \in LEBs \ {l} : lp[k].cat = m[k].cat \/ (OnHeap(m[k].cat) /\ lp[k].cat = "uncat")
  <2> HIDE DEF m
  <2> QED BY <1>1, CategoryIs DEF SpOk
<1>3. r.lp = lp /\ r.dirty = TRUE BY DEF ChangeLp
<1>4. SameSpace(lp[l], n) /\ \A k \in LEBs \ {l} : SameSpace(lp[k], s.lp[k]) BY <1>1, <1>2
<1> HIDE DEF lp, m
<1>5. \A f \in Terms : /\ Total(f, lp) = Total(f, s.lp) - Term(f, o) + Term(f, lp[l])
                       /\ Total(f, s.lp) \in Int /\ Term(f, o) \in Int /\ Term(f, lp[l]) \in Int
  <2> TAKE f \in Terms
  <2>1. \A k \in LEBs \ {l} : Term(f, lp[k]) = Term(f, s.lp[k])
    <3> TAKE k \in LEBs \ {l}
    <3>1. CASE f # "freeable" BY <1>4, <3>1, SameTerm
    <3>2. CASE f = "freeable" BY <1>1, <1>2, <3>2 DEF Term, Num, OnHeap
    <3> QED BY <3>1, <3>2
  <2> QED BY <1>1, <1>2, <2>1, TotalChange, TotalType, TermType
<1>6. \A f \in Terms \ {"freeable"} : Term(f, lp[l]) = Term(f, n) BY <1>4, SameTerm
<1>7. /\ r.lst.empty = s.lst.empty + Term("empty", n) - Term("empty", o)
      /\ r.lst.taken = s.lst.taken + Term("taken", n) - Term("taken", o)
      /\ r.lst.idx = s.lst.idx + Term("idx", n) - Term("idx", o)
      /\ r.lst.used = s.lst.used + Term("used", n) - Term("used", o)
      /\ r.lst.dead = s.lst.dead + Term("dead", n) - Term("dead", o)
      /\ r.lst.dark = s.lst.dark + Term("dark", n) - Term("dark", o)
      /\ r.lst.freeable = s.lst.freeable + Term("freeable", lp[l]) - Term("freeable", o)
      /\ r.lst.idx_gc = s.lst.idx_gc + d BY <1>3 DEF ChangeLp, Term, lp, m
<1>8. /\ s.lst.empty = Total("empty", s.lp) /\ s.lst.idx = Total("idx", s.lp)
      /\ s.lst.used = Total("used", s.lp) /\ s.lst.dead = Total("dead", s.lp)
      /\ s.lst.dark = Total("dark", s.lp) /\ s.lst.freeable = Total("freeable", s.lp)
      /\ s.lst.taken = Total("taken", s.lp) + e /\ s.lst.idx_gc = g BY DEF SpOk
<1>9. {"empty", "idx", "used", "dead", "dark", "freeable", "taken", "size"} \subseteq Terms BY DEF Terms
<1> HIDE DEF r, o
<1>10. /\ r.lst.empty = Total("empty", lp) /\ r.lst.idx = Total("idx", lp)
       /\ r.lst.used = Total("used", lp) /\ r.lst.dead = Total("dead", lp)
       /\ r.lst.dark = Total("dark", lp) /\ r.lst.freeable = Total("freeable", lp)
  BY <1>5, <1>6, <1>7, <1>8, <1>9
<1>11. r.lst.taken = Total("taken", lp) + e /\ r.lst.idx_gc = g + d BY <1>5, <1>6, <1>7, <1>8, <1>9
<1>12. r \in SpType BY <1>2, <1>3, <1>9, <1>10, <1>11, TotalType DEF SpType, Lst, r, ChangeLp
<1> QED BY <1>2, <1>3, <1>4, <1>5, <1>6, <1>9, <1>10, <1>11, <1>12 DEF r, o, ChangePost, SpOk

GoodSp == {r \in SpType : \E e, g \in Int : SpOk(r, e, g)}

\* f folds ChangeLp over A, with the properties n up to the category.
Changes(f, s, A, n, d) ==
    /\ f[{}] = s
    /\ \A T \in SUBSET A : T # {} /\ f[Rest(T)] \in GoodSp =>
          LET r == f[Rest(T)]
              l == First(T)
          IN \E q \in Props : /\ q.cat = r.lp[l].cat
                              /\ SameSpace(r.lp[l], s.lp[l]) => SameSpace(q, n[l])
                              /\ f[T] = ChangeLp(r, l, q, d)

\* What it leads to.
Changed(r, s, e, g, A, n) ==
    /\ SpOk(r, e, g)
    /\ \A l \in LEBs \ A : SameSpace(r.lp[l], s.lp[l])
    /\ \A l \in A : SameSpace(r.lp[l], n[l])
    /\ Total("size", r.lp) = Total("size", s.lp)

\* So does changing one LEB after the other.
LEMMA FoldChanges ==
    ASSUME NEW s, NEW e \in Int, NEW g \in Int, SpOk(s, e, g), NEW A \in SUBSET LEBs, NEW n,
           NEW d \in {0, 1}, NEW f, Changes(f, s, A, n, d),
           \A l \in A : Term("size", n[l]) = Term("size", s.lp[l])
    PROVE  Changed(f[A], s, e, g + d * Cardinality(A), A, n)
<1> DEFINE P(T, r) == Changed(r, s, e, g + d * Cardinality(T), T, n)
           Q == {p \in (SUBSET A) \X GoodSp : P(p[1], p[2])}
<1>1. IsFiniteSet(A) BY SizeAssumption, FS_Subset
<1>2. <<{}, f[{}]>> \in Q
  <2>1. P({}, s) BY FS_EmptySet DEF Changed, SameSpace
  <2> QED BY <2>1 DEF Changes, SpOk, GoodSp
<1>3. ASSUME NEW T \in SUBSET A, T # {}, <<Rest(T), f[Rest(T)]>> \in Q
      PROVE  <<T, f[T]>> \in Q
  <2> DEFINE l == First(T)
             B == Rest(T)
             r == f[B]
             h == g + d * Cardinality(B)
  <2>1. l \in T /\ l \in LEBs /\ l \notin B /\ B \subseteq T /\ T = B \cup {l} /\ B \in SUBSET A
    BY <1>3, RestIsSmaller DEF Rest
  <2>2. r \in GoodSp /\ Changed(r, s, e, h, B, n) BY <1>3
  <2>3. IsFiniteSet(B) /\ Cardinality(B) \in Nat /\ Cardinality(T) = Cardinality(B) + 1
    BY <1>1, <2>1, FS_Subset, FS_CardinalityType, FS_AddElement
  <2>4. h \in Int /\ h + d = g + d * Cardinality(T)
    <3>1. CASE d = 0 BY <2>3, <3>1
    <3>2. CASE d = 1 BY <2>3, <3>2
    <3> QED BY <3>1, <3>2
  <2>5. PICK q \in Props : /\ q.cat = r.lp[l].cat
                           /\ SameSpace(r.lp[l], s.lp[l]) => SameSpace(q, n[l])
                           /\ f[T] = ChangeLp(r, l, q, d) BY <1>3, <2>2 DEF Changes
  <2>6. SameSpace(r.lp[l], s.lp[l]) /\ SameSpace(q, n[l]) BY <2>1, <2>2, <2>5 DEF Changed
  <2>7. PICK z : z = f[T] OBVIOUS
  <2>8. d \in Int OBVIOUS
  <2>9. PICK rr, hh, ll : rr = r /\ hh = h /\ ll = l OBVIOUS
  <2> HIDE DEF r, h, l, B
  <2>10. SpOk(rr, e, hh) /\ hh \in Int /\ ll \in LEBs /\ q.cat = rr.lp[ll].cat
    BY <2>1, <2>2, <2>4, <2>5, <2>9 DEF Changed
  <2>11. /\ SpOk(z, e, hh + d)
         /\ \A k \in LEBs \ {ll} : SameSpace(z.lp[k], rr.lp[k])
         /\ SameSpace(z.lp[ll], q)
         /\ Total("size", z.lp) = Total("size", rr.lp) - Term("size", rr.lp[ll]) + Term("size", q)
    <3>1. ChangePost(z, rr, e, hh, ll, q, d) BY <2>5, <2>7, <2>8, <2>9, <2>10, ChangeIs DEF ChangePre
    <3> QED BY <3>1 DEF ChangePost
  <2>12. Total("size", z.lp) = Total("size", s.lp)
    <3>1. "size" \in Terms /\ "size" # "freeable" BY DEF Terms
    <3>2. Total("size", rr.lp) \in Int /\ Term("size", q) \in Int
      BY <2>10, <3>1, TotalType, TermType DEF SpOk, SpType
    <3> QED BY <2>1, <2>2, <2>6, <2>9, <2>11, <3>1, <3>2, SameTerm DEF Changed
  <2>13. z \in GoodSp BY <2>8, <2>10, <2>11 DEF SpOk, GoodSp
  <2>14. P(T, z) BY <2>1, <2>2, <2>4, <2>6, <2>9, <2>11, <2>12 DEF Changed, SameSpace
  <2> QED BY <2>7, <2>13, <2>14
<1>4. <<A, f[A]>> \in Q
  <2> HIDE DEF Q
  <2> QED BY <1>1, <1>2, <1>3, FoldInduct
<1> QED BY <1>4

\* A step that keeps SpType can be folded.

\* A changed LEB has properties again.
LEMMA ChangeType ==
    ASSUME NEW s \in GoodSp, NEW l \in LEBs, NEW n \in Props, n.cat = s.lp[l].cat, NEW d \in Int
    PROVE  ChangeLp(s, l, n, d) \in GoodSp
<1>1. PICK e \in Int, g \in Int : SpOk(s, e, g) BY DEF GoodSp
<1>2. PICK r : r = ChangeLp(s, l, n, d) OBVIOUS
<1>3. SpOk(r, e, g + d) BY <1>1, <1>2, ChangeIs DEF ChangePost, ChangePre
<1> QED BY <1>2, <1>3 DEF GoodSp, SpOk

\* Returning LEBs one after the other is a fold.
LEMMA ReturnFold ==
    ASSUME NEW s \in GoodSp, NEW A \in SUBSET LEBs,
           \A l \in A : \A r \in GoodSp : ReturnLeb(r, l) \in GoodSp
    PROVE  \E f : /\ ForAll(ReturnLeb, s, A) = f[A] /\ f[{}] = s
                  /\ \A T \in SUBSET A : T # {} => f[T] = ReturnLeb(f[Rest(T)], First(T))
<1> DEFINE F(f) == f = [T \in SUBSET A |-> IF T = {} THEN s
                          ELSE ReturnLeb(f[T \ {CHOOSE x \in T : TRUE}], CHOOSE x \in T : TRUE)]
           h == CHOOSE f : F(f)
           G == [p \in A \X GoodSp |-> ReturnLeb(p[2], p[1])]
<1>1. ForAll(ReturnLeb, s, A) = h[A] BY DEF ForAll, FoldSet, MapThenFoldSet
<1>2. IsFiniteSet(A) BY SizeAssumption, FS_Subset
<1>3. G \in [A \X GoodSp -> GoodSp] OBVIOUS
<1>4. PICK f : /\ Folded(f, s, G, A)
               /\ \A T \in SUBSET A : T # {} => First(T) \in A /\ f[Rest(T)] \in GoodSp
  <2> HIDE DEF G
  <2> QED BY <1>2, <1>3, FoldedType
<1>5. \A T \in SUBSET A : T # {} => G[<<First(T), f[Rest(T)]>>] = ReturnLeb(f[Rest(T)], First(T)) BY <1>4
<1>6. f = [T \in SUBSET A |-> IF T = {} THEN s ELSE ReturnLeb(f[Rest(T)], First(T))]
  <2> HIDE DEF G
  <2> QED BY <1>4, <1>5 DEF Folded
<1>7. F(h) BY <1>6 DEF First, Rest
<1>8. h = [T \in SUBSET A |-> IF T = {} THEN s ELSE ReturnLeb(h[Rest(T)], First(T))]
  <2> HIDE DEF h
  <2> QED BY <1>7 DEF First, Rest
<1> HIDE DEF h
<1> QED BY <1>1, <1>8

\* ubifs_return_leb()
Returned(p) == [p EXCEPT !.taken = FALSE]

\* LEBs that are returned differ only in that.
LEMMA ReturnAll ==
    ASSUME NEW s, NEW e \in Int, NEW g \in Int, SpOk(s, e, g), NEW A \in SUBSET LEBs,
           \A l \in A : Term("size", Returned(s.lp[l])) = Term("size", s.lp[l])
    PROVE  Changed(ForAll(ReturnLeb, s, A), s, e, g + 0 * Cardinality(A), A, [l \in A |-> Returned(s.lp[l])])
<1> DEFINE n == [l \in A |-> Returned(s.lp[l])]
<1>1. \A p \in Props : /\ Returned(p) \in Props /\ Returned(p).cat = p.cat
                       /\ \A q \in Props : SameSpace(p, q) => SameSpace(Returned(p), Returned(q))
  BY SizeAssumption DEF Returned, Props, SameSpace
<1>2. \A l \in LEBs : \A r \in GoodSp : ReturnLeb(r, l) = ChangeLp(r, l, Returned(r.lp[l]), 0)
  BY DEF ReturnLeb, Returned
<1>3. \A l \in LEBs : \A r \in GoodSp : ReturnLeb(r, l) \in GoodSp
  <2> TAKE l \in LEBs
  <2> TAKE r \in GoodSp
  <2>1. Returned(r.lp[l]) \in Props /\ Returned(r.lp[l]).cat = r.lp[l].cat BY <1>1 DEF GoodSp, SpType
  <2> QED BY <1>2, <2>1, ChangeType
<1>4. s \in GoodSp BY DEF SpOk, GoodSp
<1>5. PICK f : /\ ForAll(ReturnLeb, s, A) = f[A] /\ f[{}] = s
               /\ \A T \in SUBSET A : T # {} => f[T] = ReturnLeb(f[Rest(T)], First(T)) BY <1>3, <1>4, ReturnFold
<1>6. Changes(f, s, A, n, 0)
  <2> SUFFICES ASSUME NEW T \in SUBSET A, T # {}, f[Rest(T)] \in GoodSp
               PROVE  LET r == f[Rest(T)]
                          l == First(T)
                      IN \E q \in Props : /\ q.cat = r.lp[l].cat
                                          /\ SameSpace(r.lp[l], s.lp[l]) => SameSpace(q, n[l])
                                          /\ f[T] = ChangeLp(r, l, q, 0) BY <1>5 DEF Changes
  <2> DEFINE r == f[Rest(T)]
             l == First(T)
  <2>1. l \in A /\ l \in LEBs BY RestIsSmaller
  <2>2. r.lp[l] \in Props /\ s.lp[l] \in Props BY <1>4, <2>1 DEF GoodSp, SpType
  <2> QED BY <1>1, <1>2, <1>5, <2>1, <2>2
<1> HIDE DEF n
<1> QED BY <1>5, <1>6, FoldChanges DEF n

\* Freeing LEBs one after the other is a fold.
LEMMA FreeFold ==
    ASSUME NEW s \in GoodSp, NEW A \in SUBSET LEBs,
           \A l \in A : \A r \in GoodSp : FreeLeb(r, l) \in GoodSp
    PROVE  \E f : /\ ForAll(FreeLeb, s, A) = f[A] /\ f[{}] = s
                  /\ \A T \in SUBSET A : T # {} => f[T] = FreeLeb(f[Rest(T)], First(T))
<1> DEFINE F(f) == f = [T \in SUBSET A |-> IF T = {} THEN s
                          ELSE FreeLeb(f[T \ {CHOOSE x \in T : TRUE}], CHOOSE x \in T : TRUE)]
           h == CHOOSE f : F(f)
           G == [p \in A \X GoodSp |-> FreeLeb(p[2], p[1])]
<1>1. ForAll(FreeLeb, s, A) = h[A] BY DEF ForAll, FoldSet, MapThenFoldSet
<1>2. IsFiniteSet(A) BY SizeAssumption, FS_Subset
<1>3. G \in [A \X GoodSp -> GoodSp] OBVIOUS
<1>4. PICK f : /\ Folded(f, s, G, A)
               /\ \A T \in SUBSET A : T # {} => First(T) \in A /\ f[Rest(T)] \in GoodSp
  <2> HIDE DEF G
  <2> QED BY <1>2, <1>3, FoldedType
<1>5. \A T \in SUBSET A : T # {} => G[<<First(T), f[Rest(T)]>>] = FreeLeb(f[Rest(T)], First(T)) BY <1>4
<1>6. f = [T \in SUBSET A |-> IF T = {} THEN s ELSE FreeLeb(f[Rest(T)], First(T))]
  <2> HIDE DEF G
  <2> QED BY <1>4, <1>5 DEF Folded
<1>7. F(h) BY <1>6 DEF First, Rest
<1>8. h = [T \in SUBSET A |-> IF T = {} THEN s ELSE FreeLeb(h[Rest(T)], First(T))]
  <2> HIDE DEF h
  <2> QED BY <1>7 DEF First, Rest
<1> HIDE DEF h
<1> QED BY <1>1, <1>8

\* ubifs_gc_start_commit(), a LEB with only dirt.
Freed(p) == [p EXCEPT !.free = LebSize, !.dirty = 0]

\* LEBs that are freed.
LEMMA FreeAll ==
    ASSUME NEW s, NEW e \in Int, NEW g \in Int, SpOk(s, e, g), NEW A \in SUBSET LEBs,
           \A l \in A : Term("size", Freed(s.lp[l])) = Term("size", s.lp[l])
    PROVE  Changed(ForAll(FreeLeb, s, A), s, e, g + 0 * Cardinality(A), A, [l \in A |-> Freed(s.lp[l])])
<1> DEFINE n == [l \in A |-> Freed(s.lp[l])]
<1>1. \A p \in Props : /\ Freed(p) \in Props /\ Freed(p).cat = p.cat
                       /\ \A q \in Props : SameSpace(p, q) => SameSpace(Freed(p), Freed(q))
  BY SizeAssumption DEF Freed, Props, SameSpace
<1>2. \A l \in LEBs : \A r \in GoodSp : FreeLeb(r, l) = ChangeLp(r, l, Freed(r.lp[l]), 0)
  BY DEF FreeLeb, Freed, SetSpace
<1>3. \A l \in LEBs : \A r \in GoodSp : FreeLeb(r, l) \in GoodSp
  <2> TAKE l \in LEBs
  <2> TAKE r \in GoodSp
  <2>1. Freed(r.lp[l]) \in Props /\ Freed(r.lp[l]).cat = r.lp[l].cat BY <1>1 DEF GoodSp, SpType
  <2> QED BY <1>2, <2>1, ChangeType
<1>4. s \in GoodSp BY DEF SpOk, GoodSp
<1>5. PICK f : /\ ForAll(FreeLeb, s, A) = f[A] /\ f[{}] = s
               /\ \A T \in SUBSET A : T # {} => f[T] = FreeLeb(f[Rest(T)], First(T)) BY <1>3, <1>4, FreeFold
<1>6. Changes(f, s, A, n, 0)
  <2> SUFFICES ASSUME NEW T \in SUBSET A, T # {}, f[Rest(T)] \in GoodSp
               PROVE  LET r == f[Rest(T)]
                          l == First(T)
                      IN \E q \in Props : /\ q.cat = r.lp[l].cat
                                          /\ SameSpace(r.lp[l], s.lp[l]) => SameSpace(q, n[l])
                                          /\ f[T] = ChangeLp(r, l, q, 0) BY <1>5 DEF Changes
  <2> DEFINE r == f[Rest(T)]
             l == First(T)
  <2>1. l \in A /\ l \in LEBs BY RestIsSmaller
  <2>2. r.lp[l] \in Props /\ s.lp[l] \in Props BY <1>4, <2>1 DEF GoodSp, SpType
  <2> QED BY <1>1, <1>2, <1>5, <2>1, <2>2
<1> HIDE DEF n
<1> QED BY <1>5, <1>6, FoldChanges DEF n

\* Freeing LEBs of the index one after the other is a fold.
LEMMA FreeIdxFold ==
    ASSUME NEW s \in GoodSp, NEW A \in SUBSET LEBs,
           \A l \in A : \A r \in GoodSp : FreeIdxLeb(r, l) \in GoodSp
    PROVE  \E f : /\ ForAll(FreeIdxLeb, s, A) = f[A] /\ f[{}] = s
                  /\ \A T \in SUBSET A : T # {} => f[T] = FreeIdxLeb(f[Rest(T)], First(T))
<1> DEFINE F(f) == f = [T \in SUBSET A |-> IF T = {} THEN s
                          ELSE FreeIdxLeb(f[T \ {CHOOSE x \in T : TRUE}], CHOOSE x \in T : TRUE)]
           h == CHOOSE f : F(f)
           G == [p \in A \X GoodSp |-> FreeIdxLeb(p[2], p[1])]
<1>1. ForAll(FreeIdxLeb, s, A) = h[A] BY DEF ForAll, FoldSet, MapThenFoldSet
<1>2. IsFiniteSet(A) BY SizeAssumption, FS_Subset
<1>3. G \in [A \X GoodSp -> GoodSp] OBVIOUS
<1>4. PICK f : /\ Folded(f, s, G, A)
               /\ \A T \in SUBSET A : T # {} => First(T) \in A /\ f[Rest(T)] \in GoodSp
  <2> HIDE DEF G
  <2> QED BY <1>2, <1>3, FoldedType
<1>5. \A T \in SUBSET A : T # {} => G[<<First(T), f[Rest(T)]>>] = FreeIdxLeb(f[Rest(T)], First(T)) BY <1>4
<1>6. f = [T \in SUBSET A |-> IF T = {} THEN s ELSE FreeIdxLeb(f[Rest(T)], First(T))]
  <2> HIDE DEF G
  <2> QED BY <1>4, <1>5 DEF Folded
<1>7. F(h) BY <1>6 DEF First, Rest
<1>8. h = [T \in SUBSET A |-> IF T = {} THEN s ELSE FreeIdxLeb(h[Rest(T)], First(T))]
  <2> HIDE DEF h
  <2> QED BY <1>7 DEF First, Rest
<1> HIDE DEF h
<1> QED BY <1>1, <1>8

\* ubifs_gc_start_commit(), an index LEB with only dirt.
FreedIdx(p) == [p EXCEPT !.free = LebSize, !.dirty = 0, !.index = FALSE, !.taken = TRUE]

\* LEBs of the index that are freed.
LEMMA FreeIdxAll ==
    ASSUME NEW s, NEW e \in Int, NEW g \in Int, SpOk(s, e, g), NEW A \in SUBSET LEBs,
           \A l \in A : Term("size", FreedIdx(s.lp[l])) = Term("size", s.lp[l])
    PROVE  Changed(ForAll(FreeIdxLeb, s, A), s, e, g + 1 * Cardinality(A), A, [l \in A |-> FreedIdx(s.lp[l])])
<1> DEFINE n == [l \in A |-> FreedIdx(s.lp[l])]
<1>1. \A p \in Props : /\ FreedIdx(p) \in Props /\ FreedIdx(p).cat = p.cat
                       /\ \A q \in Props : SameSpace(p, q) => SameSpace(FreedIdx(p), FreedIdx(q))
  BY SizeAssumption DEF FreedIdx, Props, SameSpace
<1>2. \A l \in LEBs : \A r \in GoodSp : FreeIdxLeb(r, l) = ChangeLp(r, l, FreedIdx(r.lp[l]), 1)
  BY DEF FreeIdxLeb, FreedIdx
<1>3. \A l \in LEBs : \A r \in GoodSp : FreeIdxLeb(r, l) \in GoodSp
  <2> TAKE l \in LEBs
  <2> TAKE r \in GoodSp
  <2>1. FreedIdx(r.lp[l]) \in Props /\ FreedIdx(r.lp[l]).cat = r.lp[l].cat BY <1>1 DEF GoodSp, SpType
  <2> QED BY <1>2, <2>1, ChangeType
<1>4. s \in GoodSp BY DEF SpOk, GoodSp
<1>5. PICK f : /\ ForAll(FreeIdxLeb, s, A) = f[A] /\ f[{}] = s
               /\ \A T \in SUBSET A : T # {} => f[T] = FreeIdxLeb(f[Rest(T)], First(T))
  BY <1>3, <1>4, FreeIdxFold
<1>6. Changes(f, s, A, n, 1)
  <2> SUFFICES ASSUME NEW T \in SUBSET A, T # {}, f[Rest(T)] \in GoodSp
               PROVE  LET r == f[Rest(T)]
                          l == First(T)
                      IN \E q \in Props : /\ q.cat = r.lp[l].cat
                                          /\ SameSpace(r.lp[l], s.lp[l]) => SameSpace(q, n[l])
                                          /\ f[T] = ChangeLp(r, l, q, 1) BY <1>5 DEF Changes
  <2> DEFINE r == f[Rest(T)]
             l == First(T)
  <2>1. l \in A /\ l \in LEBs BY RestIsSmaller
  <2>2. r.lp[l] \in Props /\ s.lp[l] \in Props BY <1>4, <2>1 DEF GoodSp, SpType
  <2> QED BY <1>1, <1>2, <1>5, <2>1, <2>2
<1> HIDE DEF n
<1> QED BY <1>5, <1>6, FoldChanges DEF n

\* Giving back LEBs found for the index one after the other is a fold.
LEMMA UnusedFold ==
    ASSUME NEW s \in GoodSp, NEW A \in SUBSET LEBs,
           \A l \in A : \A r \in GoodSp : FreeUnused(r, l) \in GoodSp
    PROVE  \E f : /\ ForAll(FreeUnused, s, A) = f[A] /\ f[{}] = s
                  /\ \A T \in SUBSET A : T # {} => f[T] = FreeUnused(f[Rest(T)], First(T))
<1> DEFINE F(f) == f = [T \in SUBSET A |-> IF T = {} THEN s
                          ELSE FreeUnused(f[T \ {CHOOSE x \in T : TRUE}], CHOOSE x \in T : TRUE)]
           h == CHOOSE f : F(f)
           G == [p \in A \X GoodSp |-> FreeUnused(p[2], p[1])]
<1>1. ForAll(FreeUnused, s, A) = h[A] BY DEF ForAll, FoldSet, MapThenFoldSet
<1>2. IsFiniteSet(A) BY SizeAssumption, FS_Subset
<1>3. G \in [A \X GoodSp -> GoodSp] OBVIOUS
<1>4. PICK f : /\ Folded(f, s, G, A)
               /\ \A T \in SUBSET A : T # {} => First(T) \in A /\ f[Rest(T)] \in GoodSp
  <2> HIDE DEF G
  <2> QED BY <1>2, <1>3, FoldedType
<1>5. \A T \in SUBSET A : T # {} => G[<<First(T), f[Rest(T)]>>] = FreeUnused(f[Rest(T)], First(T)) BY <1>4
<1>6. f = [T \in SUBSET A |-> IF T = {} THEN s ELSE FreeUnused(f[Rest(T)], First(T))]
  <2> HIDE DEF G
  <2> QED BY <1>4, <1>5 DEF Folded
<1>7. F(h) BY <1>6 DEF First, Rest
<1>8. h = [T \in SUBSET A |-> IF T = {} THEN s ELSE FreeUnused(h[Rest(T)], First(T))]
  <2> HIDE DEF h
  <2> QED BY <1>7 DEF First, Rest
<1> HIDE DEF h
<1> QED BY <1>1, <1>8

\* free_unused_idx_lebs()
Unused(p) == [p EXCEPT !.taken = FALSE, !.index = FALSE]

\* LEBs that are given back.
LEMMA UnusedAll ==
    ASSUME NEW s, NEW e \in Int, NEW g \in Int, SpOk(s, e, g), NEW A \in SUBSET LEBs,
           \A l \in A : Term("size", Unused(s.lp[l])) = Term("size", s.lp[l])
    PROVE  Changed(ForAll(FreeUnused, s, A), s, e, g + 0 * Cardinality(A), A, [l \in A |-> Unused(s.lp[l])])
<1> DEFINE n == [l \in A |-> Unused(s.lp[l])]
<1>1. \A p \in Props : /\ Unused(p) \in Props /\ Unused(p).cat = p.cat
                       /\ \A q \in Props : SameSpace(p, q) => SameSpace(Unused(p), Unused(q))
  BY SizeAssumption DEF Unused, Props, SameSpace
<1>2. \A l \in LEBs : \A r \in GoodSp : FreeUnused(r, l) = ChangeLp(r, l, Unused(r.lp[l]), 0)
  BY DEF FreeUnused, Unused
<1>3. \A l \in LEBs : \A r \in GoodSp : FreeUnused(r, l) \in GoodSp
  <2> TAKE l \in LEBs
  <2> TAKE r \in GoodSp
  <2>1. Unused(r.lp[l]) \in Props /\ Unused(r.lp[l]).cat = r.lp[l].cat BY <1>1 DEF GoodSp, SpType
  <2> QED BY <1>2, <2>1, ChangeType
<1>4. s \in GoodSp BY DEF SpOk, GoodSp
<1>5. PICK f : /\ ForAll(FreeUnused, s, A) = f[A] /\ f[{}] = s
               /\ \A T \in SUBSET A : T # {} => f[T] = FreeUnused(f[Rest(T)], First(T))
  BY <1>3, <1>4, UnusedFold
<1>6. Changes(f, s, A, n, 0)
  <2> SUFFICES ASSUME NEW T \in SUBSET A, T # {}, f[Rest(T)] \in GoodSp
               PROVE  LET r == f[Rest(T)]
                          l == First(T)
                      IN \E q \in Props : /\ q.cat = r.lp[l].cat
                                          /\ SameSpace(r.lp[l], s.lp[l]) => SameSpace(q, n[l])
                                          /\ f[T] = ChangeLp(r, l, q, 0) BY <1>5 DEF Changes
  <2> DEFINE r == f[Rest(T)]
             l == First(T)
  <2>1. l \in A /\ l \in LEBs BY RestIsSmaller
  <2>2. r.lp[l] \in Props /\ s.lp[l] \in Props BY <1>4, <2>1 DEF GoodSp, SpType
  <2> QED BY <1>1, <1>2, <1>5, <2>1, <2>2
<1> HIDE DEF n
<1> QED BY <1>5, <1>6, FoldChanges DEF n

FoldPre(S, V, b, G) == IsFiniteSet(S) /\ b \in V /\ G \in [S \X V -> V]
FoldPost(S, V, b, G) ==
    \E f : /\ Folded(f, b, G, S)
           /\ \A s \in SUBSET S : s # {} => First(s) \in S /\ f[Rest(s)] \in V
\* FoldedType, with its premises in one.
LEMMA FoldTyped ==
    ASSUME NEW S, NEW V, NEW b, NEW G, FoldPre(S, V, b, G)
    PROVE  FoldPost(S, V, b, G)
<1>1. IsFiniteSet(S) /\ b \in V /\ G \in [S \X V -> V] BY DEF FoldPre
<1> QED BY <1>1, FoldedType DEF FoldPost

\* The write-buffers of heads, and the LEBs they are on.
HeadType == [Heads -> [leb : Maybe(LEBs), offs : Int, used : Nat, by : Maybe(Threads)]]
HeadOk(lp, h) ==
    /\ jh[h].leb = None => jh[h].used = 0
    /\ jh[h].leb # None => /\ ~lp[jh[h].leb].index
                           /\ lp[jh[h].leb].free = LebSize - jh[h].offs
                           /\ jh[h].offs + jh[h].used <= LebSize
HeadsOk(lp) ==
    /\ jh \in HeadType
    /\ \A h \in Heads : HeadOk(lp, h)
    /\ \A h, k \in Heads : jh[h].leb = jh[k].leb /\ jh[h].leb # None => h = k

\* What is on flash is accounted.
SyncPost(r, s, e, g, hs) ==
    /\ SpOk(r, e, g)
    /\ Total("size", r.lp) = Total("size", s.lp)
    /\ \A l \in LEBs : /\ r.lp[l].dirty = s.lp[l].dirty /\ r.lp[l].index = s.lp[l].index
                       /\ r.lp[l].taken = s.lp[l].taken
                       /\ (\A h \in hs : jh[h].leb # l) => r.lp[l].free = s.lp[l].free
    /\ \A h \in hs : jh[h].leb # None => r.lp[jh[h].leb].free = LebSize - jh[h].offs - jh[h].used

\* One more write-buffer is on flash.
LEMMA SyncOneIs ==
    ASSUME NEW s, NEW e \in Int, NEW g \in Int, SpOk(s, e, g), HeadsOk(s.lp), NEW hs \in SUBSET Heads,
           NEW h \in Heads \ hs, NEW r, SyncPost(r, s, e, g, hs)
    PROVE  SyncPost(SyncOne(r, h), s, e, g, hs \cup {h})
<1> DEFINE l == jh[h].leb
           n == [r.lp[l] EXCEPT !.free = LebSize - jh[h].offs - jh[h].used]
<1>1. /\ jh[h].used \in Nat /\ jh[h].offs \in Int /\ l \in Maybe(LEBs) /\ HeadOk(s.lp, h)
      /\ \A k \in hs : jh[k].leb = l => l = None BY DEF HeadsOk, HeadType
<1>2. LebSize \in Nat /\ None \notin LEBs BY SizeAssumption, SpaceAssumption
<1>3. CASE jh[h].used = 0
  <2>1. l # None => r.lp[l].free = LebSize - jh[h].offs - jh[h].used
    <3> HAVE l # None
    <3> QED BY <1>1, <1>2, <1>3 DEF HeadOk, SyncPost, Maybe
  <2> QED BY <1>3, <2>1 DEF SyncPost, SyncOne
<1>4. CASE jh[h].used # 0
  <2>1. l \in LEBs /\ l # None /\ ~s.lp[l].index /\ jh[h].offs + jh[h].used <= LebSize
        /\ \A k \in hs : jh[k].leb # l BY <1>1, <1>4 DEF HeadOk, Maybe
  <2>2. PICK z : z = SyncOne(r, h) OBVIOUS
  <2>3. r.lp[l] \in Props BY <2>1 DEF SyncPost, SpOk, SpType
  <2>4. n \in Props /\ n.cat = r.lp[l].cat /\ n.free = LebSize - jh[h].offs - jh[h].used
        /\ n.dirty = r.lp[l].dirty /\ n.index = r.lp[l].index /\ n.taken = r.lp[l].taken
    BY <1>1, <1>2, <2>1, <2>3 DEF Props
  <2>5. ChangePre(r, e, g, l, n, 0) BY <2>1, <2>4 DEF ChangePre, SyncPost
  <2>6. ChangePost(z, r, e, g, l, n, 0) BY <1>4, <2>2, <2>5, ChangeIs DEF SyncOne
  <2> HIDE DEF n
  <2>7. SpOk(z, e, g) BY <2>6 DEF ChangePost
  <2>8. Term("size", r.lp[l]) = 0 /\ Term("size", n) = 0 BY <2>1, <2>4 DEF Term, SyncPost
  <2>9. Total("size", r.lp) \in Int BY TotalType DEF SyncPost, SpOk, SpType, Terms
  <2>10. \A k \in LEBs : /\ z.lp[k].dirty = s.lp[k].dirty /\ z.lp[k].index = s.lp[k].index
                         /\ z.lp[k].taken = s.lp[k].taken
                         /\ (\A i \in hs \cup {h} : jh[i].leb # k) => z.lp[k].free = s.lp[k].free
    <3> TAKE k \in LEBs
    <3>1. CASE k = l BY <2>4, <2>6, <3>1 DEF ChangePost, SyncPost, SameSpace
    <3>2. CASE k # l BY <2>6, <3>2 DEF ChangePost, SyncPost, SameSpace
    <3> QED BY <3>1, <3>2
  <2>11. \A i \in hs \cup {h} : jh[i].leb # None => z.lp[jh[i].leb].free = LebSize - jh[i].offs - jh[i].used
    <3> TAKE i \in hs \cup {h}
    <3> HAVE jh[i].leb # None
    <3>1. CASE i = h BY <2>4, <2>6, <3>1 DEF ChangePost, SameSpace
    <3>2. CASE i # h BY <2>1, <2>6, <3>2 DEF ChangePost, SyncPost, SameSpace, HeadsOk, HeadType, Maybe
    <3> QED BY <3>1, <3>2
  <2> QED BY <2>2, <2>6, <2>7, <2>8, <2>9, <2>10, <2>11 DEF SyncPost, ChangePost
<1> QED BY <1>3, <1>4

\* ubifs_wbuf_sync_nolock(), of some heads.
LEMMA SyncedIs ==
    ASSUME NEW s, NEW e \in Int, NEW g \in Int, SpOk(s, e, g), HeadsOk(s.lp), NEW hs \in SUBSET Heads
    PROVE  SyncPost(Synced(s, hs), s, e, g, hs)
<1> DEFINE V == {r \in GoodSp : \E T \in SUBSET hs : SyncPost(r, s, e, g, T)}
           W == GoodSp
           F(f) == f = [T \in SUBSET hs |-> IF T = {} THEN s
                          ELSE SyncOne(f[T \ {CHOOSE x \in T : TRUE}], CHOOSE x \in T : TRUE)]
           h == CHOOSE f : F(f)
           G == [p \in hs \X W |-> SyncOne(p[2], p[1])]
<1>1. Synced(s, hs) = h[hs] BY DEF Synced, FoldSet, MapThenFoldSet
<1>2. IsFiniteSet(hs) BY SizeAssumption, FS_Subset
<1>3. \A i \in hs : \A r \in W : SyncOne(r, i) \in W
  <2> TAKE i \in hs
  <2> TAKE r \in W
  <2>1. CASE jh[i].used = 0 BY <2>1 DEF SyncOne
  <2>2. CASE jh[i].used # 0
    <3> DEFINE l == jh[i].leb
               n == [r.lp[l] EXCEPT !.free = LebSize - jh[i].offs - jh[i].used]
    <3>1. l \in LEBs /\ jh[i].offs + jh[i].used <= LebSize /\ jh[i].used \in Nat /\ jh[i].offs \in Int
      BY <2>2 DEF HeadsOk, HeadOk, HeadType, Maybe
    <3>2. n \in Props /\ n.cat = r.lp[l].cat BY <3>1, SizeAssumption DEF Props, GoodSp, SpType
    <3>3. ChangeLp(r, l, n, 0) \in GoodSp
      <4>1. PICK ll, nn : ll = l /\ nn = n OBVIOUS
      <4>2. 0 \in Int OBVIOUS
      <4> QED BY <3>1, <3>2, <4>1, <4>2, ChangeType
    <3> QED BY <2>2, <3>3 DEF SyncOne
  <2> QED BY <2>1, <2>2
<1>4. PICK f : /\ Folded(f, s, G, hs)
               /\ \A T \in SUBSET hs : T # {} => First(T) \in hs /\ f[Rest(T)] \in W
  <2>1. PICK w, a : w = W /\ a = G OBVIOUS
  <2>2. FoldPre(hs, w, s, a) BY <1>2, <1>3, <2>1 DEF FoldPre, SpOk, GoodSp
  <2> HIDE DEF G, W
  <2> QED BY <2>1, <2>2, FoldTyped DEF FoldPost
<1>5. \A T \in SUBSET hs : T # {} => G[<<First(T), f[Rest(T)]>>] = SyncOne(f[Rest(T)], First(T)) BY <1>4
<1>6. f = [T \in SUBSET hs |-> IF T = {} THEN s ELSE SyncOne(f[Rest(T)], First(T))]
  <2> HIDE DEF G
  <2> QED BY <1>4, <1>5 DEF Folded
<1>7. F(h) BY <1>6 DEF First, Rest
<1>8. h = [T \in SUBSET hs |-> IF T = {} THEN s ELSE SyncOne(h[Rest(T)], First(T))]
  <2> HIDE DEF h
  <2> QED BY <1>7 DEF First, Rest
<1> HIDE DEF h
<1> DEFINE Q == {p \in (SUBSET hs) \X {h[T] : T \in SUBSET hs} : SyncPost(p[2], s, e, g, p[1])}
<1>9. <<{}, h[{}]>> \in Q BY <1>8 DEF SyncPost
<1>10. ASSUME NEW T \in SUBSET hs, T # {}, <<Rest(T), h[Rest(T)]>> \in Q
       PROVE  <<T, h[T]>> \in Q
  <2>1. PICK i, B, r : i = First(T) /\ B = Rest(T) /\ r = h[Rest(T)] OBVIOUS
  <2>2. i \in T /\ B \subseteq T /\ T = B \cup {i} /\ i \notin B BY <1>10, <2>1, RestIsSmaller DEF Rest
  <2>3. SyncPost(SyncOne(r, i), s, e, g, B \cup {i}) BY <1>10, <2>1, <2>2, SyncOneIs
  <2> QED BY <1>8, <1>10, <2>1, <2>2, <2>3
<1>11. <<hs, h[hs]>> \in Q
  <2> HIDE DEF Q
  <2> QED BY <1>2, <1>9, <1>10, FoldInduct
<1> QED BY <1>1, <1>11

\* The categories a mount gives to LEBs.
LEMMA FirstCategories ==
    ASSUME NEW b \in [LEBs -> NewProps], \A l \in LEBs : b[l].cat = "none"
    PROVE  LET r == FoldSet(LAMBDA l, q : ChangeCategory(q, l), b, LEBs)
           IN /\ r \in [LEBs -> Props]
              /\ \A l \in LEBs : SameSpace(r[l], b[l]) /\ InCategory(r[l])
<1> DEFINE P(T, r) == /\ \A l \in LEBs : SameSpace(r[l], b[l])
                      /\ \A l \in T : r[l] \in Props /\ InCategory(r[l])
                      /\ \A l \in LEBs \ T : r[l].cat = "none"
           W == {r \in [LEBs -> NewProps] : \A l \in LEBs : InCategory(r[l]) \/ r[l].cat = "none"}
           F(f) == f = [T \in SUBSET LEBs |-> IF T = {} THEN b
                          ELSE ChangeCategory(f[T \ {CHOOSE x \in T : TRUE}], CHOOSE x \in T : TRUE)]
           h == CHOOSE f : F(f)
           G == [p \in LEBs \X W |-> ChangeCategory(p[2], p[1])]
           res == FoldSet(LAMBDA l, q : ChangeCategory(q, l), b, LEBs)
<1>1. res = h[LEBs] BY DEF FoldSet, MapThenFoldSet
<1>2. IsFiniteSet(LEBs) BY SizeAssumption
<1>3. \A i \in LEBs : \A r \in W : ChangeCategory(r, i) \in W
  <2> TAKE i \in LEBs
  <2> TAKE r \in W
  <2>1. PICK z : z = ChangeCategory(r, i) OBVIOUS
  <2> QED BY <2>1, CategoryNew DEF Recategorized, OnHeap
<1>4. PICK f : /\ Folded(f, b, G, LEBs)
               /\ \A T \in SUBSET LEBs : T # {} => First(T) \in LEBs /\ f[Rest(T)] \in W
  <2>1. PICK w, a : w = W /\ a = G OBVIOUS
  <2>2. FoldPre(LEBs, w, b, a) BY <1>2, <1>3, <2>1 DEF FoldPre
  <2> HIDE DEF G, W
  <2> QED BY <2>1, <2>2, FoldTyped DEF FoldPost
<1>5. \A T \in SUBSET LEBs : T # {} => G[<<First(T), f[Rest(T)]>>] = ChangeCategory(f[Rest(T)], First(T))
  BY <1>4
<1>6. f = [T \in SUBSET LEBs |-> IF T = {} THEN b ELSE ChangeCategory(f[Rest(T)], First(T))]
  <2> HIDE DEF G
  <2> QED BY <1>4, <1>5 DEF Folded
<1>7. F(h) BY <1>6 DEF First, Rest
<1>8. h = [T \in SUBSET LEBs |-> IF T = {} THEN b ELSE ChangeCategory(h[Rest(T)], First(T))]
  <2> HIDE DEF h
  <2> QED BY <1>7 DEF First, Rest
<1> HIDE DEF h, res
<1> DEFINE Q == {p \in (SUBSET LEBs) \X [LEBs -> NewProps] : P(p[1], p[2])}
<1>9. <<{}, h[{}]>> \in Q BY <1>8 DEF SameSpace
<1>10. ASSUME NEW T \in SUBSET LEBs, T # {}, <<Rest(T), h[Rest(T)]>> \in Q
       PROVE  <<T, h[T]>> \in Q
  <2>1. PICK i, B, r : i = First(T) /\ B = Rest(T) /\ r = h[Rest(T)] OBVIOUS
  <2>2. i \in LEBs /\ i \in T /\ B \subseteq T /\ T = B \cup {i} /\ i \notin B
    BY <1>10, <2>1, RestIsSmaller DEF Rest
  <2>3. P(B, r) /\ r \in [LEBs -> NewProps] BY <1>10, <2>1
  <2>4. PICK z : z = ChangeCategory(r, i) OBVIOUS
  <2>5. Recategorized(z, r, i) BY <2>2, <2>3, <2>4, CategoryNew
  <2>6. \A l \in T : z[l] \in Props /\ InCategory(z[l])
    <3> TAKE l \in T
    <3>1. CASE l = i BY <2>5, <3>1 DEF Recategorized
    <3>2. CASE l # i
      <4>1. l \in B /\ l \in LEBs \ {i} BY <2>2, <3>2
      <4>2. InCategory(r[l]) /\ r[l] \in Props BY <2>3, <4>1
      <4>3. z[l].cat # "none" BY <2>5, <4>1, <4>2 DEF Recategorized, Props, Cats
      <4> QED BY <2>5, <4>1, <4>2, <4>3, NewFacts DEF Recategorized
    <3> QED BY <3>1, <3>2
  <2>7. z \in [LEBs -> NewProps] BY <2>5 DEF Recategorized
  <2>8. P(T, z) BY <2>2, <2>3, <2>5, <2>6 DEF Recategorized, SameSpace, OnHeap
  <2> QED BY <1>8, <1>10, <2>1, <2>4, <2>7, <2>8
<1>11. <<LEBs, h[LEBs]>> \in Q
  <2> HIDE DEF Q
  <2> QED BY <1>2, <1>9, <1>10, FoldInduct
<1> QED BY <1>1, <1>11 DEF res

(***************************************************************************)
(* Who has taken a LEB.                                                    *)
(***************************************************************************)
HeadLebs == {jh[h].leb : h \in Heads}
GcLebs == {g.lnum : g \in idx_gc}

Spots == ({"head"} \X Heads) \cup ({"thread"} \X Threads)
         \cup ({"reserved", "ihead", "garbage", "erase", "bud", "old", "layout", "written", "nobody"} \X {0})
Nobody == <<"nobody", 0>>

PlaceType == [head : [Heads -> Maybe(LEBs)], thread : [Threads -> Maybe(LEBs)],
              reserved : Maybe(LEBs), ihead : LEBs, garbage : Maybe(LEBs),
              erase : SUBSET LEBs, bud : SUBSET LEBs, old : SUBSET LEBs,
              layout : SUBSET LEBs, written : SUBSET LEBs, taken : SUBSET LEBs]

\* What is at each place.
Places == [head |-> [h \in Heads |-> jh[h].leb], thread |-> [t \in Threads |-> th[t].leb],
           reserved |-> gc_lnum, ihead |-> cmt.ihead, garbage |-> gc.leb,
           erase |-> GcLebs, bud |-> buds \ HeadLebs, old |-> old_buds,
           layout |-> cmt.ilebs, written |-> cmt.gaps \cup cmt.full,
           taken |-> {l \in LEBs : sp.lp[l].taken}]

\* f is where each LEB is.
Where(f, o) ==
    \A l \in LEBs :
        /\ \A h \in Heads : f[l] = <<"head", h>> <=> o.head[h] = l
        /\ \A t \in Threads : f[l] = <<"thread", t>> <=> o.thread[t] = l
        /\ f[l] = <<"reserved", 0>> <=> o.reserved = l
        /\ f[l] = <<"ihead", 0>> <=> o.ihead = l
        /\ f[l] = <<"garbage", 0>> <=> o.garbage = l
        /\ f[l] = <<"erase", 0>> <=> l \in o.erase
        /\ f[l] = <<"bud", 0>> <=> l \in o.bud
        /\ f[l] = <<"old", 0>> <=> l \in o.old
        /\ f[l] = <<"layout", 0>> <=> l \in o.layout
        /\ f[l] = <<"written", 0>> <=> l \in o.written
        /\ f[l] = Nobody <=> l \notin o.taken
OwnOk(f, o) == o \in PlaceType /\ f \in [LEBs -> Spots] /\ Where(f, o)

OwnTyped(f, o) ==
    /\ f \in [LEBs -> Spots] /\ o.thread \in [Threads -> Maybe(LEBs)] /\ o.head \in [Heads -> Maybe(LEBs)]

\* LEBs that are somewhere else.
ToHead(f, h, l, b) ==
    [k \in LEBs |-> IF k = l THEN <<"head", h>> ELSE IF k = b THEN <<"bud", 0>> ELSE f[k]]
ToIndexHead(f, l, b) ==
    [k \in LEBs |-> IF k = l THEN <<"ihead", 0>> ELSE IF k = b THEN <<"written", 0>> ELSE f[k]]
Moved(f, A, o) == [k \in LEBs |-> IF k \in A THEN o ELSE f[k]]

\* A thread finds a LEB.
LEMMA ThreadTakes ==
    ASSUME NEW f, NEW o, OwnOk(f, o), NEW t \in Threads, o.thread[t] = None, NEW l \in LEBs, l \notin o.taken
    PROVE  OwnOk([f EXCEPT ![l] = <<"thread", t>>],
                 [o EXCEPT !.thread = [@ EXCEPT ![t] = l], !.taken = @ \cup {l}])
<1> DEFINE g == [f EXCEPT ![l] = <<"thread", t>>]
           q == [o EXCEPT !.thread = [@ EXCEPT ![t] = l], !.taken = @ \cup {l}]
<1>0. None \notin LEBs /\ None \notin Threads BY SpaceAssumption
<1>1. q \in PlaceType BY <1>0 DEF PlaceType, Maybe, OwnOk
<1>2. /\ q.thread = [o.thread EXCEPT ![t] = l] /\ q.taken = o.taken \cup {l}
      /\ q.head = o.head /\ q.reserved = o.reserved /\ q.ihead = o.ihead /\ q.garbage = o.garbage
      /\ q.erase = o.erase /\ q.bud = o.bud /\ q.old = o.old /\ q.layout = o.layout /\ q.written = o.written
  BY DEF OwnOk, PlaceType
<1>3. OwnTyped(f, o) BY DEF OwnOk, PlaceType, OwnTyped
<1> HIDE DEF q
<1>4. Where(g, q) BY <1>0, <1>2, <1>3 DEF OwnOk, OwnTyped, Where, Nobody, Maybe, PlaceType
<1> QED BY <1>1, <1>3, <1>4 DEF OwnOk, q, OwnTyped, Spots, Nobody

\* A thread returns its LEB.
LEMMA ThreadReturns ==
    ASSUME NEW f, NEW o, OwnOk(f, o), NEW t \in Threads, NEW l \in LEBs, o.thread[t] = l
    PROVE  OwnOk([f EXCEPT ![l] = Nobody],
                 [o EXCEPT !.thread = [@ EXCEPT ![t] = None], !.taken = @ \ {l}])
<1> DEFINE g == [f EXCEPT ![l] = Nobody]
           q == [o EXCEPT !.thread = [@ EXCEPT ![t] = None], !.taken = @ \ {l}]
<1>0. None \notin LEBs /\ None \notin Threads BY SpaceAssumption
<1>1. q \in PlaceType BY <1>0 DEF PlaceType, Maybe, OwnOk
<1> HIDE DEF q
<1> QED BY <1>0, <1>1 DEF OwnOk, q, OwnTyped, Spots, Nobody, Where, Maybe, PlaceType

\* A head goes on in the LEB of a thread; the one it leaves stays a bud.
LEMMA ThreadToHead ==
    ASSUME NEW f, NEW o, OwnOk(f, o), NEW t \in Threads, NEW l \in LEBs, o.thread[t] = l, NEW h \in Heads
    PROVE  OwnOk(ToHead(f, h, l, o.head[h]),
                 [o EXCEPT !.thread = [@ EXCEPT ![t] = None], !.head = [@ EXCEPT ![h] = l], !.bud = @ \cup ({o.head[h]} \ {None})])
<1> DEFINE g == [k \in LEBs |-> IF k = l THEN <<"head", h>> ELSE IF k = o.head[h] THEN <<"bud", 0>> ELSE f[k]]
           q == [o EXCEPT !.thread = [@ EXCEPT ![t] = None], !.head = [@ EXCEPT ![h] = l], !.bud = @ \cup ({o.head[h]} \ {None})]
<1>0. None \notin LEBs /\ None \notin Threads BY SpaceAssumption
<1>1. q \in PlaceType BY <1>0 DEF PlaceType, Maybe, OwnOk
<1> HIDE DEF q
<1>2. OwnOk(g, q) BY <1>0, <1>1 DEF OwnOk, q, OwnTyped, Spots, Nobody, Where, Maybe, PlaceType
<1>3. ToHead(f, h, l, o.head[h]) = g BY DEF ToHead
<1> HIDE DEF g
<1> QED BY <1>2, <1>3 DEF q

\* The head of the collector goes on in the reserved LEB.
LEMMA ReservedToHead ==
    ASSUME NEW f, NEW o, OwnOk(f, o), NEW l \in LEBs, o.reserved = l, NEW h \in Heads
    PROVE  OwnOk(ToHead(f, h, l, o.head[h]),
                 [o EXCEPT !.reserved = None, !.head = [@ EXCEPT ![h] = l], !.bud = @ \cup ({o.head[h]} \ {None})])
<1> DEFINE g == [k \in LEBs |-> IF k = l THEN <<"head", h>> ELSE IF k = o.head[h] THEN <<"bud", 0>> ELSE f[k]]
           q == [o EXCEPT !.reserved = None, !.head = [@ EXCEPT ![h] = l], !.bud = @ \cup ({o.head[h]} \ {None})]
<1>0. None \notin LEBs /\ None \notin Threads BY SpaceAssumption
<1>1. q \in PlaceType BY <1>0 DEF PlaceType, Maybe, OwnOk
<1>2. /\ q.head = [o.head EXCEPT ![h] = l] /\ q.reserved = None /\ q.bud = o.bud \cup ({o.head[h]} \ {None})
      /\ q.thread = o.thread /\ q.ihead = o.ihead /\ q.garbage = o.garbage /\ q.erase = o.erase /\ q.old = o.old
      /\ q.layout = o.layout /\ q.written = o.written /\ q.taken = o.taken BY DEF OwnOk, PlaceType
<1>3. OwnTyped(f, o) BY DEF OwnOk, PlaceType, OwnTyped
<1> HIDE DEF q
<1>4. Where(g, q) BY <1>0, <1>2, <1>3 DEF OwnOk, OwnTyped, Where, Nobody, Maybe, PlaceType
<1>5. OwnOk(g, q) BY <1>1, <1>3, <1>4 DEF OwnOk, q, OwnTyped, Spots, Nobody
<1>6. ToHead(f, h, l, o.head[h]) = g BY DEF ToHead
<1> HIDE DEF g
<1> QED BY <1>5, <1>6 DEF q

\* The collector picks a LEB.
LEMMA GarbageTakes ==
    ASSUME NEW f, NEW o, OwnOk(f, o), NEW l \in LEBs, o.garbage = None, l \notin o.taken
    PROVE  OwnOk([f EXCEPT ![l] = <<"garbage", 0>>],
                 [o EXCEPT !.garbage = l, !.taken = @ \cup {l}])
<1> DEFINE g == [f EXCEPT ![l] = <<"garbage", 0>>]
           q == [o EXCEPT !.garbage = l, !.taken = @ \cup {l}]
<1>0. None \notin LEBs /\ None \notin Threads BY SpaceAssumption
<1>1. q \in PlaceType BY <1>0 DEF PlaceType, Maybe, OwnOk
<1>2. /\ q.garbage = l /\ q.taken = o.taken \cup {l}
      /\ q.head = o.head /\ q.thread = o.thread /\ q.reserved = o.reserved /\ q.ihead = o.ihead
      /\ q.erase = o.erase /\ q.bud = o.bud /\ q.old = o.old /\ q.layout = o.layout /\ q.written = o.written
  BY DEF OwnOk, PlaceType
<1>3. OwnTyped(f, o) BY DEF OwnOk, PlaceType, OwnTyped
<1> HIDE DEF q
<1>4. Where(g, q) BY <1>0, <1>2, <1>3 DEF OwnOk, OwnTyped, Where, Nobody, Maybe, PlaceType
<1> QED BY <1>1, <1>3, <1>4 DEF OwnOk, q, OwnTyped, Spots, Nobody

\* The LEB of the collector is to be erased after the commit.
LEMMA GarbageToErase ==
    ASSUME NEW f, NEW o, OwnOk(f, o), NEW l \in LEBs, o.garbage = l
    PROVE  OwnOk([f EXCEPT ![l] = <<"erase", 0>>],
                 [o EXCEPT !.garbage = None, !.erase = @ \cup {l}])
<1> DEFINE g == [f EXCEPT ![l] = <<"erase", 0>>]
           q == [o EXCEPT !.garbage = None, !.erase = @ \cup {l}]
<1>0. None \notin LEBs /\ None \notin Threads BY SpaceAssumption
<1>1. q \in PlaceType BY <1>0 DEF PlaceType, Maybe, OwnOk
<1>2. /\ q.garbage = None /\ q.erase = o.erase \cup {l}
      /\ q.head = o.head /\ q.thread = o.thread /\ q.reserved = o.reserved /\ q.ihead = o.ihead /\ q.bud = o.bud
      /\ q.old = o.old /\ q.layout = o.layout /\ q.written = o.written /\ q.taken = o.taken
  BY DEF OwnOk, PlaceType
<1>3. OwnTyped(f, o) BY DEF OwnOk, PlaceType, OwnTyped
<1> HIDE DEF q
<1>4. Where(g, q) BY <1>0, <1>2, <1>3 DEF OwnOk, OwnTyped, Where, Nobody, Maybe, PlaceType
<1> QED BY <1>1, <1>3, <1>4 DEF OwnOk, q, OwnTyped, Spots, Nobody

\* The collector returns its LEB.
LEMMA GarbageReturns ==
    ASSUME NEW f, NEW o, OwnOk(f, o), NEW l \in LEBs, o.garbage = l
    PROVE  OwnOk([f EXCEPT ![l] = Nobody],
                 [o EXCEPT !.garbage = None, !.taken = @ \ {l}])
<1> DEFINE g == [f EXCEPT ![l] = Nobody]
           q == [o EXCEPT !.garbage = None, !.taken = @ \ {l}]
<1>0. None \notin LEBs /\ None \notin Threads BY SpaceAssumption
<1>1. q \in PlaceType BY <1>0 DEF PlaceType, Maybe, OwnOk
<1>2. /\ q.garbage = None /\ q.taken = o.taken \ {l}
      /\ q.head = o.head /\ q.thread = o.thread /\ q.reserved = o.reserved /\ q.ihead = o.ihead
      /\ q.erase = o.erase /\ q.bud = o.bud /\ q.old = o.old /\ q.layout = o.layout /\ q.written = o.written
  BY DEF OwnOk, PlaceType
<1>3. OwnTyped(f, o) BY DEF OwnOk, PlaceType, OwnTyped
<1> HIDE DEF q
<1>4. Where(g, q) BY <1>0, <1>2, <1>3 DEF OwnOk, OwnTyped, Where, Nobody, Maybe, PlaceType
<1> QED BY <1>1, <1>3, <1>4 DEF OwnOk, q, OwnTyped, Spots, Nobody

\* The LEB of the collector is the next reserved one.
LEMMA GarbageToReserved ==
    ASSUME NEW f, NEW o, OwnOk(f, o), NEW l \in LEBs, o.garbage = l, o.reserved = None
    PROVE  OwnOk([f EXCEPT ![l] = <<"reserved", 0>>],
                 [o EXCEPT !.garbage = None, !.reserved = l])
<1> DEFINE g == [f EXCEPT ![l] = <<"reserved", 0>>]
           q == [o EXCEPT !.garbage = None, !.reserved = l]
<1>0. None \notin LEBs /\ None \notin Threads BY SpaceAssumption
<1>1. q \in PlaceType BY <1>0 DEF PlaceType, Maybe, OwnOk
<1> HIDE DEF q
<1> QED BY <1>0, <1>1 DEF OwnOk, q, OwnTyped, Spots, Nobody, Where, Maybe, PlaceType

\* The LEB of the collector is given to a thread.
LEMMA GarbageToThread ==
    ASSUME NEW f, NEW o, OwnOk(f, o), NEW l \in LEBs, o.garbage = l, NEW t \in Threads, o.thread[t] = None
    PROVE  OwnOk([f EXCEPT ![l] = <<"thread", t>>],
                 [o EXCEPT !.garbage = None, !.thread = [@ EXCEPT ![t] = l]])
<1> DEFINE g == [f EXCEPT ![l] = <<"thread", t>>]
           q == [o EXCEPT !.garbage = None, !.thread = [@ EXCEPT ![t] = l]]
<1>0. None \notin LEBs /\ None \notin Threads BY SpaceAssumption
<1>1. q \in PlaceType BY <1>0 DEF PlaceType, Maybe, OwnOk
<1>2. /\ q.thread = [o.thread EXCEPT ![t] = l] /\ q.garbage = None
      /\ q.head = o.head /\ q.reserved = o.reserved /\ q.ihead = o.ihead /\ q.erase = o.erase /\ q.bud = o.bud
      /\ q.old = o.old /\ q.layout = o.layout /\ q.written = o.written /\ q.taken = o.taken
  BY DEF OwnOk, PlaceType
<1>3. OwnTyped(f, o) BY DEF OwnOk, PlaceType, OwnTyped
<1> HIDE DEF q
<1>4. Where(g, q) BY <1>0, <1>2, <1>3 DEF OwnOk, OwnTyped, Where, Nobody, Maybe, PlaceType
<1> QED BY <1>1, <1>3, <1>4 DEF OwnOk, q, OwnTyped, Spots, Nobody

\* LEBs of the index are to be erased after the commit.
LEMMA EraseTakes ==
    ASSUME NEW f, NEW o, OwnOk(f, o), NEW A \in SUBSET LEBs, A \cap o.taken = {}
    PROVE  OwnOk(Moved(f, A, <<"erase", 0>>),
                 [o EXCEPT !.erase = @ \cup A, !.taken = @ \cup A])
<1> DEFINE g == [k \in LEBs |-> IF k \in A THEN <<"erase", 0>> ELSE f[k]]
           q == [o EXCEPT !.erase = @ \cup A, !.taken = @ \cup A]
<1>0. None \notin LEBs /\ None \notin Threads BY SpaceAssumption
<1>1. q \in PlaceType BY <1>0 DEF PlaceType, Maybe, OwnOk
<1> HIDE DEF q
<1>2. OwnOk(g, q) BY <1>0, <1>1 DEF OwnOk, q, OwnTyped, Spots, Nobody, Where, Maybe, PlaceType
<1>3. Moved(f, A, <<"erase", 0>>) = g BY DEF Moved
<1> HIDE DEF g
<1> QED BY <1>2, <1>3 DEF q

\* The buds are to be returned after the commit.
LEMMA BudsToOld ==
    ASSUME NEW f, NEW o, OwnOk(f, o), o.old = {}
    PROVE  OwnOk(Moved(f, o.bud, <<"old", 0>>),
                 [o EXCEPT !.bud = {}, !.old = o.bud])
<1> DEFINE g == [k \in LEBs |-> IF k \in o.bud THEN <<"old", 0>> ELSE f[k]]
           q == [o EXCEPT !.bud = {}, !.old = o.bud]
<1>0. None \notin LEBs /\ None \notin Threads BY SpaceAssumption
<1>1. q \in PlaceType BY <1>0 DEF PlaceType, Maybe, OwnOk
<1> HIDE DEF q
<1>2. OwnOk(g, q) BY <1>0, <1>1 DEF OwnOk, q, OwnTyped, Spots, Nobody, Where, Maybe, PlaceType
<1>3. Moved(f, o.bud, <<"old", 0>>) = g BY DEF Moved
<1> HIDE DEF g
<1> QED BY <1>2, <1>3 DEF q

\* A LEB is found for the index.
LEMMA LayoutTakes ==
    ASSUME NEW f, NEW o, OwnOk(f, o), NEW l \in LEBs, l \notin o.taken
    PROVE  OwnOk([f EXCEPT ![l] = <<"layout", 0>>],
                 [o EXCEPT !.layout = @ \cup {l}, !.taken = @ \cup {l}])
<1> DEFINE g == [f EXCEPT ![l] = <<"layout", 0>>]
           q == [o EXCEPT !.layout = @ \cup {l}, !.taken = @ \cup {l}]
<1>0. None \notin LEBs /\ None \notin Threads BY SpaceAssumption
<1>1. q \in PlaceType BY <1>0 DEF PlaceType, Maybe, OwnOk
<1>2. OwnTyped(f, o) BY DEF OwnOk, PlaceType, OwnTyped
<1>3. /\ q.layout = o.layout \cup {l} /\ q.taken = o.taken \cup {l}
      /\ q.head = o.head /\ q.thread = o.thread /\ q.reserved = o.reserved /\ q.ihead = o.ihead
      /\ q.garbage = o.garbage /\ q.erase = o.erase /\ q.bud = o.bud /\ q.old = o.old /\ q.written = o.written
  BY DEF OwnOk, PlaceType
<1> HIDE DEF q
<1>4. Where(g, q) BY <1>0, <1>2, <1>3 DEF OwnOk, OwnTyped, Where, Nobody
<1>5. g \in [LEBs -> Spots] BY <1>2 DEF OwnTyped, Spots, Nobody
<1> QED BY <1>1, <1>4, <1>5 DEF OwnOk, q

\* A LEB of the index is filled up.
LEMMA WrittenTakes ==
    ASSUME NEW f, NEW o, OwnOk(f, o), NEW l \in LEBs, l \notin o.taken
    PROVE  OwnOk([f EXCEPT ![l] = <<"written", 0>>],
                 [o EXCEPT !.written = @ \cup {l}, !.taken = @ \cup {l}])
<1> DEFINE g == [f EXCEPT ![l] = <<"written", 0>>]
           q == [o EXCEPT !.written = @ \cup {l}, !.taken = @ \cup {l}]
<1>0. None \notin LEBs /\ None \notin Threads BY SpaceAssumption
<1>1. q \in PlaceType BY <1>0 DEF PlaceType, Maybe, OwnOk
<1>2. OwnTyped(f, o) BY DEF OwnOk, PlaceType, OwnTyped
<1>3. /\ q.written = o.written \cup {l} /\ q.taken = o.taken \cup {l}
      /\ q.head = o.head /\ q.thread = o.thread /\ q.reserved = o.reserved /\ q.ihead = o.ihead
      /\ q.garbage = o.garbage /\ q.erase = o.erase /\ q.bud = o.bud /\ q.old = o.old /\ q.layout = o.layout
  BY DEF OwnOk, PlaceType
<1> HIDE DEF q
<1>4. Where(g, q) BY <1>0, <1>2, <1>3 DEF OwnOk, OwnTyped, Where, Nobody
<1>5. g \in [LEBs -> Spots] BY <1>2 DEF OwnTyped, Spots, Nobody
<1> QED BY <1>1, <1>4, <1>5 DEF OwnOk, q

\* A LEB to be erased is used for the index after all.
LEMMA EraseToWritten ==
    ASSUME NEW f, NEW o, OwnOk(f, o), NEW l \in LEBs, l \in o.erase
    PROVE  OwnOk([f EXCEPT ![l] = <<"written", 0>>],
                 [o EXCEPT !.written = @ \cup {l}, !.erase = @ \ {l}])
<1> DEFINE g == [f EXCEPT ![l] = <<"written", 0>>]
           q == [o EXCEPT !.written = @ \cup {l}, !.erase = @ \ {l}]
<1>0. None \notin LEBs /\ None \notin Threads BY SpaceAssumption
<1>1. q \in PlaceType BY <1>0 DEF PlaceType, Maybe, OwnOk
<1>2. OwnTyped(f, o) BY DEF OwnOk, PlaceType, OwnTyped
<1>3. f[l] = <<"erase", 0>> BY <1>0, <1>2 DEF OwnOk, Where, OwnTyped, Maybe, Nobody, PlaceType
<1> HIDE DEF q
<1>4. Where(g, q)
  <2>1. /\ q.erase = o.erase \ {l} /\ q.written = o.written \cup {l}
        /\ q.old = o.old /\ q.taken = o.taken
        /\ q.head = o.head /\ q.thread = o.thread /\ q.reserved = o.reserved /\ q.ihead = o.ihead
        /\ q.garbage = o.garbage /\ q.bud = o.bud /\ q.layout = o.layout BY DEF q, OwnOk, PlaceType
  <2> QED BY <1>0, <1>2, <1>3, <2>1 DEF OwnOk, OwnTyped, Where, Nobody
<1>5. g \in [LEBs -> Spots] BY <1>2 DEF OwnTyped, Spots, Nobody
<1> QED BY <1>1, <1>4, <1>5 DEF OwnOk, q

\* The head of the index goes on in the next LEB found for it.
LEMMA LayoutToHead ==
    ASSUME NEW f, NEW o, OwnOk(f, o), NEW l \in LEBs, l \in o.layout
    PROVE  OwnOk(ToIndexHead(f, l, o.ihead),
                 [o EXCEPT !.layout = @ \ {l}, !.ihead = l, !.written = @ \cup {o.ihead}])
<1> DEFINE g == [k \in LEBs |-> IF k = l THEN <<"ihead", 0>> ELSE IF k = o.ihead THEN <<"written", 0>> ELSE f[k]]
           q == [o EXCEPT !.layout = @ \ {l}, !.ihead = l, !.written = @ \cup {o.ihead}]
<1>0. None \notin LEBs /\ None \notin Threads BY SpaceAssumption
<1>1. q \in PlaceType BY <1>0 DEF PlaceType, Maybe, OwnOk
<1> HIDE DEF q
<1>2. OwnOk(g, q) BY <1>0, <1>1 DEF OwnOk, q, OwnTyped, Spots, Nobody, Where, Maybe, PlaceType
<1>3. ToIndexHead(f, l, o.ihead) = g BY DEF ToIndexHead
<1> HIDE DEF g
<1> QED BY <1>2, <1>3 DEF q

\* LEBs not used for the index are returned.
LEMMA LayoutReturns ==
    ASSUME NEW f, NEW o, OwnOk(f, o)
    PROVE  OwnOk(Moved(f, o.layout, Nobody),
                 [o EXCEPT !.layout = {}, !.taken = @ \ o.layout])
<1> DEFINE g == [k \in LEBs |-> IF k \in o.layout THEN Nobody ELSE f[k]]
           q == [o EXCEPT !.layout = {}, !.taken = @ \ o.layout]
<1>0. None \notin LEBs /\ None \notin Threads BY SpaceAssumption
<1>1. q \in PlaceType BY <1>0 DEF PlaceType, Maybe, OwnOk
<1> HIDE DEF q
<1>2. OwnOk(g, q) BY <1>0, <1>1 DEF OwnOk, q, OwnTyped, Spots, Nobody, Where, Maybe, PlaceType
<1>3. Moved(f, o.layout, Nobody) = g BY DEF Moved
<1> HIDE DEF g
<1> QED BY <1>2, <1>3 DEF q

\* LEBs written for the index are returned.
LEMMA WrittenReturns ==
    ASSUME NEW f, NEW o, OwnOk(f, o)
    PROVE  OwnOk(Moved(f, o.written, Nobody),
                 [o EXCEPT !.written = {}, !.taken = @ \ o.written])
<1> DEFINE g == [k \in LEBs |-> IF k \in o.written THEN Nobody ELSE f[k]]
           q == [o EXCEPT !.written = {}, !.taken = @ \ o.written]
<1>0. None \notin LEBs /\ None \notin Threads BY SpaceAssumption
<1>1. q \in PlaceType BY <1>0 DEF PlaceType, Maybe, OwnOk
<1> HIDE DEF q
<1>2. OwnOk(g, q) BY <1>0, <1>1 DEF OwnOk, q, OwnTyped, Spots, Nobody, Where, Maybe, PlaceType
<1>3. Moved(f, o.written, Nobody) = g BY DEF Moved
<1> HIDE DEF g
<1> QED BY <1>2, <1>3 DEF q

\* A bud is returned.
LEMMA OldReturns ==
    ASSUME NEW f, NEW o, OwnOk(f, o), NEW l \in LEBs, l \in o.old
    PROVE  OwnOk([f EXCEPT ![l] = Nobody],
                 [o EXCEPT !.old = @ \ {l}, !.taken = @ \ {l}])
<1> DEFINE g == [f EXCEPT ![l] = Nobody]
           q == [o EXCEPT !.old = @ \ {l}, !.taken = @ \ {l}]
<1>0. None \notin LEBs /\ None \notin Threads BY SpaceAssumption
<1>1. q \in PlaceType BY <1>0 DEF PlaceType, Maybe, OwnOk
<1>2. OwnTyped(f, o) BY DEF OwnOk, PlaceType, OwnTyped
<1>3. f[l] = <<"old", 0>> BY <1>0, <1>2 DEF OwnOk, Where, OwnTyped, Maybe, Nobody, PlaceType
<1> HIDE DEF q
<1>4. Where(g, q)
  <2>1. /\ q.old = o.old \ {l} /\ q.taken = o.taken \ {l}
        /\ q.erase = o.erase /\ q.written = o.written
        /\ q.head = o.head /\ q.thread = o.thread /\ q.reserved = o.reserved /\ q.ihead = o.ihead
        /\ q.garbage = o.garbage /\ q.bud = o.bud /\ q.layout = o.layout BY DEF q, OwnOk, PlaceType
  <2> QED BY <1>0, <1>2, <1>3, <2>1 DEF OwnOk, OwnTyped, Where, Nobody
<1>5. g \in [LEBs -> Spots] BY <1>2 DEF OwnTyped, Spots, Nobody
<1> QED BY <1>1, <1>4, <1>5 DEF OwnOk, q

\* An erased LEB is returned.
LEMMA EraseReturns ==
    ASSUME NEW f, NEW o, OwnOk(f, o), NEW l \in LEBs, l \in o.erase
    PROVE  OwnOk([f EXCEPT ![l] = Nobody],
                 [o EXCEPT !.erase = @ \ {l}, !.taken = @ \ {l}])
<1> DEFINE g == [f EXCEPT ![l] = Nobody]
           q == [o EXCEPT !.erase = @ \ {l}, !.taken = @ \ {l}]
<1>0. None \notin LEBs /\ None \notin Threads BY SpaceAssumption
<1>1. q \in PlaceType BY <1>0 DEF PlaceType, Maybe, OwnOk
<1>2. /\ q.erase = o.erase \ {l} /\ q.taken = o.taken \ {l}
      /\ q.head = o.head /\ q.thread = o.thread /\ q.reserved = o.reserved /\ q.ihead = o.ihead
      /\ q.garbage = o.garbage /\ q.bud = o.bud /\ q.old = o.old /\ q.layout = o.layout /\ q.written = o.written
  BY DEF OwnOk, PlaceType
<1>3. OwnTyped(f, o) BY DEF OwnOk, PlaceType, OwnTyped
<1> HIDE DEF q
<1>4. Where(g, q) BY <1>0, <1>2, <1>3 DEF OwnOk, OwnTyped, Where, Nobody
<1>5. g \in [LEBs -> Spots] BY <1>3 DEF OwnTyped, Spots, Nobody
<1> QED BY <1>1, <1>4, <1>5 DEF OwnOk, q

(***************************************************************************)
(* The inductive invariant.                                                *)
(***************************************************************************)
\* The bytes in a write-buffer on the LEB.
Wbuf(o) == IF o[1] = "head" THEN jh[o[2]].used ELSE 0

\* A LEB with properties p, of which n bytes are in use, old nodes of the
\* committed index are obsolete, that is at o, and has u bytes in a write-buffer.
LebOk(p, n, old, o, u) ==
    /\ IF p.index
       THEN /\ Spc(p) <= LebSize /\ n = 0 /\ old <= p.dirty
            /\ p.free = LebSize => o[1] \in {"layout", "ihead"}
       ELSE /\ old <= LebSize /\ (o[1] # "erase" => old = 0)
            /\ n = LebSize - Spc(p) + u
    /\ o[1] \in {"thread", "reserved", "head", "bud", "old", "erase"} => ~p.index
    /\ o[1] \in {"ihead", "layout", "written"} => p.index
    /\ o[1] \in {"reserved", "erase", "layout"} => p.free = LebSize /\ p.dirty = 0

LebsOk(f) == \A l \in LEBs : LebOk(sp.lp[l], Size(live[l]), old_idx[l], f[l], Wbuf(f[l]))
OwnInv == \E f : OwnOk(f, Places) /\ LebsOk(f)

Twice == Num(lp_mutex.by = "find" /\ lp_mutex.pick)
CountInv ==
    /\ SpOk(sp, Twice, Cardinality(GcLebs))
    /\ calc_idx_sz = Total("size", sp.lp)

HeadInv ==
    /\ jh \in HeadType
    /\ \A h \in Heads : HeadOk(sp.lp, h) /\ (jh[h].leb # None => jh[h].leb \in buds)

DataInv ==
    /\ live \in [LEBs -> [Sizes -> Nat]] /\ old_idx \in [LEBs -> Nat] /\ dirty_zn \in Nat
    /\ buds \subseteq LEBs /\ dirty_idx \subseteq LEBs
    /\ lp_mutex \in [by : {"nobody", "find", "gc"}, pick : BOOLEAN, excl : BOOLEAN]

HeldType == [idx : Nat, data : Nat, dd : Nat]
Pcs == {"idle", "again", "mkspc", "shrunk", "gcwait", "gc", "gcdone", "commit", "committed",
        "dirty", "reserve", "find", "found", "bud", "written", "stuck"}
Errs == {"none", "again", "nospc"}
ThType == [pc : Pcs, kind : Requests \cup {"none"}, held : HeldType, any : BOOLEAN,
           leb : Maybe(LEBs), offs : Int, len : Int, liab : Int, tries : Int, nospc : Int,
           retried : BOOLEAN, err : Errs]

\* A thread and its LEB.
ThOk(r, lp) ==
    /\ r \in ThType
    /\ r.pc # "idle" => r.kind \in Requests
    /\ r.leb # None => r.pc \in {"found", "bud", "gcdone"}
    /\ r.pc \in {"found", "bud"} => r.leb # None /\ lp[r.leb].free = LebSize - r.offs
    /\ r.pc = "gcdone" /\ r.leb # None => lp[r.leb].free = LebSize
    /\ r.pc \in {"reserve", "find", "found", "bud"} => ~r.any /\ r.len \in Sizes
    /\ r.pc \in {"gcwait", "gc", "gcdone", "commit", "committed"} =>
          IF r.any THEN r.held = NoGrowth ELSE r.len \in Sizes
    /\ r.pc \in {"idle", "again", "mkspc", "shrunk"} => r.held = NoGrowth

Finding(r) == r.pc \in {"find", "found"}
ThreadInv ==
    /\ \E u : th \in [Threads -> u]
    /\ \A t \in Threads : ThOk(th[t], sp.lp)
    /\ \A t \in Threads : Finding(th[t]) => /\ lp_mutex.by = "find"
                                            /\ \A u \in Threads : Finding(th[u]) => u = t

GcPcs == {"off", "iter", "pick", "index", "move", "switch", "sync", "free", "end"}
GcType == [by : Maybe(Threads), any : BOOLEAN, pc : GcPcs, i : Int, min : Int,
           leb : Maybe(LEBs), moved : BOOLEAN, before : Int, err : Errs]
GcInv ==
    /\ gc \in GcType
    /\ gc.pc = "off" <=> gc.by = None
    /\ gc.by # None => th[gc.by].pc = "gc"
    /\ gc.pc \in {"off", "iter", "pick"} => gc.leb = None
    /\ gc.pc \in {"index", "move", "switch", "sync", "free"} => gc.leb # None
    /\ gc.pc = "pick" => lp_mutex.by = "gc"
    /\ gc.pc = "index" => sp.lp[gc.leb].index
    /\ gc.pc \in {"move", "switch"} => ~sp.lp[gc.leb].index
    /\ gc.pc \in {"sync", "free"} => ~sp.lp[gc.leb].index /\ Spc(sp.lp[gc.leb]) = LebSize
    /\ gc.pc = "end" /\ gc.leb # None => ~sp.lp[gc.leb].index /\ sp.lp[gc.leb].free = LebSize
    /\ gc_lnum = None => /\ gc.pc \in {"move", "sync", "free"}
                         /\ gc.pc = "move" => jh[GCHD].leb # None /\ jh[GCHD].offs = 0 /\ jh[GCHD].used = 0

CmtPcs == {"rest", "alloc", "gaps", "layout", "finish", "broken", "write", "master", "post"}
CmtType == [pc : CmtPcs, ihead : LEBs, left : Nat, ilebs : SUBSET LEBs, gaps : SUBSET LEBs,
            full : SUBSET LEBs, nxt : SUBSET LEBs]
CmtInv ==
    /\ cmt \in CmtType
    /\ cmt.pc \in Exclusive => \A t \in Threads : ~Reading(t)
    /\ cmt.pc \in {"alloc", "gaps", "layout"} => cmt.left = dirty_zn
    /\ cmt.pc \in {"alloc", "gaps"} => cmt.left > 0
    /\ cmt.pc = "rest" => old_buds = {}

EraseInv ==
    /\ idx_gc \subseteq [lnum : LEBs, unmap : BOOLEAN]
    /\ \A g, k \in idx_gc : g.lnum = k.lnum => g = k
    /\ \A g \in idx_gc : g.unmap /\ cmt.pc \in {"write", "master", "post"} => old_idx[g.lnum] = 0

BudgetType == [idx : Int, data : Int, dd : Int, uncommitted : Int, old : Int, min_idx : Int,
               nospace : BOOLEAN, nospace_rp : BOOLEAN]
BudgetInv == bi \in BudgetType /\ BudgetExact

IInv == /\ OwnInv /\ CountInv /\ HeadInv /\ DataInv /\ ThreadInv /\ GcInv /\ CmtInv /\ EraseInv
        /\ BudgetInv

\* What is held in all, by thread.
HeldOf(f, T) == SumFunctionOnSet([t \in Threads |-> T[t].held[f]], Threads)
BudgetIs(b, T) ==
    /\ b \in BudgetType
    /\ b.idx = HeldOf("idx", T) /\ b.data = HeldOf("data", T) /\ b.dd = HeldOf("dd", T)
    /\ b.min_idx = MinIdxLebs(b)

SumPre(S, w, v, a) ==
    /\ IsFiniteSet(S) /\ a \in S
    /\ \A x \in S : w[x] \in Int /\ v[x] \in Int
    /\ \A x \in S \ {a} : w[x] = v[x]
\* SumChangeInt, with its premises in one.
LEMMA SumChanged ==
    ASSUME NEW S, NEW w, NEW v, NEW a, SumPre(S, w, v, a)
    PROVE  SumFunctionOnSet(v, S) = SumFunctionOnSet(w, S) - w[a] + v[a]
BY SumChangeInt DEF SumPre

\* The budget invariant, by the budget and the threads it depends on.
LEMMA BudgetIsInv ==
    BudgetInv <=> BudgetIs(bi, th)
BY DEF BudgetInv, BudgetIs, BudgetExact, HeldOf, SumFunction

\* One thread holds something else.
LEMMA HeldChange ==
    ASSUME NEW T, NEW U, NEW t \in Threads, NEW f \in {"idx", "data", "dd"},
           \A u \in Threads : T[u].held \in HeldType /\ U[u].held \in HeldType,
           \A u \in Threads \ {t} : U[u].held = T[u].held
    PROVE  /\ HeldOf(f, U) = HeldOf(f, T) - T[t].held[f] + U[t].held[f]
           /\ HeldOf(f, T) \in Int
<1> DEFINE w == [u \in Threads |-> T[u].held[f]]
           v == [u \in Threads |-> U[u].held[f]]
<1>1. \A u \in Threads : w[u] \in Int /\ v[u] \in Int BY DEF HeldType
<1>2. \A u \in Threads \ {t} : w[u] = v[u] OBVIOUS
<1>3. w[t] = T[t].held[f] /\ v[t] = U[t].held[f] OBVIOUS
<1>4. IsFiniteSet(Threads) BY SizeAssumption
<1>5. SumFunctionOnSet(v, Threads) = SumFunctionOnSet(w, Threads) - w[t] + v[t]
      /\ SumFunctionOnSet(w, Threads) \in Int
  <2> HIDE DEF w, v
  <2>1. SumFunctionOnSet(v, Threads) = SumFunctionOnSet(w, Threads) - w[t] + v[t]
    <3>1. PICK ww, vv : ww = w /\ vv = v OBVIOUS
    <3> QED BY <1>1, <1>2, <1>4, <3>1, SumChanged DEF SumPre
  <2> QED BY <1>1, <1>4, <2>1, SumInt
<1>6. HeldOf(f, U) = SumFunctionOnSet(v, Threads) /\ HeldOf(f, T) = SumFunctionOnSet(w, Threads) BY DEF HeldOf
<1> HIDE DEF w, v
<1> QED BY <1>3, <1>5, <1>6

\* Threads hold what they held.
LEMMA BudgetFrame ==
    ASSUME BudgetInv, bi' = bi, \A t \in Threads : th'[t].held = th[t].held
    PROVE  BudgetInv'
BY DEF BudgetInv, BudgetExact, MinIdxLebs

\* A step of a thread that neither takes nor returns a LEB.
ThreadStep(t, r) ==
    /\ th' = [th EXCEPT ![t] = r]
    /\ ThOk(r, sp.lp)
    /\ r.leb = th[t].leb /\ ~Finding(r) /\ ~Finding(th[t]) /\ th[t].pc # "gc"
    /\ r.pc \in Readers \/ (r.pc = "gcdone" /\ ~r.any) => Reading(t) \/ cmt.pc \notin Exclusive
    /\ UNCHANGED <<sp, live, jh, gc_lnum, idx_gc, buds, old_buds, dirty_zn, calc_idx_sz, old_idx,
                   dirty_idx, cmt, lp_mutex>>

\* A step of a thread that changes no LEB keeps the invariant.
LEMMA ThreadOnly ==
    ASSUME IInv, NEW t \in Threads, NEW r, ThreadStep(t, r), BudgetInv',
           gc' = gc \/ (GcInv' /\ gc'.leb = gc.leb)
    PROVE  IInv'
<1>1. /\ th' = [th EXCEPT ![t] = r] /\ ThOk(r, sp.lp)
      /\ r.leb = th[t].leb /\ ~Finding(r) /\ ~Finding(th[t]) /\ th[t].pc # "gc"
      /\ r.pc \in Readers \/ (r.pc = "gcdone" /\ ~r.any) => Reading(t) \/ cmt.pc \notin Exclusive
      /\ sp' = sp /\ live' = live /\ jh' = jh /\ gc_lnum' = gc_lnum /\ idx_gc' = idx_gc
      /\ buds' = buds /\ old_buds' = old_buds /\ dirty_zn' = dirty_zn /\ calc_idx_sz' = calc_idx_sz
      /\ old_idx' = old_idx /\ dirty_idx' = dirty_idx /\ cmt' = cmt /\ lp_mutex' = lp_mutex BY DEF ThreadStep
<1>2. PICK D : th \in [Threads -> D] BY DEF IInv, ThreadInv
<1>3. th'[t] = r /\ th' \in [Threads -> D \cup {r}] /\ \A u \in Threads \ {t} : th'[u] = th[u] BY <1>1, <1>2
<1>4. Places' = Places BY <1>1, <1>3 DEF Places, HeadLebs, GcLebs
<1>5. OwnInv'
  <2>1. PICK f : OwnOk(f, Places) /\ LebsOk(f) BY DEF IInv, OwnInv
  <2> QED BY <1>1, <1>4, <2>1 DEF OwnInv, LebsOk, Wbuf
<1>6. ThreadInv' BY <1>1, <1>3 DEF IInv, ThreadInv, Finding
<1>7. GcInv'
  <2> SUFFICES ASSUME gc' = gc PROVE GcInv' OBVIOUS
  <2>1. gc.by # None => th'[gc.by].pc = "gc" BY <1>1, <1>3 DEF IInv, GcInv, GcType, Maybe
  <2> QED BY <1>1, <2>1 DEF IInv, GcInv
<1>8. CmtInv' BY <1>1, <1>3 DEF IInv, CmtInv, Reading
<1> QED BY <1>1, <1>5, <1>6, <1>7, <1>8 DEF IInv, CountInv, Twice, GcLebs, HeadInv, HeadOk, DataInv, EraseInv

\* ubifs_calc_min_idx_lebs() is an integer.
LEMMA MinIdxType ==
    ASSUME NEW b, b.old \in Int, b.idx \in Int, b.uncommitted \in Int
    PROVE  MinIdxLebs(b) \in Int
<1>1. PICK n : n = 3 * (b.old + b.idx + b.uncommitted) OBVIOUS
<1> QED BY <1>1, SizeAssumption DEF MinIdxLebs, DivUp

\* A recalculated budget is up to date.
LEMMA RecalculatedIs ==
    ASSUME NEW b \in BudgetType
    PROVE  /\ Recalculated(b) \in BudgetType
           /\ Recalculated(b).idx = b.idx /\ Recalculated(b).data = b.data /\ Recalculated(b).dd = b.dd
           /\ Recalculated(b).min_idx = MinIdxLebs(Recalculated(b))
<1>1. PICK m : m = MinIdxLebs(b) OBVIOUS
<1>2. PICK r : r = [b EXCEPT !.min_idx = m] OBVIOUS
<1> QED BY <1>1, <1>2, MinIdxType DEF Recalculated, MinIdxLebs, BudgetType

\* What a thread holds changes with the budget.
BudgetStep(t, r) ==
    /\ \A u \in Threads : th[u].held \in HeldType
    /\ th' = [th EXCEPT ![t] = r] /\ r.held \in HeldType
    /\ bi' \in BudgetType /\ bi'.min_idx = MinIdxLebs(bi')
    /\ bi'.idx = bi.idx - th[t].held.idx + r.held.idx
    /\ bi'.data = bi.data - th[t].held.data + r.held.data
    /\ bi'.dd = bi.dd - th[t].held.dd + r.held.dd

\* The budget invariant after such a step.
LEMMA BudgetChange ==
    ASSUME IInv, NEW t \in Threads, NEW r, BudgetStep(t, r)
    PROVE  BudgetInv'
<1>1. PICK T, U : T = th /\ U = th' OBVIOUS
<1>2. PICK D : T \in [Threads -> D] BY <1>1 DEF IInv, ThreadInv
<1>3. U[t] = r /\ \A u \in Threads \ {t} : U[u] = T[u] BY <1>1, <1>2 DEF BudgetStep
<1>4. \A u \in Threads : T[u].held \in HeldType /\ U[u].held \in HeldType BY <1>1, <1>3 DEF BudgetStep
<1>5. \A u \in Threads \ {t} : U[u].held = T[u].held BY <1>3
<1>6. \A f \in {"idx", "data", "dd"} : HeldOf(f, U) = HeldOf(f, T) - T[t].held[f] + U[t].held[f]
  BY <1>4, <1>5, HeldChange, ZenonT(40)
<1> QED
  BY <1>1, <1>3, <1>6, BudgetIsInv DEF BudgetInv, BudgetIs, BudgetExact, HeldOf, SumFunction, BudgetStep, IInv

\* What is known of a thread.
LEMMA ThreadFacts ==
    ASSUME IInv, NEW t \in Threads
    PROVE  /\ th[t] \in ThType /\ ThOk(th[t], sp.lp)
           /\ \E D : th \in [Threads -> D]
           /\ \A u \in Threads : th[u].held \in HeldType
           /\ bi \in BudgetType /\ bi.min_idx = MinIdxLebs(bi)
BY DEF ThType, IInv, ThreadInv, ThOk, BudgetInv, BudgetExact

unmoved == <<sp, live, jh, gc_lnum, idx_gc, buds, old_buds, dirty_zn, calc_idx_sz, old_idx,
             dirty_idx, cmt, lp_mutex>>

\* A step of a thread that leaves the budget alone.
LEMMA ThreadQuiet ==
    ASSUME IInv, NEW t \in Threads, NEW r, ThreadStep(t, r), r.held = th[t].held, bi' = bi, gc' = gc
    PROVE  IInv'
BY ThreadFacts, BudgetFrame, ThreadOnly DEF IInv, ThreadStep

\* A record of a thread, by its fields.
ThShape(r) ==
    r = [pc |-> r.pc, kind |-> r.kind, held |-> r.held, any |-> r.any, leb |-> r.leb, offs |-> r.offs,
         len |-> r.len, liab |-> r.liab, tries |-> r.tries, nospc |-> r.nospc, retried |-> r.retried,
         err |-> r.err]
ThFields(r) ==
    /\ r.pc \in Pcs /\ r.kind \in Requests \cup {"none"} /\ r.held \in HeldType /\ r.any \in BOOLEAN
    /\ r.leb \in Maybe(LEBs) /\ r.offs \in Int /\ r.len \in Int /\ r.liab \in Int /\ r.tries \in Int
    /\ r.nospc \in Int /\ r.retried \in BOOLEAN /\ r.err \in Errs

\* A record with the fields of a thread.
LEMMA ThTyped ==
    ASSUME NEW r, ThShape(r), ThFields(r)
    PROVE  r \in ThType
<1>1. PICK a, b, c, d, e, f, g, h, i, j, k, l :
         /\ r = [pc |-> a, kind |-> b, held |-> c, any |-> d, leb |-> e, offs |-> f, len |-> g,
                 liab |-> h, tries |-> i, nospc |-> j, retried |-> k, err |-> l]
         /\ a = r.pc /\ b = r.kind /\ c = r.held /\ d = r.any /\ e = r.leb /\ f = r.offs
         /\ g = r.len /\ h = r.liab /\ i = r.tries /\ j = r.nospc /\ k = r.retried /\ l = r.err BY DEF ThShape
<1> QED BY <1>1 DEF ThType, ThFields

\* A thread at rest holds nothing.
LEMMA IdleIs ==
    /\ Idle \in ThType /\ Idle.pc = "idle" /\ Idle.held = NoGrowth /\ Idle.leb = None
    /\ NoGrowth \in HeldType /\ NoGrowth.idx = 0 /\ NoGrowth.data = 0 /\ NoGrowth.dd = 0
BY SpaceAssumption DEF Idle, ThType, Pcs, Errs, HeldType, NoGrowth, Maybe

\* A request comes.
LEMMA RequestKeeps ==
    ASSUME IInv, NEW t \in Threads, NEW k \in Requests, Request(t, k)
    PROVE  IInv'
<1>1. th[t].pc = "idle" /\ UNCHANGED unmoved /\ gc' = gc /\ bi' = bi
  BY DEF Request, unmoved, lpvars, data, index, idle, jother
<1>2. PICK r : r = [th[t] EXCEPT !.pc = "again", !.kind = k, !.retried = FALSE] OBVIOUS
<1>3. th[t] \in ThType /\ ThOk(th[t], sp.lp) /\ (\E D : th \in [Threads -> D]) /\ bi \in BudgetType
  BY ThreadFacts
<1>4. r \in ThType /\ r.leb = th[t].leb /\ r.held = th[t].held
      /\ r.pc = "again" /\ r.kind = k
  <2>1. PICK q : q = th[t] OBVIOUS
  <2> QED BY <1>1, <1>2, <1>3, <2>1, ThTyped DEF ThType, ThFields, Pcs, Errs, ThShape
<1> QED BY <1>1, <1>2, <1>3, <1>4, ThreadQuiet DEF ThreadStep, unmoved, Finding, Readers, Reading, Request, ThOk

\* make_free_space() shrinks the liability.
LEMMA ShrinkKeeps ==
    ASSUME IInv, NEW t \in Threads, Shrink(t)
    PROVE  IInv'
<1>1. th[t].pc = "mkspc" /\ UNCHANGED unmoved /\ gc' = gc /\ bi' = bi
  BY DEF Shrink, unmoved, lpvars, data, index, idle, jother
<1>2. PICK r : r = [th[t] EXCEPT !.pc = "shrunk", !.liab = Liability] OBVIOUS
<1>3. th[t] \in ThType /\ ThOk(th[t], sp.lp) /\ (\E D : th \in [Threads -> D]) /\ bi \in BudgetType
  BY ThreadFacts
<1>4. r \in ThType /\ r.leb = th[t].leb /\ r.held = th[t].held
      /\ r.pc = "shrunk" /\ r.kind = th[t].kind
  <2>1. PICK q : q = th[t] OBVIOUS
  <2>2. q \in ThType /\ r = [q EXCEPT !.pc = "shrunk", !.liab = Liability] BY <1>2, <1>3, <2>1
  <2>3. ThShape(r) BY <2>2 DEF ThType, ThShape
  <2>4. ThFields(r) BY <1>3, <2>2 DEF ThType, ThFields, Pcs, Errs, BudgetType, Liability
  <2> QED BY <1>1, <2>1, <2>2, <2>3, <2>4, ThTyped DEF ThType
<1> QED BY <1>1, <1>2, <1>3, <1>4, ThreadQuiet DEF ThreadStep, unmoved, Finding, Readers, Reading, Shrink, ThOk

\* It has done so.
LEMMA ShrunkKeeps ==
    ASSUME IInv, NEW t \in Threads, Shrunk(t)
    PROVE  IInv'
<1>1. th[t].pc = "shrunk" /\ cmt.pc \notin Exclusive /\ UNCHANGED unmoved /\ gc' = gc /\ bi' = bi
  BY DEF Shrunk, unmoved, lpvars, data, index, idle, jother
<1>2. PICK r : r = [th[t] EXCEPT !.pc = IF Liability < th[t].liab THEN "again" ELSE "gcwait", !.liab = 0, !.any = TRUE]
  OBVIOUS
<1>3. th[t] \in ThType /\ ThOk(th[t], sp.lp) /\ (\E D : th \in [Threads -> D]) /\ bi \in BudgetType
  BY ThreadFacts
<1>4. r \in ThType /\ r.leb = th[t].leb /\ r.held = th[t].held
      /\ r.pc \in {"again", "gcwait"} /\ r.kind = th[t].kind /\ r.any
  <2>1. PICK q : q = th[t] OBVIOUS
  <2>2. q \in ThType /\ r = [q EXCEPT !.pc = IF Liability < q.liab THEN "again" ELSE "gcwait", !.liab = 0, !.any = TRUE]
    BY <1>2, <1>3, <2>1
  <2>3. ThShape(r) BY <2>2 DEF ThType, ThShape
  <2>4. ThFields(r) BY <1>3, <2>2 DEF ThType, ThFields, Pcs, Errs
  <2> QED BY <1>1, <2>1, <2>2, <2>3, <2>4, ThTyped DEF ThType
<1> QED BY <1>1, <1>2, <1>3, <1>4, ThreadQuiet DEF ThreadStep, unmoved, Finding, Readers, Reading, Shrunk, ThOk

\* run_gc() has freed nothing.
LEMMA GcFailedKeeps ==
    ASSUME IInv, NEW t \in Threads, GcFailed(t)
    PROVE  IInv'
<1>1. th[t].pc = "gcdone" /\ th[t].any /\ th[t].leb = None /\ UNCHANGED unmoved /\ gc' = gc /\ bi' = bi
  BY DEF GcFailed, unmoved, lpvars, data, index, idle, jother
<1>2. PICK r : r = [th[t] EXCEPT !.pc = "commit", !.err = "none"] OBVIOUS
<1>3. th[t] \in ThType /\ ThOk(th[t], sp.lp) /\ (\E D : th \in [Threads -> D]) /\ bi \in BudgetType
  BY ThreadFacts
<1>4. r \in ThType /\ r.leb = th[t].leb /\ r.held = th[t].held
      /\ r.pc = "commit" /\ r.kind = th[t].kind /\ r.any
  <2>1. PICK q : q = th[t] OBVIOUS
  <2> QED BY <1>1, <1>2, <1>3, <2>1, ThTyped DEF ThType, ThFields, Pcs, Errs, ThShape
<1> QED
  BY <1>1, <1>2, <1>3, <1>4, ThreadQuiet DEF ThreadStep, unmoved, Finding, Readers, Reading, GcFailed, ThOk

\* The thread reserves space again after a commit.
LEMMA ReserveAgainKeeps ==
    ASSUME IInv, NEW t \in Threads, ReserveAgain(t)
    PROVE  IInv'
<1>1. th[t].pc = "committed" /\ ~th[t].any /\ cmt.pc \notin Exclusive /\ UNCHANGED unmoved /\ gc' = gc /\ bi' = bi
  BY DEF ReserveAgain, unmoved, lpvars, data, index, idle, jother
<1>2. PICK r : r = [th[t] EXCEPT !.pc = "reserve", !.tries = 0] OBVIOUS
<1>3. th[t] \in ThType /\ ThOk(th[t], sp.lp) /\ (\E D : th \in [Threads -> D]) /\ bi \in BudgetType
  BY ThreadFacts
<1>4. r \in ThType /\ r.leb = th[t].leb /\ r.held = th[t].held
      /\ r.pc = "reserve" /\ r.kind = th[t].kind /\ r.any = th[t].any /\ r.len = th[t].len
  <2>1. PICK q : q = th[t] OBVIOUS
  <2>2. q \in ThType /\ r = [q EXCEPT !.pc = "reserve", !.tries = 0] BY <1>2, <1>3, <2>1
  <2>3. ThShape(r) BY <2>2 DEF ThType, ThShape
  <2>4. ThFields(r) BY <1>3, <2>2 DEF ThType, ThFields, Pcs, Errs
  <2> QED BY <1>1, <2>1, <2>2, <2>3, <2>4, ThTyped DEF ThType
<1> QED
  BY <1>1, <1>2, <1>3, <1>4, ThreadQuiet DEF ThreadStep, unmoved, Finding, Readers, Reading, ReserveAgain, ThOk

\* Where a thread goes on that got no LEB.
LEMMA GotNoIs ==
    ASSUME NEW q \in ThType
    PROVE  LET r == GotNo(q)
           IN /\ r \in ThType /\ r.pc \in {"commit", "reserve", "stuck"} /\ r.leb = q.leb
              /\ r.held = q.held /\ r.kind = q.kind /\ r.any = q.any /\ r.len = q.len
<1> DEFINE Good(r) == /\ ThShape(r) /\ ThFields(r) /\ r.pc \in {"commit", "reserve", "stuck"} /\ r.leb = q.leb
                      /\ r.held = q.held /\ r.kind = q.kind /\ r.any = q.any /\ r.len = q.len
<1>1. Good([q EXCEPT !.pc = "commit", !.err = "none"])
  <2>1. PICK r : r = [q EXCEPT !.pc = "commit", !.err = "none"] OBVIOUS
  <2>2. ThShape(r) BY <2>1 DEF ThType, ThShape
  <2> QED BY <2>1, <2>2 DEF ThType, ThFields, Pcs, Errs
<1>2. Good([q EXCEPT !.pc = "reserve", !.tries = q.tries + 1])
  <2>1. PICK r : r = [q EXCEPT !.pc = "reserve", !.tries = q.tries + 1] OBVIOUS
  <2>2. ThShape(r) BY <2>1 DEF ThType, ThShape
  <2> QED BY <2>1, <2>2 DEF ThType, ThFields, Pcs, Errs
<1>3. Good([q EXCEPT !.pc = "commit", !.nospc = q.nospc + 1])
  <2>1. PICK r : r = [q EXCEPT !.pc = "commit", !.nospc = q.nospc + 1] OBVIOUS
  <2>2. ThShape(r) BY <2>1 DEF ThType, ThShape
  <2> QED BY <2>1, <2>2 DEF ThType, ThFields, Pcs, Errs
<1>4. Good([q EXCEPT !.pc = "stuck"])
  <2>1. PICK r : r = [q EXCEPT !.pc = "stuck"] OBVIOUS
  <2> QED BY <2>1 DEF ThType, ThShape, ThFields, Pcs, Errs
<1> HIDE DEF Good
<1> QED BY <1>1, <1>2, <1>3, <1>4, ThTyped DEF Good, GotNo

\* The collector has freed no LEB for the journal.
LEMMA GotNoLebKeeps ==
    ASSUME IInv, NEW t \in Threads, GotNoLeb(t)
    PROVE  IInv'
<1>1. PICK r : r = GotNo(th[t]) OBVIOUS
<1>2. th[t] \in ThType /\ ThOk(th[t], sp.lp) /\ (\E D : th \in [Threads -> D]) /\ bi \in BudgetType
  BY ThreadFacts
<1>3. /\ r \in ThType /\ r.leb = th[t].leb /\ r.held = th[t].held
      /\ r.pc \in {"commit", "reserve", "stuck"} /\ r.kind = th[t].kind /\ r.any = th[t].any /\ r.len = th[t].len
  <2>1. PICK q : q = th[t] OBVIOUS
  <2> QED BY <1>1, <1>2, <2>1, GotNoIs
<1> QED
  BY <1>1, <1>2, <1>3, ThreadQuiet DEF ThreadStep, unmoved, Finding, Readers, Reading, GotNoLeb, ThOk, lpvars,
     data, index, idle, jother

\* Every budget has a type.
LEMMA GrowthType ==
    ASSUME NEW k \in Requests
    PROVE  Growth[k] \in HeldType
BY SpaceAssumption DEF HeldType

\* A budget, by its fields.
BudgetShape(b) ==
    b = [idx |-> b.idx, data |-> b.data, dd |-> b.dd, uncommitted |-> b.uncommitted, old |-> b.old,
         min_idx |-> b.min_idx, nospace |-> b.nospace, nospace_rp |-> b.nospace_rp]
BudgetFields(b) ==
    /\ b.idx \in Int /\ b.data \in Int /\ b.dd \in Int /\ b.uncommitted \in Int /\ b.old \in Int
    /\ b.min_idx \in Int /\ b.nospace \in BOOLEAN /\ b.nospace_rp \in BOOLEAN

\* A record with the fields of a budget.
LEMMA BudgetTyped ==
    ASSUME NEW b, BudgetShape(b), BudgetFields(b)
    PROVE  b \in BudgetType
<1>1. PICK c, d, e, f, g, h, i, j :
         /\ b = [idx |-> c, data |-> d, dd |-> e, uncommitted |-> f, old |-> g, min_idx |-> h,
                 nospace |-> i, nospace_rp |-> j]
         /\ c = b.idx /\ d = b.data /\ e = b.dd /\ f = b.uncommitted /\ g = b.old /\ h = b.min_idx
         /\ i = b.nospace /\ j = b.nospace_rp BY DEF BudgetShape
<1> QED BY <1>1 DEF BudgetType, BudgetFields

\* A budget that has grown.
LEMMA GrowthIs ==
    ASSUME NEW a \in BudgetType, NEW g \in HeldType
    PROVE  LET b == WithGrowth(a, g)
           IN /\ b \in BudgetType
              /\ b.idx = a.idx + g.idx /\ b.data = a.data + g.data /\ b.dd = a.dd + g.dd
<1>1. PICK b : b = WithGrowth(a, g) OBVIOUS
<1>2. /\ b.idx = a.idx + g.idx /\ b.data = a.data + g.data /\ b.dd = a.dd + g.dd
      /\ b.uncommitted = a.uncommitted /\ b.old = a.old /\ b.min_idx = a.min_idx
      /\ b.nospace = a.nospace /\ b.nospace_rp = a.nospace_rp BY <1>1 DEF WithGrowth, BudgetType
<1>3. BudgetShape(b) BY <1>1 DEF WithGrowth, BudgetType, BudgetShape
<1> QED BY <1>1, <1>2, <1>3, BudgetTyped DEF BudgetType, BudgetFields, HeldType

\* A thread without a LEB: nothing else is asked of it.
LEMMA Plain ==
    ASSUME NEW lp, NEW r \in ThType, r.leb = None, r.kind \in Requests, r.pc \in {"again", "mkspc", "dirty"},
           r.pc \in {"again", "mkspc"} => r.held = NoGrowth
    PROVE  ThOk(r, lp)
BY DEF ThOk

\* A thread that has been refused a budget.
LEMMA RefusedIs ==
    ASSUME NEW q \in ThType
    PROVE  LET r == IF q.kind = "del" THEN [Idle EXCEPT !.pc = "dirty", !.kind = "del"] ELSE Idle
           IN /\ r \in ThType /\ r.leb = None /\ r.held = NoGrowth /\ r.pc \in {"idle", "dirty"}
              /\ \A lp : ThOk(r, lp)
<1>1. PICK r : r = IF q.kind = "del" THEN [Idle EXCEPT !.pc = "dirty", !.kind = "del"] ELSE Idle OBVIOUS
<1>2. CASE q.kind = "del"
  <2>1. /\ ThShape(r) /\ r.leb = None /\ r.held = NoGrowth /\ r.pc = "dirty" /\ r.kind = "del"
        /\ r.any \in BOOLEAN /\ r.offs = 0 /\ r.len = 0 /\ r.liab = 0 /\ r.tries = 0 /\ r.nospc = 0
        /\ r.retried \in BOOLEAN /\ r.err = "none" BY <1>1, <1>2 DEF Idle, ThShape
  <2>2. "del" \in Requests /\ NoGrowth \in HeldType BY SpaceAssumption, IdleIs
  <2>3. r \in ThType BY <2>1, <2>2, ThTyped DEF ThFields, Pcs, Errs, Maybe
  <2> QED BY <1>1, <2>1, <2>2, <2>3, Plain
<1>3. CASE q.kind # "del" BY <1>1, <1>3, IdleIs DEF ThOk
<1> QED BY <1>2, <1>3

\* A step of a thread outside of the journal.
LEMMA QuietStep ==
    ASSUME IInv, NEW t \in Threads, NEW r, th' = [th EXCEPT ![t] = r], ThOk(r, sp.lp), r.leb = th[t].leb,
           r.pc \notin Readers \cup {"gcdone"}, th[t].pc \in {"again", "committed", "dirty", "written"},
           UNCHANGED unmoved
    PROVE  ThreadStep(t, r)
BY DEF ThreadStep, unmoved, Finding, Readers

\* ubifs_budget_space() keeps the invariant.
LEMMA BudgetSpaceKeeps ==
    ASSUME IInv, NEW t \in Threads, BudgetSpace(t)
    PROVE  IInv'
<1>1. /\ th[t].pc = "again" /\ UNCHANGED unmoved /\ gc' = gc BY DEF BudgetSpace, unmoved, data, index, idle
<1>2. th[t] \in ThType /\ ThOk(th[t], sp.lp) /\ (\E D : th \in [Threads -> D]) /\ bi \in BudgetType
      /\ \A u \in Threads : th[u].held \in HeldType BY ThreadFacts
<1>3. th[t].leb = None /\ th[t].held = NoGrowth /\ th[t].kind \in Requests BY <1>1, <1>2 DEF ThOk
<1> DEFINE g == Growth[th[t].kind]
<1>4. CASE Refused(t) /\ UNCHANGED bi
  <2>1. PICK q : q = th[t] OBVIOUS
  <2>2. PICK r : r = IF q.kind = "del" THEN [Idle EXCEPT !.pc = "dirty", !.kind = "del"] ELSE Idle OBVIOUS
  <2> QED BY <1>1, <1>2, <1>3, <1>4, <2>1, <2>2, RefusedIs, QuietStep, ThreadQuiet DEF Readers, Refused
<1>5. CASE /\ bi' = Recalculated(WithGrowth(bi, g))
           /\ th' = [th EXCEPT ![t] = [Idle EXCEPT !.pc = "dirty", !.kind = th[t].kind, !.held = g]]
  <2>1. g \in HeldType BY <1>3, GrowthType
  <2>2. PICK r : r = [Idle EXCEPT !.pc = "dirty", !.kind = th[t].kind, !.held = g] OBVIOUS
  <2>3. th' = [th EXCEPT ![t] = r] BY <1>5, <2>2
  <2>4. /\ ThShape(r) /\ r.leb = None /\ r.held = g /\ r.pc = "dirty" /\ r.kind = th[t].kind
        /\ r.any \in BOOLEAN /\ r.offs = 0 /\ r.len = 0 /\ r.liab = 0 /\ r.tries = 0 /\ r.nospc = 0
        /\ r.retried \in BOOLEAN /\ r.err = "none" BY <2>2 DEF Idle, ThShape
  <2>5. ThOk(r, sp.lp) BY <1>3, <2>1, <2>4, ThTyped, Plain DEF ThFields, Pcs, Errs, Maybe
  <2>6. PICK b : b = WithGrowth(bi, g) OBVIOUS
  <2>7. PICK a, e : a = bi /\ e = g OBVIOUS
  <2>8. b \in BudgetType /\ b.idx = bi.idx + g.idx /\ b.data = bi.data + g.data /\ b.dd = bi.dd + g.dd
    BY <1>2, <2>1, <2>6, <2>7, GrowthIs
  <2>9. PICK c : c = bi' OBVIOUS
  <2>10. c \in BudgetType /\ c.idx = b.idx /\ c.data = b.data /\ c.dd = b.dd /\ c.min_idx = MinIdxLebs(c)
    BY <1>5, <2>6, <2>8, <2>9, RecalculatedIs
  <2> HIDE DEF g
  <2>11. /\ bi.idx + g.idx = bi.idx - th[t].held.idx + r.held.idx
         /\ bi.data + g.data = bi.data - th[t].held.data + r.held.data
         /\ bi.dd + g.dd = bi.dd - th[t].held.dd + r.held.dd
    BY <1>2, <1>3, <2>1, <2>4 DEF NoGrowth, BudgetType, HeldType
  <2>12. BudgetInv' BY <1>2, <2>1, <2>3, <2>4, <2>8, <2>9, <2>10, <2>11, BudgetChange DEF BudgetStep
  <2> QED BY <1>1, <1>3, <2>3, <2>4, <2>5, <2>12, QuietStep, ThreadOnly DEF Readers
<1>6. CASE th' = [th EXCEPT ![t].pc = "mkspc", ![t].tries = 0] /\ UNCHANGED bi
  <2>1. PICK q : q = th[t] OBVIOUS
  <2>2. PICK r : r = [q EXCEPT !.pc = "mkspc", !.tries = 0] OBVIOUS
  <2>3. q \in ThType BY <1>2, <2>1
  <2>4. ThShape(r) BY <2>2, <2>3 DEF ThType, ThShape
  <2>5. ThFields(r) BY <2>2, <2>3 DEF ThType, ThFields, Pcs
  <2>6. r.leb = q.leb /\ r.held = q.held /\ r.kind = q.kind /\ r.pc = "mkspc" BY <2>2, <2>3 DEF ThType
  <2>7. ThOk(r, sp.lp) BY <1>3, <2>1, <2>4, <2>5, <2>6, ThTyped, Plain
  <2> QED BY <1>1, <1>3, <1>6, <2>1, <2>2, <2>6, <2>7, QuietStep, ThreadQuiet DEF Readers
<1> QED BY <1>4, <1>5, <1>6 DEF BudgetSpace

\* make_free_space() tries again or gives up.
LEMMA MkspcRetryKeeps ==
    ASSUME IInv, NEW t \in Threads, MkspcRetry(t)
    PROVE  IInv'
<1>1. /\ th[t].pc = "committed" /\ th[t].any /\ UNCHANGED unmoved /\ gc' = gc
  BY DEF MkspcRetry, unmoved, data, index, idle
<1>2. th[t] \in ThType /\ ThOk(th[t], sp.lp) /\ (\E D : th \in [Threads -> D]) /\ bi \in BudgetType
      /\ (\A u \in Threads : th[u].held \in HeldType) /\ bi.min_idx = MinIdxLebs(bi) BY ThreadFacts
<1>3. th[t].leb = None /\ th[t].held = NoGrowth /\ th[t].kind \in Requests BY <1>1, <1>2 DEF ThOk
<1>4. PICK q : q = th[t] OBVIOUS
<1>5. ASSUME NEW r, th' = [th EXCEPT ![t] = r], r = [q EXCEPT !.pc = "mkspc", !.tries = @ + 1]
                                               \/ r = [q EXCEPT !.pc = "again", !.retried = TRUE],
             bi' = bi
      PROVE  IInv'
  <2>1. q \in ThType BY <1>2, <1>4
  <2>2. ThFields(r)
    <3>1. CASE r = [q EXCEPT !.pc = "mkspc", !.tries = @ + 1] BY <2>1, <3>1 DEF ThType, ThFields, Pcs
    <3>2. CASE r = [q EXCEPT !.pc = "again", !.retried = TRUE] BY <2>1, <3>2 DEF ThType, ThFields, Pcs
    <3> QED BY <1>5, <3>1, <3>2
  <2>3. r.leb = q.leb /\ r.held = q.held /\ r.kind = q.kind /\ r.pc \in {"mkspc", "again"}
    BY <1>5, <2>1 DEF ThType
  <2>4. ThOk(r, sp.lp) BY <1>3, <1>4, <1>5, <2>1, <2>2, <2>3, ThTyped, Plain DEF ThType, ThShape
  <2> QED BY <1>1, <1>3, <1>4, <1>5, <2>3, <2>4, QuietStep, ThreadQuiet DEF Readers
<1>6. CASE th' = [th EXCEPT ![t].pc = "mkspc", ![t].tries = @ + 1] /\ UNCHANGED bi
  <2>1. PICK r : r = [q EXCEPT !.pc = "mkspc", !.tries = @ + 1] OBVIOUS
  <2> QED BY <1>4, <1>5, <1>6, <2>1
<1>7. CASE th' = [th EXCEPT ![t].pc = "again", ![t].retried = TRUE] /\ UNCHANGED bi
  <2>1. PICK r : r = [q EXCEPT !.pc = "again", !.retried = TRUE] OBVIOUS
  <2> QED BY <1>4, <1>5, <1>7, <2>1
<1>8. CASE /\ Refused(t)
           /\ bi' = [bi EXCEPT !.nospace = TRUE, !.nospace_rp = @ \/ t \in Privileged \/ RpSize = 0]
  <2>1. PICK r : r = IF q.kind = "del" THEN [Idle EXCEPT !.pc = "dirty", !.kind = "del"] ELSE Idle OBVIOUS
  <2>2. r \in ThType /\ r.leb = None /\ r.held = NoGrowth /\ r.pc \in {"idle", "dirty"} /\ ThOk(r, sp.lp)
    BY <1>2, <1>4, <2>1, RefusedIs
  <2>3. th' = [th EXCEPT ![t] = r] BY <1>4, <1>8, <2>1 DEF Refused
  <2>4. PICK c : c = bi' OBVIOUS
  <2>5. PICK x, y \in BOOLEAN : x = TRUE /\ y = (bi.nospace_rp \/ t \in Privileged \/ RpSize = 0) OBVIOUS
  <2>6. /\ bi.idx = bi.idx - th[t].held.idx + r.held.idx
        /\ bi.data = bi.data - th[t].held.data + r.held.data
        /\ bi.dd = bi.dd - th[t].held.dd + r.held.dd BY <1>2, <1>3, <2>2 DEF NoGrowth, BudgetType
  <2>7. BudgetStep(t, r)
    BY <1>2, <1>8, <2>2, <2>3, <2>4, <2>5, <2>6, IdleIs DEF BudgetStep, MinIdxLebs, BudgetType
  <2> QED BY <1>1, <1>3, <2>2, <2>3, <2>7, QuietStep, BudgetChange, ThreadOnly DEF Readers
<1> QED BY <1>6, <1>7, <1>8 DEF MkspcRetry

\* ubifs_convert_page_budget() keeps the invariant.
LEMMA ConvertKeeps ==
    ASSUME IInv, NEW t \in Threads, Convert(t)
    PROVE  IInv'
<1>1. /\ th[t].pc = "dirty" /\ UNCHANGED unmoved /\ gc' = gc BY DEF Convert, unmoved, data, index, idle
<1>2. th[t] \in ThType /\ ThOk(th[t], sp.lp) /\ (\E D : th \in [Threads -> D]) /\ bi \in BudgetType
      /\ (\A u \in Threads : th[u].held \in HeldType) /\ bi.min_idx = MinIdxLebs(bi) BY ThreadFacts
<1>3. PICK q, g, a : q = th[t] /\ g = th[t].held /\ a = bi OBVIOUS
<1>4. q \in ThType /\ g \in HeldType /\ q.held = g /\ a \in BudgetType BY <1>2, <1>3
<1>5. PICK b : b = [a EXCEPT !.idx = @ - g.idx, !.data = @ - g.data, !.dd = @ + g.data] OBVIOUS
<1>6. PICK r : r = [q EXCEPT !.held = [idx |-> 0, data |-> 0, dd |-> g.dd + g.data], !.kind = "change"] OBVIOUS
<1>7. th' = [th EXCEPT ![t] = r] /\ bi' = Recalculated(b) BY <1>3, <1>5, <1>6 DEF Convert
<1>8. /\ b \in BudgetType /\ b.idx = a.idx - g.idx /\ b.data = a.data - g.data /\ b.dd = a.dd + g.data
  <2>1. /\ b.idx = a.idx - g.idx /\ b.data = a.data - g.data /\ b.dd = a.dd + g.data
        /\ b.uncommitted = a.uncommitted /\ b.old = a.old /\ b.min_idx = a.min_idx
        /\ b.nospace = a.nospace /\ b.nospace_rp = a.nospace_rp BY <1>4, <1>5 DEF BudgetType
  <2>2. BudgetShape(b) BY <1>4, <1>5 DEF BudgetType, BudgetShape
  <2> QED BY <1>4, <2>1, <2>2, BudgetTyped DEF BudgetType, BudgetFields, HeldType
<1>9. /\ r \in ThType /\ r.leb = q.leb /\ r.pc = q.pc /\ r.kind = "change"
      /\ r.held = [idx |-> 0, data |-> 0, dd |-> g.dd + g.data]
  <2>1. ThShape(r) /\ r.leb = q.leb /\ r.pc = q.pc /\ r.kind = "change"
        /\ r.held = [idx |-> 0, data |-> 0, dd |-> g.dd + g.data] BY <1>4, <1>6 DEF ThType, ThShape
  <2>2. r.held \in HeldType BY <1>4, <2>1 DEF HeldType
  <2> QED BY <1>4, <1>6, <2>1, <2>2, SpaceAssumption, ThTyped DEF ThType, ThFields
<1>10. ThreadStep(t, r) BY <1>1, <1>2, <1>3, <1>7, <1>9, SpaceAssumption, Plain, QuietStep DEF Readers, ThOk
<1>11. PICK c : c = bi' OBVIOUS
<1>12. BudgetStep(t, r)
  BY <1>2, <1>3, <1>4, <1>7, <1>8, <1>9, <1>11, RecalculatedIs DEF BudgetStep, HeldType, BudgetType, ThType
<1> QED BY <1>1, <1>10, <1>12, BudgetChange, ThreadOnly

ReleasePre(a, g, b, c) ==
    /\ a \in BudgetType /\ g \in HeldType /\ a.min_idx = MinIdxLebs(a)
    /\ b = IF g = NoGrowth THEN a ELSE Released(a, g)
    /\ c = [b EXCEPT !.nospace = FALSE, !.nospace_rp = FALSE]
\* What is left of the budget when a thread has released its own.
LEMMA ReleasedIs ==
    ASSUME NEW a, NEW g, NEW b, NEW c, ReleasePre(a, g, b, c)
    PROVE  /\ c \in BudgetType /\ c.min_idx = MinIdxLebs(c)
           /\ c.idx = a.idx - g.idx /\ c.data = a.data - g.data /\ c.dd = a.dd - g.dd
<1> /\ a \in BudgetType /\ g \in HeldType /\ a.min_idx = MinIdxLebs(a)
    /\ b = IF g = NoGrowth THEN a ELSE Released(a, g)
    /\ c = [b EXCEPT !.nospace = FALSE, !.nospace_rp = FALSE] BY DEF ReleasePre
<1>1. b \in BudgetType /\ b.min_idx = MinIdxLebs(b) /\ b.idx = a.idx - g.idx /\ b.data = a.data - g.data
      /\ b.dd = a.dd - g.dd
  <2>1. CASE g = NoGrowth BY <2>1, IdleIs DEF BudgetType
  <2>2. CASE g # NoGrowth
    <3>1. PICK d : d = [a EXCEPT !.idx = @ - g.idx, !.uncommitted = @ + g.idx, !.data = @ - g.data,
                                 !.dd = @ - g.dd] OBVIOUS
    <3>2. /\ d.idx = a.idx - g.idx /\ d.data = a.data - g.data /\ d.dd = a.dd - g.dd
          /\ d.uncommitted = a.uncommitted + g.idx /\ d.old = a.old /\ d.min_idx = a.min_idx
          /\ d.nospace = a.nospace /\ d.nospace_rp = a.nospace_rp BY <3>1 DEF BudgetType
    <3>3. BudgetShape(d) BY <3>1 DEF BudgetType, BudgetShape
    <3>4. d \in BudgetType BY <3>2, <3>3, BudgetTyped DEF BudgetType, BudgetFields, HeldType
    <3> QED BY <2>2, <3>1, <3>2, <3>4, RecalculatedIs DEF Released
  <2> QED BY <2>1, <2>2
<1> QED BY <1>1 DEF MinIdxLebs, BudgetType

\* ubifs_release_budget() keeps the invariant.
LEMMA ReleaseKeeps ==
    ASSUME IInv, NEW t \in Threads, Release(t)
    PROVE  IInv'
<1>1. th[t] \in ThType /\ ThOk(th[t], sp.lp) /\ (\E D : th \in [Threads -> D]) /\ bi \in BudgetType
      /\ (\A u \in Threads : th[u].held \in HeldType) /\ bi.min_idx = MinIdxLebs(bi) BY ThreadFacts
<1>2. PICK r, g, a : r = Idle /\ g = th[t].held /\ a = bi OBVIOUS
<1>3. PICK b : b = IF g = NoGrowth THEN a ELSE Released(a, g) OBVIOUS
<1>4. PICK c : c = [b EXCEPT !.nospace = FALSE, !.nospace_rp = FALSE] OBVIOUS
<1>5. th' = [th EXCEPT ![t] = r] /\ bi' = c BY <1>2, <1>3, <1>4 DEF Release
<1>6. a \in BudgetType /\ g \in HeldType /\ a.min_idx = MinIdxLebs(a) BY <1>1, <1>2
<1>7. /\ c \in BudgetType /\ c.min_idx = MinIdxLebs(c)
      /\ c.idx = a.idx - g.idx /\ c.data = a.data - g.data /\ c.dd = a.dd - g.dd
  <2>1. ReleasePre(a, g, b, c) BY <1>3, <1>4, <1>6 DEF ReleasePre
  <2> QED BY <2>1, ReleasedIs
<1>8. r \in ThType /\ r.pc = "idle" /\ r.held = NoGrowth /\ r.leb = None /\ r.held \in HeldType
      /\ r.held.idx = 0 /\ r.held.data = 0 /\ r.held.dd = 0 BY <1>2, IdleIs
<1>9. BudgetStep(t, r) BY <1>1, <1>2, <1>5, <1>6, <1>7, <1>8 DEF BudgetStep, BudgetType, HeldType
<1> QED
  BY <1>1, <1>5, <1>8, <1>9, QuietStep, BudgetChange, ThreadOnly DEF Readers, ThOk, Release, unmoved, data,
     index, idle

\* make_reservation() begins.
LEMMA WriteKeeps ==
    ASSUME IInv, NEW t \in Threads, Write(t)
    PROVE  IInv'
<1>1. th[t].pc = "dirty" /\ cmt.pc \notin Exclusive /\ UNCHANGED unmoved /\ gc' = gc /\ bi' = bi
  BY DEF Write, unmoved, lpvars, data, index, jother
<1>2. th[t] \in ThType /\ ThOk(th[t], sp.lp) BY ThreadFacts
<1>3. PICK q : q = th[t] OBVIOUS
<1>4. PICK n \in Sizes : th' = [th EXCEPT ![t] = [@ EXCEPT !.pc = "reserve", !.len = n, !.any = FALSE,
                                              !.tries = 0, !.nospc = 0]] BY DEF Write
<1>5. PICK r : r = [q EXCEPT !.pc = "reserve", !.len = n, !.any = FALSE, !.tries = 0, !.nospc = 0] OBVIOUS
<1>6. q \in ThType BY <1>2, <1>3
<1>7. ThShape(r) /\ r.leb = q.leb /\ r.held = q.held /\ r.pc = "reserve" /\ r.len = n /\ ~r.any /\ r.kind = q.kind
  BY <1>5, <1>6 DEF ThType, ThShape
<1>8. ThFields(r) BY <1>5, <1>6, SizeAssumption DEF ThType, ThFields, Pcs
<1> QED BY <1>1, <1>2, <1>3, <1>4, <1>5, <1>7, <1>8, ThTyped, ThreadQuiet DEF ThreadStep, unmoved, Finding, ThOk

\* A thread enters the garbage collector, or is sent to the commit.
LEMMA GcEnterKeeps ==
    ASSUME IInv, NEW t \in Threads, GcEnter(t)
    PROVE  IInv'
<1>1. th[t].pc = "gcwait" /\ gc.by = None /\ UNCHANGED unmoved /\ bi' = bi
  BY DEF GcEnter, unmoved, lpvars, data, index, gcother
<1>2. th[t] \in ThType /\ ThOk(th[t], sp.lp) /\ (\E D : th \in [Threads -> D]) BY ThreadFacts
<1>3. PICK q : q = th[t] OBVIOUS
<1>4. q \in ThType BY <1>2, <1>3
<1>5. ASSUME NEW r, r = [q EXCEPT !.pc = "gcdone", !.err = "again"] \/ r = [q EXCEPT !.pc = "gc"],
             th' = [th EXCEPT ![t] = r]
      PROVE  ThreadStep(t, r) /\ r.held = th[t].held
  <2>1. ThShape(r) /\ r.leb = q.leb /\ r.held = q.held /\ r.pc \in {"gc", "gcdone"} /\ r.len = q.len
        /\ r.any = q.any /\ r.kind = q.kind BY <1>4, <1>5 DEF ThType, ThShape
  <2>2. ThFields(r)
    <3>1. CASE r = [q EXCEPT !.pc = "gcdone", !.err = "again"] BY <1>4, <3>1 DEF ThType, ThFields, Pcs, Errs
    <3>2. CASE r = [q EXCEPT !.pc = "gc"] BY <1>4, <3>2 DEF ThType, ThFields, Pcs
    <3> QED BY <1>5, <3>1, <3>2
  <2> QED
    BY <1>1, <1>2, <1>3, <1>5, <2>1, <2>2, ThTyped DEF ThreadStep, unmoved, Finding, Reading, Readers, ThOk
<1>6. CASE required
  <2>1. PICK r : r = [q EXCEPT !.pc = "gcdone", !.err = "again"] OBVIOUS
  <2>2. th' = [th EXCEPT ![t] = r] /\ gc' = gc BY <1>3, <1>6, <2>1 DEF GcEnter
  <2> QED BY <1>1, <1>5, <2>1, <2>2, ThreadQuiet
<1>7. CASE ~required
  <2>1. PICK r : r = [q EXCEPT !.pc = "gc"] OBVIOUS
  <2>2. th' = [th EXCEPT ![t] = r] /\ gc' = [NoGc EXCEPT !.by = t, !.any = th[t].any, !.pc = "iter"]
    BY <1>3, <1>7, <2>1 DEF GcEnter
  <2>3. ThreadStep(t, r) /\ r.held = th[t].held BY <1>5, <2>1, <2>2
  <2>4. th'[t].pc = "gc" /\ \A u \in Threads : th'[u].held = th[u].held
    BY <1>2, <1>4, <2>1, <2>2, <2>3 DEF ThType
  <2>5. PICK a, w : a = th[t].any /\ w = gc' OBVIOUS
  <2>6. w = [by |-> t, any |-> a, pc |-> "iter", i |-> 0, min |-> DeadWm, leb |-> None,
             moved |-> FALSE, before |-> 0, err |-> "none"] BY <2>2, <2>5 DEF NoGc
  <2>7. gc.pc = "off" /\ gc_lnum # None /\ gc.leb = None BY <1>1 DEF IInv, GcInv
  <2>8. GcInv'
    BY <1>1, <1>2, <2>4, <2>5, <2>6, <2>7, SizeAssumption, SpaceAssumption DEF GcInv, unmoved, GcType, GcPcs,
       Errs, Maybe, ThType
  <2> QED BY <1>1, <2>3, <2>4, <2>5, <2>6, <2>7, <2>8, BudgetFrame, ThreadOnly DEF IInv
<1> QED BY <1>6, <1>7

(***************************************************************************)
(* What a step may rely on.                                                *)
(***************************************************************************)
\* f is where each LEB is, read off the variables.
OwnIs(f) ==
    /\ f \in [LEBs -> Spots]
    /\ \A l \in LEBs :
          /\ \A h \in Heads : f[l] = <<"head", h>> <=> jh[h].leb = l
          /\ \A t \in Threads : f[l] = <<"thread", t>> <=> th[t].leb = l
          /\ f[l] = <<"reserved", 0>> <=> gc_lnum = l
          /\ f[l] = <<"ihead", 0>> <=> cmt.ihead = l
          /\ f[l] = <<"garbage", 0>> <=> gc.leb = l
          /\ f[l] = <<"erase", 0>> <=> l \in GcLebs
          /\ f[l] = <<"bud", 0>> <=> l \in buds \ HeadLebs
          /\ f[l] = <<"old", 0>> <=> l \in old_buds
          /\ f[l] = <<"layout", 0>> <=> l \in cmt.ilebs
          /\ f[l] = <<"written", 0>> <=> l \in cmt.gaps \cup cmt.full
          /\ f[l] = Nobody <=> ~sp.lp[l].taken

\* OwnOk, read off the variables.
LEMMA OwnRead ==
    ASSUME NEW f, OwnOk(f, Places)
    PROVE  OwnIs(f)
<1>1. PICK o : o = Places OBVIOUS
<1> QED BY <1>1 DEF OwnIs, OwnOk, Where, Places

\* The spots by their names.
LEMMA SpotIs ==
    ASSUME NEW o \in Spots
    PROVE  /\ o[1] = "head" => o[2] \in Heads /\ o = <<"head", o[2]>>
           /\ o[1] = "thread" => o[2] \in Threads /\ o = <<"thread", o[2]>>
           /\ \A x \in {"reserved", "ihead", "garbage", "erase", "bud", "old", "layout", "written"} :
                 o[1] = x => o = <<x, 0>>
           /\ o[1] = "nobody" => o = Nobody
BY DEF Spots, Nobody

\* LebOk does not depend on the category.
LEMMA LebSame ==
    ASSUME NEW p, NEW q, SameSpace(q, p), NEW n, NEW old, NEW o, NEW u, LebOk(p, n, old, o, u)
    PROVE  LebOk(q, n, old, o, u)
BY DEF LebOk, SameSpace, Spc

\* A write-buffer w is on a LEB of properties that fit.
BufOk(w, lp) ==
    /\ w.leb = None => w.used = 0
    /\ w.leb # None => /\ ~lp[w.leb].index
                       /\ lp[w.leb].free = LebSize - w.offs
                       /\ w.offs + w.used <= LebSize
WbufOf(j, o) == IF o[1] = "head" THEN j[o[2]].used ELSE 0

\* The LEB properties s and the write-buffers j are those of now, or of now but
\* with some write-buffers on flash.
Base(f, s, j) ==
    /\ SpOk(s, Twice, Cardinality(GcLebs))
    /\ Total("size", s.lp) = Total("size", sp.lp)
    /\ \A l \in LEBs : /\ s.lp[l] \in Props
                       /\ s.lp[l].taken = sp.lp[l].taken
                       /\ s.lp[l].index = sp.lp[l].index
                       /\ s.lp[l].dirty = sp.lp[l].dirty
                       /\ f[l][1] # "head" => SameSpace(s.lp[l], sp.lp[l])
                       /\ LebOk(s.lp[l], Size(live[l]), old_idx[l], f[l], WbufOf(j, f[l]))
    /\ j \in HeadType
    /\ \A h \in Heads : j[h].leb = jh[h].leb /\ j[h].by = jh[h].by /\ BufOk(j[h], s.lp)

\* The LEBs to be erased are finitely many.
LEMMA GcLebsFacts ==
    ASSUME IInv
    PROVE  GcLebs \in SUBSET LEBs /\ IsFiniteSet(GcLebs) /\ Cardinality(GcLebs) \in Int /\ Twice \in Int
BY SizeAssumption, FS_Subset, FS_CardinalityType DEF IInv, EraseInv, GcLebs, Twice, Num

\* SameSpace is reflexive.
LEMMA SameIs == \A p : SameSpace(p, p)
BY DEF SameSpace

\* What the invariant says of the LEBs.
LEMMA BaseNow ==
    ASSUME IInv
    PROVE  \E f : OwnOk(f, Places) /\ OwnIs(f) /\ Base(f, sp, jh)
<1>1. PICK f : OwnOk(f, Places) /\ LebsOk(f) BY DEF IInv, OwnInv
<1> QED
  BY <1>1, OwnRead, SameIs DEF Base, SpOk, SpType, IInv, CountInv, LebsOk, Wbuf, WbufOf, HeadInv, HeadOk, BufOk

\* What it says of the heads.
LEMMA HeadsNow ==
    ASSUME IInv, NEW f, OwnIs(f)
    PROVE  HeadsOk(sp.lp)
<1>1. jh \in HeadType /\ \A h \in Heads : HeadOk(sp.lp, h) BY DEF IInv, HeadInv
<1>2. ASSUME NEW h \in Heads, NEW k \in Heads, jh[h].leb = jh[k].leb, jh[h].leb # None
      PROVE  h = k
  <2>1. PICK l : l = jh[h].leb OBVIOUS
  <2> QED BY <1>1, <1>2, <2>1 DEF OwnIs, HeadType, Maybe
<1> QED BY <1>1, <1>2 DEF HeadsOk

\* Some write-buffers are on flash.
LEMMA BaseSynced ==
    ASSUME IInv, NEW f, OwnIs(f), Base(f, sp, jh), NEW hs \in SUBSET Heads
    PROVE  Base(f, Synced(sp, hs), JhSynced(hs))
<1>1. PICK s, j, e, g : s = Synced(sp, hs) /\ j = JhSynced(hs) /\ e = Twice /\ g = Cardinality(GcLebs) OBVIOUS
<1>2. HeadsOk(sp.lp) BY HeadsNow
<1>3. SyncPost(s, sp, e, g, hs) BY <1>1, <1>2, GcLebsFacts, SyncedIs DEF Base
<1>4. jh \in HeadType BY DEF Base
<1>5. \A h \in Heads : /\ jh[h].leb \in Maybe(LEBs) /\ jh[h].offs \in Int /\ jh[h].used \in Nat
                       /\ jh[h].by \in Maybe(Threads) BY <1>4 DEF HeadType
<1>6. j = [h \in Heads |-> IF h \in hs THEN SyncedHead(jh[h]) ELSE jh[h]] BY <1>1 DEF JhSynced
<1>7. \A h \in hs : /\ j[h].leb = jh[h].leb /\ j[h].by = jh[h].by /\ j[h].used = 0
                    /\ j[h].offs = jh[h].offs + jh[h].used
                    /\ SyncedHead(jh[h]) = [jh[h] EXCEPT !.offs = jh[h].offs + jh[h].used, !.used = 0]
                    /\ j[h] = SyncedHead(jh[h])
  <2> SUFFICES ASSUME NEW h \in hs
               PROVE  /\ j[h].leb = jh[h].leb /\ j[h].by = jh[h].by /\ j[h].used = 0
                      /\ j[h].offs = jh[h].offs + jh[h].used
                      /\ SyncedHead(jh[h]) = [jh[h] EXCEPT !.offs = jh[h].offs + jh[h].used, !.used = 0]
                      /\ j[h] = SyncedHead(jh[h]) OBVIOUS
  <2>1. PICK w : w = jh[h] OBVIOUS
  <2> QED BY <1>4, <1>6, <2>1 DEF SyncedHead, HeadType
<1>8. \A h \in Heads \ hs : j[h] = jh[h] BY <1>6
<1>9. j \in HeadType
  <2> SUFFICES ASSUME NEW h \in Heads
               PROVE  j[h] \in [leb : Maybe(LEBs), offs : Int, used : Nat, by : Maybe(Threads)]
    BY <1>6 DEF HeadType
  <2>1. CASE h \notin hs BY <1>4, <1>8, <2>1 DEF HeadType
  <2>2. CASE h \in hs
    <3>1. PICK w, x : w = jh[h] /\ x = jh[h].offs + jh[h].used OBVIOUS
    <3>2. w \in [leb : Maybe(LEBs), offs : Int, used : Nat, by : Maybe(Threads)] /\ x \in Int
      BY <1>4, <1>5, <3>1 DEF HeadType
    <3>3. PICK a, b : a = w.leb /\ b = w.by OBVIOUS
    <3>4. j[h] = [leb |-> a, offs |-> x, used |-> 0, by |-> b] BY <1>7, <2>2, <3>1, <3>2, <3>3
    <3> QED BY <3>2, <3>3, <3>4
  <2> QED BY <2>1, <2>2
<1>10. \A h, k \in Heads : jh[h].leb = jh[k].leb /\ jh[h].leb # None => h = k BY <1>2 DEF HeadsOk
<1>11. \A l \in LEBs : s.lp[l] \in Props /\ s.lp[l].taken = sp.lp[l].taken /\ s.lp[l].index = sp.lp[l].index
                       /\ s.lp[l].dirty = sp.lp[l].dirty BY <1>3 DEF SyncPost, SpOk, SpType
<1>12. \A l \in LEBs : f[l][1] # "head" => SameSpace(s.lp[l], sp.lp[l])
  <2> SUFFICES ASSUME NEW l \in LEBs, f[l][1] # "head" PROVE s.lp[l].free = sp.lp[l].free BY <1>11 DEF SameSpace
  <2> QED BY <1>3 DEF SyncPost, OwnIs
<1>13. \A h \in Heads : BufOk(j[h], s.lp)
  <2> SUFFICES ASSUME NEW h \in Heads PROVE BufOk(j[h], s.lp) OBVIOUS
  <2>1. BufOk(jh[h], sp.lp) BY DEF Base
  <2>2. CASE jh[h].leb = None BY <1>7, <1>8, <2>1, <2>2 DEF BufOk
  <2>3. CASE jh[h].leb # None /\ h \in hs
    <3>1. PICK a, b, c, d : a = jh[h].offs /\ b = jh[h].used /\ c = j[h] /\ d = jh[h].leb OBVIOUS
    <3>2. a \in Int /\ b \in Nat /\ c.leb = d /\ c.used = 0 /\ c.offs = a + b BY <1>5, <1>7, <2>3, <3>1
    <3>3. s.lp[d].free = LebSize - c.offs BY <1>3, <1>5, <2>3, <3>1, <3>2, SizeAssumption DEF SyncPost
    <3>4. d \in LEBs /\ d # None BY <1>5, <2>3, <3>1 DEF Maybe
    <3>5. a + b <= LebSize /\ ~sp.lp[d].index BY <2>1, <2>3, <3>1 DEF BufOk
    <3>6. ~s.lp[d].index /\ c.offs + c.used <= LebSize BY <1>11, <3>2, <3>4, <3>5
    <3> QED BY <3>1, <3>2, <3>3, <3>4, <3>6 DEF BufOk
  <2>4. CASE jh[h].leb # None /\ h \notin hs
    BY <1>3, <1>5, <1>8, <1>10, <1>11, <2>1, <2>4 DEF BufOk, SyncPost, Maybe
  <2> QED BY <2>2, <2>3, <2>4
<1>14. \A l \in LEBs : LebOk(s.lp[l], Size(live[l]), old_idx[l], f[l], WbufOf(j, f[l]))
  <2> SUFFICES ASSUME NEW l \in LEBs PROVE LebOk(s.lp[l], Size(live[l]), old_idx[l], f[l], WbufOf(j, f[l]))
    OBVIOUS
  <2>1. PICK n, old, o : n = Size(live[l]) /\ old = old_idx[l] /\ o = f[l] OBVIOUS
  <2>2. LebOk(sp.lp[l], n, old, o, WbufOf(jh, o)) BY <2>1 DEF Base
  <2>3. CASE o[1] # "head" BY <1>12, <2>1, <2>2, <2>3, LebSame DEF WbufOf
  <2>4. CASE o[1] = "head"
    <3>1. PICK h \in Heads : o = <<"head", h>> BY <2>1, <2>4, SpotIs DEF OwnIs
    <3>2. jh[h].leb = l /\ l # None
      <4>1. f[l] = <<"head", h>> BY <2>1, <3>1
      <4> QED BY <4>1, SpaceAssumption DEF OwnIs
    <3>3. ~sp.lp[l].index /\ n = LebSize - Spc(sp.lp[l]) + jh[h].used /\ old = 0
          /\ sp.lp[l] \in Props BY <2>2, <3>1 DEF LebOk, WbufOf, Base
    <3>4. h \notin hs => s.lp[l].free = sp.lp[l].free
      <4> SUFFICES ASSUME h \notin hs PROVE \A k \in hs : jh[k].leb # l BY <1>3 DEF SyncPost
      <4> QED BY <1>10, <3>2
    <3>5. h \in hs => j[h].used = 0 BY <1>7
    <3>6. ~s.lp[l].index /\ n = LebSize - Spc(s.lp[l]) + j[h].used
      <4>1. s.lp[l].dirty = sp.lp[l].dirty /\ s.lp[l].dirty \in Nat /\ sp.lp[l].free \in Nat /\ LebSize \in Nat
            /\ jh[h].offs \in Int /\ jh[h].used \in Nat BY <1>5, <1>11, <3>3, SizeAssumption DEF Props
      <4>2. sp.lp[l].free = LebSize - jh[h].offs BY <3>2 DEF Base, BufOk
      <4>3. h \in hs => s.lp[l].free = LebSize - jh[h].offs - jh[h].used BY <1>3, <3>2 DEF SyncPost
      <4>4. n = LebSize - (s.lp[l].free + s.lp[l].dirty) + j[h].used
        BY <1>8, <3>3, <3>4, <3>5, <4>1, <4>2, <4>3 DEF Spc
      <4> QED BY <1>11, <3>3, <4>4 DEF Spc
    <3> QED BY <2>1, <2>4, <3>1, <3>3, <3>6, SizeAssumption DEF WbufOf, LebOk
  <2> QED BY <2>3, <2>4
<1> QED BY <1>1, <1>3, <1>7, <1>8, <1>9, <1>11, <1>12, <1>13, <1>14 DEF Base, SyncPost

(***************************************************************************)
(* The conjuncts of the invariant after a step.                            *)
(***************************************************************************)

\* Changing one LEB: the counters, and what the other LEBs keep.
LEMMA ChangeBase ==
    ASSUME IInv, NEW f, NEW s, NEW j, Base(f, s, j), NEW l \in LEBs, NEW n \in Props, n.cat = s.lp[l].cat,
           NEW d \in Int
    PROVE  /\ ChangePost(ChangeLp(s, l, n, d), s, Twice, Cardinality(GcLebs), l, n, d)
           /\ \A k \in LEBs : ChangeLp(s, l, n, d).lp[k] \in Props
<1>1. PICK e, g, r : e = Twice /\ g = Cardinality(GcLebs) /\ r = ChangeLp(s, l, n, d) OBVIOUS
<1>2. ChangePost(r, s, e, g, l, n, d) BY <1>1, GcLebsFacts, ChangeIs DEF ChangePre, Base
<1> QED BY <1>1, <1>2 DEF ChangePost, SpOk, SpType

\* OwnInv after a step.
LEMMA OwnNext ==
    ASSUME NEW f, NEW o, o = Places', OwnOk(f, o),
           \A l \in LEBs : LebOk(sp'.lp[l], Size(live'[l]), old_idx'[l], f[l], WbufOf(jh', f[l]))
    PROVE  OwnInv'
BY DEF OwnInv, LebsOk, Wbuf, WbufOf

\* One LEB is changed.
TouchPre(f, s, j, r, l, n, f2, j2, lv, od) ==
    /\ Base(f, s, j)
    /\ \A k \in LEBs \ {l} : SameSpace(r.lp[k], s.lp[k])
    /\ SameSpace(r.lp[l], n)
    /\ \A k \in LEBs \ {l} : f2[k] = f[k] /\ WbufOf(j2, f[k]) = WbufOf(j, f[k]) /\ od[k] = old_idx[k]
                             /\ lv[k] = live[k]
    /\ LebOk(n, Size(lv[l]), od[l], f2[l], WbufOf(j2, f2[l]))
\* When one LEB is changed, all are in order if it is.
LEMMA Touched ==
    ASSUME NEW f, NEW s, NEW j, NEW r, NEW l, NEW n, NEW f2, NEW j2, NEW lv, NEW od,
           TouchPre(f, s, j, r, l, n, f2, j2, lv, od)
    PROVE  \A k \in LEBs : LebOk(r.lp[k], Size(lv[k]), od[k], f2[k], WbufOf(j2, f2[k]))
<1> SUFFICES ASSUME NEW k \in LEBs PROVE LebOk(r.lp[k], Size(lv[k]), od[k], f2[k], WbufOf(j2, f2[k])) OBVIOUS
<1>1. CASE k = l BY <1>1, LebSame DEF TouchPre
<1>2. CASE k # l BY <1>2, LebSame DEF TouchPre, Base
<1> QED BY <1>1, <1>2

\* HeadInv after a step.
LEMMA HeadNext ==
    ASSUME jh' \in HeadType, \A h \in Heads : BufOk(jh'[h], sp'.lp),
           \A h \in Heads : jh'[h].leb # None => jh'[h].leb \in buds'
    PROVE  HeadInv'
BY DEF HeadInv, HeadOk, BufOk

\* A LEB no head is on does not matter to them.
LEMMA BufsKept ==
    ASSUME NEW f, OwnIs(f), NEW s, NEW j, Base(f, s, j), NEW lp,
           \A k \in LEBs : f[k][1] = "head" => SameSpace(lp[k], s.lp[k])
    PROVE  \A h \in Heads : BufOk(j[h], lp)
<1> SUFFICES ASSUME NEW h \in Heads PROVE BufOk(j[h], lp) OBVIOUS
<1>1. BufOk(j[h], s.lp) /\ j[h].leb = jh[h].leb /\ j[h].leb \in Maybe(LEBs) BY DEF Base, HeadType
<1>2. CASE j[h].leb = None BY <1>1, <1>2 DEF BufOk
<1>3. CASE j[h].leb # None BY <1>1, <1>3 DEF BufOk, SameSpace, OwnIs, Maybe
<1> QED BY <1>2, <1>3

\* A thread that still has its LEB.
Untouched(f, lp, u) ==
    /\ OwnIs(f) /\ u \in Threads
    /\ \A k \in LEBs : f[k] = <<"thread", u>> => lp[k].free = sp.lp[k].free
\* A thread whose LEB has the free space it had.
LEMMA ThKept ==
    ASSUME IInv, NEW f, NEW lp, NEW u, Untouched(f, lp, u)
    PROVE  ThOk(th[u], lp)
<1> /\ OwnIs(f) /\ u \in Threads
    /\ \A k \in LEBs : f[k] = <<"thread", u>> => lp[k].free = sp.lp[k].free BY DEF Untouched
<1>1. ThOk(th[u], sp.lp) /\ th[u] \in ThType BY ThreadFacts
<1>2. CASE th[u].leb = None BY <1>1, <1>2 DEF ThOk
<1>3. CASE th[u].leb # None
  <2>1. PICK k : k = th[u].leb OBVIOUS
  <2> QED BY <1>1, <1>3, <2>1 DEF ThOk, OwnIs, ThType, Maybe
<1> QED BY <1>2, <1>3

ThreadPre(f, lp, T, t, r, m) ==
    /\ OwnIs(f)
    /\ T = [th EXCEPT ![t] = r] /\ ThOk(r, lp)
    /\ \A k \in LEBs : f[k][1] = "thread" /\ f[k] # <<"thread", t>> => lp[k].free = sp.lp[k].free
    /\ Finding(r) => m.by = "find" /\ \A u \in Threads \ {t} : ~Finding(th[u])
    /\ \A u \in Threads \ {t} : Finding(th[u]) => m.by = "find"
\* ThreadInv after a step of a thread.
LEMMA ThreadNext ==
    ASSUME IInv, NEW f, NEW t \in Threads, NEW r, ThreadPre(f, sp'.lp, th', t, r, lp_mutex')
    PROVE  ThreadInv'
<1>1. PICK lp, T, m : lp = sp'.lp /\ T = th' /\ m = lp_mutex' OBVIOUS
<1>2. ThreadPre(f, lp, T, t, r, m) BY <1>1
<1>3. PICK D : th \in [Threads -> D] BY DEF IInv, ThreadInv
<1>4. /\ T[t] = r /\ T \in [Threads -> D \cup {r}] /\ \A u \in Threads \ {t} : T[u] = th[u]
  BY <1>2, <1>3 DEF ThreadPre
<1>5. \A u \in Threads : ThOk(T[u], lp)
  <2>1. \A u \in Threads \ {t} : ThOk(th[u], lp)
    <3> SUFFICES ASSUME NEW u \in Threads \ {t} PROVE ThOk(th[u], lp) OBVIOUS
    <3>1. Untouched(f, lp, u) BY <1>2 DEF ThreadPre, Untouched
    <3> QED BY <3>1, ThKept
  <2> QED BY <1>2, <1>4, <2>1 DEF ThreadPre
<1>6. \A u \in Threads : Finding(T[u]) => m.by = "find" /\ \A v \in Threads : Finding(T[v]) => v = u
  BY <1>2, <1>4 DEF IInv, ThreadInv, ThreadPre
<1> QED BY <1>1, <1>4, <1>5, <1>6 DEF ThreadInv, Finding

\* ThreadInv after a step of no thread.
LEMMA ThreadSame ==
    ASSUME IInv, NEW f, OwnIs(f), th' = th, NEW lp, lp = sp'.lp,
           \A k \in LEBs : f[k][1] = "thread" => lp[k].free = sp.lp[k].free,
           (\E t \in Threads : Finding(th[t])) => lp_mutex'.by = "find"
    PROVE  ThreadInv'
<1>1. \A u \in Threads : ThOk(th[u], lp)
  <2> SUFFICES ASSUME NEW u \in Threads PROVE ThOk(th[u], lp) OBVIOUS
  <2>1. Untouched(f, lp, u) BY DEF Untouched
  <2> QED BY <2>1, ThKept
<1> QED BY <1>1 DEF ThreadInv, Finding, IInv

\* GcInv after a step that is not of the collector.
LEMMA GcNext ==
    ASSUME IInv, gc' = gc, gc_lnum' = gc_lnum, gc.pc = "pick" => lp_mutex'.by = "gc",
           gc.by # None => th'[gc.by].pc = "gc",
           gc.leb # None => SameSpace(sp'.lp[gc.leb], sp.lp[gc.leb]),
           gc_lnum = None /\ gc.pc = "move" =>
               jh'[GCHD].leb = jh[GCHD].leb /\ jh'[GCHD].offs = jh[GCHD].offs /\ jh'[GCHD].used = jh[GCHD].used
    PROVE  GcInv'
<1>1. GcInv BY DEF IInv
<1>2. /\ gc.pc = "off" <=> gc.by = None
      /\ gc.pc \in {"off", "iter", "pick"} => gc.leb = None BY <1>1 DEF GcInv
<1> QED BY <1>1, <1>2 DEF GcInv, SameSpace, Spc

\* CmtInv after a step that is not of the commit.
LEMMA CmtNext ==
    ASSUME IInv, cmt' = cmt, dirty_zn' = dirty_zn \/ cmt.pc \notin Exclusive, old_buds' \subseteq old_buds,
           cmt.pc \in Exclusive => \A t \in Threads : Reading(t)' => Reading(t)
    PROVE  CmtInv'
BY DEF IInv, CmtInv, Exclusive

\* CountInv after a step.
LEMMA CountNext ==
    ASSUME NEW s, s = sp', NEW e, e = Twice', NEW g, g = Cardinality(GcLebs)', SpOk(s, e, g),
           calc_idx_sz' = Total("size", s.lp)
    PROVE  CountInv'
BY DEF CountInv

rest == <<live, gc_lnum, idx_gc, old_buds, bi, dirty_zn, calc_idx_sz, old_idx, dirty_idx, gc, cmt>>

\* Nothing but the LEBs, the heads and a thread changes.
LEMMA RestNext ==
    ASSUME IInv, UNCHANGED rest, \A t \in Threads : th'[t].held = th[t].held,
           buds' \in SUBSET LEBs,
           lp_mutex' \in [by : {"nobody", "find", "gc"}, pick : BOOLEAN, excl : BOOLEAN]
    PROVE  DataInv' /\ EraseInv' /\ BudgetInv'
BY BudgetFrame DEF IInv, DataInv, rest, EraseInv

\* What is at each place, by the variables it is read from.
LebOfHead == [h \in Heads |-> jh[h].leb]
ThreadLebs == [t \in Threads |-> th[t].leb]
Taken == {l \in LEBs : sp.lp[l].taken}
Shape(a, b, c, d, e, f, g, h, i, j, k) ==
    [head |-> a, thread |-> b, reserved |-> c, ihead |-> d, garbage |-> e, erase |-> f, bud |-> g,
     old |-> h, layout |-> i, written |-> j, taken |-> k]
\* The places, now and next.
LEMMA PlacesAre ==
    /\ Places = Shape(LebOfHead, ThreadLebs, gc_lnum, cmt.ihead, gc.leb, GcLebs, buds \ HeadLebs, old_buds,
                      cmt.ilebs, cmt.gaps \cup cmt.full, Taken)
    /\ Places' = Shape(LebOfHead', ThreadLebs', gc_lnum', cmt'.ihead, gc'.leb, GcLebs', buds' \ HeadLebs', old_buds',
                       cmt'.ilebs, cmt'.gaps \cup cmt'.full, Taken')
BY DEF Places, Shape, LebOfHead, ThreadLebs, Taken

Fields(o) == Shape(o.head, o.thread, o.reserved, o.ihead, o.garbage, o.erase, o.bud, o.old, o.layout, o.written, o.taken)
\* OwnOk depends on nothing but the fields.
LEMMA OwnSame ==
    ASSUME NEW g, NEW q, OwnOk(g, q), NEW o, o = Fields(q)
    PROVE  OwnOk(g, o)
BY DEF OwnOk, Where, Fields, Shape, PlaceType

\* A thread returns its LEB.
ReturnStep(f, s, j, t, l, r) ==
    /\ OwnOk(f, Places) /\ OwnIs(f) /\ Base(f, s, j)
    /\ t \in Threads /\ l \in LEBs /\ th[t].leb = l
    /\ sp' = ReturnLeb(s, l)
    /\ th' = [th EXCEPT ![t] = r]
    /\ r.leb = None /\ r.held = th[t].held /\ (\A lp : ThOk(r, lp)) /\ ~Finding(r)
    /\ th[t].pc # "gc"
    /\ Reading(t)' => Reading(t) \/ cmt.pc \notin Exclusive
    /\ jh' \in HeadType
    /\ \A h \in Heads : jh'[h].leb = j[h].leb /\ jh'[h].offs = j[h].offs /\ jh'[h].used = j[h].used
    /\ jh'[GCHD].offs = jh[GCHD].offs /\ jh'[GCHD].used = jh[GCHD].used
    /\ UNCHANGED <<rest, buds, lp_mutex>>

\* A LEB that has been returned.
LEMMA ReturnedIs ==
    ASSUME NEW p \in Props
    PROVE  /\ Returned(p) \in Props /\ Returned(p).cat = p.cat /\ Returned(p).free = p.free
           /\ Returned(p).dirty = p.dirty /\ Returned(p).index = p.index /\ Returned(p).taken = FALSE
           /\ Spc(Returned(p)) = Spc(p) /\ Term("size", Returned(p)) = Term("size", p)
           /\ Term("size", p) \in Int
BY TermType DEF Term, Spc, Props, Returned, Terms

\* The LEBs taken, when one has changed.
LEMMA TakenIs ==
    ASSUME NEW f, NEW s, NEW j, Base(f, s, j), NEW r, NEW l \in LEBs, NEW n,
           \A k \in LEBs \ {l} : SameSpace(r.lp[k], s.lp[k]), SameSpace(r.lp[l], n)
    PROVE  {k \in LEBs : r.lp[k].taken} =
               IF n.taken THEN {k \in LEBs : sp.lp[k].taken} \cup {l} ELSE {k \in LEBs : sp.lp[k].taken} \ {l}
BY DEF SameSpace, Base

\* A thread returns its LEB.
LEMMA ReturnKeeps ==
    ASSUME IInv, NEW f, NEW s, NEW j, NEW t, NEW l, NEW r, ReturnStep(f, s, j, t, l, r)
    PROVE  IInv'
<1> /\ OwnOk(f, Places) /\ OwnIs(f) /\ Base(f, s, j)
    /\ t \in Threads /\ l \in LEBs /\ th[t].leb = l
    /\ th' = [th EXCEPT ![t] = r]
    /\ r.leb = None /\ r.held = th[t].held /\ (\A lp : ThOk(r, lp)) /\ ~Finding(r)
    /\ th[t].pc # "gc"
    /\ jh' \in HeadType
    /\ \A h \in Heads : jh'[h].leb = j[h].leb /\ jh'[h].offs = j[h].offs /\ jh'[h].used = j[h].used
    /\ UNCHANGED <<rest, buds, lp_mutex>> BY DEF ReturnStep
<1>1. PICK n, z : n = Returned(s.lp[l]) /\ z = sp' OBVIOUS
<1>2. z = ChangeLp(s, l, n, 0) BY <1>1 DEF ReturnStep, ReturnLeb, Returned
<1>3. /\ n \in Props /\ n.cat = s.lp[l].cat /\ n.free = s.lp[l].free /\ n.dirty = s.lp[l].dirty
      /\ n.index = s.lp[l].index /\ ~n.taken /\ Spc(n) = Spc(s.lp[l])
      /\ Term("size", n) = Term("size", s.lp[l]) /\ Term("size", n) \in Int BY <1>1, ReturnedIs DEF Base
<1>4. ChangePost(z, s, Twice, Cardinality(GcLebs), l, n, 0) /\ \A k \in LEBs : z.lp[k] \in Props
  BY <1>2, <1>3, ChangeBase
<1>5. /\ \A k \in LEBs \ {l} : SameSpace(z.lp[k], s.lp[k])
      /\ SameSpace(z.lp[l], n)
      /\ SpOk(z, Twice, Cardinality(GcLebs) + 0)
      /\ Total("size", z.lp) = Total("size", s.lp) - Term("size", s.lp[l]) + Term("size", n)
  BY <1>4 DEF ChangePost
<1>6. f[l] = <<"thread", t>> BY DEF OwnIs
<1>7. th'[t] = r /\ \A u \in Threads \ {t} : th'[u] = th[u] BY ThreadFacts
<1>8. OwnInv'
  <2>1. PICK g, o, lv, od, j2 : g = [f EXCEPT ![l] = Nobody] /\ o = Places' /\ lv = live' /\ od = old_idx' /\ j2 = jh'
    OBVIOUS
  <2>2. PICK q : q = Places OBVIOUS
  <2>3. OwnOk(f, q) /\ q.thread[t] = l BY <2>2 DEF Places
  <2>4. ThreadLebs' = [ThreadLebs EXCEPT ![t] = None]
    <3>1. PICK a, b : a = ThreadLebs /\ b = ThreadLebs' OBVIOUS
    <3> QED BY <1>7, <3>1 DEF ThreadLebs
  <2>5. HeadLebs' = HeadLebs /\ LebOfHead' = LebOfHead BY DEF HeadLebs, LebOfHead, Base
  <2>6. OwnOk(g, o)
    <3>1. PICK p : p = [q EXCEPT !.thread = [@ EXCEPT ![t] = None], !.taken = @ \ {l}] OBVIOUS
    <3>2. /\ p.head = q.head /\ p.thread = [q.thread EXCEPT ![t] = None] /\ p.reserved = q.reserved
          /\ p.ihead = q.ihead /\ p.garbage = q.garbage /\ p.erase = q.erase /\ p.bud = q.bud /\ p.old = q.old
          /\ p.layout = q.layout /\ p.written = q.written /\ p.taken = q.taken \ {l}
      BY <2>3, <3>1 DEF OwnOk, Where, PlaceType
    <3>3. /\ LebOfHead' = p.head /\ ThreadLebs' = p.thread /\ gc_lnum' = p.reserved /\ cmt'.ihead = p.ihead
          /\ gc'.leb = p.garbage /\ GcLebs' = p.erase /\ buds' \ HeadLebs' = p.bud /\ old_buds' = p.old
          /\ cmt'.ilebs = p.layout /\ cmt'.gaps \cup cmt'.full = p.written /\ Taken' = p.taken
      BY <1>1, <1>3, <1>5, <2>2, <2>4, <2>5, <3>2, TakenIs, PlacesAre DEF rest, Taken, GcLebs, Shape
    <3> QED BY <2>1, <2>3, <3>1, <3>3, ThreadReturns, PlacesAre, OwnSame DEF Fields
  <2>7. TouchPre(f, s, j, z, l, n, g, j2, lv, od)
    <3>1. g[l] = Nobody /\ \A k \in LEBs \ {l} : g[k] = f[k] BY <2>1 DEF OwnIs
    <3>2. lv = live /\ od = old_idx BY <2>1 DEF rest
    <3>3. LebOk(n, Size(lv[l]), od[l], g[l], 0) BY <1>3, <1>6, <3>1, <3>2 DEF LebOk, Nobody, Base, WbufOf
    <3> QED BY <1>5, <2>1, <3>1, <3>2, <3>3, SpotIs DEF TouchPre, WbufOf, OwnIs, Nobody
  <2> QED BY <1>1, <2>1, <2>6, <2>7, Touched, OwnNext
<1>9. CountInv'
  <2>1. Total("size", s.lp) = calc_idx_sz /\ Total("size", s.lp) \in Int
    BY TotalType DEF Terms, Base, IInv, CountInv, SpOk, SpType
  <2> QED BY <1>1, <1>3, <1>5, <2>1, GcLebsFacts DEF CountInv, Twice, GcLebs, rest
<1>10. HeadInv'
  <2>1. \A h \in Heads : BufOk(j[h], z.lp) BY <1>5, <1>6, BufsKept
  <2> QED BY <1>1, <2>1, HeadNext DEF BufOk, Base, IInv, HeadInv
<1>11. ThreadInv'
  <2>1. PICK T, m : T = th' /\ m = lp_mutex' OBVIOUS
  <2>2. ThreadPre(f, z.lp, T, t, r, m) BY <1>5, <1>6, <2>1 DEF ThreadPre, SameSpace, Base, IInv, ThreadInv
  <2> QED BY <1>1, <2>1, <2>2, ThreadNext
<1>12. GcInv'
  <2>1. gc.leb # None => SameSpace(z.lp[gc.leb], sp.lp[gc.leb])
    <3> SUFFICES ASSUME gc.leb # None PROVE SameSpace(z.lp[gc.leb], sp.lp[gc.leb]) OBVIOUS
    <3>1. PICK k : k = gc.leb OBVIOUS
    <3> QED BY <1>5, <1>6, <3>1 DEF SameSpace, Base, OwnIs, IInv, GcInv, GcType, Maybe
  <2> QED BY <1>1, <1>7, <2>1, SpaceAssumption, GcNext DEF ReturnStep, Base, rest, IInv, GcInv, GcType, Maybe
<1>13. CmtInv' BY <1>7, CmtNext DEF rest, Reading, ReturnStep
<1>14. DataInv' /\ EraseInv' /\ BudgetInv' BY <1>7, RestNext DEF IInv, DataInv
<1> QED BY <1>8, <1>9, <1>10, <1>11, <1>12, <1>13, <1>14 DEF IInv

\* The places, by their names.
LEMMA PlacesNow ==
    /\ Places.head = LebOfHead /\ Places.thread = ThreadLebs /\ Places.reserved = gc_lnum
    /\ Places.ihead = cmt.ihead /\ Places.garbage = gc.leb /\ Places.erase = GcLebs
    /\ Places.bud = buds \ HeadLebs /\ Places.old = old_buds /\ Places.layout = cmt.ilebs
    /\ Places.written = cmt.gaps \cup cmt.full /\ Places.taken = Taken
BY PlacesAre DEF Shape

NextPlaces(p) ==
    /\ LebOfHead' = p.head /\ ThreadLebs' = p.thread /\ gc_lnum' = p.reserved /\ cmt'.ihead = p.ihead
    /\ gc'.leb = p.garbage /\ GcLebs' = p.erase /\ buds' \ HeadLebs' = p.bud /\ old_buds' = p.old
    /\ cmt'.ilebs = p.layout /\ cmt'.gaps \cup cmt'.full = p.written /\ Taken' = p.taken
\* Where the LEBs are after a step.
LEMMA PlacesNext ==
    ASSUME NEW g, NEW p, OwnOk(g, p), NextPlaces(p), NEW o, o = Places'
    PROVE  OwnOk(g, o)
BY PlacesAre, OwnSame DEF NextPlaces, Fields

\* The size of the index as it has been calculated.
LEMMA SizeNow ==
    ASSUME IInv, NEW f, NEW s, NEW j, Base(f, s, j)
    PROVE  Total("size", s.lp) = calc_idx_sz /\ calc_idx_sz \in Int
BY TotalType DEF Terms, Base, IInv, CountInv, SpOk, SpType

\* sp' is s but for LEB l.
SpaceStep(f, s, j, l, n, d) ==
    /\ Base(f, s, j)
    /\ l \in LEBs /\ n \in Props /\ n.cat = s.lp[l].cat /\ d \in Int
    /\ sp' = ChangeLp(s, l, n, d)
\* The LEB properties when one LEB is changed.
LEMMA SpaceIs ==
    ASSUME IInv, NEW f, NEW s, NEW j, NEW l, NEW n, NEW d, SpaceStep(f, s, j, l, n, d)
    PROVE  /\ \A k \in LEBs \ {l} : SameSpace(sp'.lp[k], s.lp[k])
           /\ SameSpace(sp'.lp[l], n)
           /\ \A k \in LEBs : sp'.lp[k] \in Props
           /\ SpOk(sp', Twice, Cardinality(GcLebs) + d)
           /\ Total("size", sp'.lp) = calc_idx_sz - Term("size", s.lp[l]) + Term("size", n)
           /\ Taken' = IF n.taken THEN Taken \cup {l} ELSE Taken \ {l}
<1> /\ Base(f, s, j) /\ l \in LEBs /\ n \in Props /\ n.cat = s.lp[l].cat /\ d \in Int BY DEF SpaceStep
<1>1. PICK z : z = sp' OBVIOUS
<1>2. ChangePost(z, s, Twice, Cardinality(GcLebs), l, n, d) /\ \A k \in LEBs : z.lp[k] \in Props
  BY <1>1, ChangeBase DEF SpaceStep
<1> QED BY <1>1, <1>2, TakenIs, SizeNow DEF Taken, ChangePost

\* It is in its place again, and the counters are right.
TouchStep(f, s, j, l, n, d, g, p) ==
    /\ SpaceStep(f, s, j, l, n, d)
    /\ OwnOk(g, p) /\ NextPlaces(p)
    /\ \A k \in LEBs \ {l} : /\ g[k] = f[k] /\ WbufOf(jh', f[k]) = WbufOf(j, f[k])
                             /\ old_idx'[k] = old_idx[k] /\ live'[k] = live[k]
    /\ LebOk(n, Size(live'[l]), old_idx'[l], g[l], WbufOf(jh', g[l]))
    /\ Twice' = Twice /\ Cardinality(GcLebs') = Cardinality(GcLebs) + d
    /\ calc_idx_sz' = calc_idx_sz - Term("size", s.lp[l]) + Term("size", n)
\* So OwnInv and CountInv are kept.
LEMMA TouchKeeps ==
    ASSUME IInv, NEW f, NEW s, NEW j, NEW l, NEW n, NEW d, NEW g, NEW p, TouchStep(f, s, j, l, n, d, g, p)
    PROVE  OwnInv' /\ CountInv'
<1>1. SpaceStep(f, s, j, l, n, d) BY DEF TouchStep
<1>2. /\ \A k \in LEBs \ {l} : SameSpace(sp'.lp[k], s.lp[k])
      /\ SameSpace(sp'.lp[l], n)
      /\ SpOk(sp', Twice, Cardinality(GcLebs) + d)
      /\ Total("size", sp'.lp) = calc_idx_sz - Term("size", s.lp[l]) + Term("size", n) BY <1>1, SpaceIs
<1>3. PICK z, o, lv, od, j2 : z = sp' /\ o = Places' /\ lv = live' /\ od = old_idx' /\ j2 = jh' OBVIOUS
<1>4. OwnOk(g, o) BY <1>3, PlacesNext DEF TouchStep
<1>5. TouchPre(f, s, j, z, l, n, g, j2, lv, od) BY <1>1, <1>2, <1>3 DEF TouchPre, TouchStep, SpaceStep
<1> QED BY <1>2, <1>3, <1>4, <1>5, Touched, OwnNext DEF CountInv, TouchStep

\* What the heads, the threads, the garbage collector and the commit see of a LEB
\* that none of them has.
LEMMA GarbageKept ==
    ASSUME IInv, NEW f, OwnIs(f), NEW s, NEW j, Base(f, s, j), NEW lp,
           \A k \in LEBs : f[k] = <<"garbage", 0>> => SameSpace(lp[k], s.lp[k])
    PROVE  gc.leb # None => SameSpace(lp[gc.leb], sp.lp[gc.leb])
<1> SUFFICES ASSUME gc.leb # None PROVE SameSpace(lp[gc.leb], sp.lp[gc.leb]) OBVIOUS
<1>1. PICK k : k = gc.leb OBVIOUS
<1> QED BY <1>1 DEF SameSpace, Base, OwnIs, IInv, GcInv, GcType, Maybe

\* A LEB that is not taken.
LEMMA NobodyIs ==
    ASSUME IInv, NEW f, OwnIs(f), NEW l \in LEBs, ~sp.lp[l].taken
    PROVE  /\ f[l] = Nobody /\ f[l][1] = "nobody"
           /\ \A o : OwnOk(f, o) => l \notin o.taken
BY DEF OwnIs, Nobody, OwnOk, Where

(***************************************************************************)
(* A thread finds a LEB, and gives it to its head or back.                 *)
(***************************************************************************)
\* A thread without a LEB, in the journal.
LEMMA PlainJournal ==
    ASSUME NEW lp, NEW r \in ThType, r.leb = None, r.kind \in Requests, ~r.any, r.len \in Sizes,
           r.pc \in {"reserve", "find", "commit", "gcwait"}
    PROVE  ThOk(r, lp)
BY DEF ThOk

\* A head is held, or not any more.
HeldBy(j, h, b, J) ==
    j \in HeadType /\ h \in Heads /\ b \in Maybe(Threads) /\ J = [j EXCEPT ![h].by = b]
\* Nothing else of the head has changed.
LEMMA HeldByIs ==
    ASSUME NEW j, NEW h, NEW b, NEW i, HeldBy(j, h, b, i)
    PROVE  /\ i \in HeadType
           /\ \A k \in Heads : i[k].leb = j[k].leb /\ i[k].offs = j[k].offs /\ i[k].used = j[k].used
           /\ i[h].by = b
<1>0. j \in HeadType /\ h \in Heads /\ b \in Maybe(Threads) BY DEF HeldBy
<1>1. PICK w : w = j[h] OBVIOUS
<1>2. PICK v : v = [w EXCEPT !.by = b] OBVIOUS
<1>3. PICK x, y, z : x = w.leb /\ y = w.offs /\ z = w.used OBVIOUS
<1> QED BY <1>0, <1>1, <1>2, <1>3 DEF HeadType, HeldBy

\* run_gc() has freed a LEB: it is returned.
LEMMA GcFreedKeeps ==
    ASSUME IInv, NEW t \in Threads, GcFreed(t)
    PROVE  IInv'
<1>1. th[t].pc = "gcdone" /\ th[t].any /\ th[t].leb # None /\ UNCHANGED <<rest, buds, lp_mutex, jh>>
  BY DEF GcFreed, rest, data, index
<1>2. th[t] \in ThType /\ ThOk(th[t], sp.lp) /\ \E D : th \in [Threads -> D] BY ThreadFacts
<1>3. th[t].held = NoGrowth /\ th[t].kind \in Requests /\ th[t].leb \in LEBs
  BY <1>1, <1>2 DEF ThOk, ThType, Maybe
<1>4. PICK q, l : q = th[t] /\ l = th[t].leb OBVIOUS
<1>5. PICK r : r = [q EXCEPT !.pc = "again", !.leb = None, !.err = "none"] OBVIOUS
<1>6. th' = [th EXCEPT ![t] = r] BY <1>4, <1>5 DEF GcFreed
<1>7. q \in ThType BY <1>2, <1>4
<1>8. ThShape(r) /\ r.leb = None /\ r.held = q.held /\ r.pc = "again" /\ r.kind = q.kind
  BY <1>5, <1>7 DEF ThType, ThShape
<1>9. \A lp : ThOk(r, lp) BY <1>3, <1>4, <1>5, <1>7, <1>8, ThTyped, Plain DEF ThType, ThFields, Pcs, Errs, Maybe
<1>10. PICK f : OwnOk(f, Places) /\ OwnIs(f) /\ Base(f, sp, jh) BY BaseNow
<1>11. ~Reading(t)' BY <1>2, <1>6, <1>8 DEF Reading, Readers
<1>12. PICK s, j : s = sp /\ j = jh OBVIOUS
<1>13. sp' = ReturnLeb(s, l) BY <1>4, <1>12 DEF GcFreed
<1>14. jh' \in HeadType BY <1>1, <1>10 DEF Base
<1>15. ReturnStep(f, s, j, t, l, r)
  BY <1>1, <1>3, <1>4, <1>6, <1>8, <1>9, <1>10, <1>11, <1>12, <1>13, <1>14 DEF ReturnStep, Finding
<1> QED BY <1>15, ReturnKeeps

\* No LEB moves.
LEMMA LebsStill ==
    ASSUME IInv, sp'.lp = sp.lp, live' = live, old_idx' = old_idx, gc_lnum' = gc_lnum, idx_gc' = idx_gc,
           buds' = buds, old_buds' = old_buds, gc'.leb = gc.leb,
           cmt'.ihead = cmt.ihead, cmt'.ilebs = cmt.ilebs, cmt'.gaps \cup cmt'.full = cmt.gaps \cup cmt.full,
           \A h \in Heads : jh'[h].leb = jh[h].leb /\ jh'[h].used = jh[h].used,
           \A t \in Threads : th'[t].leb = th[t].leb
    PROVE  OwnInv'
<1>1. PICK f : OwnOk(f, Places) /\ OwnIs(f) /\ Base(f, sp, jh) BY BaseNow
<1>2. PICK o : o = Places' OBVIOUS
<1>3. /\ LebOfHead' = LebOfHead /\ ThreadLebs' = ThreadLebs /\ GcLebs' = GcLebs /\ HeadLebs' = HeadLebs
      /\ Taken' = Taken BY DEF LebOfHead, ThreadLebs, GcLebs, HeadLebs, Taken
<1>4. \A l \in LEBs : LebOk(sp'.lp[l], Size(live'[l]), old_idx'[l], f[l], WbufOf(jh', f[l]))
  BY <1>1, SpotIs DEF Base, WbufOf, OwnIs
<1> QED BY <1>1, <1>2, <1>3, <1>4, PlacesAre, OwnNext

\* A record with the fields of the LEB properties.
LEMMA SpTyped ==
    ASSUME NEW a, NEW m, NEW c, a \in [LEBs -> Props], m \in Lst, c \in BOOLEAN
    PROVE  [lp |-> a, lst |-> m, dirty |-> c] \in SpType
BY DEF SpType

\* A LEB is counted as taken, or not any more.
CountPre(s, e, g, x, z) ==
    e \in Int /\ x \in Int /\ SpOk(s, e, g) /\ z = [s EXCEPT !.lst.taken = @ + x]
\* Nothing else has changed.
LEMMA CountedTwice ==
    ASSUME NEW s, NEW e, NEW g, NEW x, NEW z, CountPre(s, e, g, x, z)
    PROVE  SpOk(z, e + x, g) /\ z.lp = s.lp /\ z.lp \in [LEBs -> Props] /\ \A l \in LEBs : s.lp[l] \in Props
<1>0. e \in Int /\ x \in Int /\ SpOk(s, e, g) /\ z = [s EXCEPT !.lst.taken = @ + x] BY DEF CountPre
<1>1. s \in SpType /\ s.lst \in Lst BY <1>0 DEF SpOk, SpType
<1>2. PICK a, b, c : a = s.lp /\ b = s.lst /\ c = s.dirty OBVIOUS
<1>3. a \in [LEBs -> Props] /\ b \in Lst /\ c \in BOOLEAN BY <1>1, <1>2 DEF SpType
<1>4. PICK y : y = b.taken + x OBVIOUS
<1>5. PICK m : m = [b EXCEPT !.taken = y] OBVIOUS
<1>6. m \in Lst
  <2>1. PICK i1, i2, i3, i4, i5, i6, i7 : /\ i1 = b.empty /\ i2 = b.idx /\ i3 = b.used /\ i4 = b.dead
                                          /\ i5 = b.dark /\ i6 = b.freeable /\ i7 = b.idx_gc OBVIOUS
  <2> QED BY <1>0, <1>3, <1>4, <1>5, <2>1 DEF Lst
<1>7. z = [lp |-> a, lst |-> m, dirty |-> c] BY <1>0, <1>1, <1>2, <1>4, <1>5 DEF SpType
<1>8. z \in SpType
  <2>1. PICK v : v = [lp |-> a, lst |-> m, dirty |-> c] OBVIOUS
  <2> QED BY <1>3, <1>6, <1>7, <2>1, SpTyped
<1>9. /\ m.taken = y /\ m.empty = b.empty /\ m.idx = b.idx /\ m.used = b.used /\ m.dead = b.dead
      /\ m.dark = b.dark /\ m.freeable = b.freeable /\ m.idx_gc = b.idx_gc BY <1>3, <1>5 DEF Lst
<1>10. z.lp = s.lp /\ z.lst = m BY <1>2, <1>7
<1>11. z.lst.taken = Total("taken", z.lp) + (e + x)
  BY <1>0, <1>2, <1>3, <1>4, <1>9, <1>10, TotalType DEF SpOk, Terms
<1> QED BY <1>0, <1>2, <1>3, <1>8, <1>9, <1>10, <1>11 DEF SpOk

\* A step of a thread that moves no LEB.
StillStep(t, r) ==
    /\ t \in Threads /\ th' = [th EXCEPT ![t] = r] /\ ThOk(r, sp.lp)
    /\ r.leb = th[t].leb /\ r.held = th[t].held /\ th[t].pc # "gc"
    /\ Reading(t)' => Reading(t) \/ cmt.pc \notin Exclusive
    /\ sp'.lp = sp.lp /\ SpOk(sp', Twice', Cardinality(GcLebs))
    /\ jh' \in HeadType
    /\ \A h \in Heads : jh'[h].leb = jh[h].leb /\ jh'[h].offs = jh[h].offs /\ jh'[h].used = jh[h].used
    /\ lp_mutex' \in [by : {"nobody", "find", "gc"}, pick : BOOLEAN, excl : BOOLEAN]
    /\ Finding(r) => lp_mutex'.by = "find" /\ \A u \in Threads \ {t} : ~Finding(th[u])
    /\ \A u \in Threads \ {t} : Finding(th[u]) => lp_mutex'.by = "find"
    /\ gc.pc = "pick" => lp_mutex'.by = "gc"
    /\ UNCHANGED <<rest, buds>>

\* Such a step keeps the invariant.
LEMMA StillKeeps ==
    ASSUME IInv, NEW t, NEW r, StillStep(t, r)
    PROVE  IInv'
<1>1. /\ t \in Threads /\ th' = [th EXCEPT ![t] = r] /\ ThOk(r, sp.lp)
      /\ r.leb = th[t].leb /\ r.held = th[t].held /\ th[t].pc # "gc"
      /\ sp'.lp = sp.lp /\ SpOk(sp', Twice', Cardinality(GcLebs))
      /\ jh' \in HeadType
      /\ \A h \in Heads : jh'[h].leb = jh[h].leb /\ jh'[h].offs = jh[h].offs /\ jh'[h].used = jh[h].used
      /\ lp_mutex' \in [by : {"nobody", "find", "gc"}, pick : BOOLEAN, excl : BOOLEAN]
      /\ Finding(r) => lp_mutex'.by = "find" /\ \A u \in Threads \ {t} : ~Finding(th[u])
      /\ \A u \in Threads \ {t} : Finding(th[u]) => lp_mutex'.by = "find"
      /\ gc.pc = "pick" => lp_mutex'.by = "gc" BY DEF StillStep
<1>2. /\ live' = live /\ old_idx' = old_idx /\ gc_lnum' = gc_lnum /\ idx_gc' = idx_gc /\ buds' = buds
      /\ old_buds' = old_buds /\ cmt' = cmt /\ gc' = gc /\ dirty_zn' = dirty_zn /\ calc_idx_sz' = calc_idx_sz
      /\ bi' = bi /\ dirty_idx' = dirty_idx
      /\ UNCHANGED rest BY DEF StillStep, rest
<1>3. PICK D : th \in [Threads -> D] BY DEF IInv, ThreadInv
<1>4. th'[t] = r /\ \A u \in Threads \ {t} : th'[u] = th[u] BY <1>1, <1>3
<1>5. OwnInv' BY <1>1, <1>2, <1>4, LebsStill
<1>6. CountInv' BY <1>1, <1>2 DEF CountInv, GcLebs, IInv
<1>7. HeadInv' BY <1>1, <1>2, HeadNext DEF HeadOk, BufOk, IInv, HeadInv
<1>8. ThreadInv'
  <2>1. PICK f : OwnOk(f, Places) /\ OwnIs(f) /\ Base(f, sp, jh) BY BaseNow
  <2>2. PICK lp, T, m : lp = sp'.lp /\ T = th' /\ m = lp_mutex' OBVIOUS
  <2> QED BY <1>1, <2>1, <2>2, ThreadNext DEF ThreadPre
<1>9. GcInv'
  <2>1. gc.by # None => th'[gc.by].pc = "gc" BY <1>1, <1>4 DEF IInv, GcInv, GcType, Maybe
  <2> QED BY <1>1, <1>2, <2>1, SameIs, SpaceAssumption, GcNext
<1>10. CmtInv'
  <2>1. cmt.pc \in Exclusive => \A u \in Threads : Reading(u)' => Reading(u) BY <1>4 DEF Reading, StillStep
  <2> QED BY <1>2, <2>1, CmtNext
<1>11. DataInv' /\ EraseInv' /\ BudgetInv' BY <1>1, <1>2, <1>4, RestNext DEF IInv, DataInv
<1> QED BY <1>5, <1>6, <1>7, <1>8, <1>9, <1>10, <1>11 DEF IInv

\* Whose turn it is: while the LEB properties are free nobody looks for a LEB.
LEMMA LpFreeIs ==
    ASSUME IInv, LpFree
    PROVE  /\ \A u \in Threads : ~Finding(th[u])
           /\ gc.pc # "pick" /\ Twice = 0 /\ \A u \in Threads : Finding(th[u]) => lp_mutex.by = "find"
BY DEF IInv, ThreadInv, GcInv, LpFree, Twice, Num

\* The thread that looks for a LEB has them.
LEMMA FindingIs ==
    ASSUME IInv, NEW t \in Threads, Finding(th[t])
    PROVE  /\ lp_mutex.by = "find" /\ gc.pc # "pick" /\ \A u \in Threads \ {t} : ~Finding(th[u])
           /\ Twice = Num(lp_mutex.pick)
BY DEF IInv, ThreadInv, GcInv, Twice, Num

\* The free mutex.
LEMMA UnlockedIs ==
    /\ Unlocked \in [by : {"nobody", "find", "gc"}, pick : BOOLEAN, excl : BOOLEAN]
    /\ Unlocked.by = "nobody" /\ ~Unlocked.pick
BY DEF Unlocked

\* The collector has freed a LEB for the journal.
LEMMA GotLebKeeps ==
    ASSUME IInv, NEW t \in Threads, GotLeb(t)
    PROVE  IInv'
<1> DEFINE h == HeadOf[th[t].kind]
           enough == Room(h) >= th[t].len
<1>1. /\ th[t].pc = "gcdone" /\ ~th[t].any /\ th[t].leb # None /\ LpFree /\ UNCHANGED <<rest, buds, lp_mutex>>
      /\ sp' = IF enough THEN ReturnLeb(sp, th[t].leb) ELSE sp
      /\ jh' = IF enough THEN jh ELSE [jh EXCEPT ![h].by = t]
      /\ th' = IF enough THEN [th EXCEPT ![t].pc = "reserve", ![t].leb = None]
                ELSE [th EXCEPT ![t].pc = "bud", ![t].offs = 0] BY DEF GotLeb, rest, jother, index
<1> HIDE DEF enough
<1>2. th[t] \in ThType /\ ThOk(th[t], sp.lp) /\ \E D : th \in [Threads -> D] BY ThreadFacts
<1>3. th[t].kind \in Requests /\ th[t].leb \in LEBs /\ th[t].len \in Sizes /\ sp.lp[th[t].leb].free = LebSize
  BY <1>1, <1>2 DEF ThOk, ThType, Maybe
<1>4. PICK q, l : q = th[t] /\ l = th[t].leb OBVIOUS
<1>5. q \in ThType BY <1>2, <1>4
<1>6. jh \in HeadType BY DEF IInv, HeadInv
<1>7. CASE enough
  <2>1. PICK r : r = [q EXCEPT !.pc = "reserve", !.leb = None] OBVIOUS
  <2>2. th' = [th EXCEPT ![t] = r] BY <1>1, <1>4, <1>7, <2>1
  <2>3. ThShape(r) /\ r.leb = None /\ r.held = q.held /\ r.pc = "reserve" /\ r.kind = q.kind /\ r.any = q.any
        /\ r.len = q.len BY <1>5, <2>1 DEF ThType, ThShape
  <2>4. \A lp : ThOk(r, lp)
    BY <1>1, <1>3, <1>4, <1>5, <2>1, <2>3, ThTyped, PlainJournal DEF ThType, ThFields, Pcs, Errs, Maybe
  <2>5. PICK f : OwnOk(f, Places) /\ OwnIs(f) /\ Base(f, sp, jh) BY BaseNow
  <2>6. Reading(t) BY <1>1 DEF Reading
  <2>7. PICK s, j : s = sp /\ j = jh OBVIOUS
  <2>8. sp' = ReturnLeb(s, l) BY <1>1, <1>4, <1>7, <2>7
  <2>9. jh' = j /\ jh' \in HeadType BY <1>1, <1>6, <1>7, <2>7
  <2>10. ReturnStep(f, s, j, t, l, r)
    BY <1>1, <1>3, <1>4, <2>2, <2>3, <2>4, <2>5, <2>6, <2>7, <2>8, <2>9 DEF ReturnStep, Finding
  <2> QED BY <2>10, ReturnKeeps
<1>8. CASE ~enough
  <2>1. PICK r : r = [q EXCEPT !.pc = "bud", !.offs = 0] OBVIOUS
  <2>2. th' = [th EXCEPT ![t] = r] BY <1>1, <1>4, <1>8, <2>1
  <2>3. ThShape(r) /\ r.leb = q.leb /\ r.held = q.held /\ r.pc = "bud" /\ r.kind = q.kind /\ r.any = q.any
        /\ r.len = q.len /\ r.offs = 0 BY <1>5, <2>1 DEF ThType, ThShape
  <2>4. ThFields(r) BY <1>5, <2>1 DEF ThType, ThFields, Pcs, Errs, Maybe
  <2>5. ThOk(r, sp.lp) BY <1>1, <1>3, <1>4, <2>3, <2>4, ThTyped, SizeAssumption DEF ThOk
  <2>6. PICK i : i = h OBVIOUS
  <2>7. /\ jh' \in HeadType
        /\ \A k \in Heads : jh'[k].leb = jh[k].leb /\ jh'[k].offs = jh[k].offs /\ jh'[k].used = jh[k].used
    <3>1. PICK j, J : j = jh /\ J = jh' OBVIOUS
    <3>2. HeldBy(j, i, t, J) BY <1>1, <1>3, <1>6, <1>8, <2>6, <3>1, SpaceAssumption DEF HeldBy, Maybe
    <3> QED BY <3>1, <3>2, HeldByIs
  <2>8. Reading(t) BY <1>1 DEF Reading
  <2>9. Twice' = Twice /\ sp' = sp /\ lp_mutex' = lp_mutex BY <1>1, <1>8 DEF Twice
  <2>10. ~Finding(r) BY <2>3 DEF Finding
  <2>11. gc.pc # "pick" /\ \A u \in Threads : ~Finding(th[u]) BY <1>1, LpFreeIs
  <2>12. sp'.lp = sp.lp /\ SpOk(sp', Twice', Cardinality(GcLebs)) BY <2>9 DEF IInv, CountInv
  <2>13. r.leb = th[t].leb /\ r.held = th[t].held /\ th[t].pc # "gc" BY <1>1, <1>4, <2>3
  <2>14. lp_mutex' \in [by : {"nobody", "find", "gc"}, pick : BOOLEAN, excl : BOOLEAN] BY <2>9 DEF IInv, DataInv
  <2>15. UNCHANGED <<rest, buds>> BY <1>1
  <2>16. StillStep(t, r) BY <2>2, <2>5, <2>7, <2>8, <2>10, <2>11, <2>12, <2>13, <2>14, <2>15 DEF StillStep
  <2> QED BY <2>16, StillKeeps
<1> QED BY <1>7, <1>8

\* A step of a thread: all but where the LEBs are.
ThreadSide(f, t, r) ==
    /\ OwnIs(f) /\ t \in Threads /\ th' = [th EXCEPT ![t] = r] /\ ThOk(r, sp'.lp)
    /\ r.held = th[t].held /\ th[t].pc # "gc"
    /\ Reading(t)' => Reading(t) \/ cmt.pc \notin Exclusive
    /\ \A k \in LEBs : f[k][1] = "thread" /\ f[k] # <<"thread", t>> => sp'.lp[k].free = sp.lp[k].free
    /\ gc.leb # None => SameSpace(sp'.lp[gc.leb], sp.lp[gc.leb])
    /\ jh'[GCHD].leb = jh[GCHD].leb /\ jh'[GCHD].offs = jh[GCHD].offs /\ jh'[GCHD].used = jh[GCHD].used
    /\ lp_mutex' \in [by : {"nobody", "find", "gc"}, pick : BOOLEAN, excl : BOOLEAN]
    /\ Finding(r) => lp_mutex'.by = "find" /\ \A u \in Threads \ {t} : ~Finding(th[u])
    /\ \A u \in Threads \ {t} : Finding(th[u]) => lp_mutex'.by = "find"
    /\ gc.pc = "pick" => lp_mutex'.by = "gc"
    /\ buds' \in SUBSET LEBs /\ UNCHANGED rest

\* What such a step keeps.
LEMMA ThreadSideKeeps ==
    ASSUME IInv, NEW f, NEW t, NEW r, ThreadSide(f, t, r)
    PROVE  ThreadInv' /\ GcInv' /\ CmtInv' /\ DataInv' /\ EraseInv' /\ BudgetInv'
<1>1. /\ OwnIs(f) /\ t \in Threads /\ th' = [th EXCEPT ![t] = r] /\ ThOk(r, sp'.lp)
      /\ r.held = th[t].held /\ th[t].pc # "gc"
      /\ \A k \in LEBs : f[k][1] = "thread" /\ f[k] # <<"thread", t>> => sp'.lp[k].free = sp.lp[k].free
      /\ gc.leb # None => SameSpace(sp'.lp[gc.leb], sp.lp[gc.leb])
      /\ jh'[GCHD].leb = jh[GCHD].leb /\ jh'[GCHD].offs = jh[GCHD].offs /\ jh'[GCHD].used = jh[GCHD].used
      /\ lp_mutex' \in [by : {"nobody", "find", "gc"}, pick : BOOLEAN, excl : BOOLEAN]
      /\ Finding(r) => lp_mutex'.by = "find" /\ \A u \in Threads \ {t} : ~Finding(th[u])
      /\ \A u \in Threads \ {t} : Finding(th[u]) => lp_mutex'.by = "find"
      /\ gc.pc = "pick" => lp_mutex'.by = "gc"
      /\ buds' \in SUBSET LEBs BY DEF ThreadSide
<1>2. gc' = gc /\ cmt' = cmt /\ old_buds' = old_buds /\ gc_lnum' = gc_lnum /\ dirty_zn' = dirty_zn /\ UNCHANGED rest
  BY DEF ThreadSide, rest
<1>3. PICK D : th \in [Threads -> D] BY DEF IInv, ThreadInv
<1>4. th'[t] = r /\ \A u \in Threads \ {t} : th'[u] = th[u] BY <1>1, <1>3
<1>5. ThreadInv'
  <2>1. PICK lp, T, m : lp = sp'.lp /\ T = th' /\ m = lp_mutex' OBVIOUS
  <2> QED BY <1>1, <2>1, ThreadNext DEF ThreadPre
<1>6. GcInv'
  <2>1. gc.by # None => th'[gc.by].pc = "gc" BY <1>1, <1>4 DEF IInv, GcInv, GcType, Maybe
  <2> QED BY <1>1, <1>2, <2>1, GcNext
<1>7. CmtInv'
  <2>1. cmt.pc \in Exclusive => \A u \in Threads : Reading(u)' => Reading(u) BY <1>4 DEF Reading, ThreadSide
  <2> QED BY <1>2, <2>1, CmtNext
<1>8. DataInv' /\ EraseInv' /\ BudgetInv' BY <1>1, <1>2, <1>4, RestNext
<1> QED BY <1>5, <1>6, <1>7, <1>8

\* What the category of a LEB says.
LEMMA CategorySays ==
    ASSUME NEW p \in Props, InCategory(p)
    PROVE  /\ p.cat \in {"free", "dirty", "empty", "freeable", "frdi_idx", "dirty_idx"} => ~p.taken
           /\ p.cat \in {"free", "dirty", "freeable"} => ~p.index
           /\ p.cat \in {"frdi_idx", "dirty_idx"} => p.index
           /\ p.cat = "empty" => p.free = LebSize
           /\ p.cat \in {"freeable", "frdi_idx"} => p.free # LebSize /\ Spc(p) = LebSize
           /\ p.cat \in {"free", "dirty", "dirty_idx"} => p.free # LebSize /\ Spc(p) # LebSize
<1>1. PICK c, k : c = p.cat /\ k = Categorize(p) OBVIOUS
<1>2. c # "uncat" => c = k BY <1>1 DEF InCategory
<1>3. p.cat \in {"free", "dirty", "empty", "freeable", "frdi_idx", "dirty_idx"} => ~p.taken
  BY <1>1, <1>2, PropsFacts
<1>4. p.cat \in {"free", "dirty", "freeable"} => ~p.index BY <1>1, <1>2, PropsFacts
<1>5. p.cat \in {"frdi_idx", "dirty_idx"} => p.index BY <1>1, <1>2, PropsFacts
<1>6. p.cat = "empty" => p.free = LebSize BY <1>1, <1>2, PropsFacts
<1>7. p.cat \in {"freeable", "frdi_idx"} => p.free # LebSize /\ Spc(p) = LebSize BY <1>1, <1>2, PropsFacts
<1>8. p.cat \in {"free", "dirty", "dirty_idx"} => p.free # LebSize /\ Spc(p) # LebSize
  BY <1>1, <1>2, PropsFacts DEF OnHeap
<1> QED BY <1>3, <1>4, <1>5, <1>6, <1>7, <1>8

\* A LEB is taken.
TookLeb(p) == [p EXCEPT !.taken = TRUE]
\* Nothing else of it has changed.
LEMMA TookIs ==
    ASSUME NEW p \in Props
    PROVE  /\ TookLeb(p) \in Props /\ TookLeb(p).cat = p.cat /\ TookLeb(p).free = p.free
           /\ TookLeb(p).dirty = p.dirty /\ TookLeb(p).index = p.index /\ TookLeb(p).taken
           /\ Spc(TookLeb(p)) = Spc(p) /\ Term("size", TookLeb(p)) = Term("size", p)
           /\ Term("size", p) \in Int
BY TermType DEF Term, Spc, Props, TookLeb, Terms

\* ubifs_find_free_space() begins.
LEMMA FindFreeKeeps ==
    ASSUME IInv, NEW t \in Threads, FindFree(t)
    PROVE  IInv'
<1> DEFINE pick == /\ Rsvd(sp, bi.min_idx) < IdxAvail(sp)
                   /\ sp.lst.empty - sp.lst.taken > 0
<1>1. /\ th[t].pc = "reserve" /\ LpFree
      /\ lp_mutex' = [by |-> "find", pick |-> pick, excl |-> FALSE]
      /\ sp' = [sp EXCEPT !.lst.taken = @ + Num(pick)]
      /\ jh' = [jh EXCEPT ![HeadOf[th[t].kind]].by = t]
      /\ th' = [th EXCEPT ![t].pc = "find"]
      /\ UNCHANGED <<rest, buds>> BY DEF FindFree, rest, jother, index
<1>2. PICK b, e : b = pick /\ e = Num(pick) OBVIOUS
<1>3. b \in BOOLEAN /\ e \in Int /\ e = Num(b) BY <1>2 DEF Num
<1> HIDE DEF pick
<1>4. th[t] \in ThType /\ ThOk(th[t], sp.lp) /\ \E D : th \in [Threads -> D] BY ThreadFacts
<1>5. th[t].kind \in Requests /\ ~th[t].any /\ th[t].len \in Sizes /\ th[t].leb = None BY <1>1, <1>4 DEF ThOk
<1>6. PICK q, r, i : q = th[t] /\ r = [th[t] EXCEPT !.pc = "find"] /\ i = HeadOf[th[t].kind] OBVIOUS
<1>7. q \in ThType /\ r = [q EXCEPT !.pc = "find"] /\ i \in Heads BY <1>4, <1>5, <1>6, SpaceAssumption
<1>8. ThShape(r) /\ r.leb = q.leb /\ r.held = q.held /\ r.pc = "find" /\ r.kind = q.kind /\ r.any = q.any
      /\ r.len = q.len BY <1>7 DEF ThType, ThShape
<1>9. ThOk(r, sp.lp) BY <1>5, <1>6, <1>7, <1>8, ThTyped, PlainJournal DEF ThType, ThFields, Pcs, Errs, Maybe
<1>10. /\ jh' \in HeadType
       /\ \A k \in Heads : jh'[k].leb = jh[k].leb /\ jh'[k].offs = jh[k].offs /\ jh'[k].used = jh[k].used
  <2>1. PICK j, J : j = jh /\ J = jh' OBVIOUS
  <2>2. HeldBy(j, i, t, J) BY <1>1, <1>6, <1>7, <2>1 DEF HeldBy, Maybe, IInv, HeadInv
  <2> QED BY <2>1, <2>2, HeldByIs
<1>11. lp_mutex' \in [by : {"nobody", "find", "gc"}, pick : BOOLEAN, excl : BOOLEAN]
       /\ lp_mutex'.by = "find" /\ lp_mutex'.pick = b BY <1>1, <1>2, <1>3
<1>12. Twice = 0 /\ gc.pc # "pick" /\ \A u \in Threads : ~Finding(th[u]) BY <1>1, LpFreeIs
<1>13. sp'.lp = sp.lp /\ SpOk(sp', Twice', Cardinality(GcLebs))
  <2>1. PICK s, z, w, g : s = sp /\ z = sp' /\ w = Twice /\ g = Cardinality(GcLebs) OBVIOUS
  <2>2. SpOk(z, w + e, g) /\ z.lp = s.lp
    BY <1>1, <1>2, <1>3, <2>1, GcLebsFacts, CountedTwice DEF CountPre, IInv, CountInv
  <2> QED BY <1>3, <1>11, <1>12, <2>1, <2>2 DEF Twice
<1> QED BY <1>1, <1>6, <1>8, <1>9, <1>10, <1>11, <1>12, <1>13, StillKeeps DEF StillStep, Reading, Readers

\* ubifs_find_free_space() ends.
LEMMA FoundFreeKeeps ==
    ASSUME IInv, NEW t \in Threads, FoundFree(t)
    PROVE  IInv'
<1>1. /\ th[t].pc = "found"
      /\ lp_mutex' = Unlocked
      /\ sp' = [sp EXCEPT !.lst.taken = @ - Num(lp_mutex.pick)]
      /\ th' = [th EXCEPT ![t].pc = "bud"]
      /\ UNCHANGED <<rest, buds, jh>> BY DEF FoundFree, rest, data, index
<1>2. gc.pc # "pick" /\ Twice = Num(lp_mutex.pick) /\ \A u \in Threads \ {t} : ~Finding(th[u])
  BY <1>1, FindingIs DEF Finding
<1>3. th[t] \in ThType /\ ThOk(th[t], sp.lp) /\ \E D : th \in [Threads -> D] BY ThreadFacts
<1>4. PICK q, r : q = th[t] /\ r = [th[t] EXCEPT !.pc = "bud"] OBVIOUS
<1>5. q \in ThType /\ r = [q EXCEPT !.pc = "bud"] BY <1>3, <1>4
<1>6. ThShape(r) /\ r.leb = q.leb /\ r.held = q.held /\ r.pc = "bud" /\ r.kind = q.kind /\ r.any = q.any
      /\ r.len = q.len /\ r.offs = q.offs BY <1>5 DEF ThType, ThShape
<1>7. lp_mutex' \in [by : {"nobody", "find", "gc"}, pick : BOOLEAN, excl : BOOLEAN] /\ Twice' = 0
  BY <1>1, UnlockedIs DEF Twice, Num
<1>8. sp'.lp = sp.lp /\ SpOk(sp', Twice', Cardinality(GcLebs))
  <2>1. PICK s, z, w, g, e : s = sp /\ z = sp' /\ w = Twice /\ g = Cardinality(GcLebs) /\ e = 0 - Num(lp_mutex.pick)
    OBVIOUS
  <2>2. SpOk(s, w, g) /\ w \in Int BY <2>1, GcLebsFacts DEF IInv, CountInv
  <2>3. e \in Int /\ w + e = 0 BY <1>2, <2>1, <2>2 DEF Num
  <2>4. z = [s EXCEPT !.lst.taken = @ + e]
    <3>1. PICK x : x = s.lst.taken OBVIOUS
    <3> QED BY <1>1, <2>1, <2>2, <3>1 DEF Num, SpOk, SpType, Lst
  <2> QED BY <1>7, <2>1, <2>2, <2>3, <2>4, CountedTwice DEF CountPre
<1>9. StillStep(t, r)
  BY <1>1, <1>2, <1>3, <1>4, <1>5, <1>6, <1>7, <1>8, ThTyped DEF StillStep, IInv, HeadInv, Finding, Reading,
     Readers, ThOk, ThType, ThFields, Pcs, Errs, Maybe
<1> QED BY <1>9, StillKeeps

\* The LEBs a search for space is over.
LEMMA FreeLebsAre ==
    ASSUME IInv, NEW len, NEW pick, NEW squeeze, NEW l, l \in FreeLebs(len, pick, squeeze)
    PROVE  l \in LEBs /\ ~sp.lp[l].taken /\ ~sp.lp[l].index
<1>1. l \in LEBs BY DEF FreeLebs, Fitting, Top, Cat
<1>2. PICK f : OwnOk(f, Places) /\ OwnIs(f) /\ Base(f, sp, jh) BY BaseNow
<1>3. ~sp.lp[l].taken /\ sp.lp[l].free = LebSize => ~sp.lp[l].index
  <2> SUFFICES ASSUME ~sp.lp[l].taken, sp.lp[l].free = LebSize PROVE ~sp.lp[l].index OBVIOUS
  <2> QED BY <1>1, <1>2, NobodyIs DEF LebOk, Base
<1> QED BY <1>1, <1>2, <1>3, CategorySays DEF FreeLebs, Fitting, Top, Cat, Base, SpOk

\* No LEB is found.
LEMMA FindFreeLebNone ==
    ASSUME IInv, NEW t \in Threads, FindFreeLeb(t),
           FreeLebs(th[t].len, lp_mutex.pick, HeadOf[th[t].kind] = "base") = {}
    PROVE  IInv'
<1>1. /\ th[t].pc = "find"
      /\ lp_mutex' = Unlocked
      /\ sp' = [sp EXCEPT !.lst.taken = @ - Num(lp_mutex.pick)]
      /\ jh' = [jh EXCEPT ![HeadOf[th[t].kind]].by = None]
      /\ th' = [th EXCEPT ![t].pc = "gcwait"]
      /\ UNCHANGED <<rest, buds>> BY DEF FindFreeLeb, rest, jother, index
<1>2. gc.pc # "pick" /\ Twice = Num(lp_mutex.pick) /\ \A u \in Threads \ {t} : ~Finding(th[u])
  BY <1>1, FindingIs DEF Finding
<1>3. th[t] \in ThType /\ ThOk(th[t], sp.lp) /\ \E D : th \in [Threads -> D] BY ThreadFacts
<1>4. th[t].kind \in Requests /\ ~th[t].any /\ th[t].len \in Sizes /\ th[t].leb = None BY <1>1, <1>3 DEF ThOk
<1>5. PICK q, r, i : q = th[t] /\ r = [th[t] EXCEPT !.pc = "gcwait"] /\ i = HeadOf[th[t].kind] OBVIOUS
<1>6. q \in ThType /\ r = [q EXCEPT !.pc = "gcwait"] /\ i \in Heads BY <1>3, <1>4, <1>5, SpaceAssumption
<1>7. ThShape(r) /\ r.leb = q.leb /\ r.held = q.held /\ r.pc = "gcwait" /\ r.kind = q.kind /\ r.any = q.any
      /\ r.len = q.len BY <1>6 DEF ThType, ThShape
<1>8. ThOk(r, sp.lp) BY <1>4, <1>5, <1>6, <1>7, ThTyped, PlainJournal DEF ThType, ThFields, Pcs, Errs, Maybe
<1>9. /\ jh' \in HeadType
      /\ \A k \in Heads : jh'[k].leb = jh[k].leb /\ jh'[k].offs = jh[k].offs /\ jh'[k].used = jh[k].used
  <2>1. PICK j, J : j = jh /\ J = jh' OBVIOUS
  <2>2. HeldBy(j, i, None, J) BY <1>1, <1>5, <1>6, <2>1 DEF HeldBy, Maybe, IInv, HeadInv
  <2> QED BY <2>1, <2>2, HeldByIs
<1>10. lp_mutex' \in [by : {"nobody", "find", "gc"}, pick : BOOLEAN, excl : BOOLEAN] /\ Twice' = 0
  BY <1>1, UnlockedIs DEF Twice, Num
<1>11. sp'.lp = sp.lp /\ SpOk(sp', Twice', Cardinality(GcLebs))
  <2>1. PICK s, z, w, g, e : s = sp /\ z = sp' /\ w = Twice /\ g = Cardinality(GcLebs) /\ e = 0 - Num(lp_mutex.pick)
    OBVIOUS
  <2>2. SpOk(s, w, g) /\ w \in Int BY <2>1, GcLebsFacts DEF IInv, CountInv
  <2>3. e \in Int /\ w + e = 0 BY <1>2, <2>1, <2>2 DEF Num
  <2>4. z = [s EXCEPT !.lst.taken = @ + e]
    <3>1. PICK x : x = s.lst.taken OBVIOUS
    <3> QED BY <1>1, <2>1, <2>2, <3>1 DEF Num, SpOk, SpType, Lst
  <2> QED BY <1>10, <2>1, <2>2, <2>3, <2>4, CountedTwice DEF CountPre
<1>12. StillStep(t, r)
  BY <1>1, <1>2, <1>5, <1>7, <1>8, <1>9, <1>10, <1>11 DEF StillStep, Reading, Readers, Finding
<1> QED BY <1>12, StillKeeps

\* A LEB is found.
LEMMA FindFreeLebFound ==
    ASSUME IInv, NEW t \in Threads, FindFreeLeb(t),
           FreeLebs(th[t].len, lp_mutex.pick, HeadOf[th[t].kind] = "base") # {}
    PROVE  IInv'
<1>1. th[t].pc = "find" /\ UNCHANGED <<rest, buds, lp_mutex, jh>> BY DEF FindFreeLeb, rest, jother, index
<1>2. PICK l \in FreeLebs(th[t].len, lp_mutex.pick, HeadOf[th[t].kind] = "base") :
         /\ sp' = Take(sp, l)
         /\ th' = [th EXCEPT ![t] = [@ EXCEPT !.pc = "found", !.leb = l, !.offs = LebSize - sp.lp[l].free]]
  BY DEF FindFreeLeb, OneOfEach
<1>3. l \in LEBs /\ ~sp.lp[l].taken /\ ~sp.lp[l].index BY <1>2, FreeLebsAre
<1>4. th[t] \in ThType /\ ThOk(th[t], sp.lp) /\ \E D : th \in [Threads -> D] BY ThreadFacts
<1>5. th[t].kind \in Requests /\ ~th[t].any /\ th[t].len \in Sizes /\ th[t].leb = None BY <1>1, <1>4 DEF ThOk
<1>6. PICK f : OwnOk(f, Places) /\ OwnIs(f) /\ Base(f, sp, jh) BY BaseNow
<1>7. PICK q, x, r : q = th[t] /\ x = LebSize - sp.lp[l].free
                     /\ r = [th[t] EXCEPT !.pc = "found", !.leb = l, !.offs = LebSize - sp.lp[l].free] OBVIOUS
<1>8. sp.lp[l] \in Props BY <1>3, <1>6 DEF Base
<1>9. x \in Int /\ sp.lp[l].free = LebSize - x BY <1>7, <1>8, SizeAssumption DEF Props
<1>10. q \in ThType /\ r = [q EXCEPT !.pc = "found", !.leb = l, !.offs = x] BY <1>4, <1>7
<1>11. th' = [th EXCEPT ![t] = r] BY <1>2, <1>7
<1>12. ThShape(r) /\ r.leb = l /\ r.held = q.held /\ r.pc = "found" /\ r.kind = q.kind /\ r.any = q.any
       /\ r.len = q.len /\ r.offs = x BY <1>10 DEF ThType, ThShape
<1>13. r \in ThType BY <1>3, <1>9, <1>10, <1>12, ThTyped DEF ThType, ThFields, Pcs, Errs, Maybe
<1>14. PICK n, s, j : n = TookLeb(sp.lp[l]) /\ s = sp /\ j = jh OBVIOUS
<1>15. /\ n \in Props /\ n.cat = s.lp[l].cat /\ n.free = s.lp[l].free /\ n.dirty = s.lp[l].dirty
       /\ n.index = s.lp[l].index /\ n.taken /\ Spc(n) = Spc(s.lp[l])
       /\ Term("size", n) = Term("size", s.lp[l]) /\ Term("size", n) \in Int BY <1>8, <1>14, TookIs
<1>16. SpaceStep(f, s, j, l, n, 0) BY <1>2, <1>3, <1>6, <1>14, <1>15 DEF SpaceStep, Take, TookLeb
<1>17. /\ \A k \in LEBs \ {l} : SameSpace(sp'.lp[k], s.lp[k])
       /\ SameSpace(sp'.lp[l], n)
       /\ Taken' = Taken \cup {l} BY <1>15, <1>16, SpaceIs
<1>18. f[l] = Nobody /\ f[l][1] = "nobody" /\ \A o : OwnOk(f, o) => l \notin o.taken BY <1>3, <1>6, NobodyIs
<1>19. PICK o : o = Places OBVIOUS
<1>20. PICK p, g : /\ p = [o EXCEPT !.thread = [@ EXCEPT ![t] = l], !.taken = @ \cup {l}]
                   /\ g = [f EXCEPT ![l] = <<"thread", t>>] OBVIOUS
<1>21. OwnOk(f, o) /\ l \notin o.taken /\ o.thread[t] = None BY <1>5, <1>6, <1>18, <1>19 DEF Places
<1>22. OwnOk(g, p) BY <1>3, <1>20, <1>21, ThreadTakes
<1>23. NextPlaces(p)
  <2>1. ThreadLebs' = [ThreadLebs EXCEPT ![t] = l]
    <3>1. PICK a, b : a = ThreadLebs /\ b = ThreadLebs' OBVIOUS
    <3> QED BY <1>4, <1>11, <1>12, <3>1 DEF ThreadLebs
  <2> QED
    BY <1>1, <1>17, <1>19, <1>20, <1>21, <2>1, PlacesNow DEF NextPlaces, OwnOk, Where, PlaceType, LebOfHead,
       HeadLebs, GcLebs, rest
<1>24. TouchStep(f, s, j, l, n, 0, g, p)
  <2>1. jh' = j /\ live' = live /\ old_idx' = old_idx /\ calc_idx_sz' = calc_idx_sz BY <1>1, <1>14 DEF rest
  <2>2. g[l] = <<"thread", t>> /\ \A k \in LEBs \ {l} : g[k] = f[k] BY <1>3, <1>6, <1>20 DEF OwnIs
  <2>3. Twice' = Twice /\ Cardinality(GcLebs') = Cardinality(GcLebs) + 0
    BY <1>1, GcLebsFacts DEF Twice, GcLebs, rest
  <2>4. calc_idx_sz' = calc_idx_sz - Term("size", s.lp[l]) + Term("size", n) BY <1>6, <1>15, <2>1, SizeNow
  <2>5. LebOk(n, Size(live'[l]), old_idx'[l], g[l], WbufOf(jh', g[l]))
    BY <1>3, <1>6, <1>14, <1>15, <1>18, <2>1, <2>2 DEF WbufOf, LebOk, Nobody, Base
  <2> QED BY <1>16, <1>22, <1>23, <2>1, <2>2, <2>3, <2>4, <2>5 DEF TouchStep
<1>25. HeadInv'
  <2>1. PICK lp : lp = sp'.lp OBVIOUS
  <2> QED BY <1>1, <1>6, <1>14, <1>17, <1>18, <2>1, BufsKept, HeadNext DEF IInv, HeadInv
<1>26. ThreadSide(f, t, r)
  <2>1. ThOk(r, sp'.lp)
    <3>1. l # None BY <1>3, SpaceAssumption
    <3> QED BY <1>5, <1>7, <1>9, <1>12, <1>13, <1>14, <1>15, <1>17, <3>1 DEF ThOk, SameSpace
  <2>2. \A k \in LEBs : f[k][1] = "thread" /\ f[k] # <<"thread", t>> => sp'.lp[k].free = sp.lp[k].free
    BY <1>14, <1>17, <1>18 DEF SameSpace
  <2>3. gc.leb # None => SameSpace(sp'.lp[gc.leb], sp.lp[gc.leb])
    <3>1. PICK lp : lp = sp'.lp OBVIOUS
    <3>2. \A k \in LEBs : f[k] = <<"garbage", 0>> => SameSpace(lp[k], s.lp[k]) BY <1>17, <1>18, <3>1
    <3> QED BY <1>6, <1>14, <3>1, <3>2, GarbageKept
  <2> QED
    BY <1>1, <1>6, <1>7, <1>11, <1>12, <2>1, <2>2, <2>3, FindingIs DEF ThreadSide, IInv, DataInv, Reading,
       Readers, Finding
<1> QED BY <1>24, <1>25, <1>26, TouchKeeps, ThreadSideKeeps DEF IInv

Buffer == [leb : Maybe(LEBs), offs : Int, used : Nat, by : Maybe(Threads)]

\* A head goes on in LEB l, with the write-buffer w.
HeadStep(f, h, l, w) ==
    /\ OwnIs(f) /\ Base(f, sp, jh) /\ h \in Heads /\ l \in LEBs
    /\ f[l][1] \in {"thread", "reserved"}
    /\ jh' = [jh EXCEPT ![h] = w] /\ w \in Buffer /\ w.leb = l /\ w.used = 0
    /\ sp.lp[l].free = LebSize - w.offs
    /\ buds' = buds \cup {l} /\ sp' = Synced(sp, {h})
    /\ UNCHANGED <<live, old_idx, calc_idx_sz, idx_gc, lp_mutex>>

\* The heads and the buds then.
LEMMA HeadMoves ==
    ASSUME IInv, NEW f, NEW h, NEW l, NEW w, HeadStep(f, h, l, w)
    PROVE  /\ LebOfHead' = [LebOfHead EXCEPT ![h] = l]
           /\ buds' \ HeadLebs' = (buds \ HeadLebs) \cup ({LebOfHead[h]} \ {None})
           /\ jh' \in HeadType
<1> /\ OwnIs(f) /\ h \in Heads /\ l \in LEBs /\ f[l][1] \in {"thread", "reserved"}
    /\ jh' = [jh EXCEPT ![h] = w] /\ w \in Buffer /\ w.leb = l /\ buds' = buds \cup {l} BY DEF HeadStep
<1>1. jh \in HeadType /\ HeadsOk(sp.lp) /\ \A i \in Heads : jh[i].leb # None => jh[i].leb \in buds
  BY HeadsNow DEF IInv, HeadInv
<1>2. jh'[h] = w /\ \A i \in Heads \ {h} : jh'[i] = jh[i] BY <1>1 DEF HeadType
<1>3. LebOfHead' = [LebOfHead EXCEPT ![h] = l]
  <2>1. PICK a, b : a = LebOfHead /\ b = LebOfHead' OBVIOUS
  <2> QED BY <1>2, <2>1 DEF LebOfHead
<1>4. l \notin buds /\ l \notin HeadLebs BY DEF OwnIs, HeadLebs
<1>5. PICK k : k = jh[h].leb OBVIOUS
<1>6. \A x \in LEBs : x \in HeadLebs' <=> x = l \/ (x \in HeadLebs /\ x # k)
  <2> SUFFICES ASSUME NEW x \in LEBs PROVE x \in HeadLebs' <=> x = l \/ (x \in HeadLebs /\ x # k) OBVIOUS
  <2> QED BY <1>1, <1>2, <1>5, SpaceAssumption DEF HeadsOk, HeadLebs
<1>7. buds' \ HeadLebs' = (buds \ HeadLebs) \cup ({k} \ {None})
  BY <1>1, <1>4, <1>5, <1>6, SpaceAssumption DEF IInv, DataInv, HeadLebs
<1> QED BY <1>1, <1>3, <1>5, <1>7 DEF HeadType, Buffer, LebOfHead

\* OwnInv, CountInv and HeadInv then.
LEMMA HeadGoesOn ==
    ASSUME IInv, NEW f, NEW h, NEW l, NEW w, HeadStep(f, h, l, w), NEW o, o = Places, NEW g,
           g = ToHead(f, h, l, o.head[h]),
           NEW p, OwnOk(g, p), NextPlaces(p)
    PROVE  /\ OwnInv' /\ CountInv' /\ HeadInv'
           /\ \A k \in LEBs : f[k][1] # "head" => SameSpace(sp'.lp[k], sp.lp[k])
<1> /\ OwnIs(f) /\ Base(f, sp, jh) /\ h \in Heads /\ l \in LEBs /\ f[l][1] \in {"thread", "reserved"}
    /\ jh' = [jh EXCEPT ![h] = w] /\ w \in Buffer /\ w.leb = l /\ w.used = 0
    /\ sp.lp[l].free = LebSize - w.offs
    /\ buds' = buds \cup {l} /\ sp' = Synced(sp, {h})
    /\ UNCHANGED <<live, old_idx, calc_idx_sz, idx_gc, lp_mutex>> BY DEF HeadStep
<1>0. \A k \in LEBs : g[k] = IF k = l THEN <<"head", h>> ELSE IF k = o.head[h] THEN <<"bud", 0>> ELSE f[k]
  BY DEF ToHead
<1>1. PICK s, j, hs : s = Synced(sp, hs) /\ j = JhSynced(hs) /\ hs = {h} OBVIOUS
<1>2. Base(f, s, j) /\ s = sp' BY <1>1, BaseSynced
<1>3. HeadsOk(sp.lp) /\ jh \in HeadType BY HeadsNow DEF IInv, HeadInv
<1>4. jh'[h] = w /\ \A i \in Heads \ {h} : jh'[i] = jh[i] BY <1>3 DEF HeadType
<1>5. j[h].used = 0 /\ \A i \in Heads \ {h} : j[i] = jh[i]
  <2>1. PICK b : b = jh[h] OBVIOUS
  <2>2. SyncedHead(b).used = 0 BY <1>3, <2>1 DEF SyncedHead, Buffer, HeadType
  <2> QED BY <1>1, <2>1, <2>2 DEF JhSynced
<1>6. \A k \in LEBs : f[k][1] # "head" => SameSpace(s.lp[k], sp.lp[k]) BY <1>2 DEF Base
<1>7. OwnInv'
  <2>1. PICK lv, od, j2, z, q : lv = live' /\ od = old_idx' /\ j2 = jh' /\ z = sp' /\ q = Places' OBVIOUS
  <2>2. \A k \in LEBs : LebOk(z.lp[k], Size(lv[k]), od[k], g[k], WbufOf(j2, g[k]))
    <3> SUFFICES ASSUME NEW k \in LEBs PROVE LebOk(z.lp[k], Size(lv[k]), od[k], g[k], WbufOf(j2, g[k])) OBVIOUS
    <3>1. lv[k] = live[k] /\ od[k] = old_idx[k] /\ z = s BY <1>2, <2>1
    <3>2. LebOk(s.lp[k], Size(live[k]), old_idx[k], f[k], WbufOf(j, f[k])) BY <1>2 DEF Base
    <3>3. CASE k = l
      <4>1. LebOk(s.lp[k], Size(live[k]), old_idx[k], <<"head", h>>, 0) BY <3>2, <3>3 DEF LebOk, WbufOf
      <4> QED BY <1>0, <1>4, <2>1, <3>1, <3>3, <4>1 DEF WbufOf
    <3>4. CASE k # l /\ k = o.head[h]
      <4>1. g[k] = <<"bud", 0>> BY <1>0, <3>4
      <4>2. LebOk(s.lp[k], Size(live[k]), old_idx[k], <<"head", h>>, 0)
        BY <1>5, <3>2, <3>4 DEF WbufOf, OwnIs, Places
      <4> QED BY <3>1, <4>1, <4>2 DEF LebOk, WbufOf
    <3>5. CASE k # l /\ k # o.head[h]
      <4>1. WbufOf(j2, f[k]) = WbufOf(j, f[k])
        <5>1. CASE f[k][1] # "head" BY <5>1 DEF WbufOf
        <5>2. CASE f[k][1] = "head"
          <6>1. PICK i \in Heads : f[k] = <<"head", i>> BY <5>2, SpotIs DEF OwnIs
          <6> QED BY <1>4, <1>5, <2>1, <3>5, <6>1 DEF WbufOf, OwnIs, Places
        <5> QED BY <5>1, <5>2
      <4> QED BY <1>0, <3>1, <3>2, <3>5, <4>1
    <3> QED BY <3>3, <3>4, <3>5
  <2> QED BY <2>1, <2>2, PlacesNext, OwnNext
<1>8. CountInv'
  <2>1. Total("size", s.lp) = calc_idx_sz BY <1>2, SizeNow
  <2> QED BY <1>2, <2>1 DEF CountInv, Twice, GcLebs, Base
<1>9. HeadInv'
  <2>1. \A i \in Heads : BufOk(jh'[i], s.lp)
    <3> SUFFICES ASSUME NEW i \in Heads PROVE BufOk(jh'[i], s.lp) OBVIOUS
    <3>1. CASE i # h BY <1>2, <1>4, <1>5, <3>1 DEF Base
    <3>2. CASE i = h
      BY <1>4, <1>6, <3>2, SizeAssumption, SpaceAssumption DEF BufOk, SameSpace, LebOk, Props, Buffer, Base
    <3> QED BY <3>1, <3>2
  <2>2. \A i \in Heads : jh'[i].leb # None => jh'[i].leb \in buds' BY <1>4 DEF IInv, HeadInv
  <2> QED BY <1>2, <2>1, <2>2, HeadMoves, HeadNext
<1> QED BY <1>2, <1>6, <1>7, <1>8, <1>9

\* A write-buffer goes on in another LEB.
LEMMA SeekIs ==
    ASSUME NEW b \in Buffer, NEW l \in LEBs, NEW x \in Int, NEW c \in Maybe(Threads), NEW w,
           w = [leb |-> l, offs |-> x, used |-> 0, by |-> c]
    PROVE  /\ w \in Buffer /\ w.leb = l /\ w.offs = x /\ w.used = 0 /\ w.by = c
           /\ c = b.by => Seek(b, l, x) = w
           /\ c = None => [Seek(b, l, x) EXCEPT !.by = None] = w
<1>1. PICK y, u, v, z : y = b.leb /\ u = b.offs /\ v = b.used /\ z = b.by OBVIOUS
<1>2. b = [leb |-> y, offs |-> u, used |-> v, by |-> z] BY <1>1 DEF Buffer
<1>3. PICK m : m = [leb |-> l, offs |-> x, used |-> 0, by |-> z] OBVIOUS
<1>4. Seek(b, l, x) = m
  <2>1. PICK a : a = [b EXCEPT !.leb = l, !.offs = x, !.used = 0] OBVIOUS
  <2>2. a = [leb |-> l, offs |-> x, used |-> 0, by |-> z] BY <1>1, <2>1 DEF Buffer
  <2> QED BY <1>3, <2>1, <2>2 DEF Seek
<1> QED BY <1>1, <1>3, <1>4 DEF Buffer, Maybe

\* Only the LEBs of heads have changed.
LEMMA HeadsOnly ==
    ASSUME IInv, NEW f, OwnIs(f), NEW lp, \A k \in LEBs : f[k][1] # "head" => SameSpace(lp[k], sp.lp[k])
    PROVE  /\ gc.leb # None => SameSpace(lp[gc.leb], sp.lp[gc.leb])
           /\ \A k \in LEBs : f[k][1] = "thread" => lp[k].free = sp.lp[k].free
<1>1. gc.leb # None => SameSpace(lp[gc.leb], sp.lp[gc.leb])
  <2> SUFFICES ASSUME gc.leb # None PROVE SameSpace(lp[gc.leb], sp.lp[gc.leb]) OBVIOUS
  <2>1. PICK k : k = gc.leb OBVIOUS
  <2> QED BY <2>1 DEF OwnIs, IInv, GcInv, GcType, Maybe
<1> QED BY <1>1 DEF SameSpace

\* What a thread that is to add a bud has.
LEMMA BudFacts ==
    ASSUME IInv, NEW t \in Threads, th[t].pc = "bud"
    PROVE  /\ th[t] \in ThType /\ th[t].kind \in Requests /\ ~th[t].any /\ th[t].len \in Sizes
           /\ th[t].leb \in LEBs /\ th[t].offs \in Int
           /\ sp.lp[th[t].leb].free = LebSize - th[t].offs
           /\ HeadOf[th[t].kind] \in Heads /\ HeadOf[th[t].kind] # GCHD
           /\ Reading(t)
BY ThreadFacts, SpaceAssumption DEF ThType, Maybe, ThOk, Reading, Readers

AddBudDone(t, h, l) ==
    /\ th[t].pc = "bud" /\ LpFree
    /\ sp' = Synced(sp, {h})
    /\ jh' = [jh EXCEPT ![h] = [Seek(@, l, th[t].offs) EXCEPT !.by = None]]
    /\ buds' = buds \cup {l}
    /\ th' = [th EXCEPT ![t].pc = "reserve", ![t].leb = None, ![t].offs = 0]
    /\ UNCHANGED <<rest, lp_mutex>>

AddBudFull(t, h, l) ==
    /\ th[t].pc = "bud" /\ LpFree
    /\ sp' = ReturnLeb(Synced(sp, {h}), l)
    /\ jh' = [JhSynced({h}) EXCEPT ![h].by = None]
    /\ th' = [th EXCEPT ![t].pc = "commit", ![t].leb = None]
    /\ UNCHANGED <<rest, buds, lp_mutex>>

\* The two ends of reserve_space().
LEMMA AddBudIs ==
    ASSUME NEW t, NEW h, NEW l, h = HeadOf[th[t].kind], l = th[t].leb, AddBud(t)
    PROVE  AddBudDone(t, h, l) \/ AddBudFull(t, h, l)
BY DEF AddBud, AddBudDone, AddBudFull, rest, index

\* The head goes on in the LEB.
LEMMA AddBudDoneKeeps ==
    ASSUME IInv, NEW t \in Threads, NEW h, NEW l, h = HeadOf[th[t].kind], l = th[t].leb, AddBudDone(t, h, l)
    PROVE  IInv'
<1>1. /\ th[t].pc = "bud" /\ LpFree
      /\ sp' = Synced(sp, {h})
      /\ jh' = [jh EXCEPT ![h] = [Seek(@, l, th[t].offs) EXCEPT !.by = None]]
      /\ buds' = buds \cup {l}
      /\ th' = [th EXCEPT ![t].pc = "reserve", ![t].leb = None, ![t].offs = 0]
      /\ UNCHANGED <<rest, lp_mutex>> BY DEF AddBudDone
<1>2. /\ th[t] \in ThType /\ th[t].kind \in Requests /\ ~th[t].any /\ th[t].len \in Sizes
      /\ l \in LEBs /\ th[t].offs \in Int /\ sp.lp[l].free = LebSize - th[t].offs
      /\ h \in Heads /\ h # GCHD /\ Reading(t) BY <1>1, BudFacts
<1>3. PICK q, x : q = th[t] /\ x = th[t].offs OBVIOUS
<1>4. PICK r : r = [q EXCEPT !.pc = "reserve", !.leb = None, !.offs = 0] OBVIOUS
<1>5. q \in ThType /\ x \in Int BY <1>2, <1>3
<1>6. th' = [th EXCEPT ![t] = r] BY <1>1, <1>3, <1>4
<1>7. ThShape(r) /\ r.leb = None /\ r.held = q.held /\ r.pc = "reserve" /\ r.kind = q.kind /\ r.any = q.any
      /\ r.len = q.len BY <1>4, <1>5 DEF ThType, ThShape
<1>8. ThFields(r) BY <1>4, <1>5 DEF ThType, ThFields, Pcs, Errs, Maybe
<1>9. PICK f : OwnOk(f, Places) /\ OwnIs(f) /\ Base(f, sp, jh) BY BaseNow
<1>10. PICK b, w : b = jh[h] /\ w = [leb |-> l, offs |-> x, used |-> 0, by |-> None] OBVIOUS
<1>11. b \in Buffer BY <1>2, <1>9, <1>10 DEF Base, HeadType, Buffer
<1>12. /\ w \in Buffer /\ w.leb = l /\ w.offs = x /\ w.used = 0
       /\ [Seek(b, l, x) EXCEPT !.by = None] = w
  <2>1. None \in Maybe(Threads) BY DEF Maybe
  <2> QED BY <1>2, <1>5, <1>10, <1>11, <2>1, SeekIs
<1>13. jh' = [jh EXCEPT ![h] = w] BY <1>1, <1>3, <1>10, <1>12
<1>14. HeadStep(f, h, l, w)
  <2>1. UNCHANGED <<live, old_idx, calc_idx_sz, idx_gc, lp_mutex>> BY <1>1 DEF rest
  <2>2. buds' = buds \cup {l} /\ sp' = Synced(sp, {h}) BY <1>1
  <2> QED BY <1>2, <1>3, <1>9, <1>12, <1>13, <2>1, <2>2 DEF HeadStep, OwnIs
<1>15. PICK o : o = Places OBVIOUS
<1>16. PICK p, g :
         /\ p = [o EXCEPT !.thread = [@ EXCEPT ![t] = None], !.head = [@ EXCEPT ![h] = l], !.bud = @ \cup ({o.head[h]} \ {None})]
         /\ g = ToHead(f, h, l, o.head[h]) OBVIOUS
<1>17. OwnOk(f, o) /\ o.thread[t] = l BY <1>9, <1>15 DEF Places
<1>18. OwnOk(g, p) BY <1>2, <1>16, <1>17, ThreadToHead
<1>19. NextPlaces(p)
  <2>1. ThreadLebs' = [ThreadLebs EXCEPT ![t] = None]
    <3>1. PICK a, c : a = ThreadLebs /\ c = ThreadLebs' OBVIOUS
    <3>2. PICK D : th \in [Threads -> D] BY ThreadFacts
    <3> QED BY <1>6, <1>7, <3>1, <3>2 DEF ThreadLebs
  <2>2. GcLebs' = GcLebs /\ gc_lnum' = gc_lnum /\ cmt' = cmt /\ gc' = gc /\ old_buds' = old_buds
    BY <1>1 DEF rest, GcLebs
  <2>3. Taken' = Taken
    <3>1. PICK hs : hs = {h} OBVIOUS
    <3>2. Base(f, Synced(sp, hs), JhSynced(hs)) BY <1>2, <1>9, <3>1, BaseSynced
    <3> QED BY <1>1, <3>1, <3>2 DEF Taken, Base
  <2> QED
    BY <1>14, <1>15, <1>16, <1>17, <2>1, <2>2, <2>3, HeadMoves, PlacesNow DEF NextPlaces, OwnOk, Where,
       PlaceType
<1>20. /\ OwnInv' /\ CountInv' /\ HeadInv'
       /\ \A k \in LEBs : f[k][1] # "head" => SameSpace(sp'.lp[k], sp.lp[k])
  BY <1>14, <1>15, <1>16, <1>18, <1>19, HeadGoesOn
<1>21. PICK lp : lp = sp'.lp OBVIOUS
<1>22. /\ gc.leb # None => SameSpace(lp[gc.leb], sp.lp[gc.leb])
       /\ \A k \in LEBs : f[k][1] = "thread" => lp[k].free = sp.lp[k].free BY <1>9, <1>20, <1>21, HeadsOnly
<1>23. ThreadSide(f, t, r)
  <2>1. jh'[GCHD] = jh[GCHD] BY <1>2, <1>9, <1>13 DEF Base, HeadType
  <2>2. ~Finding(r) BY <1>7 DEF Finding
  <2>3. gc.pc # "pick" /\ \A u \in Threads : ~Finding(th[u]) BY <1>1, LpFreeIs
  <2>4. lp_mutex' = lp_mutex /\ UNCHANGED rest BY <1>1
  <2>5. buds' \in SUBSET LEBs /\ lp_mutex \in [by : {"nobody", "find", "gc"}, pick : BOOLEAN, excl : BOOLEAN]
    BY <1>1, <1>2 DEF IInv, DataInv
  <2>6. r.held = th[t].held /\ th[t].pc # "gc" BY <1>1, <1>3, <1>7
  <2>7. ThOk(r, sp'.lp) BY <1>2, <1>3, <1>7, <1>8, ThTyped, PlainJournal
  <2> QED BY <1>2, <1>6, <1>9, <1>21, <1>22, <2>1, <2>2, <2>3, <2>4, <2>5, <2>6, <2>7 DEF ThreadSide
<1> QED BY <1>20, <1>23, ThreadSideKeeps DEF IInv

\* The log is full.
LEMMA AddBudFullKeeps ==
    ASSUME IInv, NEW t \in Threads, NEW h, NEW l, h = HeadOf[th[t].kind], l = th[t].leb, AddBudFull(t, h, l)
    PROVE  IInv'
<1>1. /\ th[t].pc = "bud" /\ LpFree
      /\ sp' = ReturnLeb(Synced(sp, {h}), l)
      /\ jh' = [JhSynced({h}) EXCEPT ![h].by = None]
      /\ th' = [th EXCEPT ![t].pc = "commit", ![t].leb = None]
      /\ UNCHANGED <<rest, buds, lp_mutex>> BY DEF AddBudFull
<1>2. /\ th[t] \in ThType /\ th[t].kind \in Requests /\ ~th[t].any /\ th[t].len \in Sizes
      /\ l \in LEBs /\ h \in Heads /\ h # GCHD /\ Reading(t) BY <1>1, BudFacts
<1>3. PICK q : q = th[t] OBVIOUS
<1>4. PICK r : r = [q EXCEPT !.pc = "commit", !.leb = None] OBVIOUS
<1>5. q \in ThType BY <1>2, <1>3
<1>6. th' = [th EXCEPT ![t] = r] BY <1>1, <1>3, <1>4
<1>7. ThShape(r) /\ r.leb = None /\ r.held = q.held /\ r.pc = "commit" /\ r.kind = q.kind /\ r.any = q.any
      /\ r.len = q.len BY <1>4, <1>5 DEF ThType, ThShape
<1>8. ThFields(r) BY <1>4, <1>5 DEF ThType, ThFields, Pcs, Errs, Maybe
<1>9. r \in ThType BY <1>7, <1>8, ThTyped
<1>10. \A lp : ThOk(r, lp) BY <1>2, <1>3, <1>7, <1>9, PlainJournal
<1>11. PICK f : OwnOk(f, Places) /\ OwnIs(f) /\ Base(f, sp, jh) BY BaseNow
<1>12. PICK hs : hs = {h} /\ hs \in SUBSET Heads BY <1>2
<1>13. PICK s, j, i : s = Synced(sp, hs) /\ j = JhSynced(hs) /\ i = jh' OBVIOUS
<1>14. Base(f, s, j) BY <1>11, <1>12, <1>13, BaseSynced
<1>15. HeldBy(j, h, None, i) BY <1>1, <1>2, <1>12, <1>13, <1>14 DEF HeldBy, Maybe, Base
<1>16. /\ i \in HeadType
       /\ \A k \in Heads : i[k].leb = j[k].leb /\ i[k].offs = j[k].offs /\ i[k].used = j[k].used
  BY <1>15, HeldByIs
<1>17. j[GCHD] = jh[GCHD] BY <1>2, <1>12, <1>13, SpaceAssumption DEF JhSynced
<1>18. sp' = ReturnLeb(s, l) BY <1>1, <1>12, <1>13
<1>19. GCHD \in Heads BY SpaceAssumption
<1>20. jh' \in HeadType /\ jh'[GCHD].offs = jh[GCHD].offs /\ jh'[GCHD].used = jh[GCHD].used
       /\ \A k \in Heads : jh'[k].leb = j[k].leb /\ jh'[k].offs = j[k].offs /\ jh'[k].used = j[k].used
  BY <1>13, <1>16, <1>17, <1>19
<1>21. r.leb = None /\ r.held = th[t].held /\ ~Finding(r) /\ th[t].pc # "gc" /\ th[t].leb = l
  BY <1>1, <1>3, <1>7 DEF Finding
<1>22. ReturnStep(f, s, j, t, l, r) BY <1>1, <1>2, <1>6, <1>10, <1>11, <1>14, <1>18, <1>20, <1>21 DEF ReturnStep
<1> QED BY <1>22, ReturnKeeps

\* reserve_space() ends.
LEMMA AddBudKeeps ==
    ASSUME IInv, NEW t \in Threads, AddBud(t)
    PROVE  IInv'
<1>1. PICK h, l : h = HeadOf[th[t].kind] /\ l = th[t].leb OBVIOUS
<1> QED BY <1>1, AddBudIs, AddBudDoneKeeps, AddBudFullKeeps

(***************************************************************************)
(* Nodes by their size.                                                    *)
(***************************************************************************)
Nodes == [Sizes -> Nat]
Bytes(n) == [s \in Sizes |-> s * n[s]]

\* The size of nodes is a sum of natural numbers.
LEMMA BytesAre ==
    ASSUME NEW n \in Nodes
    PROVE  /\ Size(n) = SumFunctionOnSet(Bytes(n), Sizes)
           /\ \A s \in Sizes : Bytes(n)[s] = s * n[s] /\ Bytes(n)[s] \in Nat /\ s \in Nat \ {0} /\ n[s] \in Nat
           /\ IsFiniteSet(Sizes)
<1>1. \A s \in Sizes : s \in Nat \ {0} /\ n[s] \in Nat BY SizeAssumption DEF Nodes
<1>2. \A s \in Sizes : s * n[s] \in Nat
  <2> SUFFICES ASSUME NEW s \in Sizes PROVE s * n[s] \in Nat OBVIOUS
  <2>1. PICK a, b : a = s /\ b = n[s] OBVIOUS
  <2> QED BY <1>1, <2>1
<1> QED BY <1>1, <1>2, SizeAssumption DEF Bytes, Size, SumFunction

\* The size of nodes is a natural number.
LEMMA SizeType ==
    ASSUME NEW n \in Nodes
    PROVE  Size(n) \in Nat
<1>1. PICK w : w = Bytes(n) OBVIOUS
<1> QED BY <1>1, BytesAre, SizeAssumption, SumNat

\* Some nodes more or less of one size.
NodesPre(n, m, s, d) ==
    /\ n \in Nodes /\ m \in Nodes /\ s \in Sizes /\ d \in Int
    /\ m[s] = n[s] + d /\ \A r \in Sizes \ {s} : m[r] = n[r]
\* The size follows their number.
LEMMA NodesChange ==
    ASSUME NEW n, NEW m, NEW s, NEW d, NodesPre(n, m, s, d)
    PROVE  Size(m) = Size(n) + s * d
<1> n \in Nodes /\ m \in Nodes /\ s \in Sizes /\ d \in Int /\ m[s] = n[s] + d /\ \A r \in Sizes \ {s} : m[r] = n[r]
  BY DEF NodesPre
<1>1. PICK w, v : w = Bytes(n) /\ v = Bytes(m) OBVIOUS
<1>2. SumPre(Sizes, w, v, s) BY <1>1, BytesAre, SizeAssumption DEF SumPre
<1>3. PICK a, b : a = n[s] /\ b = m[s] OBVIOUS
<1>4. a \in Int /\ s \in Int /\ b = a + d /\ w[s] = s * a /\ v[s] = s * b BY <1>1, <1>3, BytesAre
<1>5. PICK x, y, z, u : x = Size(n) /\ y = s * a /\ z = s * d /\ u = Size(m) OBVIOUS
<1> QED BY <1>1, <1>2, <1>4, <1>5, SumChanged, BytesAre, SizeType

\* Some nodes more, or less.
LEMMA NodesPlus ==
    ASSUME NEW n \in Nodes, NEW m \in Nodes, NEW k \in Nodes, \A s \in Sizes : k[s] = n[s] + m[s]
    PROVE  Size(k) = Size(n) + Size(m)
<1>1. PICK w, v, u : w = Bytes(n) /\ v = Bytes(m) /\ u = Bytes(k) OBVIOUS
<1>2. \A s \in Sizes : w[s] \in Nat /\ v[s] \in Nat /\ u[s] = w[s] + v[s]
  <2> SUFFICES ASSUME NEW s \in Sizes PROVE w[s] \in Nat /\ v[s] \in Nat /\ u[s] = w[s] + v[s] OBVIOUS
  <2>1. PICK a, b, c : a = n[s] /\ b = m[s] /\ c = k[s] OBVIOUS
  <2> QED BY <1>1, <2>1, BytesAre
<1>3. SumFunctionOnSet(u, Sizes) = SumFunctionOnSet(w, Sizes) + SumFunctionOnSet(v, Sizes)
  BY <1>2, SizeAssumption, SumPlus
<1> QED BY <1>1, <1>3, BytesAre

(***************************************************************************)
(* Nodes become obsolete and are written: several LEBs change in a step.   *)
(***************************************************************************)
\* The LEB properties s, nodes lv, obsolete nodes of the committed index od, size
\* of the index sz and write-buffers j, with the LEBs where they were.
Mid(f, s, lv, od, sz, j) ==
    /\ SpOk(s, Twice, Cardinality(GcLebs)) /\ Total("size", s.lp) = sz /\ sz \in Int
    /\ lv \in [LEBs -> Nodes] /\ od \in [LEBs -> Nat]
    /\ \A l \in LEBs : /\ s.lp[l] \in Props
                       /\ s.lp[l].free = sp.lp[l].free /\ s.lp[l].index = sp.lp[l].index
                       /\ s.lp[l].taken = sp.lp[l].taken /\ s.lp[l].dirty >= sp.lp[l].dirty
                       /\ LebOk(s.lp[l], Size(lv[l]), od[l], f[l], WbufOf(j, f[l]))

\* So it is before anything has changed.
LEMMA MidNow ==
    ASSUME IInv, NEW f, NEW s, NEW j, s = sp, j = jh, OwnIs(f), Base(f, s, j)
    PROVE  Mid(f, s, live, old_idx, calc_idx_sz, j)
<1>1. \A l \in LEBs : s.lp[l].dirty >= sp.lp[l].dirty BY DEF Base, Props
<1> QED BY <1>1, SizeNow DEF Mid, Base, IInv, DataInv, Nodes

\* Dirt is added to a LEB.
Dirtier(p, n) == [p EXCEPT !.dirty = @ + n]
\* Nothing else of it has changed.
LEMMA DirtierIs ==
    ASSUME NEW p \in Props, NEW n \in Nat
    PROVE  /\ Dirtier(p, n) \in Props /\ Dirtier(p, n).cat = p.cat /\ Dirtier(p, n).free = p.free
           /\ Dirtier(p, n).index = p.index /\ Dirtier(p, n).taken = p.taken
           /\ Dirtier(p, n).dirty = p.dirty + n /\ Spc(Dirtier(p, n)) = Spc(p) + n
           /\ Spc(p) \in Nat /\ p.dirty \in Nat /\ p.free \in Nat
<1>1. PICK a, b, c, d, e : a = p.free /\ b = p.dirty /\ c = p.index /\ d = p.taken /\ e = p.cat OBVIOUS
<1>2. PICK x : x = b + n OBVIOUS
<1> QED BY <1>1, <1>2 DEF Spc, Props, Dirtier

DirtStep(f, s, lv, od, sz, j, l, n, s2, lv2, od2, sz2, j2) ==
    /\ Mid(f, s, lv, od, sz, j)
    /\ l \in LEBs /\ n \in Nat /\ s2 = AddDirt(s, l, n)
    /\ lv2 \in [LEBs -> Nodes] /\ od2 \in [LEBs -> Nat]
    /\ \A k \in LEBs \ {l} : lv2[k] = lv[k] /\ od2[k] = od[k] /\ WbufOf(j2, f[k]) = WbufOf(j, f[k])
    /\ LebOk(Dirtier(s.lp[l], n), Size(lv2[l]), od2[l], f[l], WbufOf(j2, f[l]))
    /\ sz2 = IF s.lp[l].index THEN sz - n ELSE sz
\* All LEBs are in order if the dirtier one is.
LEMMA DirtKeeps ==
    ASSUME IInv, NEW f, NEW s, NEW lv, NEW od, NEW sz, NEW j, NEW l, NEW n, NEW s2, NEW lv2, NEW od2, NEW sz2, NEW j2,
           DirtStep(f, s, lv, od, sz, j, l, n, s2, lv2, od2, sz2, j2)
    PROVE  Mid(f, s2, lv2, od2, sz2, j2)
<1> /\ Mid(f, s, lv, od, sz, j)
    /\ l \in LEBs /\ n \in Nat /\ s2 = AddDirt(s, l, n)
    /\ lv2 \in [LEBs -> Nodes] /\ od2 \in [LEBs -> Nat]
    /\ \A k \in LEBs \ {l} : lv2[k] = lv[k] /\ od2[k] = od[k] /\ WbufOf(j2, f[k]) = WbufOf(j, f[k])
    /\ LebOk(Dirtier(s.lp[l], n), Size(lv2[l]), od2[l], f[l], WbufOf(j2, f[l]))
    /\ sz2 = IF s.lp[l].index THEN sz - n ELSE sz BY DEF DirtStep
<1>1. PICK m, p, e, g : m = Dirtier(s.lp[l], n) /\ p = s.lp[l] /\ e = Twice /\ g = Cardinality(GcLebs) OBVIOUS
<1>2. p \in Props BY <1>1 DEF Mid
<1>3. /\ m \in Props /\ m.cat = p.cat /\ m.free = p.free /\ m.index = p.index /\ m.taken = p.taken
      /\ m.dirty = p.dirty + n /\ Spc(m) = Spc(p) + n /\ Spc(p) \in Nat BY <1>1, <1>2, DirtierIs
<1>4. e \in Int /\ g \in Int BY <1>1, GcLebsFacts
<1>5. SpOk(s, e, g) /\ Total("size", s.lp) = sz /\ sz \in Int BY <1>1 DEF Mid
<1>6. ChangePre(s, e, g, l, m, 0) BY <1>1, <1>3, <1>4, <1>5 DEF ChangePre
<1>7. ChangePost(s2, s, e, g, l, m, 0) BY <1>1, <1>6, ChangeIs DEF AddDirt, Dirtier
<1>8. /\ SpOk(s2, e, g)
      /\ \A k \in LEBs \ {l} : SameSpace(s2.lp[k], s.lp[k])
      /\ SameSpace(s2.lp[l], m)
      /\ Total("size", s2.lp) = sz - Term("size", p) + Term("size", m) BY <1>1, <1>4, <1>5, <1>7 DEF ChangePost
<1>9. Total("size", s2.lp) = sz2 /\ sz2 \in Int
  <2>1. Term("size", p) = IF p.index THEN LebSize - Spc(p) ELSE 0 BY DEF Term
  <2>2. Term("size", m) = IF p.index THEN LebSize - (Spc(p) + n) ELSE 0 BY <1>3 DEF Term
  <2>3. PICK x : x = Spc(p) OBVIOUS
  <2>4. CASE p.index
    <3>1. sz2 = sz - n BY <1>1, <2>4
    <3> QED BY <1>3, <1>5, <1>8, <2>1, <2>2, <2>3, <2>4, <3>1, SizeAssumption
  <2>5. CASE ~p.index BY <1>1, <1>5, <1>8, <2>1, <2>2, <2>5
  <2> QED BY <2>4, <2>5
<1>10. \A k \in LEBs : /\ s2.lp[k].free = sp.lp[k].free /\ s2.lp[k].index = sp.lp[k].index
                       /\ s2.lp[k].taken = sp.lp[k].taken /\ s2.lp[k].dirty >= sp.lp[k].dirty
  <2> SUFFICES ASSUME NEW k \in LEBs
               PROVE  /\ s2.lp[k].free = sp.lp[k].free /\ s2.lp[k].index = sp.lp[k].index
                      /\ s2.lp[k].taken = sp.lp[k].taken /\ s2.lp[k].dirty >= sp.lp[k].dirty OBVIOUS
  <2>1. s.lp[k].free = sp.lp[k].free /\ s.lp[k].index = sp.lp[k].index /\ s.lp[k].taken = sp.lp[k].taken
        /\ s.lp[k].dirty >= sp.lp[k].dirty BY DEF Mid
  <2>2. CASE k = l
    <3>1. PICK a, b, c : a = s2.lp[k].dirty /\ b = p.dirty /\ c = sp.lp[k].dirty OBVIOUS
    <3>2. a >= c BY <1>1, <1>2, <1>3, <1>8, <2>1, <2>2, <3>1 DEF SameSpace, Props, IInv, CountInv, SpOk, SpType
    <3> QED BY <1>1, <1>3, <1>8, <2>1, <2>2, <3>1, <3>2 DEF SameSpace
  <2>3. CASE k # l BY <1>8, <2>1, <2>3 DEF SameSpace
  <2> QED BY <2>2, <2>3
<1>11. \A k \in LEBs : LebOk(s2.lp[k], Size(lv2[k]), od2[k], f[k], WbufOf(j2, f[k]))
  <2> SUFFICES ASSUME NEW k \in LEBs PROVE LebOk(s2.lp[k], Size(lv2[k]), od2[k], f[k], WbufOf(j2, f[k])) OBVIOUS
  <2>1. CASE k = l BY <1>1, <1>8, <2>1, LebSame
  <2>2. CASE k # l BY <1>8, <2>2, LebSame DEF Mid
  <2> QED BY <2>1, <2>2
<1> QED BY <1>1, <1>8, <1>9, <1>10, <1>11 DEF Mid, SpOk, SpType

\* A node is in a write-buffer.
HeadWrites(j, h, n, i) ==
    j \in HeadType /\ h \in Heads /\ n \in Nat /\ i = [j EXCEPT ![h].used = @ + n]
\* Nothing else of the heads has changed.
LEMMA HeadWritesIs ==
    ASSUME NEW j, NEW h, NEW n, NEW i, HeadWrites(j, h, n, i)
    PROVE  /\ i \in HeadType
           /\ \A k \in Heads : i[k].leb = j[k].leb /\ i[k].offs = j[k].offs /\ i[k].by = j[k].by
           /\ \A k \in Heads \ {h} : i[k] = j[k]
           /\ i[h].used = j[h].used + n /\ j[h].used \in Nat /\ h \in Heads
<1>1. PICK w : w = j[h] OBVIOUS
<1>2. PICK x, y, z, u : x = w.leb /\ y = w.offs /\ z = w.used + n /\ u = w.by OBVIOUS
<1>3. PICK v : v = [w EXCEPT !.used = z] OBVIOUS
<1> QED BY <1>1, <1>2, <1>3 DEF HeadType, HeadWrites

\* The other LEBs have what they had in their write-buffers.
OneWbuf(f, h, l, j, i) ==
    /\ OwnIs(f) /\ h \in Heads /\ jh[h].leb = l
    /\ \A k \in Heads \ {h} : i[k] = j[k]
\* So it is when only one head has changed.
LEMMA OtherWbufs ==
    ASSUME NEW f, NEW h, NEW l, NEW j, NEW i, OneWbuf(f, h, l, j, i)
    PROVE  \A k \in LEBs \ {l} : WbufOf(i, f[k]) = WbufOf(j, f[k])
<1> OwnIs(f) /\ h \in Heads /\ jh[h].leb = l /\ \A k \in Heads \ {h} : i[k] = j[k] BY DEF OneWbuf
<1> SUFFICES ASSUME NEW k \in LEBs \ {l} PROVE WbufOf(i, f[k]) = WbufOf(j, f[k]) OBVIOUS
<1>1. CASE f[k][1] # "head" BY <1>1 DEF WbufOf
<1>2. CASE f[k][1] = "head"
  <2>1. PICK g \in Heads : f[k] = <<"head", g>> BY <1>2, SpotIs DEF OwnIs
  <2> QED BY <2>1 DEF WbufOf, OwnIs
<1> QED BY <1>1, <1>2

\* One node of a LEB more.
NodeAdded(lv, l, s, lv2) == lv \in [LEBs -> Nodes] /\ l \in LEBs /\ s \in Sizes /\ lv2 = [lv EXCEPT ![l][s] = @ + 1]
\* Their size follows.
LEMMA NodeAddedIs ==
    ASSUME NEW lv, NEW l, NEW s, NEW lv2, NodeAdded(lv, l, s, lv2)
    PROVE  /\ lv2 \in [LEBs -> Nodes] /\ \A k \in LEBs \ {l} : lv2[k] = lv[k]
           /\ Size(lv2[l]) = Size(lv[l]) + s /\ Size(lv[l]) \in Nat /\ s \in Nat \ {0}
           /\ \A k \in LEBs, r \in Sizes : lv2[k][r] >= lv[k][r] /\ lv2[k][r] \in Nat
<1> lv \in [LEBs -> Nodes] /\ l \in LEBs /\ s \in Sizes /\ lv2 = [lv EXCEPT ![l][s] = @ + 1] BY DEF NodeAdded
<1>1. PICK n : n = lv[l] OBVIOUS
<1>2. n \in Nodes /\ s \in Nat \ {0} BY <1>1, SizeAssumption
<1>3. PICK m : m = [n EXCEPT ![s] = @ + 1] OBVIOUS
<1>4. m \in Nodes /\ m[s] = n[s] + 1 /\ \A r \in Sizes \ {s} : m[r] = n[r] BY <1>2, <1>3 DEF Nodes
<1>5. lv2 = [lv EXCEPT ![l] = m] BY <1>1, <1>3
<1>6. Size(m) = Size(n) + s * 1 BY <1>2, <1>4, NodesChange DEF NodesPre
<1>7. s * 1 = s BY <1>2
<1>8. lv2[l] = m /\ \A k \in LEBs \ {l} : lv2[k] = lv[k] BY <1>5
<1>9. lv2 \in [LEBs -> Nodes] BY <1>4, <1>5
<1>10. \A k \in LEBs, r \in Sizes : lv2[k][r] >= lv[k][r] /\ lv2[k][r] \in Nat
  <2> SUFFICES ASSUME NEW k \in LEBs, NEW r \in Sizes PROVE lv2[k][r] >= lv[k][r] /\ lv2[k][r] \in Nat OBVIOUS
  <2>1. PICK a, b : a = lv[k][r] /\ b = lv2[k][r] OBVIOUS
  <2> QED BY <1>1, <1>4, <1>8, <1>9, <2>1 DEF Nodes
<1> QED BY <1>1, <1>2, <1>6, <1>7, <1>8, <1>9, <1>10, SizeType

\* A node of the journal is written.
WroteStep(f, s, lv, od, sz, j, h, l, n, lv2, i) ==
    /\ Mid(f, s, lv, od, sz, j) /\ OwnIs(f) /\ jh[h].leb = l /\ l \in LEBs
    /\ NodeAdded(lv, l, n, lv2) /\ HeadWrites(j, h, n, i)
\* All LEBs are in order after it.
LEMMA WroteKeeps ==
    ASSUME NEW f, NEW s, NEW lv, NEW od, NEW sz, NEW j, NEW h, NEW l, NEW n, NEW lv2, NEW i,
           WroteStep(f, s, lv, od, sz, j, h, l, n, lv2, i)
    PROVE  Mid(f, s, lv2, od, sz, i)
<1> /\ Mid(f, s, lv, od, sz, j) /\ OwnIs(f) /\ jh[h].leb = l /\ l \in LEBs
    /\ NodeAdded(lv, l, n, lv2) /\ HeadWrites(j, h, n, i) BY DEF WroteStep
<1>1. /\ lv2 \in [LEBs -> Nodes] /\ \A k \in LEBs \ {l} : lv2[k] = lv[k]
      /\ Size(lv2[l]) = Size(lv[l]) + n /\ Size(lv[l]) \in Nat /\ n \in Nat \ {0} BY NodeAddedIs
<1>2. h \in Heads /\ i[h].used = j[h].used + n /\ j[h].used \in Nat /\ \A k \in Heads \ {h} : i[k] = j[k]
  BY HeadWritesIs
<1>3. \A k \in LEBs \ {l} : WbufOf(i, f[k]) = WbufOf(j, f[k]) BY <1>2, OtherWbufs DEF OneWbuf
<1>4. \A k \in LEBs : LebOk(s.lp[k], Size(lv2[k]), od[k], f[k], WbufOf(i, f[k]))
  <2> SUFFICES ASSUME NEW k \in LEBs PROVE LebOk(s.lp[k], Size(lv2[k]), od[k], f[k], WbufOf(i, f[k])) OBVIOUS
  <2>1. LebOk(s.lp[k], Size(lv[k]), od[k], f[k], WbufOf(j, f[k])) /\ s.lp[k] \in Props BY DEF Mid
  <2>2. CASE k # l BY <1>1, <1>3, <2>1, <2>2
  <2>3. CASE k = l
    <3>1. PICK a, u, x, old : a = Size(lv[l]) /\ u = j[h].used /\ x = s.lp[l] /\ old = od[l] OBVIOUS
    <3> QED BY <1>1, <1>2, <2>1, <2>3, <3>1, SizeAssumption DEF LebOk, Props, Spc, WbufOf, OwnIs
  <2> QED BY <2>2, <2>3
<1> QED BY <1>1, <1>4 DEF Mid

\* A node of the journal that is dirt from the start is written.
DroppedStep(f, s, lv, od, sz, j, h, l, n, s2, i) ==
    /\ Mid(f, s, lv, od, sz, j) /\ OwnIs(f) /\ jh[h].leb = l /\ l \in LEBs
    /\ n \in Nat /\ s2 = AddDirt(s, l, n) /\ HeadWrites(j, h, n, i)
\* All LEBs are in order after it.
LEMMA DroppedKeeps ==
    ASSUME IInv, NEW f, NEW s, NEW lv, NEW od, NEW sz, NEW j, NEW h, NEW l, NEW n, NEW s2, NEW i,
           DroppedStep(f, s, lv, od, sz, j, h, l, n, s2, i)
    PROVE  Mid(f, s2, lv, od, sz, i)
<1> /\ Mid(f, s, lv, od, sz, j) /\ OwnIs(f) /\ jh[h].leb = l /\ l \in LEBs
    /\ n \in Nat /\ s2 = AddDirt(s, l, n) /\ HeadWrites(j, h, n, i) BY DEF DroppedStep
<1>1. h \in Heads /\ i[h].used = j[h].used + n /\ j[h].used \in Nat /\ \A k \in Heads \ {h} : i[k] = j[k]
  BY HeadWritesIs
<1>2. \A k \in LEBs \ {l} : WbufOf(i, f[k]) = WbufOf(j, f[k])
  <2>1. OneWbuf(f, h, l, j, i) BY <1>1 DEF OneWbuf
  <2> QED BY <2>1, OtherWbufs
<1>3. f[l] = <<"head", h>> BY <1>1 DEF OwnIs
<1>4. PICK a, u, x, old, m : a = Size(lv[l]) /\ u = j[h].used /\ x = s.lp[l] /\ old = od[l] /\ m = Dirtier(s.lp[l], n)
  OBVIOUS
<1>5. WbufOf(j, f[l]) = u /\ WbufOf(i, f[l]) = u + n BY <1>1, <1>3, <1>4 DEF WbufOf
<1>6. LebOk(x, a, old, <<"head", h>>, u) /\ x \in Props BY <1>3, <1>4, <1>5 DEF Mid
<1>7. m.index = x.index /\ m.free = x.free /\ Spc(m) = Spc(x) + n /\ Spc(x) \in Nat BY <1>4, <1>6, DirtierIs
<1>8. ~x.index /\ a = LebSize - Spc(x) + u BY <1>6 DEF LebOk
<1>9. a = LebSize - Spc(m) + (u + n) BY <1>1, <1>4, <1>7, <1>8, SizeAssumption
<1>10. DirtStep(f, s, lv, od, sz, j, l, n, s2, lv, od, sz, i)
  <2>1. LebOk(Dirtier(s.lp[l], n), Size(lv[l]), od[l], f[l], WbufOf(i, f[l]))
    BY <1>3, <1>4, <1>5, <1>6, <1>7, <1>8, <1>9 DEF LebOk
  <2> QED BY <1>2, <1>4, <1>8, <2>1 DEF DirtStep, Mid
<1> QED BY <1>10, DirtKeeps

\* A node is replaced or removed.
NodeRemoved(lv, l, s, lv2) ==
    /\ lv \in [LEBs -> Nodes] /\ l \in LEBs /\ s \in Sizes /\ lv[l][s] > 0
    /\ lv2 = [lv EXCEPT ![l][s] = @ - 1]
\* The size of the nodes of the LEB follows.
LEMMA NodeRemovedIs ==
    ASSUME NEW lv, NEW l, NEW s, NEW lv2, NodeRemoved(lv, l, s, lv2)
    PROVE  /\ lv2 \in [LEBs -> Nodes] /\ \A k \in LEBs \ {l} : lv2[k] = lv[k]
           /\ Size(lv2[l]) = Size(lv[l]) - s /\ Size(lv[l]) \in Nat /\ Size(lv2[l]) \in Nat /\ s \in Nat \ {0}
<1> /\ lv \in [LEBs -> Nodes] /\ l \in LEBs /\ s \in Sizes /\ lv[l][s] > 0
    /\ lv2 = [lv EXCEPT ![l][s] = @ - 1] BY DEF NodeRemoved
<1>1. PICK n, d : n = lv[l] /\ d = 0 - 1 OBVIOUS
<1>2. n \in Nodes /\ s \in Nat \ {0} BY <1>1, SizeAssumption
<1>3. PICK m : m = [n EXCEPT ![s] = @ - 1] OBVIOUS
<1>4. m \in Nodes /\ m[s] = n[s] + d /\ \A r \in Sizes \ {s} : m[r] = n[r] BY <1>1, <1>2, <1>3 DEF Nodes
<1>5. NodesPre(n, m, s, d) BY <1>1, <1>2, <1>4 DEF NodesPre
<1>6. Size(n) \in Nat /\ Size(m) \in Nat BY <1>2, <1>4, SizeType
<1>7. Size(m) = Size(n) - s
  <2>1. PICK a, b, c : a = Size(n) /\ b = s * d /\ c = Size(m) OBVIOUS
  <2> QED BY <1>1, <1>2, <1>5, <1>6, <2>1, NodesChange
<1> QED BY <1>1, <1>2, <1>3, <1>4, <1>6, <1>7

ReplacedStep(f, s, lv, od, sz, j, l, n, s2, lv2) ==
    /\ Mid(f, s, lv, od, sz, j) /\ OwnIs(f) /\ j \in HeadType /\ NodeRemoved(lv, l, n, lv2) /\ s2 = AddDirt(s, l, n)
\* All LEBs are in order after it.
LEMMA ReplacedKeeps ==
    ASSUME IInv, NEW f, NEW s, NEW lv, NEW od, NEW sz, NEW j, NEW l, NEW n, NEW s2, NEW lv2,
           ReplacedStep(f, s, lv, od, sz, j, l, n, s2, lv2)
    PROVE  Mid(f, s2, lv2, od, sz, j)
<1> /\ Mid(f, s, lv, od, sz, j) /\ OwnIs(f) /\ j \in HeadType /\ NodeRemoved(lv, l, n, lv2) /\ s2 = AddDirt(s, l, n)
  BY DEF ReplacedStep
<1>1. /\ lv2 \in [LEBs -> Nodes] /\ \A k \in LEBs \ {l} : lv2[k] = lv[k]
      /\ Size(lv2[l]) = Size(lv[l]) - n /\ Size(lv[l]) \in Nat /\ Size(lv2[l]) \in Nat /\ n \in Nat \ {0}
  BY NodeRemovedIs
<1>2. l \in LEBs BY DEF NodeRemoved
<1>3. PICK a, u, x, old, m, o : /\ a = Size(lv[l]) /\ u = WbufOf(j, f[l]) /\ x = s.lp[l] /\ old = od[l]
                                /\ m = Dirtier(s.lp[l], n) /\ o = f[l] OBVIOUS
<1>4. LebOk(x, a, old, o, u) /\ x \in Props BY <1>2, <1>3 DEF Mid
<1>5. m.index = x.index /\ m.free = x.free /\ Spc(m) = Spc(x) + n /\ Spc(x) \in Nat /\ m.dirty = x.dirty + n
      /\ x.dirty \in Nat /\ x.free \in Nat BY <1>1, <1>3, <1>4, DirtierIs
<1>6. a # 0 BY <1>1, <1>3
<1>7. ~x.index /\ a = LebSize - Spc(x) + u BY <1>4, <1>6 DEF LebOk
<1>8. u \in Nat /\ (o[1] # "head" => u = 0) BY <1>2, <1>3, SpotIs DEF WbufOf, HeadType, OwnIs
<1>9. a - n = LebSize - Spc(m) + u BY <1>1, <1>3, <1>5, <1>7, <1>8, SizeAssumption
<1>10. o[1] \notin {"reserved", "erase", "layout"}
  <2> SUFFICES ASSUME o[1] \in {"reserved", "erase", "layout"} PROVE FALSE OBVIOUS
  <2> QED BY <1>4, <1>6, <1>7, <1>8, SizeAssumption DEF Spc, LebOk
<1>11. DirtStep(f, s, lv, od, sz, j, l, n, s2, lv2, od, sz, j)
  BY <1>1, <1>2, <1>3, <1>4, <1>5, <1>7, <1>9, <1>10 DEF DirtStep, Mid, LebOk
<1> QED BY <1>11, DirtKeeps

\* A znode is changed, or was dirty before.
ZnodeStep(f, z, s, od, sz) ==
    /\ OwnIs(f) /\ Base(f, sp, jh)
    /\ \/ z = None /\ s = sp /\ od = old_idx /\ sz = calc_idx_sz
       \/ /\ z \in IdxLive /\ s = AddDirt(sp, z, 1)
          /\ od = [old_idx EXCEPT ![z] = @ + 1] /\ sz = calc_idx_sz - 1
\* All LEBs are in order after it.
LEMMA ZnodeKeeps ==
    ASSUME IInv, NEW f, NEW z, NEW s, NEW od, NEW sz, ZnodeStep(f, z, s, od, sz)
    PROVE  Mid(f, s, live, od, sz, jh) /\ \A l \in GcLebs : od[l] = old_idx[l]
<1>0. OwnIs(f) /\ Base(f, sp, jh) BY DEF ZnodeStep
<1>1. PICK s0, lv, od0, sz0, j : s0 = sp /\ lv = live /\ od0 = old_idx /\ sz0 = calc_idx_sz /\ j = jh OBVIOUS
<1>2. Mid(f, s0, lv, od0, sz0, j) BY <1>0, <1>1, MidNow
<1>3. CASE z = None /\ s = sp /\ od = old_idx /\ sz = calc_idx_sz BY <1>1, <1>2, <1>3
<1>4. CASE /\ z \in IdxLive /\ s = AddDirt(sp, z, 1)
           /\ od = [old_idx EXCEPT ![z] = @ + 1] /\ sz = calc_idx_sz - 1
  <2>1. z \in LEBs /\ sp.lp[z].index /\ Spc(sp.lp[z]) < LebSize BY <1>4 DEF IdxLive
  <2>2. PICK p, m, a, b, o, u : /\ p = sp.lp[z] /\ m = Dirtier(p, 1) /\ a = Size(lv[z]) /\ b = od0[z]
                                /\ o = f[z] /\ u = WbufOf(j, f[z]) OBVIOUS
  <2>3. p \in Props /\ LebOk(p, a, b, o, u) BY <1>1, <1>2, <2>1, <2>2 DEF Mid
  <2>4. /\ m.free = p.free /\ m.index = p.index /\ m.dirty = p.dirty + 1 /\ Spc(m) = Spc(p) + 1
        /\ Spc(p) \in Nat /\ p.dirty \in Nat /\ p.free \in Nat BY <2>2, <2>3, DirtierIs
  <2>5. LebSize \in Nat /\ p.index /\ Spc(p) < LebSize BY <2>1, <2>2, SizeAssumption
  <2>6. p.free # LebSize BY <2>4, <2>5 DEF Spc
  <2>7. o[1] \notin {"thread", "reserved", "head", "bud", "old", "erase", "layout"}
    BY <2>3, <2>5, <2>6 DEF LebOk
  <2>8. b \in Nat /\ od[z] = b + 1 /\ od \in [LEBs -> Nat] /\ \A k \in LEBs \ {z} : od[k] = od0[k]
    BY <1>1, <1>2, <1>4, <2>1, <2>2 DEF Mid
  <2>9. LebOk(m, a, b + 1, o, u) BY <2>3, <2>4, <2>5, <2>6, <2>7, <2>8 DEF LebOk
  <2>10. DirtStep(f, s0, lv, od0, sz0, j, z, 1, s, lv, od, sz, j)
    BY <1>1, <1>2, <1>4, <2>1, <2>2, <2>8, <2>9 DEF DirtStep, Mid
  <2>11. z \notin GcLebs BY <1>0, <2>1, <2>2, <2>7 DEF OwnIs
  <2> QED BY <1>1, <2>8, <2>10, <2>11, DirtKeeps, GcLebsFacts
<1> QED BY <1>3, <1>4 DEF ZnodeStep

\* The next state, when the LEBs are where they were.
MidStep(f, s, lv, od, sz, j) ==
    /\ OwnOk(f, Places) /\ Mid(f, s, lv, od, sz, j)
    /\ s = sp' /\ lv = live' /\ od = old_idx' /\ sz = calc_idx_sz' /\ j = jh'
    /\ \A h \in Heads : j[h].leb = jh[h].leb
    /\ \A t \in Threads : th'[t].leb = th[t].leb
    /\ gc'.leb = gc.leb /\ Twice' = Twice
    /\ UNCHANGED <<gc_lnum, idx_gc, buds, old_buds, cmt>>
\* So OwnInv and CountInv are kept.
LEMMA MidKeeps ==
    ASSUME IInv, NEW f, NEW s, NEW lv, NEW od, NEW sz, NEW j, MidStep(f, s, lv, od, sz, j)
    PROVE  OwnInv' /\ CountInv'
<1>0. /\ OwnOk(f, Places) /\ Mid(f, s, lv, od, sz, j)
      /\ s = sp' /\ lv = live' /\ od = old_idx' /\ sz = calc_idx_sz' /\ j = jh'
      /\ \A h \in Heads : j[h].leb = jh[h].leb
      /\ \A t \in Threads : th'[t].leb = th[t].leb
      /\ gc'.leb = gc.leb /\ Twice' = Twice
      /\ gc_lnum' = gc_lnum /\ idx_gc' = idx_gc /\ buds' = buds /\ old_buds' = old_buds /\ cmt' = cmt
  BY DEF MidStep
<1>1. PICK o : o = Places' OBVIOUS
<1>2. /\ LebOfHead' = LebOfHead /\ ThreadLebs' = ThreadLebs /\ GcLebs' = GcLebs /\ HeadLebs' = HeadLebs
  BY <1>0 DEF LebOfHead, ThreadLebs, GcLebs, HeadLebs
<1>3. Taken' = Taken BY <1>0 DEF Taken, Mid
<1>4. PICK e, g : e = Twice' /\ g = Cardinality(GcLebs)' OBVIOUS
<1> QED BY <1>0, <1>1, <1>2, <1>3, <1>4, PlacesAre, OwnNext, CountNext DEF Mid

\* What the heads see of it.
LEMMA MidBufs ==
    ASSUME NEW f, NEW s, NEW lv, NEW od, NEW sz, NEW j, Mid(f, s, lv, od, sz, j), NEW i,
           \A h \in Heads : i[h].leb \in Maybe(LEBs) /\ BufOk(i[h], sp.lp)
    PROVE  \A h \in Heads : BufOk(i[h], s.lp)
<1> SUFFICES ASSUME NEW h \in Heads PROVE BufOk(i[h], s.lp) OBVIOUS
<1>1. CASE i[h].leb = None BY <1>1 DEF BufOk
<1>2. CASE i[h].leb # None BY <1>2 DEF BufOk, Mid, Maybe
<1> QED BY <1>1, <1>2

\* What the garbage collector sees of it.
LEMMA MidGarbage ==
    ASSUME IInv, NEW f, OwnIs(f), NEW s, NEW lv, NEW od, NEW sz, NEW j, Mid(f, s, lv, od, sz, j)
    PROVE  gc.leb # None =>
             /\ gc.leb \in LEBs
             /\ s.lp[gc.leb].index = sp.lp[gc.leb].index
             /\ s.lp[gc.leb].free = sp.lp[gc.leb].free
             /\ Spc(sp.lp[gc.leb]) = LebSize /\ ~sp.lp[gc.leb].index => Spc(s.lp[gc.leb]) = LebSize
<1> SUFFICES ASSUME gc.leb # None
             PROVE  /\ gc.leb \in LEBs
                    /\ s.lp[gc.leb].index = sp.lp[gc.leb].index
                    /\ s.lp[gc.leb].free = sp.lp[gc.leb].free
                    /\ Spc(sp.lp[gc.leb]) = LebSize /\ ~sp.lp[gc.leb].index => Spc(s.lp[gc.leb]) = LebSize
  OBVIOUS
<1>1. PICK l : l = gc.leb OBVIOUS
<1>2. l \in LEBs BY <1>1 DEF IInv, GcInv, GcType, Maybe
<1>3. f[l] = <<"garbage", 0>> BY <1>1, <1>2 DEF OwnIs
<1>4. PICK p, q, a : p = sp.lp[l] /\ q = s.lp[l] /\ a = Size(lv[l]) OBVIOUS
<1>5. q \in Props /\ q.free = p.free /\ q.index = p.index /\ q.dirty >= p.dirty /\ lv[l] \in Nodes
  BY <1>2, <1>4 DEF Mid
<1>6. LebOk(q, a, od[l], <<"garbage", 0>>, 0) BY <1>2, <1>3, <1>4 DEF Mid, WbufOf
<1>7. Spc(p) = LebSize /\ ~p.index => Spc(q) = LebSize
  <2> SUFFICES ASSUME Spc(p) = LebSize, ~p.index PROVE Spc(q) = LebSize OBVIOUS
  <2>1. PICK x, y, d : x = Spc(p) /\ y = Spc(q) /\ d = q.dirty - p.dirty OBVIOUS
  <2>2. d \in Nat /\ y = x + d /\ x = LebSize /\ x \in Nat
    BY <1>2, <1>4, <1>5, <2>1 DEF Spc, Props, IInv, CountInv, SpOk, SpType
  <2> QED BY <1>4, <1>5, <1>6, <2>1, <2>2, SizeType DEF LebOk
<1> QED BY <1>1, <1>2, <1>4, <1>5, <1>7

\* The collector goes on where it was; its LEB may have become dirtier.
GcStill ==
    /\ gc' = gc /\ gc_lnum' = gc_lnum /\ (gc.pc = "pick" => lp_mutex'.by = "gc")
    /\ gc.by # None => th'[gc.by].pc = "gc"
    /\ gc.leb # None =>
         /\ sp'.lp[gc.leb].index = sp.lp[gc.leb].index
         /\ sp'.lp[gc.leb].free = sp.lp[gc.leb].free
         /\ Spc(sp.lp[gc.leb]) = LebSize /\ ~sp.lp[gc.leb].index => Spc(sp'.lp[gc.leb]) = LebSize
    /\ gc_lnum = None /\ gc.pc = "move" =>
         jh'[GCHD].leb = jh[GCHD].leb /\ jh'[GCHD].offs = jh[GCHD].offs /\ jh'[GCHD].used = jh[GCHD].used
\* GcInv is kept.
LEMMA GcGoesOn ==
    ASSUME IInv, GcStill
    PROVE  GcInv'
<1>0. /\ gc' = gc /\ gc_lnum' = gc_lnum /\ (gc.pc = "pick" => lp_mutex'.by = "gc")
      /\ gc.by # None => th'[gc.by].pc = "gc"
      /\ gc_lnum = None /\ gc.pc = "move" =>
           jh'[GCHD].leb = jh[GCHD].leb /\ jh'[GCHD].offs = jh[GCHD].offs /\ jh'[GCHD].used = jh[GCHD].used
  BY DEF GcStill
<1>1. GcInv BY DEF IInv
<1>2. /\ gc.pc = "off" <=> gc.by = None
      /\ gc.pc \in {"off", "iter", "pick"} => gc.leb = None BY <1>1 DEF GcInv
<1> QED BY <1>0, <1>1, <1>2 DEF GcInv, GcStill

\* What a thread that is to write a node has.
LEMMA ReserveFacts ==
    ASSUME IInv, NEW t \in Threads, th[t].pc = "reserve"
    PROVE  /\ th[t] \in ThType /\ th[t].kind \in Requests /\ ~th[t].any /\ th[t].len \in Sizes
           /\ th[t].leb = None
           /\ HeadOf[th[t].kind] \in Heads /\ HeadOf[th[t].kind] # GCHD
           /\ Reading(t) /\ cmt.pc \notin Exclusive
BY ThreadFacts, SpaceAssumption DEF ThOk, IInv, CmtInv, Reading, Readers

\* What is written to a head: nodes, and those it replaces.
Written(f, h, l, n, z, od, sz, s, v) ==
    /\ OwnIs(f) /\ Base(f, sp, jh) /\ jh[h].leb = l /\ l \in LEBs /\ n \in Sizes
    /\ HeadWrites(jh, h, n, jh')
    /\ ZnodeStep(f, z, s, od, sz)
    /\ \/ sp' = s /\ live' = [live EXCEPT ![l][n] = @ + 1]
       \/ /\ v \in LEBs \X Sizes /\ live[v[1]][v[2]] > 0
          /\ sp' = AddDirt(s, v[1], v[2])
          /\ live' = [[live EXCEPT ![l][n] = @ + 1] EXCEPT ![v[1]][v[2]] = @ - 1]
       \/ /\ v \in LEBs \X Sizes /\ live[v[1]][v[2]] > 0
          /\ sp' = AddDirt(AddDirt(s, v[1], v[2]), l, n)
          /\ live' = [live EXCEPT ![v[1]][v[2]] = @ - 1]
\* All LEBs are in order after it.
LEMMA WrittenMid ==
    ASSUME IInv, NEW f, NEW h, NEW l, NEW n, NEW z, NEW od, NEW sz, NEW s, NEW v,
           Written(f, h, l, n, z, od, sz, s, v), NEW s2, s2 = sp', NEW lv2, lv2 = live', NEW j2, j2 = jh'
    PROVE  Mid(f, s2, lv2, od, sz, j2)
<1>1. /\ OwnIs(f) /\ Base(f, sp, jh) /\ jh[h].leb = l /\ l \in LEBs /\ n \in Sizes
      /\ HeadWrites(jh, h, n, j2) /\ ZnodeStep(f, z, s, od, sz) BY DEF Written
<1>2. PICK lv, j : lv = live /\ j = jh OBVIOUS
<1>3. Mid(f, s, lv, od, sz, j) BY <1>1, <1>2, ZnodeKeeps
<1>4. HeadWrites(j, h, n, j2) /\ j \in HeadType BY <1>1, <1>2 DEF HeadWrites
<1>5. lv \in [LEBs -> Nodes] BY <1>3 DEF Mid
<1>6. CASE s2 = s /\ lv2 = [lv EXCEPT ![l][n] = @ + 1]
  <2>1. WroteStep(f, s, lv, od, sz, j, h, l, n, lv2, j2)
    BY <1>1, <1>3, <1>4, <1>5, <1>6 DEF WroteStep, NodeAdded
  <2> QED BY <1>6, <2>1, WroteKeeps
<1>7. CASE /\ v \in LEBs \X Sizes /\ lv[v[1]][v[2]] > 0
           /\ s2 = AddDirt(s, v[1], v[2])
           /\ lv2 = [[lv EXCEPT ![l][n] = @ + 1] EXCEPT ![v[1]][v[2]] = @ - 1]
  <2>1. PICK a, b, lv1 : a = v[1] /\ b = v[2] /\ lv1 = [lv EXCEPT ![l][n] = @ + 1] OBVIOUS
  <2>2. a \in LEBs /\ b \in Sizes BY <1>7, <2>1
  <2>3. NodeAdded(lv, l, n, lv1) BY <1>1, <1>5, <2>1 DEF NodeAdded
  <2>4. Mid(f, s, lv1, od, sz, j2) BY <1>1, <1>3, <1>4, <2>3, WroteKeeps DEF WroteStep
  <2>5. lv1 \in [LEBs -> Nodes] /\ lv1[a][b] > 0
    <3>1. lv[a][b] \in Nat /\ lv[a][b] > 0 BY <1>5, <1>7, <2>1, <2>2 DEF Nodes
    <3> QED BY <2>2, <2>3, <3>1, NodeAddedIs
  <2>6. ReplacedStep(f, s, lv1, od, sz, j2, a, b, s2, lv2)
    BY <1>1, <1>4, <1>7, <2>1, <2>2, <2>4, <2>5, HeadWritesIs DEF ReplacedStep, NodeRemoved
  <2> QED BY <2>6, ReplacedKeeps
<1>8. CASE /\ v \in LEBs \X Sizes /\ lv[v[1]][v[2]] > 0
           /\ s2 = AddDirt(AddDirt(s, v[1], v[2]), l, n)
           /\ lv2 = [lv EXCEPT ![v[1]][v[2]] = @ - 1]
  <2>1. PICK a, b, s1 : a = v[1] /\ b = v[2] /\ s1 = AddDirt(s, v[1], v[2]) OBVIOUS
  <2>2. ReplacedStep(f, s, lv, od, sz, j, a, b, s1, lv2)
    BY <1>1, <1>3, <1>4, <1>5, <1>8, <2>1 DEF ReplacedStep, NodeRemoved
  <2> QED BY <1>1, <1>4, <1>8, <2>1, <2>2, ReplacedKeeps, SizeAssumption, DroppedKeeps DEF DroppedStep
<1> QED BY <1>2, <1>6, <1>7, <1>8 DEF Written

\* What is written, by what replaces what.
WriteWith(t, h, l, n, z, added, v) ==
    /\ DirtyZnode(z, added) /\ z \in LEBs \cup {None} /\ added \in {0, 1}
    /\ \/ sp' = WithZnode(sp, z) /\ live' = [live EXCEPT ![l][n] = @ + 1]
       \/ /\ v \in LEBs \X Sizes /\ live[v[1]][v[2]] > 0
          /\ sp' = AddDirt(WithZnode(sp, z), v[1], v[2])
          /\ live' = [[live EXCEPT ![l][n] = @ + 1] EXCEPT ![v[1]][v[2]] = @ - 1]
       \/ /\ v \in LEBs \X Sizes /\ live[v[1]][v[2]] > 0
          /\ sp' = AddDirt(AddDirt(WithZnode(sp, z), v[1], v[2]), l, n)
          /\ live' = [live EXCEPT ![v[1]][v[2]] = @ - 1]
    /\ jh' = [jh EXCEPT ![h].used = @ + n]
WriteRest(t) ==
    /\ th' = [th EXCEPT ![t].pc = "written"]
    /\ UNCHANGED <<gc_lnum, buds, idx_gc, old_buds, bi, gc, cmt, lp_mutex, dirty_idx>>
\* WriteNode, by its parts.
LEMMA WriteNodeIs ==
    ASSUME NEW t \in Threads, th[t].kind \in Requests, NEW h, h = HeadOf[th[t].kind], NEW l, l = jh[h].leb,
           NEW n, n = th[t].len, WriteNode(t)
    PROVE  /\ th[t].pc = "reserve" /\ LpFree /\ Room(h) >= n
           /\ \E z, added, v : WriteWith(t, h, l, n, z, added, v)
           /\ WriteRest(t)
<1>1. th[t].pc = "reserve" /\ LpFree /\ Room(h) >= n BY DEF WriteNode
<1>2. PICK k : k = th[t].kind OBVIOUS
<1> DEFINE K == th[t].kind
           H == HeadOf[K]
           L == jh[H].leb
           N == th[t].len
<1>3. \E z \in LEBs \cup {None}, added \in (IF K = "new" THEN {0, 1} ELSE {0}) :
       \E v \in (IF Replaces(K) THEN {m \in LEBs \X Sizes : InUse(m[1], m[2])} ELSE {<<None, 0>>}) :
            LET written == IF K = "del" THEN live ELSE [live EXCEPT ![L][N] = @ + 1]
                s == IF v[1] = None THEN WithZnode(sp, z)
                     ELSE AddDirt(WithZnode(sp, z), v[1], v[2])
            IN /\ DirtyZnode(z, added)
               /\ sp' = IF K = "del" THEN AddDirt(s, L, N) ELSE s
               /\ live' = IF v[1] = None THEN written ELSE [written EXCEPT ![v[1]][v[2]] = @ - 1]
               /\ pend' = [pend EXCEPT ![H] = @ \cup ({v[1]} \ {None})]
               /\ jh' = [jh EXCEPT ![H].used = @ + N] BY DEF WriteNode
<1>4. K = k /\ H = h /\ L = l /\ N = n BY <1>2
<1> HIDE DEF K, H, L, N
<1>5. PICK z \in LEBs \cup {None}, added \in (IF K = "new" THEN {0, 1} ELSE {0}) :
        \E v \in (IF Replaces(K) THEN {m \in LEBs \X Sizes : InUse(m[1], m[2])} ELSE {<<None, 0>>}) :
             LET written == IF K = "del" THEN live ELSE [live EXCEPT ![L][N] = @ + 1]
                 s == IF v[1] = None THEN WithZnode(sp, z)
                      ELSE AddDirt(WithZnode(sp, z), v[1], v[2])
             IN /\ DirtyZnode(z, added)
                /\ sp' = IF K = "del" THEN AddDirt(s, L, N) ELSE s
                /\ live' = IF v[1] = None THEN written ELSE [written EXCEPT ![v[1]][v[2]] = @ - 1]
                /\ pend' = [pend EXCEPT ![H] = @ \cup ({v[1]} \ {None})]
                /\ jh' = [jh EXCEPT ![H].used = @ + N] BY <1>3
<1>6. PICK v \in (IF Replaces(K) THEN {m \in LEBs \X Sizes : InUse(m[1], m[2])} ELSE {<<None, 0>>}) :
            LET written == IF K = "del" THEN live ELSE [live EXCEPT ![L][N] = @ + 1]
                s == IF v[1] = None THEN WithZnode(sp, z)
                     ELSE AddDirt(WithZnode(sp, z), v[1], v[2])
            IN /\ DirtyZnode(z, added)
               /\ sp' = IF K = "del" THEN AddDirt(s, L, N) ELSE s
               /\ live' = IF v[1] = None THEN written ELSE [written EXCEPT ![v[1]][v[2]] = @ - 1]
               /\ pend' = [pend EXCEPT ![H] = @ \cup ({v[1]} \ {None})]
               /\ jh' = [jh EXCEPT ![H].used = @ + N] BY <1>5
<1>7. v \in (IF Replaces(k) THEN {m \in LEBs \X Sizes : InUse(m[1], m[2])} ELSE {<<None, 0>>}) BY <1>4, <1>6
<1>8. PICK written, s : /\ written = IF K = "del" THEN live ELSE [live EXCEPT ![L][N] = @ + 1]
                        /\ s = IF v[1] = None THEN WithZnode(sp, z) ELSE AddDirt(WithZnode(sp, z), v[1], v[2])
  OBVIOUS
<1>9. /\ DirtyZnode(z, added)
      /\ sp' = IF K = "del" THEN AddDirt(s, L, N) ELSE s
      /\ live' = IF v[1] = None THEN written ELSE [written EXCEPT ![v[1]][v[2]] = @ - 1]
      /\ jh' = [jh EXCEPT ![H].used = @ + N] BY <1>6, <1>8
<1>10. written = IF k = "del" THEN live ELSE [live EXCEPT ![l][n] = @ + 1] BY <1>4, <1>8
<1>11. /\ DirtyZnode(z, added)
       /\ sp' = IF k = "del" THEN AddDirt(s, l, n) ELSE s
       /\ live' = IF v[1] = None THEN written ELSE [written EXCEPT ![v[1]][v[2]] = @ - 1]
       /\ jh' = [jh EXCEPT ![h].used = @ + n] BY <1>4, <1>9
<1>12. CASE k = "new"
  <2>1. v[1] = None BY <1>7, <1>12 DEF Replaces
  <2>2. WriteWith(t, h, l, n, z, added, v) BY <1>4, <1>5, <1>8, <1>10, <1>11, <1>12, <2>1 DEF WriteWith
  <2> QED BY <1>1, <2>2 DEF WriteNode, WriteRest, DirtyZnode
<1>13. CASE k # "new"
  <2>1. v \in LEBs \X Sizes /\ InUse(v[1], v[2]) BY <1>7, <1>13 DEF Replaces
  <2>2. v[1] \in LEBs /\ live[v[1]][v[2]] > 0 BY <2>1 DEF InUse
  <2>3. v[1] # None BY <2>2, SpaceAssumption
  <2>4. WriteWith(t, h, l, n, z, added, v)
    <3>1. CASE k = "change" BY <1>4, <1>5, <1>8, <1>10, <1>11, <2>1, <2>2, <2>3, <3>1 DEF WriteWith
    <3>2. CASE k = "del" BY <1>4, <1>5, <1>8, <1>10, <1>11, <2>1, <2>2, <2>3, <3>2 DEF WriteWith
    <3> QED BY <1>2, <1>13, <3>1, <3>2, SpaceAssumption
  <2> QED BY <1>1, <2>4 DEF WriteNode, WriteRest, DirtyZnode
<1> QED BY <1>12, <1>13

\* The write-buffer written to still fits.
LEMMA WrittenFits ==
    ASSUME NEW b \in Buffer, NEW c \in Buffer, NEW lp, BufOk(b, lp), NEW n \in Nat, b.leb # None,
           n <= LebSize - b.offs - b.used, c.leb = b.leb, c.offs = b.offs, c.used = b.used + n
    PROVE  BufOk(c, lp)
BY SizeAssumption DEF BufOk, Buffer

\* A node is written to a head.
LEMMA WriteNodeKeeps ==
    ASSUME IInv, NEW t \in Threads, WriteNode(t)
    PROVE  IInv'
<1>1. PICK f : OwnOk(f, Places) /\ OwnIs(f) /\ Base(f, sp, jh) BY BaseNow
<1>2. PICK h, l, n : h = HeadOf[th[t].kind] /\ l = jh[h].leb /\ n = th[t].len OBVIOUS
<1>3. th[t].pc = "reserve" BY DEF WriteNode
<1>4. /\ th[t] \in ThType /\ th[t].kind \in Requests /\ ~th[t].any /\ n \in Sizes /\ th[t].leb = None
      /\ h \in Heads /\ h # GCHD /\ Reading(t) /\ cmt.pc \notin Exclusive BY <1>2, <1>3, ReserveFacts
<1>5. /\ LpFree /\ Room(h) >= n
      /\ \E z, added, v : WriteWith(t, h, l, n, z, added, v)
      /\ WriteRest(t) BY <1>2, <1>4, WriteNodeIs
<1>6. PICK z, added, v : WriteWith(t, h, l, n, z, added, v) BY <1>5
<1>7. n \in Nat \ {0} BY <1>4, SizeAssumption
<1>8. l # None BY <1>2, <1>5, <1>7 DEF Room
<1>9. jh[h] \in Buffer /\ l \in LEBs BY <1>1, <1>2, <1>4, <1>8 DEF Buffer, Maybe, Base, HeadType
<1>10. PICK s, od, sz, s2, lv2, j2 : /\ s = WithZnode(sp, z) /\ od = old_idx' /\ sz = calc_idx_sz'
                                     /\ s2 = sp' /\ lv2 = live' /\ j2 = jh' OBVIOUS
<1>11. ZnodeStep(f, z, s, od, sz) /\ dirty_zn' \in Nat /\ dirty_idx' = dirty_idx
  <2>1. DirtyZnode(z, added) /\ added \in {0, 1} BY <1>6 DEF WriteWith
  <2>2. dirty_zn \in Nat BY DEF IInv, DataInv
  <2>3. CASE z = None BY <1>1, <1>10, <2>1, <2>2, <2>3, SizeNow DEF ZnodeStep, DirtyZnode, WithZnode, Num
  <2>4. CASE z # None BY <1>1, <1>10, <2>1, <2>2, <2>4 DEF ZnodeStep, DirtyZnode, Num, WithZnode
  <2> QED BY <2>3, <2>4
<1>12. HeadWrites(jh, h, n, jh') BY <1>1, <1>4, <1>6, <1>7 DEF HeadWrites, WriteWith, Base
<1>13. Written(f, h, l, n, z, od, sz, s, v)
  BY <1>1, <1>2, <1>4, <1>6, <1>9, <1>10, <1>11, <1>12 DEF Written, WriteWith
<1>14. Mid(f, s2, lv2, od, sz, j2) BY <1>10, <1>13, WrittenMid
<1>15. /\ th' = [th EXCEPT ![t].pc = "written"]
       /\ gc_lnum' = gc_lnum /\ buds' = buds /\ idx_gc' = idx_gc /\ old_buds' = old_buds /\ bi' = bi
       /\ gc' = gc /\ cmt' = cmt /\ lp_mutex' = lp_mutex BY <1>5 DEF WriteRest
<1>16. PICK D : th \in [Threads -> D] BY ThreadFacts
<1>17. PICK r : r = [th[t] EXCEPT !.pc = "written"] OBVIOUS
<1>18. /\ r.pc = "written" /\ r.leb = None /\ r.held = th[t].held /\ r.kind = th[t].kind /\ r.any = th[t].any
       /\ r \in ThType BY <1>4, <1>17 DEF ThType, Pcs
<1>19. th' = [th EXCEPT ![t] = r] /\ th'[t] = r /\ \A u \in Threads \ {t} : th'[u] = th[u]
  BY <1>15, <1>16, <1>17
<1>20. /\ j2 \in HeadType
       /\ \A k \in Heads : j2[k].leb = jh[k].leb /\ j2[k].offs = jh[k].offs /\ j2[k].by = jh[k].by
       /\ \A k \in Heads \ {h} : j2[k] = jh[k]
       /\ j2[h].used = jh[h].used + n
  <2>1. PICK j : j = jh OBVIOUS
  <2> QED BY <1>10, <1>12, <2>1, HeadWritesIs
<1>21. OwnInv' /\ CountInv'
  <2>1. MidStep(f, s2, lv2, od, sz, j2)
    BY <1>1, <1>4, <1>10, <1>14, <1>15, <1>18, <1>19, <1>20 DEF MidStep, Twice
  <2> QED BY <2>1, MidKeeps
<1>22. HeadInv'
  <2>1. \A k \in Heads : j2[k].leb \in Maybe(LEBs) /\ BufOk(j2[k], sp.lp)
    <3> SUFFICES ASSUME NEW k \in Heads PROVE j2[k].leb \in Maybe(LEBs) /\ BufOk(j2[k], sp.lp) OBVIOUS
    <3>1. jh[k] \in Buffer /\ BufOk(jh[k], sp.lp) /\ j2[k] \in Buffer BY <1>1, <1>20 DEF Base, HeadType, Buffer
    <3>2. CASE k # h BY <1>20, <3>1, <3>2 DEF Buffer
    <3>3. CASE k = h
      <4>1. PICK b, c, lp : b = jh[h] /\ c = j2[h] /\ lp = sp.lp OBVIOUS
      <4>2. b \in Buffer /\ c \in Buffer /\ BufOk(b, lp) /\ b.leb # None /\ c.leb = b.leb /\ c.offs = b.offs
            /\ c.used = b.used + n BY <1>2, <1>4, <1>8, <1>20, <3>1, <3>3, <4>1
      <4>3. n <= LebSize - b.offs - b.used
        BY <1>2, <1>5, <1>7, <1>8, <4>1, <4>2, SizeAssumption DEF Room, Buffer
      <4> QED BY <1>7, <3>1, <3>3, <4>1, <4>2, <4>3, WrittenFits DEF Buffer
    <3> QED BY <3>2, <3>3
  <2> QED BY <1>10, <1>14, <1>15, <1>20, <2>1, MidBufs, HeadNext DEF IInv, HeadInv
<1>23. ThreadInv'
  <2>1. PICK lp, T, m : lp = sp'.lp /\ T = th' /\ m = lp_mutex' OBVIOUS
  <2>2. ThreadPre(f, lp, T, t, r, m)
    BY <1>1, <1>4, <1>5, <1>10, <1>14, <1>18, <1>19, <2>1, LpFreeIs DEF ThreadPre, ThOk, Mid, Finding
  <2> QED BY <2>1, <2>2, ThreadNext
<1>24. GcInv'
  <2>1. gc.by # None => th'[gc.by].pc = "gc" BY <1>3, <1>19 DEF IInv, GcInv, GcType, Maybe
  <2>2. j2[GCHD] = jh[GCHD] BY <1>4, <1>20, SpaceAssumption
  <2>3. GcStill BY <1>1, <1>5, <1>10, <1>14, <1>15, <2>1, <2>2, MidGarbage, LpFreeIs DEF GcStill
  <2> QED BY <2>3, GcGoesOn
<1>25. CmtInv' BY <1>4, <1>15, CmtNext
<1>26. DataInv' BY <1>10, <1>11, <1>14, <1>15 DEF DataInv, Nodes, Mid, IInv
<1>27. EraseInv' BY <1>10, <1>11, <1>15, ZnodeKeeps DEF EraseInv, GcLebs, IInv
<1>28. BudgetInv' BY <1>15, <1>18, <1>19, BudgetFrame DEF IInv
<1> QED BY <1>21, <1>22, <1>23, <1>24, <1>25, <1>26, <1>27, <1>28 DEF IInv

(***************************************************************************)
(* Write-buffers go to flash.                                              *)
(***************************************************************************)
\* The next state, when the LEBs are where they were.
BaseStep(f, s, j) ==
    /\ OwnOk(f, Places) /\ OwnIs(f) /\ Base(f, s, j) /\ sp' = s /\ jh' = j
    /\ \A t \in Threads : th'[t].leb = th[t].leb
    /\ gc'.leb = gc.leb /\ Twice' = Twice
    /\ UNCHANGED <<live, old_idx, calc_idx_sz, gc_lnum, idx_gc, buds, old_buds, cmt>>
\* What is kept then.
LEMMA BaseKeeps ==
    ASSUME IInv, NEW f, NEW s, NEW j, BaseStep(f, s, j)
    PROVE  /\ OwnInv' /\ CountInv' /\ HeadInv'
           /\ \A k \in LEBs : f[k][1] # "head" => SameSpace(sp'.lp[k], sp.lp[k])
<1>0. /\ OwnOk(f, Places) /\ OwnIs(f) /\ Base(f, s, j) /\ sp' = s /\ jh' = j
      /\ \A t \in Threads : th'[t].leb = th[t].leb
      /\ gc'.leb = gc.leb /\ Twice' = Twice
      /\ live' = live /\ old_idx' = old_idx /\ calc_idx_sz' = calc_idx_sz
      /\ gc_lnum' = gc_lnum /\ idx_gc' = idx_gc /\ buds' = buds /\ old_buds' = old_buds /\ cmt' = cmt
  BY DEF BaseStep
<1>1. \A h \in Heads : j[h].leb = jh[h].leb BY <1>0 DEF Base
<1>2. PICK o : o = Places' OBVIOUS
<1>3. /\ LebOfHead' = LebOfHead /\ ThreadLebs' = ThreadLebs /\ GcLebs' = GcLebs /\ HeadLebs' = HeadLebs
  BY <1>0, <1>1 DEF LebOfHead, ThreadLebs, GcLebs, HeadLebs
<1>4. Taken' = Taken BY <1>0 DEF Taken, Base
<1>5. PICK e, g : e = Twice' /\ g = Cardinality(GcLebs)' OBVIOUS
<1>6. CountInv' BY <1>0, <1>3, <1>5, SizeNow, CountNext DEF Base
<1>7. HeadInv' BY <1>0, <1>1, HeadNext DEF Base, IInv, HeadInv
<1> QED BY <1>0, <1>2, <1>3, <1>4, <1>6, <1>7, PlacesAre, OwnNext DEF Base

\* Heads not synchronized are as they were.
LEMMA NotSynced ==
    ASSUME NEW hs, NEW h \in Heads, h \notin hs, NEW j, j = JhSynced(hs)
    PROVE  j[h] = jh[h]
BY DEF JhSynced

\* A write-buffer is synchronized by its timer.
LEMMA WbufTimerKeeps ==
    ASSUME IInv, NEW h \in Others, WbufTimer(h)
    PROVE  IInv'
<1>1. /\ LpFree /\ sp' = Synced(sp, {h}) /\ jh' = JhSynced({h})
      /\ th' = th /\ gc' = gc /\ cmt' = cmt /\ lp_mutex' = lp_mutex /\ buds' = buds /\ UNCHANGED rest
      /\ gc_lnum' = gc_lnum /\ live' = live /\ old_idx' = old_idx /\ calc_idx_sz' = calc_idx_sz
      /\ idx_gc' = idx_gc /\ old_buds' = old_buds /\ dirty_zn' = dirty_zn BY DEF WbufTimer, rest, index
<1>2. h \in Heads /\ GCHD \in Heads /\ GCHD \notin {h} BY SpaceAssumption DEF Others
<1>3. PICK f : OwnOk(f, Places) /\ OwnIs(f) /\ Base(f, sp, jh) BY BaseNow
<1>4. PICK hs, s, j : hs = {h} /\ s = Synced(sp, hs) /\ j = JhSynced(hs) OBVIOUS
<1>5. /\ OwnInv' /\ CountInv' /\ HeadInv'
      /\ \A k \in LEBs : f[k][1] # "head" => SameSpace(sp'.lp[k], sp.lp[k])
  BY <1>1, <1>2, <1>3, <1>4, BaseSynced, BaseKeeps DEF BaseStep, Twice
<1>6. PICK lp : lp = sp'.lp OBVIOUS
<1>7. /\ gc.leb # None => SameSpace(lp[gc.leb], sp.lp[gc.leb])
      /\ \A k \in LEBs : f[k][1] = "thread" => lp[k].free = sp.lp[k].free BY <1>3, <1>5, <1>6, HeadsOnly
<1>8. ThreadInv'
  <2>1. (\E t \in Threads : Finding(th[t])) => lp_mutex'.by = "find" BY <1>1, LpFreeIs
  <2>2. th' = th /\ OwnIs(f) /\ \A k \in LEBs : f[k][1] = "thread" => lp[k].free = sp.lp[k].free
    BY <1>1, <1>3, <1>7
  <2> QED BY <1>6, <2>1, <2>2, ThreadSame
<1>9. GcInv' BY <1>1, <1>2, <1>4, <1>6, <1>7, NotSynced, LpFreeIs, GcNext DEF IInv, GcInv
<1> QED BY <1>1, <1>5, <1>8, <1>9, CmtNext, RestNext DEF IInv, Reading, DataInv

(***************************************************************************)
(* Steps of the garbage collector.                                         *)
(***************************************************************************)
\* The collector runs for a thread, and no commit starts meanwhile.
LEMMA GcRuns ==
    ASSUME IInv, gc.pc # "off"
    PROVE  /\ gc \in GcType /\ gc.by \in Threads /\ th[gc.by].pc = "gc" /\ Reading(gc.by)
           /\ cmt.pc \notin Exclusive
BY DEF IInv, CmtInv, GcType, Maybe, Reading, Readers, GcInv

\* All but where the LEBs are and the collector itself.
GcSide(f) ==
    /\ gc.pc # "off" /\ OwnIs(f) /\ th' = th
    /\ \A k \in LEBs : f[k][1] = "thread" => sp'.lp[k].free = sp.lp[k].free
    /\ lp_mutex' \in [by : {"nobody", "find", "gc"}, pick : BOOLEAN, excl : BOOLEAN]
    /\ (\E t \in Threads : Finding(th[t])) => lp_mutex'.by = "find"
    /\ live' \in [LEBs -> Nodes] /\ old_idx' \in [LEBs -> Nat] /\ dirty_zn' \in Nat
    /\ buds' \in SUBSET LEBs
    /\ UNCHANGED <<old_buds, bi, cmt, dirty_idx>>
\* What such a step keeps.
LEMMA GcSideKeeps ==
    ASSUME IInv, NEW f, GcSide(f)
    PROVE  ThreadInv' /\ CmtInv' /\ DataInv' /\ BudgetInv'
<1>1. /\ gc.pc # "off" /\ OwnIs(f) /\ th' = th
      /\ \A k \in LEBs : f[k][1] = "thread" => sp'.lp[k].free = sp.lp[k].free
      /\ lp_mutex' \in [by : {"nobody", "find", "gc"}, pick : BOOLEAN, excl : BOOLEAN]
      /\ (\E t \in Threads : Finding(th[t])) => lp_mutex'.by = "find"
      /\ live' \in [LEBs -> Nodes] /\ old_idx' \in [LEBs -> Nat] /\ dirty_zn' \in Nat
      /\ buds' \in SUBSET LEBs
      /\ old_buds' = old_buds /\ bi' = bi /\ cmt' = cmt /\ dirty_idx' = dirty_idx BY DEF GcSide
<1>2. ThreadInv'
  <2>1. PICK lp : lp = sp'.lp OBVIOUS
  <2> QED BY <1>1, <2>1, ThreadSame
<1>3. CmtInv' BY <1>1, GcRuns, CmtNext
<1>4. BudgetInv' BY <1>1, BudgetFrame DEF IInv
<1> QED BY <1>1, <1>2, <1>3, <1>4 DEF IInv, DataInv, Nodes

\* What is to be erased is as it was.
LEMMA EraseKept ==
    ASSUME IInv, idx_gc' = idx_gc, cmt' = cmt, \A l \in GcLebs : old_idx'[l] = old_idx[l]
    PROVE  EraseInv'
BY DEF EraseInv, GcLebs, IInv

\* The data as they are.
LEMMA DataNow ==
    ASSUME IInv
    PROVE  /\ live \in [LEBs -> Nodes] /\ old_idx \in [LEBs -> Nat] /\ dirty_zn \in Nat
           /\ buds \in SUBSET LEBs
           /\ lp_mutex \in [by : {"nobody", "find", "gc"}, pick : BOOLEAN, excl : BOOLEAN]
BY DEF IInv, DataInv, Nodes

\* A record of the collector, by its fields.
GcShape(r) ==
    r = [by |-> r.by, any |-> r.any, pc |-> r.pc, i |-> r.i, min |-> r.min, leb |-> r.leb,
         moved |-> r.moved, before |-> r.before, err |-> r.err]
GcFields(r) ==
    /\ r.by \in Maybe(Threads) /\ r.any \in BOOLEAN /\ r.pc \in GcPcs /\ r.i \in Int /\ r.min \in Int
    /\ r.leb \in Maybe(LEBs) /\ r.moved \in BOOLEAN /\ r.before \in Int /\ r.err \in Errs
\* A record with the fields of the collector.
LEMMA GcTyped ==
    ASSUME NEW r, GcShape(r), GcFields(r)
    PROVE  r \in GcType
BY DEF GcShape, GcFields, GcType

\* The room in a LEB of a head is an integer.
LEMMA RoomType ==
    ASSUME IInv, NEW h \in Heads
    PROVE  Room(h) \in Int
BY SizeAssumption DEF Room, Buffer, IInv, HeadInv, HeadType

\* A step of the collector that changes no LEB.
GcPlain ==
    /\ gc.pc # "off" /\ gc'.leb = gc.leb /\ GcInv'
    /\ lp_mutex' \in [by : {"nobody", "find", "gc"}, pick : BOOLEAN, excl : BOOLEAN]
    /\ (\E t \in Threads : Finding(th[t])) => lp_mutex'.by = "find"
    /\ Twice' = Twice
    /\ UNCHANGED <<sp, live, jh, gc_lnum, idx_gc, buds, old_buds, bi, dirty_zn, calc_idx_sz, old_idx,
                   dirty_idx, th, cmt>>
\* Such a step keeps the invariant.
LEMMA GcPlainKeeps ==
    ASSUME IInv, GcPlain
    PROVE  IInv'
<1>1. PICK f : OwnOk(f, Places) /\ OwnIs(f) /\ Base(f, sp, jh) BY BaseNow
<1> QED
  BY <1>1, LebsStill, DataNow, GcSideKeeps, EraseKept DEF IInv, CountInv, GcLebs, HeadInv, HeadOk, GcSide,
     GcPlain

\* The collector begins with another LEB, or ends.
LEMMA GcIterKeeps ==
    ASSUME IInv, GcIter
    PROVE  IInv'
<1>1. gc.pc = "iter" /\ LpFree
      /\ UNCHANGED <<sp, live, jh, gc_lnum, idx_gc, buds, old_buds, bi, dirty_zn, calc_idx_sz, old_idx,
                   dirty_idx, th, cmt>> BY DEF GcIter, data, index, gcother
<1>2. gc \in GcType /\ gc.by \in Threads /\ th[gc.by].pc = "gc" BY <1>1, GcRuns
<1>3. gc.leb = None /\ gc_lnum # None /\ gc.by # None BY <1>1, <1>2, SpaceAssumption DEF IInv, GcInv
<1>4. (\A u \in Threads : ~Finding(th[u])) /\ Twice = 0 BY <1>1, LpFreeIs
<1>5. PICK x : x = Room(GCHD) OBVIOUS
<1>6. x \in Int BY <1>5, RoomType, SpaceAssumption
<1>7. ASSUME NEW r, \/ r = [gc EXCEPT !.pc = "end", !.err = "again"]
                    \/ r = [gc EXCEPT !.pc = "end", !.err = "nospc"]
                    \/ r = [gc EXCEPT !.pc = "pick", !.before = x]
      PROVE  r \in GcType /\ r.leb = gc.leb /\ r.by = gc.by /\ r.pc \in {"end", "pick"}
  <2> QED BY <1>2, <1>6, <1>7, GcTyped DEF GcType, GcShape, GcFields, GcPcs, Errs
<1>8. CASE lp_mutex' = lp_mutex /\ (\/ gc' = [gc EXCEPT !.pc = "end", !.err = "again"]
                                    \/ gc' = [gc EXCEPT !.pc = "end", !.err = "nospc"])
  <2>1. PICK r : r = gc' OBVIOUS
  <2> QED BY <1>1, <1>2, <1>3, <1>4, <1>7, <1>8, <2>1, DataNow, GcPlainKeeps DEF GcPlain, Twice, GcInv, GcType
<1>9. CASE \E p, e \in BOOLEAN : /\ gc' = [gc EXCEPT !.pc = "pick", !.before = x]
                                 /\ lp_mutex' = [by |-> "gc", excl |-> e, pick |-> p]
  <2>1. PICK r, m : r = gc' /\ m = lp_mutex' OBVIOUS
  <2> QED BY <1>1, <1>2, <1>3, <1>4, <1>7, <1>9, <2>1, GcPlainKeeps DEF GcPlain, Twice, Num, GcInv, GcType
<1>10. \/ lp_mutex' = lp_mutex /\ (\/ gc' = [gc EXCEPT !.pc = "end", !.err = "again"]
                                   \/ gc' = [gc EXCEPT !.pc = "end", !.err = "nospc"])
       \/ \E p, e \in BOOLEAN : /\ gc' = [gc EXCEPT !.pc = "pick", !.before = x]
                                /\ lp_mutex' = [by |-> "gc", excl |-> e, pick |-> p]
  <2>1. PICK p \in BOOLEAN : p = (~gc.any /\ Rsvd(sp, bi.min_idx) < IdxAvail(sp))
    <3>1. CASE ~gc.any /\ Rsvd(sp, bi.min_idx) < IdxAvail(sp) BY <3>1
    <3>2. CASE ~(~gc.any /\ Rsvd(sp, bi.min_idx) < IdxAvail(sp)) BY <3>2
    <3> QED BY <3>1, <3>2
  <2>2. PICK e \in BOOLEAN : e = (bi.min_idx >= sp.lst.idx)
    <3>1. CASE bi.min_idx >= sp.lst.idx BY <3>1
    <3>2. CASE ~(bi.min_idx >= sp.lst.idx)
      <4>1. FALSE = (bi.min_idx >= sp.lst.idx) BY <3>2
      <4> QED BY <4>1
    <3> QED BY <3>1, <3>2
  <2> QED BY <1>5, <2>1, <2>2 DEF GcIter
<1> QED BY <1>8, <1>9, <1>10

\* The LEBs a search for dirty space is over.
LEMMA DirtyLebsAre ==
    ASSUME IInv, NEW min, NEW pick, NEW excl, NEW l, l \in DirtyLebs(min, pick, excl)
    PROVE  /\ l \in LEBs /\ ~sp.lp[l].taken
           /\ sp.lp[l].free = LebSize => ~sp.lp[l].index /\ Spc(sp.lp[l]) = LebSize
           /\ Spc(sp.lp[l]) = LebSize => ~sp.lp[l].index
<1>1. l \in LEBs /\ (sp.lp[l].cat \in {"dirty_idx", "dirty", "empty", "freeable", "free"}
                     \/ (sp.lp[l].cat = "uncat" /\ ~sp.lp[l].taken))
  <2> DEFINE idx == IF excl THEN {} ELSE Spacious(Spacious(Top(sp, "dirty_idx"), min), LebSize \div 2)
             dirty == Spacious(Top(sp, "dirty"), min)
             Less(m, k) == Spc(sp.lp[m]) < Spc(sp.lp[k])
             scan == {m \in Spacious(LEBs, min) : sp.lp[m].dirty >= DeadWm /\ ~sp.lp[m].taken}
             uncat == {m \in scan \cap Cat(sp, "uncat") : ~(excl /\ sp.lp[m].index)}
             both == {m \in idx : \E k \in dirty : ~Less(m, k)} \cup {k \in dirty : \E m \in idx : Less(m, k)}
  <2>1. DirtyLebs(min, pick, excl) =
          IF pick /\ Cat(sp, "empty") # {} THEN Cat(sp, "empty")
          ELSE IF pick /\ Cat(sp, "freeable") # {} THEN Cat(sp, "freeable")
          ELSE IF idx # {} /\ dirty # {} THEN both
          ELSE IF idx \cup dirty # {} THEN idx \cup dirty
          ELSE IF scan \cap Cat(sp, "free") # {} THEN scan \cap Cat(sp, "free")
          ELSE uncat BY DEF DirtyLebs
  <2>2. \A m \in idx : m \in LEBs /\ sp.lp[m].cat = "dirty_idx" BY DEF Spacious, Top, Cat
  <2>3. \A m \in dirty : m \in LEBs /\ sp.lp[m].cat = "dirty" BY DEF Spacious, Top, Cat
  <2>4. \A m \in uncat : m \in LEBs /\ sp.lp[m].cat = "uncat" /\ ~sp.lp[m].taken BY DEF Cat
  <2>5. both \subseteq idx \cup dirty OBVIOUS
  <2> HIDE DEF idx, dirty, scan, uncat, both
  <2>6. PICK A : A = scan \cap Cat(sp, "free") OBVIOUS
  <2>7. PICK D : D = DirtyLebs(min, pick, excl) OBVIOUS
  <2>8. l \in idx \cup dirty => l \in LEBs /\ sp.lp[l].cat \in {"dirty_idx", "dirty"} BY <2>2, <2>3
  <2> QED BY <2>1, <2>4, <2>5, <2>6, <2>7, <2>8 DEF Cat
<1>2. PICK f : OwnOk(f, Places) /\ OwnIs(f) /\ Base(f, sp, jh) BY BaseNow
<1>3. PICK p : p = sp.lp[l] OBVIOUS
<1>4. p \in Props /\ InCategory(p) BY <1>1, <1>2, <1>3 DEF Base, SpOk
<1>5. ~p.taken BY <1>1, <1>3, <1>4, CategorySays
<1>6. PICK n, old : n = Size(live[l]) /\ old = old_idx[l] OBVIOUS
<1>7. LebOk(p, n, old, Nobody, 0) BY <1>1, <1>2, <1>3, <1>5, <1>6, NobodyIs DEF Base, WbufOf
<1>8. p.free = LebSize => ~p.index /\ Spc(p) = LebSize
  <2> SUFFICES ASSUME p.free = LebSize PROVE ~p.index /\ Spc(p) = LebSize OBVIOUS
  <2> QED BY <1>1, <1>4, <1>6, <1>7, SizeAssumption, DataNow, SizeType DEF LebOk, Nobody, Spc, Props
<1>9. Spc(p) = LebSize => ~p.index
  <2> SUFFICES ASSUME Spc(p) = LebSize PROVE ~p.index OBVIOUS
  <2>1. p.cat # "uncat"
    <3>1. PICK c : c = Categorize(p) OBVIOUS
    <3> QED BY <1>4, <1>5, <3>1, PropsFacts DEF InCategory
  <2> QED BY <1>1, <1>3, <1>4, <1>8, <2>1, CategorySays
<1> QED BY <1>1, <1>3, <1>5, <1>8, <1>9

\* One LEB changes that no head is on.
TouchOff(f, s, j, l, n, d, g, p) ==
    /\ TouchStep(f, s, j, l, n, d, g, p) /\ OwnIs(f) /\ f[l][1] # "head" /\ jh' = j /\ buds' = buds
\* What is kept then.
LEMMA TouchOffKeeps ==
    ASSUME IInv, NEW f, NEW s, NEW j, NEW l, NEW n, NEW d, NEW g, NEW p, TouchOff(f, s, j, l, n, d, g, p)
    PROVE  /\ OwnInv' /\ CountInv' /\ HeadInv'
           /\ \A k \in LEBs \ {l} : SameSpace(sp'.lp[k], s.lp[k])
           /\ SameSpace(sp'.lp[l], n)
           /\ \A k \in LEBs \ {l} : f[k][1] # "head" => SameSpace(sp'.lp[k], sp.lp[k])
<1>0. TouchStep(f, s, j, l, n, d, g, p) /\ OwnIs(f) /\ f[l][1] # "head" /\ jh' = j /\ buds' = buds
  BY DEF TouchOff
<1>1. SpaceStep(f, s, j, l, n, d) BY <1>0 DEF TouchStep
<1>2. Base(f, s, j) BY <1>1 DEF SpaceStep
<1>3. /\ \A k \in LEBs \ {l} : SameSpace(sp'.lp[k], s.lp[k])
      /\ SameSpace(sp'.lp[l], n) BY <1>1, SpaceIs
<1>4. HeadInv'
  <2>1. PICK lp : lp = sp'.lp OBVIOUS
  <2>2. j \in HeadType /\ \A h \in Heads : j[h].leb = jh[h].leb BY <1>2 DEF Base
  <2> QED BY <1>0, <1>2, <1>3, <2>1, <2>2, BufsKept, HeadNext DEF IInv, HeadInv
<1> QED BY <1>0, <1>2, <1>3, <1>4, TouchKeeps DEF SameSpace, Base

\* What the collector does with the LEB it has found.
LEMMA WhatIs ==
    ASSUME NEW p \in Props, p.free = LebSize => ~p.index /\ Spc(p) = LebSize, Spc(p) = LebSize => ~p.index
    PROVE  LET w == GcWhat(p)
           IN /\ w \in {"free", "sync", "index", "move"}
              /\ w \in {"free", "sync"} => ~p.index /\ Spc(p) = LebSize
              /\ w = "index" <=> p.index
BY DEF GcWhat

\* No dirty LEB is found.
LEMMA GcPickNone ==
    ASSUME IInv, GcPick, DirtyLebs(gc.min, lp_mutex.pick, lp_mutex.excl) = {}
    PROVE  IInv'
<1>1. /\ gc.pc = "pick" /\ lp_mutex' = Unlocked /\ gc' = [gc EXCEPT !.pc = "end", !.err = "nospc"]
      /\ UNCHANGED <<sp, live, jh, gc_lnum, idx_gc, buds, old_buds, bi, dirty_zn, calc_idx_sz, old_idx,
                     dirty_idx, th, cmt>> BY DEF GcPick, data, index, gcother
<1>2. PICK r : r = gc' OBVIOUS
<1> QED
  BY <1>1, <1>2, GcRuns, SpaceAssumption, GcTyped, UnlockedIs, GcPlainKeeps DEF GcPlain, IInv, ThreadInv, Twice,
     Num, GcInv, GcType, GcFields, GcPcs, Errs, GcShape

\* A dirty LEB is found.
LEMMA GcPickFound ==
    ASSUME IInv, GcPick, DirtyLebs(gc.min, lp_mutex.pick, lp_mutex.excl) # {}
    PROVE  IInv'
<1>1. /\ gc.pc = "pick" /\ lp_mutex' = Unlocked
      /\ live' = live /\ jh' = jh /\ gc_lnum' = gc_lnum /\ idx_gc' = idx_gc /\ buds' = buds
      /\ old_buds' = old_buds /\ bi' = bi /\ dirty_zn' = dirty_zn /\ calc_idx_sz' = calc_idx_sz
      /\ old_idx' = old_idx /\ dirty_idx' = dirty_idx /\ th' = th /\ cmt' = cmt
  BY DEF GcPick, data, index, gcother
<1>2. PICK l \in DirtyLebs(gc.min, lp_mutex.pick, lp_mutex.excl) :
         /\ sp' = Take(sp, l)
         /\ gc' = [gc EXCEPT !.pc = GcWhat(sp.lp[l]), !.leb = l, !.moved = FALSE] BY DEF GcPick, OneOfEach
<1>3. /\ l \in LEBs /\ ~sp.lp[l].taken
      /\ sp.lp[l].free = LebSize => ~sp.lp[l].index /\ Spc(sp.lp[l]) = LebSize
      /\ Spc(sp.lp[l]) = LebSize => ~sp.lp[l].index
  <2>1. PICK a, b, c : a = gc.min /\ b = lp_mutex.pick /\ c = lp_mutex.excl OBVIOUS
  <2> QED BY <1>2, <2>1, DirtyLebsAre
<1>4. gc \in GcType /\ gc.by \in Threads /\ th[gc.by].pc = "gc" BY <1>1, GcRuns
<1>5. gc.leb = None /\ gc_lnum # None /\ gc.by # None /\ lp_mutex.by = "gc" /\ l # None
  BY <1>1, <1>3, <1>4, SpaceAssumption DEF IInv, GcInv
<1>6. PICK f : OwnOk(f, Places) /\ OwnIs(f) /\ Base(f, sp, jh) BY BaseNow
<1>7. sp.lp[l] \in Props BY <1>3, <1>6 DEF Base
<1>8. PICK n, s, j, w : n = TookLeb(sp.lp[l]) /\ s = sp /\ j = jh /\ w = GcWhat(sp.lp[l]) OBVIOUS
<1>9. /\ n \in Props /\ n.cat = s.lp[l].cat /\ n.free = s.lp[l].free /\ n.dirty = s.lp[l].dirty
      /\ n.index = s.lp[l].index /\ n.taken /\ Spc(n) = Spc(s.lp[l])
      /\ Term("size", n) = Term("size", s.lp[l]) /\ Term("size", n) \in Int BY <1>7, <1>8, TookIs
<1>10. /\ w \in {"free", "sync", "index", "move"}
       /\ w \in {"free", "sync"} => ~n.index /\ Spc(n) = LebSize
       /\ w = "index" <=> n.index
  <2>1. PICK q : q = sp.lp[l] OBVIOUS
  <2> QED BY <1>3, <1>7, <1>8, <1>9, <2>1, WhatIs
<1>11. SpaceStep(f, s, j, l, n, 0) BY <1>2, <1>3, <1>6, <1>8, <1>9 DEF SpaceStep, Take, TookLeb
<1>12. Taken' = Taken \cup {l} BY <1>9, <1>11, SpaceIs
<1>13. f[l] = Nobody /\ f[l][1] = "nobody" /\ \A o : OwnOk(f, o) => l \notin o.taken BY <1>3, <1>6, NobodyIs
<1>14. PICK r : r = gc' OBVIOUS
<1>15. GcShape(r) /\ r.leb = l /\ r.by = gc.by /\ r.pc = w BY <1>2, <1>4, <1>8, <1>14 DEF GcType, GcShape
<1>16. r \in GcType BY <1>2, <1>3, <1>4, <1>10, <1>14, <1>15, GcTyped DEF GcType, GcFields, GcPcs, Maybe
<1>17. PICK o : o = Places OBVIOUS
<1>18. PICK p, g : /\ p = [o EXCEPT !.garbage = l, !.taken = @ \cup {l}]
                   /\ g = [f EXCEPT ![l] = <<"garbage", 0>>] OBVIOUS
<1>19. OwnOk(f, o) /\ l \notin o.taken /\ o.garbage = None BY <1>5, <1>6, <1>13, <1>17 DEF Places
<1>20. OwnOk(g, p) BY <1>3, <1>18, <1>19, GarbageTakes
<1>21. NextPlaces(p)
  BY <1>1, <1>12, <1>14, <1>15, <1>17, <1>18, <1>19, PlacesNow DEF NextPlaces, OwnOk, Where, PlaceType,
     ThreadLebs, LebOfHead, HeadLebs, GcLebs
<1>22. TouchStep(f, s, j, l, n, 0, g, p)
  <2>1. g[l] = <<"garbage", 0>> /\ \A k \in LEBs \ {l} : g[k] = f[k] BY <1>3, <1>6, <1>18 DEF OwnIs
  <2>2. Twice' = Twice /\ Cardinality(GcLebs') = Cardinality(GcLebs) + 0
    BY <1>1, <1>5, UnlockedIs, GcLebsFacts DEF Twice, Num, GcLebs
  <2>3. calc_idx_sz' = calc_idx_sz - Term("size", s.lp[l]) + Term("size", n) BY <1>1, <1>6, <1>9, SizeNow
  <2>4. LebOk(n, Size(live'[l]), old_idx'[l], g[l], WbufOf(jh', g[l]))
    BY <1>1, <1>3, <1>6, <1>8, <1>9, <1>13, <2>1 DEF WbufOf, LebOk, Nobody, Base
  <2> QED BY <1>1, <1>8, <1>11, <1>20, <1>21, <2>1, <2>2, <2>3, <2>4 DEF TouchStep
<1>23. /\ OwnInv' /\ CountInv' /\ HeadInv'
       /\ \A k \in LEBs \ {l} : SameSpace(sp'.lp[k], s.lp[k])
       /\ SameSpace(sp'.lp[l], n)
       /\ \A k \in LEBs \ {l} : f[k][1] # "head" => SameSpace(sp'.lp[k], sp.lp[k])
  BY <1>1, <1>6, <1>8, <1>13, <1>22, TouchOffKeeps DEF TouchOff
<1>24. ThreadInv' /\ CmtInv' /\ DataInv' /\ BudgetInv'
  BY <1>1, <1>5, <1>6, <1>13, <1>23, DataNow, UnlockedIs, GcSideKeeps DEF GcSide, SameSpace, IInv, ThreadInv
<1>25. GcInv' BY <1>1, <1>4, <1>5, <1>10, <1>14, <1>15, <1>16, <1>23 DEF GcInv, SameSpace, Spc
<1> QED BY <1>1, <1>23, <1>24, <1>25, EraseKept DEF IInv

\* ubifs_find_dirty_leb() keeps the invariant.
LEMMA GcPickKeeps ==
    ASSUME IInv, GcPick
    PROVE  IInv'
BY GcPickNone, GcPickFound

\* The LEB the collector has.
LEMMA GarbageIs ==
    ASSUME IInv, NEW f, OwnIs(f), Base(f, sp, jh), NEW l, l = gc.leb, l # None
    PROVE  /\ l \in LEBs /\ f[l] = <<"garbage", 0>> /\ f[l][1] = "garbage" /\ sp.lp[l] \in Props /\ sp.lp[l].taken
           /\ LebOk(sp.lp[l], Size(live[l]), old_idx[l], <<"garbage", 0>>, 0)
BY DEF Base, OwnIs, Nobody, WbufOf, GcType, Maybe, IInv, GcInv

\* The nodes of a LEB of the index are dirty: it is empty after the commit.
Emptied(p) == [p EXCEPT !.free = LebSize, !.dirty = 0, !.index = FALSE]
\* An emptied LEB adds nothing to the size of the index.
LEMMA EmptiedIs ==
    ASSUME NEW p \in Props, p.index
    PROVE  /\ Emptied(p) \in Props /\ Emptied(p).cat = p.cat /\ Emptied(p).free = LebSize
           /\ Emptied(p).dirty = 0 /\ ~Emptied(p).index /\ Emptied(p).taken = p.taken
           /\ Spc(Emptied(p)) = LebSize /\ Term("size", Emptied(p)) = 0
           /\ Term("size", p) = LebSize - Spc(p) /\ Spc(p) \in Nat
           /\ Spc(p) = p.free + p.dirty /\ p.free \in Nat /\ p.dirty \in Nat
<1>1. LebSize \in Nat BY SizeAssumption
<1>2. Emptied(p) \in Props /\ Emptied(p).cat = p.cat /\ Emptied(p).free = LebSize
      /\ Emptied(p).dirty = 0 /\ ~Emptied(p).index /\ Emptied(p).taken = p.taken BY <1>1 DEF Props, Emptied
<1> QED BY <1>1, <1>2 DEF Term, Spc, Props

\* One more LEB is to be erased.
LEMMA ToErase ==
    ASSUME IInv, NEW l \in LEBs, l \notin GcLebs, NEW g, g = [lnum |-> l, unmap |-> FALSE],
           idx_gc' = idx_gc \cup {g}, cmt' = cmt, \A k \in GcLebs : old_idx'[k] = old_idx[k]
    PROVE  /\ EraseInv' /\ GcLebs' = GcLebs \cup {l}
           /\ Cardinality(GcLebs') = Cardinality(GcLebs) + 1
<1>1. GcLebs' = GcLebs \cup {l} BY DEF GcLebs
<1>2. \A k \in idx_gc : k.lnum \in GcLebs BY DEF GcLebs
<1>3. /\ idx_gc \subseteq [lnum : LEBs, unmap : BOOLEAN]
      /\ \A a, b \in idx_gc : a.lnum = b.lnum => a = b
      /\ \A a \in idx_gc : a.unmap /\ cmt.pc \in {"write", "master", "post"} => old_idx[a.lnum] = 0
  BY DEF IInv, EraseInv
<1>4. g \in [lnum : LEBs, unmap : BOOLEAN] /\ g.lnum = l /\ ~g.unmap OBVIOUS
<1>5. \A a \in idx_gc : a.lnum # l BY <1>2
<1> QED BY <1>1, <1>2, <1>3, <1>4, <1>5, GcLebsFacts, FS_AddElement DEF EraseInv

\* The collector has got a LEB of the index.
LEMMA GcIndexKeeps ==
    ASSUME IInv, GcIndex
    PROVE  IInv'
<1>1. PICK l, x : l = gc.leb /\ x = LebSize - Spc(sp.lp[l]) OBVIOUS
<1>2. /\ gc.pc = "index" /\ LpFree /\ lp_mutex' = lp_mutex
      /\ dirty_zn' = dirty_zn + x /\ calc_idx_sz' = calc_idx_sz - x
      /\ old_idx' = [old_idx EXCEPT ![l] = @ + x]
      /\ sp' = ChangeLp(sp, l, [sp.lp[l] EXCEPT !.free = LebSize, !.dirty = 0, !.index = FALSE], 1)
      /\ idx_gc' = idx_gc \cup {[lnum |-> l, unmap |-> FALSE]}
      /\ gc' = [gc EXCEPT !.pc = "iter", !.i = @ + 1, !.leb = None]
      /\ live' = live /\ jh' = jh /\ gc_lnum' = gc_lnum /\ buds' = buds
      /\ old_buds' = old_buds /\ bi' = bi /\ dirty_idx' = dirty_idx /\ th' = th /\ cmt' = cmt
  BY <1>1 DEF GcIndex, data, gcother
<1>3. gc \in GcType /\ gc.by \in Threads /\ th[gc.by].pc = "gc" /\ cmt.pc \notin Exclusive BY <1>2, GcRuns
<1>4. gc.leb # None /\ gc_lnum # None /\ gc.by # None /\ sp.lp[gc.leb].index
  BY <1>2, <1>3, SpaceAssumption DEF IInv, GcInv
<1>5. PICK f : OwnOk(f, Places) /\ OwnIs(f) /\ Base(f, sp, jh) BY BaseNow
<1>6. /\ l \in LEBs /\ f[l] = <<"garbage", 0>> /\ f[l][1] = "garbage" /\ sp.lp[l] \in Props /\ sp.lp[l].taken
      /\ LebOk(sp.lp[l], Size(live[l]), old_idx[l], <<"garbage", 0>>, 0) BY <1>1, <1>4, <1>5, GarbageIs
<1>7. PICK n, s, j : n = Emptied(sp.lp[l]) /\ s = sp /\ j = jh OBVIOUS
<1>8. /\ n \in Props /\ n.cat = s.lp[l].cat /\ n.free = LebSize
      /\ n.dirty = 0 /\ ~n.index /\ n.taken
      /\ Spc(n) = LebSize /\ Term("size", n) = 0
      /\ Term("size", s.lp[l]) = x /\ Spc(s.lp[l]) \in Nat
      /\ Spc(s.lp[l]) = s.lp[l].free + s.lp[l].dirty /\ s.lp[l].free \in Nat /\ s.lp[l].dirty \in Nat
  <2>1. PICK q : q = sp.lp[l] OBVIOUS
  <2> QED BY <1>1, <1>4, <1>6, <1>7, <2>1, EmptiedIs
<1>9. SpaceStep(f, s, j, l, n, 1) BY <1>2, <1>5, <1>6, <1>7, <1>8 DEF SpaceStep, Emptied
<1>10. Taken' = Taken \cup {l} /\ l \in Taken BY <1>6, <1>8, <1>9, SpaceIs DEF Taken
<1>11. l \notin GcLebs BY <1>5, <1>6 DEF OwnIs
<1>12. old_idx' \in [LEBs -> Nat] /\ old_idx'[l] = old_idx[l] + x
       /\ (\A k \in LEBs \ {l} : old_idx'[k] = old_idx[k]) /\ x \in Nat
       /\ old_idx[l] + x <= LebSize /\ Size(live[l]) = 0
  <2>1. old_idx \in [LEBs -> Nat] BY DataNow
  <2>2. PICK a, b : a = Size(live[l]) /\ b = old_idx[l] OBVIOUS
  <2>3. Spc(s.lp[l]) <= LebSize /\ a = 0 /\ b <= s.lp[l].dirty BY <1>1, <1>4, <1>6, <1>7, <2>2 DEF LebOk
  <2>4. x = LebSize - Spc(s.lp[l]) /\ LebSize \in Nat /\ b \in Nat
    BY <1>1, <1>6, <1>7, <2>1, <2>2, SizeAssumption
  <2> QED BY <1>2, <1>6, <1>8, <2>1, <2>2, <2>3, <2>4
<1>13. EraseInv' /\ GcLebs' = GcLebs \cup {l} /\ Cardinality(GcLebs') = Cardinality(GcLebs) + 1
  <2>1. PICK g : g = [lnum |-> l, unmap |-> FALSE] OBVIOUS
  <2> QED BY <1>2, <1>6, <1>11, <1>12, <2>1, GcLebsFacts, ToErase
<1>14. PICK r : r = gc' OBVIOUS
<1>15. GcShape(r) /\ r.leb = None /\ r.by = gc.by /\ r.pc = "iter" BY <1>2, <1>3, <1>14 DEF GcType, GcShape
<1>16. r \in GcType
  <2>1. GcFields(r) BY <1>2, <1>3, <1>14, <1>15 DEF GcType, GcFields, GcPcs, Maybe
  <2> QED BY <1>15, <2>1, GcTyped
<1>17. PICK o : o = Places OBVIOUS
<1>18. PICK p, g : /\ p = [o EXCEPT !.garbage = None, !.erase = @ \cup {l}]
                   /\ g = [f EXCEPT ![l] = <<"erase", 0>>] OBVIOUS
<1>19. OwnOk(f, o) /\ o.garbage = l BY <1>1, <1>5, <1>17 DEF Places
<1>20. OwnOk(g, p) BY <1>6, <1>18, <1>19, GarbageToErase
<1>21. NextPlaces(p)
  BY <1>2, <1>10, <1>13, <1>14, <1>15, <1>17, <1>18, <1>19, PlacesNow DEF NextPlaces, ThreadLebs, LebOfHead,
     HeadLebs, OwnOk, Where, PlaceType
<1>22. TouchStep(f, s, j, l, n, 1, g, p)
  <2>1. g[l] = <<"erase", 0>> /\ \A k \in LEBs \ {l} : g[k] = f[k] BY <1>5, <1>6, <1>18 DEF OwnIs
  <2>2. Twice' = Twice BY <1>2 DEF Twice
  <2>3. calc_idx_sz' = calc_idx_sz - Term("size", s.lp[l]) + Term("size", n) BY <1>2, <1>5, <1>8, <1>12, SizeNow
  <2>4. LebOk(n, Size(live'[l]), old_idx'[l], g[l], WbufOf(jh', g[l]))
    <3>1. PICK b : b = old_idx'[l] OBVIOUS
    <3> QED BY <1>2, <1>8, <1>12, <2>1, <3>1, SizeAssumption DEF WbufOf, LebOk
  <2> QED BY <1>2, <1>7, <1>9, <1>12, <1>13, <1>20, <1>21, <2>1, <2>2, <2>3, <2>4 DEF TouchStep
<1>23. /\ OwnInv' /\ CountInv' /\ HeadInv'
       /\ \A k \in LEBs \ {l} : f[k][1] # "head" => SameSpace(sp'.lp[k], sp.lp[k])
  BY <1>2, <1>5, <1>6, <1>7, <1>22, TouchOffKeeps DEF TouchOff
<1>24. ThreadInv' /\ CmtInv' /\ DataInv' /\ BudgetInv'
  BY <1>2, <1>5, <1>6, <1>12, <1>23, LpFreeIs, DataNow, GcSideKeeps DEF GcSide, SameSpace
<1> QED BY <1>2, <1>3, <1>4, <1>13, <1>14, <1>15, <1>16, <1>23, <1>24 DEF IInv, GcInv

\* A LEB no head is on is changed, then some write-buffers go to flash.
SyncAfter(f, l, n, hs, q, r, s, j) ==
    /\ OwnIs(f) /\ Base(f, sp, jh) /\ l \in LEBs /\ f[l][1] # "head"
    /\ n \in Props /\ n.cat = sp.lp[l].cat /\ hs \in SUBSET Heads
    /\ q = ChangeLp(sp, l, n, 0) /\ r = Synced(q, hs)
    /\ s = Synced(sp, hs) /\ j = JhSynced(hs)
\* It does not matter which comes first.
LEMMA SyncAfterIs ==
    ASSUME IInv, NEW f, NEW l, NEW n, NEW hs, NEW q, NEW r, NEW s, NEW j, SyncAfter(f, l, n, hs, q, r, s, j)
    PROVE  /\ Base(f, s, j)
           /\ SpOk(r, Twice, Cardinality(GcLebs))
           /\ Total("size", r.lp) = calc_idx_sz - Term("size", sp.lp[l]) + Term("size", n)
           /\ \A k \in LEBs \ {l} : SameSpace(r.lp[k], s.lp[k])
           /\ SameSpace(r.lp[l], n)
           /\ \A k \in LEBs : r.lp[k] \in Props
<1>0. /\ OwnIs(f) /\ Base(f, sp, jh) /\ l \in LEBs /\ f[l][1] # "head"
      /\ n \in Props /\ n.cat = sp.lp[l].cat /\ hs \in SUBSET Heads
      /\ q = ChangeLp(sp, l, n, 0) /\ r = Synced(q, hs)
      /\ s = Synced(sp, hs) /\ j = JhSynced(hs) BY DEF SyncAfter
<1>1. PICK e, g : e = Twice /\ g = Cardinality(GcLebs) OBVIOUS
<1>2. e \in Int /\ g \in Int BY <1>1, GcLebsFacts
<1>3. SpOk(sp, e, g) BY <1>0, <1>1 DEF Base
<1>4. HeadsOk(sp.lp) BY <1>0, HeadsNow
<1>5. SyncPost(s, sp, e, g, hs) BY <1>0, <1>2, <1>3, <1>4, SyncedIs
<1>6. ChangePost(q, sp, e, g, l, n, 0) BY <1>0, <1>2, <1>3, ChangeIs DEF ChangePre
<1>7. /\ SpOk(q, e, g) /\ (\A k \in LEBs \ {l} : SameSpace(q.lp[k], sp.lp[k])) /\ SameSpace(q.lp[l], n)
      /\ Total("size", q.lp) = Total("size", sp.lp) - Term("size", sp.lp[l]) + Term("size", n)
  BY <1>2, <1>6 DEF ChangePost
<1>8. \A h \in Heads : jh[h].leb # l BY <1>0 DEF OwnIs
<1>9. HeadsOk(q.lp)
  <2>1. \A h \in Heads : HeadOk(q.lp, h)
    <3> SUFFICES ASSUME NEW h \in Heads PROVE HeadOk(q.lp, h) OBVIOUS
    <3> QED BY <1>4, <1>7, <1>8 DEF HeadOk, SameSpace, Maybe, HeadsOk, HeadType
  <2> QED BY <1>4, <2>1 DEF HeadsOk
<1>10. SyncPost(r, q, e, g, hs) BY <1>0, <1>2, <1>7, <1>9, SyncedIs
<1>11. \A k \in LEBs \ {l} : SameSpace(r.lp[k], s.lp[k])
  <2> SUFFICES ASSUME NEW k \in LEBs \ {l} PROVE SameSpace(r.lp[k], s.lp[k]) OBVIOUS
  <2>1. SameSpace(q.lp[k], sp.lp[k]) BY <1>7
  <2>2. r.lp[k].free = s.lp[k].free
    <3>1. CASE \A h \in hs : jh[h].leb # k BY <1>5, <1>10, <2>1, <3>1 DEF SyncPost, SameSpace
    <3>2. ASSUME NEW h \in hs, jh[h].leb = k PROVE r.lp[k].free = s.lp[k].free
      <4> QED BY <1>5, <1>10, <3>2, SpaceAssumption DEF SyncPost
    <3> QED BY <3>1, <3>2
  <2> QED BY <1>5, <1>10, <2>1, <2>2 DEF SameSpace, SyncPost
<1>12. SameSpace(r.lp[l], n) BY <1>0, <1>7, <1>8, <1>10 DEF SyncPost, SameSpace
<1>13. Total("size", r.lp) = calc_idx_sz - Term("size", sp.lp[l]) + Term("size", n)
  BY <1>0, <1>7, <1>10, SizeNow DEF SyncPost
<1> QED BY <1>0, <1>1, <1>10, <1>11, <1>12, <1>13, BaseSynced DEF SyncPost, SpOk, SpType

\* The next state after such a step.
SyncTouch(f, l, n, hs, q, r, s, j, g, p) ==
    /\ SyncAfter(f, l, n, hs, q, r, s, j) /\ sp' = r /\ jh' = j
    /\ OwnOk(g, p) /\ NextPlaces(p)
    /\ \A k \in LEBs \ {l} : g[k] = f[k]
    /\ g[l][1] # "head" /\ LebOk(n, Size(live[l]), old_idx[l], g[l], 0)
    /\ Twice' = Twice /\ Term("size", n) = Term("size", sp.lp[l])
    /\ UNCHANGED <<live, old_idx, calc_idx_sz, idx_gc, buds>>
\* What is kept then.
LEMMA SyncTouchKeeps ==
    ASSUME IInv, NEW f, NEW l, NEW n, NEW hs, NEW q, NEW r, NEW s, NEW j, NEW g, NEW p,
           SyncTouch(f, l, n, hs, q, r, s, j, g, p)
    PROVE  /\ OwnInv' /\ CountInv' /\ HeadInv' /\ SameSpace(sp'.lp[l], n)
           /\ \A k \in LEBs \ {l} : f[k][1] # "head" => SameSpace(sp'.lp[k], sp.lp[k])
<1>0. /\ SyncAfter(f, l, n, hs, q, r, s, j) /\ sp' = r /\ jh' = j
      /\ OwnOk(g, p) /\ NextPlaces(p)
      /\ \A k \in LEBs \ {l} : g[k] = f[k]
      /\ g[l][1] # "head" /\ LebOk(n, Size(live[l]), old_idx[l], g[l], 0)
      /\ Twice' = Twice /\ Term("size", n) = Term("size", sp.lp[l])
      /\ live' = live /\ old_idx' = old_idx /\ calc_idx_sz' = calc_idx_sz /\ idx_gc' = idx_gc /\ buds' = buds
  BY DEF SyncTouch
<1>1. /\ Base(f, s, j)
      /\ SpOk(r, Twice, Cardinality(GcLebs))
      /\ Total("size", r.lp) = calc_idx_sz - Term("size", sp.lp[l]) + Term("size", n)
      /\ \A k \in LEBs \ {l} : SameSpace(r.lp[k], s.lp[k])
      /\ SameSpace(r.lp[l], n)
      /\ \A k \in LEBs : r.lp[k] \in Props BY <1>0, SyncAfterIs
<1>2. OwnIs(f) /\ Base(f, sp, jh) /\ l \in LEBs /\ f[l][1] # "head" /\ sp.lp[l] \in Props
  BY <1>0 DEF SyncAfter, Base
<1>3. OwnInv'
  <2>1. PICK o, lv, od, i : o = Places' /\ lv = live' /\ od = old_idx' /\ i = jh' OBVIOUS
  <2>2. TouchPre(f, s, j, r, l, n, g, i, lv, od) BY <1>0, <1>1, <2>1 DEF TouchPre, WbufOf
  <2> QED BY <1>0, <2>1, <2>2, PlacesNext, Touched, OwnNext
<1>4. CountInv'
  <2>1. PICK z, e, c : z = sp' /\ e = Twice' /\ c = Cardinality(GcLebs)' OBVIOUS
  <2>2. calc_idx_sz' = Total("size", z.lp) BY <1>0, <1>1, <1>2, <2>1, TermType, SizeNow DEF Terms
  <2> QED BY <1>0, <1>1, <2>1, <2>2, CountNext DEF GcLebs
<1>5. HeadInv'
  <2>1. PICK lp : lp = r.lp OBVIOUS
  <2>2. j \in HeadType /\ \A h \in Heads : j[h].leb = jh[h].leb BY <1>1 DEF Base
  <2> QED BY <1>0, <1>1, <1>2, <2>1, <2>2, BufsKept, HeadNext DEF IInv, HeadInv
<1> QED BY <1>0, <1>1, <1>3, <1>4, <1>5 DEF SameSpace, Base

\* gc_sync_wbufs() keeps the invariant.
LEMMA GcSyncKeeps ==
    ASSUME IInv, GcSync
    PROVE  IInv'
<1>1. /\ gc.pc = "sync" /\ LpFree /\ sp' = Synced(sp, Others) /\ jh' = JhSynced(Others)
      /\ gc' = [gc EXCEPT !.pc = "free"]
      /\ live' = live /\ gc_lnum' = gc_lnum /\ buds' = buds /\ idx_gc' = idx_gc /\ dirty_zn' = dirty_zn
      /\ calc_idx_sz' = calc_idx_sz /\ old_idx' = old_idx /\ dirty_idx' = dirty_idx
      /\ lp_mutex' = lp_mutex /\ th' = th /\ old_buds' = old_buds /\ bi' = bi /\ cmt' = cmt
  BY DEF GcSync, HeadsToSync, index, gcother
<1>2. gc \in GcType /\ gc.by \in Threads /\ th[gc.by].pc = "gc" /\ cmt.pc \notin Exclusive BY <1>1, GcRuns
<1>3. PICK f : OwnOk(f, Places) /\ OwnIs(f) /\ Base(f, sp, jh) BY BaseNow
<1>4. PICK hs, s, j : hs = Others /\ s = Synced(sp, hs) /\ j = JhSynced(hs) OBVIOUS
<1>5. PICK r : r = gc' OBVIOUS
<1>6. GcShape(r) /\ r.leb = gc.leb /\ r.by = gc.by /\ r.pc = "free" BY <1>1, <1>2, <1>5 DEF GcType, GcShape
<1>7. r \in GcType BY <1>1, <1>2, <1>5, <1>6, GcTyped DEF GcType, GcFields, GcPcs
<1>8. /\ OwnInv' /\ CountInv' /\ HeadInv'
      /\ \A k \in LEBs : f[k][1] # "head" => SameSpace(sp'.lp[k], sp.lp[k])
  BY <1>1, <1>3, <1>4, <1>5, <1>6, BaseSynced, BaseKeeps DEF BaseStep, Twice, Others
<1>9. PICK lp : lp = sp'.lp OBVIOUS
<1>10. /\ gc.leb # None => SameSpace(lp[gc.leb], sp.lp[gc.leb])
       /\ \A k \in LEBs : f[k][1] = "thread" => lp[k].free = sp.lp[k].free BY <1>3, <1>8, <1>9, HeadsOnly
<1>11. ThreadInv' /\ CmtInv' /\ DataInv' /\ BudgetInv'
  BY <1>1, <1>3, <1>9, <1>10, LpFreeIs, DataNow, GcSideKeeps DEF GcSide
<1>12. GcInv' BY <1>1, <1>2, <1>5, <1>6, <1>7, <1>9, <1>10, SpaceAssumption DEF GcInv, SameSpace, Spc, IInv
<1> QED BY <1>1, <1>8, <1>11, <1>12, EraseKept DEF IInv

\* A LEB with only dirt is free.
LEMMA FreedIs ==
    ASSUME NEW p \in Props, ~p.index, Spc(p) = LebSize
    PROVE  /\ Freed(p) \in Props /\ Freed(p).cat = p.cat /\ Freed(p).free = LebSize
           /\ Freed(p).dirty = 0 /\ ~Freed(p).index /\ Freed(p).taken = p.taken
           /\ Spc(Freed(p)) = LebSize /\ Term("size", Freed(p)) = Term("size", p)
<1>1. LebSize \in Nat BY SizeAssumption
<1>2. Freed(p) \in Props /\ Freed(p).cat = p.cat /\ Freed(p).free = LebSize
      /\ Freed(p).dirty = 0 /\ ~Freed(p).index /\ Freed(p).taken = p.taken BY <1>1 DEF Props, Freed
<1> QED BY <1>1, <1>2 DEF Term, Spc

\* The collector after it has kept the LEB for itself.
LEMMA RetainedIs ==
    ASSUME IInv, gc.pc # "off"
    PROVE  /\ AfterRetained(gc) \in GcType /\ AfterRetained(gc).leb = None
           /\ AfterRetained(gc).by = gc.by /\ AfterRetained(gc).pc = "iter"
<1>1. gc \in GcType /\ gc.by \in Threads BY GcRuns
<1>2. PICK r, m, b : /\ r = AfterRetained(gc) /\ b = (Room(GCHD) > gc.before)
                     /\ m = IF b THEN gc.min \div 2 ELSE IF gc.i < SoftLimit THEN gc.min ELSE 2 * gc.min OBVIOUS
<1>3. PICK z : z = IF m < DeadWm THEN DeadWm ELSE IF m > DarkWm THEN DarkWm ELSE m OBVIOUS
<1>4. m \in Int /\ z \in Int
  <2>1. PICK c : c = gc.min OBVIOUS
  <2> QED BY <1>1, <1>2, <1>3, <2>1, SizeAssumption DEF GcType
<1>5. r = [gc EXCEPT !.pc = "iter", !.i = @ + 1, !.leb = None, !.min = z] BY <1>2, <1>3 DEF AfterRetained
<1>6. GcShape(r) /\ r.leb = None /\ r.by = gc.by /\ r.pc = "iter" BY <1>1, <1>5 DEF GcType, GcShape
<1>7. GcFields(r) BY <1>1, <1>4, <1>5, <1>6 DEF GcType, GcFields, GcPcs, Maybe
<1> QED BY <1>2, <1>6, <1>7, GcTyped

\* A LEB without nodes is freed.
LEMMA GcFreeKeeps ==
    ASSUME IInv, GcFree
    PROVE  IInv'
<1>1. PICK l, hs : l = gc.leb /\ hs = IF gc.moved /\ gc_lnum # None THEN {GCHD} ELSE {} OBVIOUS
<1>2. /\ gc.pc = "free" /\ LpFree /\ sp' = Synced(SetSpace(sp, l, LebSize, 0), hs) /\ jh' = JhSynced(hs)
      /\ IF gc_lnum = None THEN gc_lnum' = l /\ gc' = AfterRetained(gc)
         ELSE gc' = [gc EXCEPT !.pc = "end"] /\ gc_lnum' = gc_lnum
      /\ live' = live /\ buds' = buds /\ idx_gc' = idx_gc /\ dirty_zn' = dirty_zn
      /\ calc_idx_sz' = calc_idx_sz /\ old_idx' = old_idx /\ dirty_idx' = dirty_idx
      /\ lp_mutex' = lp_mutex /\ th' = th /\ old_buds' = old_buds /\ bi' = bi /\ cmt' = cmt
  BY <1>1 DEF GcFree, index, gcother
<1>3. gc \in GcType /\ gc.by \in Threads /\ th[gc.by].pc = "gc" /\ cmt.pc \notin Exclusive BY <1>2, GcRuns
<1>4. /\ l # None /\ gc.by # None /\ ~sp.lp[l].index /\ Spc(sp.lp[l]) = LebSize
  BY <1>1, <1>2, <1>3, SpaceAssumption DEF IInv, GcInv
<1>5. PICK f : OwnOk(f, Places) /\ OwnIs(f) /\ Base(f, sp, jh) BY BaseNow
<1>6. /\ l \in LEBs /\ f[l] = <<"garbage", 0>> /\ f[l][1] = "garbage" /\ sp.lp[l] \in Props /\ sp.lp[l].taken
      /\ LebOk(sp.lp[l], Size(live[l]), old_idx[l], <<"garbage", 0>>, 0) BY <1>1, <1>4, <1>5, GarbageIs
<1>7. PICK n, q, r, s, j : /\ n = Freed(sp.lp[l]) /\ q = SetSpace(sp, l, LebSize, 0) /\ r = Synced(q, hs)
                           /\ s = Synced(sp, hs) /\ j = JhSynced(hs) OBVIOUS
<1>8. /\ n \in Props /\ n.cat = sp.lp[l].cat /\ n.free = LebSize
      /\ n.dirty = 0 /\ ~n.index /\ n.taken
      /\ Spc(n) = LebSize /\ Term("size", n) = Term("size", sp.lp[l])
  <2>1. PICK x : x = sp.lp[l] OBVIOUS
  <2> QED BY <1>4, <1>6, <1>7, <2>1, FreedIs
<1>9. SyncAfter(f, l, n, hs, q, r, s, j)
  BY <1>1, <1>5, <1>6, <1>7, <1>8, SpaceAssumption DEF SyncAfter, SetSpace, Freed
<1>10. Taken' = Taken BY <1>2, <1>6, <1>7, <1>8, <1>9, SyncAfterIs DEF Taken, SameSpace, Base
<1>11. PICK a : a = gc' OBVIOUS
<1>12. a \in GcType /\ a.by = gc.by /\ GcShape(a)
       /\ (gc_lnum = None => a.leb = None /\ a.pc = "iter")
       /\ (gc_lnum # None => a.leb = l /\ a.pc = "end")
  <2>1. CASE gc_lnum = None BY <1>2, <1>11, <2>1, RetainedIs DEF GcShape, GcType
  <2>2. CASE gc_lnum # None BY <1>1, <1>2, <1>3, <1>11, <2>2, GcTyped DEF GcType, GcFields, GcPcs, GcShape
  <2> QED BY <2>1, <2>2
<1>13. PICK o : o = Places OBVIOUS
<1>14. OwnOk(f, o) /\ o.garbage = l /\ o.reserved = gc_lnum BY <1>1, <1>5, <1>13 DEF Places
<1>15. ThreadLebs' = ThreadLebs /\ LebOfHead' = LebOfHead /\ HeadLebs' = HeadLebs /\ GcLebs' = GcLebs
  <2>1. \A h \in Heads : jh'[h].leb = jh[h].leb BY <1>2, <1>7, <1>9, SyncAfterIs DEF Base
  <2> QED BY <1>2, <2>1 DEF ThreadLebs, LebOfHead, HeadLebs, GcLebs
<1>16. PICK g, p : /\ OwnOk(g, p) /\ NextPlaces(p) /\ (\A k \in LEBs \ {l} : g[k] = f[k])
                   /\ g[l] \in {<<"garbage", 0>>, <<"reserved", 0>>}
  <2>1. CASE gc_lnum = None
    <3>1. PICK p, g : /\ p = [o EXCEPT !.garbage = None, !.reserved = l]
                      /\ g = [f EXCEPT ![l] = <<"reserved", 0>>] OBVIOUS
    <3>2. /\ p.head = o.head /\ p.thread = o.thread /\ p.reserved = l
          /\ p.ihead = o.ihead /\ p.garbage = None /\ p.erase = o.erase /\ p.bud = o.bud /\ p.old = o.old
          /\ p.layout = o.layout /\ p.written = o.written /\ p.taken = o.taken
      BY <1>14, <3>1 DEF OwnOk, Where, PlaceType
    <3>3. NextPlaces(p) BY <1>2, <1>10, <1>11, <1>12, <1>13, <1>15, <2>1, <3>2, PlacesNow DEF NextPlaces
    <3>4. g[l] = <<"reserved", 0>> /\ \A k \in LEBs \ {l} : g[k] = f[k] BY <1>5, <1>6, <3>1 DEF OwnIs
    <3> QED BY <1>6, <1>14, <2>1, <3>1, <3>3, <3>4, GarbageToReserved
  <2>2. CASE gc_lnum # None
    <3>1. NextPlaces(o) BY <1>1, <1>2, <1>10, <1>11, <1>12, <1>13, <1>15, <2>2, PlacesNow DEF NextPlaces
    <3> QED BY <1>6, <1>14, <3>1
  <2> QED BY <2>1, <2>2
<1>17. SyncTouch(f, l, n, hs, q, r, s, j, g, p)
  <2>1. LebOk(n, Size(live[l]), old_idx[l], g[l], 0)
    <3>1. PICK x, y, z : x = Size(live[l]) /\ y = old_idx[l] /\ z = sp.lp[l] OBVIOUS
    <3> QED BY <1>4, <1>6, <1>8, <1>16, <3>1, SizeAssumption DEF LebOk
  <2> QED BY <1>2, <1>7, <1>8, <1>9, <1>16, <2>1 DEF SyncTouch, Twice
<1>18. /\ OwnInv' /\ CountInv' /\ HeadInv' /\ SameSpace(sp'.lp[l], n)
       /\ \A k \in LEBs \ {l} : f[k][1] # "head" => SameSpace(sp'.lp[k], sp.lp[k]) BY <1>17, SyncTouchKeeps
<1>19. ThreadInv' /\ CmtInv' /\ DataInv' /\ BudgetInv'
  BY <1>2, <1>5, <1>6, <1>18, LpFreeIs, DataNow, GcSideKeeps DEF GcSide, SameSpace
<1>20. GcInv'
  <2>1. CASE gc_lnum = None BY <1>2, <1>3, <1>4, <1>11, <1>12, <2>1 DEF GcInv
  <2>2. CASE gc_lnum # None BY <1>2, <1>3, <1>4, <1>8, <1>11, <1>12, <1>18, <2>2 DEF GcInv, SameSpace
  <2> QED BY <2>1, <2>2
<1> QED BY <1>2, <1>18, <1>19, <1>20, EraseKept DEF IInv

\* The next state, when LEBs go from one to another.
BaseMove(f, s, j, g, p) ==
    /\ Base(f, s, j) /\ sp' = s /\ jh' = j
    /\ OwnOk(g, p) /\ NextPlaces(p)
    /\ \A l \in LEBs : LebOk(s.lp[l], Size(live[l]), old_idx[l], g[l], WbufOf(j, g[l]))
    /\ Twice' = Twice
    /\ \A h \in Heads : jh[h].leb # None => jh[h].leb \in buds'
    /\ UNCHANGED <<live, old_idx, calc_idx_sz, idx_gc>>
\* What is kept then.
LEMMA BaseMoves ==
    ASSUME IInv, NEW f, NEW s, NEW j, NEW g, NEW p, BaseMove(f, s, j, g, p)
    PROVE  /\ OwnInv' /\ CountInv' /\ HeadInv'
           /\ \A k \in LEBs : f[k][1] # "head" => SameSpace(sp'.lp[k], sp.lp[k])
<1>0. /\ Base(f, s, j) /\ sp' = s /\ jh' = j
      /\ OwnOk(g, p) /\ NextPlaces(p)
      /\ \A l \in LEBs : LebOk(s.lp[l], Size(live[l]), old_idx[l], g[l], WbufOf(j, g[l]))
      /\ Twice' = Twice
      /\ \A h \in Heads : jh[h].leb # None => jh[h].leb \in buds'
      /\ live' = live /\ old_idx' = old_idx /\ calc_idx_sz' = calc_idx_sz /\ idx_gc' = idx_gc BY DEF BaseMove
<1>1. PICK o : o = Places' OBVIOUS
<1>2. CountInv'
  <2>1. PICK z, e, c : z = sp' /\ e = Twice' /\ c = Cardinality(GcLebs)' OBVIOUS
  <2> QED BY <1>0, <2>1, SizeNow, CountNext DEF Base, GcLebs
<1>3. HeadInv' BY <1>0, HeadNext DEF Base
<1> QED BY <1>0, <1>1, <1>2, <1>3, PlacesNext, OwnNext DEF Base

\* The collector is done.
LEMMA NoGcIs ==
    /\ NoGc \in GcType /\ NoGc.pc = "off" /\ NoGc.by = None /\ NoGc.leb = None
BY SizeAssumption DEF NoGc, GcType, GcPcs, Errs, Maybe

\* What the thread that collects garbage has.
LEMMA CollectFacts ==
    ASSUME IInv, NEW t, t = gc.by, gc.pc # "off"
    PROVE  /\ t \in Threads /\ th[t] \in ThType /\ th[t].pc = "gc" /\ th[t].leb = None
           /\ th[t].kind \in Requests
           /\ IF th[t].any THEN th[t].held = NoGrowth ELSE th[t].len \in Sizes
           /\ ~Finding(th[t]) /\ cmt.pc \notin Exclusive
<1>1. PICK r, lp : r = th[t] /\ lp = sp.lp OBVIOUS
<1> QED BY <1>1, GcRuns DEF Finding, ThOk, IInv, ThreadInv

\* What it gets.
GcEnds(q, l, x, lp, r) ==
    /\ q \in ThType /\ q.kind \in Requests /\ (IF q.any THEN q.held = NoGrowth ELSE q.len \in Sizes)
    /\ l \in Maybe(LEBs) /\ x \in Errs /\ (l # None => lp[l].free = LebSize)
    /\ r = [q EXCEPT !.pc = "gcdone", !.leb = l, !.err = x]
\* It is in order.
LEMMA GcEndsWith ==
    ASSUME NEW q, NEW l, NEW x, NEW lp, NEW r, GcEnds(q, l, x, lp, r)
    PROVE  ThOk(r, lp) /\ r.leb = l /\ r.held = q.held /\ r.pc = "gcdone" /\ r.any = q.any
BY ThTyped DEF ThOk, ThType, ThFields, Pcs, ThShape, GcEnds

\* The collector ends.
LEMMA GcEndKeeps ==
    ASSUME IInv, GcEnd
    PROVE  IInv'
<1>1. PICK t, l : t = gc.by /\ l = gc.leb OBVIOUS
<1>2. PICK x : x = IF gc.err = "again" \/ (gc.err = "nospc" /\ idx_gc # {}) THEN "again" ELSE gc.err OBVIOUS
<1>3. /\ gc.pc = "end" /\ LpFree /\ sp' = Synced(sp, {GCHD}) /\ jh' = JhSynced({GCHD})
      /\ th' = [th EXCEPT ![t] = [@ EXCEPT !.pc = "gcdone", !.leb = l, !.err = x]]
      /\ gc' = NoGc
      /\ live' = live /\ gc_lnum' = gc_lnum /\ buds' = buds /\ idx_gc' = idx_gc /\ dirty_zn' = dirty_zn
      /\ calc_idx_sz' = calc_idx_sz /\ old_idx' = old_idx /\ dirty_idx' = dirty_idx
      /\ lp_mutex' = lp_mutex /\ old_buds' = old_buds /\ bi' = bi /\ cmt' = cmt
  BY <1>1, <1>2 DEF GcEnd, index, gcother
<1>4. /\ t \in Threads /\ th[t] \in ThType /\ th[t].pc = "gc" /\ th[t].leb = None
      /\ th[t].kind \in Requests
      /\ IF th[t].any THEN th[t].held = NoGrowth ELSE th[t].len \in Sizes
      /\ ~Finding(th[t]) /\ cmt.pc \notin Exclusive BY <1>1, <1>3, CollectFacts
<1>5. gc \in GcType /\ gc_lnum # None /\ (l # None => ~sp.lp[l].index /\ sp.lp[l].free = LebSize)
  BY <1>1, <1>3 DEF IInv, GcInv
<1>6. PICK f : OwnOk(f, Places) /\ OwnIs(f) /\ Base(f, sp, jh) BY BaseNow
<1>7. PICK hs, s, j : hs = {GCHD} /\ s = Synced(sp, hs) /\ j = JhSynced(hs) OBVIOUS
<1>8. Base(f, s, j) BY <1>6, <1>7, SpaceAssumption, BaseSynced
<1>9. sp' = s /\ jh' = j BY <1>3, <1>7
<1>10. l # None =>
         /\ l \in LEBs /\ f[l] = <<"garbage", 0>> /\ f[l][1] = "garbage"
         /\ LebOk(sp.lp[l], Size(live[l]), old_idx[l], <<"garbage", 0>>, 0)
         /\ SameSpace(s.lp[l], sp.lp[l])
  <2> SUFFICES ASSUME l # None
               PROVE  /\ l \in LEBs /\ f[l] = <<"garbage", 0>> /\ f[l][1] = "garbage"
                      /\ LebOk(sp.lp[l], Size(live[l]), old_idx[l], <<"garbage", 0>>, 0)
                      /\ SameSpace(s.lp[l], sp.lp[l]) OBVIOUS
  <2> QED BY <1>1, <1>6, <1>8, GarbageIs DEF Base
<1>11. PICK q, lp : q = th[t] /\ lp = sp'.lp OBVIOUS
<1>12. PICK r : r = [q EXCEPT !.pc = "gcdone", !.leb = l, !.err = x] OBVIOUS
<1>13. th' = [th EXCEPT ![t] = r] BY <1>3, <1>11, <1>12
<1>14. ThOk(r, lp) /\ r.leb = l /\ r.held = q.held /\ r.pc = "gcdone" /\ r.any = q.any
  <2>1. GcEnds(q, l, x, lp, r)
    BY <1>1, <1>2, <1>4, <1>5, <1>9, <1>10, <1>11, <1>12 DEF GcEnds, GcType, Errs, SameSpace
  <2> QED BY <2>1, GcEndsWith
<1>15. PICK D : th \in [Threads -> D] BY <1>4, ThreadFacts
<1>16. th'[t] = r /\ \A u \in Threads \ {t} : th'[u] = th[u] BY <1>4, <1>13, <1>15
<1>17. PICK o : o = Places OBVIOUS
<1>18. OwnOk(f, o) /\ o.garbage = l /\ o.thread[t] = None BY <1>1, <1>4, <1>6, <1>17 DEF Places
<1>19. /\ LebOfHead' = LebOfHead /\ HeadLebs' = HeadLebs /\ GcLebs' = GcLebs /\ Taken' = Taken
  BY <1>3, <1>8, <1>9 DEF LebOfHead, HeadLebs, GcLebs, Taken, Base
<1>20. ThreadLebs' = [ThreadLebs EXCEPT ![t] = l]
  <2>1. PICK a, c : a = ThreadLebs /\ c = ThreadLebs' OBVIOUS
  <2> QED BY <1>14, <1>16, <2>1 DEF ThreadLebs
<1>21. PICK g, p : /\ OwnOk(g, p) /\ NextPlaces(p)
                   /\ \A k \in LEBs : g[k] = IF k = l THEN <<"thread", t>> ELSE f[k]
  <2>1. CASE l # None
    <3>1. PICK p, g : /\ p = [o EXCEPT !.garbage = None, !.thread = [@ EXCEPT ![t] = l]]
                      /\ g = [f EXCEPT ![l] = <<"thread", t>>] OBVIOUS
    <3>2. NextPlaces(p)
      BY <1>3, <1>17, <1>18, <1>19, <1>20, <3>1, PlacesNow, NoGcIs DEF NextPlaces, OwnOk, Where, PlaceType
    <3>3. \A k \in LEBs : g[k] = IF k = l THEN <<"thread", t>> ELSE f[k] BY <1>6, <1>10, <3>1 DEF OwnIs
    <3> QED BY <1>4, <1>10, <1>18, <2>1, <3>1, <3>2, <3>3, GarbageToThread
  <2>2. CASE l = None
    <3>1. ThreadLebs' = ThreadLebs
      <4>1. PICK a : a = ThreadLebs OBVIOUS
      <4> QED BY <1>4, <1>20, <2>2, <4>1 DEF ThreadLebs
    <3>2. NextPlaces(o) BY <1>1, <1>3, <1>17, <1>19, <2>2, <3>1, PlacesNow, NoGcIs DEF NextPlaces
    <3> QED BY <1>18, <2>2, <3>2, SpaceAssumption
  <2> QED BY <2>1, <2>2
<1>22. \A k \in LEBs : LebOk(s.lp[k], Size(live[k]), old_idx[k], g[k], WbufOf(j, g[k]))
  <2> SUFFICES ASSUME NEW k \in LEBs PROVE LebOk(s.lp[k], Size(live[k]), old_idx[k], g[k], WbufOf(j, g[k]))
    OBVIOUS
  <2>1. CASE k # l BY <1>8, <1>21, <2>1 DEF Base
  <2>2. CASE k = l
    <3>1. PICK n, z, d, e : n = Size(live[k]) /\ z = old_idx[k] /\ d = sp.lp[k] /\ e = s.lp[k] OBVIOUS
    <3>2. LebOk(d, n, z, <<"garbage", 0>>, 0) /\ SameSpace(e, d) /\ ~d.index /\ d.free = LebSize
      BY <1>5, <1>10, <2>2, <3>1, SpaceAssumption
    <3> QED BY <1>21, <2>2, <3>1, <3>2, LebSame DEF WbufOf, LebOk
  <2> QED BY <2>1, <2>2
<1>23. BaseMove(f, s, j, g, p) BY <1>3, <1>8, <1>9, <1>21, <1>22 DEF BaseMove, Twice, IInv, HeadInv
<1>24. /\ OwnInv' /\ CountInv' /\ HeadInv'
       /\ \A k \in LEBs : f[k][1] # "head" => SameSpace(sp'.lp[k], sp.lp[k]) BY <1>23, BaseMoves
<1>25. ThreadInv'
  <2>1. PICK T, m : T = th' /\ m = lp_mutex' OBVIOUS
  <2>2. ThreadPre(f, lp, T, t, r, m)
    BY <1>3, <1>6, <1>11, <1>13, <1>14, <1>24, <2>1, LpFreeIs DEF ThreadPre, Finding, SameSpace
  <2> QED BY <1>4, <1>11, <2>1, <2>2, ThreadNext
<1>26. GcInv' BY <1>3, <1>5, NoGcIs DEF GcInv
<1>27. BudgetInv' BY <1>3, <1>11, <1>14, <1>16, BudgetFrame DEF IInv
<1> QED BY <1>3, <1>4, <1>24, <1>25, <1>26, <1>27, CmtNext, EraseKept DEF IInv, DataInv

\* The collector goes on with another step, and another LEB.
GcSteps(q, c, l, e, m, r) ==
    /\ q \in GcType /\ c \in GcPcs /\ l \in Maybe(LEBs) /\ e \in Errs /\ m \in BOOLEAN
    /\ r = [q EXCEPT !.pc = c, !.leb = l, !.err = e, !.moved = m]
\* It is in order.
LEMMA GcStepIs ==
    ASSUME NEW q, NEW c, NEW l, NEW e, NEW m, NEW r, GcSteps(q, c, l, e, m, r)
    PROVE  r \in GcType /\ r.leb = l /\ r.by = q.by /\ r.pc = c /\ r.any = q.any
BY GcTyped DEF GcType, GcFields, GcShape, GcSteps

\* The reserved LEB is the head.
LEMMA GcSwitchDone ==
    ASSUME IInv, gc.pc = "switch", LpFree, sp' = Synced(sp, {GCHD}),
           jh' = [jh EXCEPT ![GCHD] = Seek(@, gc_lnum, 0)], buds' = buds \cup {gc_lnum},
           gc_lnum' = None, gc' = [gc EXCEPT !.pc = "move"],
           live' = live, idx_gc' = idx_gc, dirty_zn' = dirty_zn, calc_idx_sz' = calc_idx_sz,
           old_idx' = old_idx, dirty_idx' = dirty_idx, lp_mutex' = lp_mutex, th' = th,
           old_buds' = old_buds, bi' = bi, cmt' = cmt
    PROVE  IInv'
<1>1. PICK h, l : h = GCHD /\ l = gc_lnum OBVIOUS
<1>2. /\ sp' = Synced(sp, {h}) /\ jh' = [jh EXCEPT ![h] = Seek(@, l, 0)] /\ buds' = buds \cup {l} BY <1>1
<1>3. gc \in GcType /\ gc.by \in Threads /\ th[gc.by].pc = "gc" /\ cmt.pc \notin Exclusive BY GcRuns
<1>4. gc.leb # None /\ gc.by # None /\ ~sp.lp[gc.leb].index /\ l # None
  BY <1>1, <1>3, SpaceAssumption DEF IInv, GcInv
<1>5. PICK f : OwnOk(f, Places) /\ OwnIs(f) /\ Base(f, sp, jh) BY BaseNow
<1>6. PICK o : o = Places OBVIOUS
<1>7. OwnOk(f, o) /\ o.reserved = l BY <1>1, <1>5, <1>6 DEF Places
<1>8. l \in LEBs BY <1>4, <1>7 DEF OwnOk, Where, PlaceType, Maybe
<1>9. f[l] = <<"reserved", 0>> BY <1>1, <1>5, <1>8 DEF OwnIs
<1>10. sp.lp[l].free = LebSize
  <2>1. PICK n, z, w, d : n = Size(live[l]) /\ z = old_idx[l] /\ w = WbufOf(jh, f[l]) /\ d = sp.lp[l] OBVIOUS
  <2> QED BY <1>5, <1>8, <1>9, <2>1 DEF LebOk, Base
<1>11. h \in Heads BY <1>1, SpaceAssumption
<1>12. PICK b, c : b = jh[h] /\ c = jh[h].by OBVIOUS
<1>13. b \in Buffer /\ c \in Maybe(Threads) /\ c = b.by BY <1>5, <1>11, <1>12 DEF Buffer, Base, HeadType
<1>14. PICK w : w = [leb |-> l, offs |-> 0, used |-> 0, by |-> c] OBVIOUS
<1>15. w \in Buffer /\ w.leb = l /\ w.offs = 0 /\ w.used = 0 /\ Seek(b, l, 0) = w BY <1>8, <1>13, <1>14, SeekIs
<1>16. jh' = [jh EXCEPT ![h] = w] BY <1>2, <1>12, <1>15
<1>17. HeadStep(f, h, l, w)
  <2>1. f[l][1] \in {"thread", "reserved"} BY <1>9
  <2>2. sp.lp[l].free = LebSize - w.offs BY <1>10, <1>15, SizeAssumption
  <2> QED BY <1>2, <1>5, <1>8, <1>11, <1>15, <1>16, <2>1, <2>2 DEF HeadStep
<1>18. PICK p, g :
         /\ p = [o EXCEPT !.reserved = None, !.head = [@ EXCEPT ![h] = l], !.bud = @ \cup ({o.head[h]} \ {None})]
         /\ g = ToHead(f, h, l, o.head[h]) OBVIOUS
<1>19. PICK r, q : r = gc' /\ q = gc OBVIOUS
<1>20. r \in GcType /\ r.leb = gc.leb /\ r.by = gc.by /\ r.pc = "move"
  <2>1. PICK k, e, m : k = q.leb /\ e = q.err /\ m = q.moved OBVIOUS
  <2> QED BY <1>3, <1>19, <2>1, GcStepIs DEF GcSteps, GcType, GcPcs
<1>21. NextPlaces(p)
  <2>1. Taken' = Taken
    <3>1. PICK hs : hs = {h} OBVIOUS
    <3> QED BY <1>2, <1>5, <1>11, <3>1, BaseSynced DEF Taken, Base
  <2> QED
    BY <1>6, <1>7, <1>17, <1>18, <1>19, <1>20, <2>1, HeadMoves, PlacesNow DEF NextPlaces, OwnOk, Where,
       PlaceType, ThreadLebs, GcLebs
<1>22. /\ OwnInv' /\ CountInv' /\ HeadInv'
       /\ \A k \in LEBs : f[k][1] # "head" => SameSpace(sp'.lp[k], sp.lp[k])
  BY <1>6, <1>7, <1>8, <1>11, <1>17, <1>18, <1>21, ReservedToHead, HeadGoesOn
<1>23. PICK lp : lp = sp'.lp OBVIOUS
<1>24. /\ gc.leb # None => SameSpace(lp[gc.leb], sp.lp[gc.leb])
       /\ \A k \in LEBs : f[k][1] = "thread" => lp[k].free = sp.lp[k].free BY <1>5, <1>22, <1>23, HeadsOnly
<1>25. ThreadInv' /\ CmtInv' /\ DataInv' /\ BudgetInv'
  BY <1>2, <1>5, <1>8, <1>23, <1>24, LpFreeIs, DataNow, GcSideKeeps DEF GcSide
<1>26. GcInv'
  <2>1. jh'[GCHD] = w BY <1>1, <1>5, <1>11, <1>16 DEF Base, HeadType
  <2> QED BY <1>1, <1>3, <1>4, <1>15, <1>19, <1>20, <1>23, <1>24, <2>1 DEF GcInv, SameSpace
<1> QED BY <1>22, <1>25, <1>26, EraseKept DEF IInv

\* The log is full.
LEMMA GcSwitchFull ==
    ASSUME IInv, gc.pc = "switch", LpFree, sp' = ReturnLeb(Synced(sp, {GCHD}), gc.leb),
           jh' = JhSynced({GCHD}), gc' = [gc EXCEPT !.pc = "end", !.leb = None, !.err = "again"],
           buds' = buds, gc_lnum' = gc_lnum,
           live' = live, idx_gc' = idx_gc, dirty_zn' = dirty_zn, calc_idx_sz' = calc_idx_sz,
           old_idx' = old_idx, dirty_idx' = dirty_idx, lp_mutex' = lp_mutex, th' = th,
           old_buds' = old_buds, bi' = bi, cmt' = cmt
    PROVE  IInv'
<1>1. PICK l, hs, s, j : l = gc.leb /\ hs = {GCHD} /\ s = Synced(sp, hs) /\ j = JhSynced(hs) OBVIOUS
<1>2. sp' = ReturnLeb(s, l) /\ jh' = j BY <1>1
<1>3. gc \in GcType /\ gc.by \in Threads /\ th[gc.by].pc = "gc" /\ cmt.pc \notin Exclusive BY GcRuns
<1>4. l # None /\ gc.by # None /\ ~sp.lp[l].index /\ gc_lnum # None
  BY <1>1, <1>3, SpaceAssumption DEF IInv, GcInv
<1>5. PICK f : OwnOk(f, Places) /\ OwnIs(f) /\ Base(f, sp, jh) BY BaseNow
<1>6. /\ l \in LEBs /\ f[l] = <<"garbage", 0>> /\ f[l][1] = "garbage" BY <1>1, <1>4, <1>5, GarbageIs
<1>7. Base(f, s, j) BY <1>1, <1>5, SpaceAssumption, BaseSynced
<1>8. PICK n : n = Returned(s.lp[l]) OBVIOUS
<1>9. /\ n \in Props /\ n.cat = s.lp[l].cat /\ n.free = s.lp[l].free
      /\ n.dirty = s.lp[l].dirty /\ n.index = s.lp[l].index /\ ~n.taken
      /\ Spc(n) = Spc(s.lp[l]) /\ Term("size", n) = Term("size", s.lp[l])
      /\ Term("size", n) \in Int
  <2>1. PICK x : x = s.lp[l] OBVIOUS
  <2> QED BY <1>6, <1>7, <1>8, <2>1, ReturnedIs DEF Base
<1>10. SpaceStep(f, s, j, l, n, 0) BY <1>2, <1>6, <1>7, <1>8, <1>9 DEF SpaceStep, ReturnLeb, Returned
<1>11. PICK r, q : r = gc' /\ q = gc OBVIOUS
<1>12. r \in GcType /\ r.leb = None /\ r.by = gc.by /\ r.pc = "end"
  <2>1. PICK m : m = q.moved OBVIOUS
  <2> QED BY <1>3, <1>11, <2>1, GcStepIs DEF GcSteps, GcType, GcPcs, Errs, Maybe
<1>13. PICK o : o = Places OBVIOUS
<1>14. OwnOk(f, o) /\ o.garbage = l BY <1>1, <1>5, <1>13 DEF Places
<1>15. PICK p, g : /\ p = [o EXCEPT !.garbage = None, !.taken = @ \ {l}]
                   /\ g = [f EXCEPT ![l] = Nobody] OBVIOUS
<1>16. OwnOk(g, p) BY <1>6, <1>14, <1>15, GarbageReturns
<1>17. NextPlaces(p)
  <2>1. /\ p.head = o.head /\ p.thread = o.thread /\ p.reserved = o.reserved
        /\ p.ihead = o.ihead /\ p.garbage = None /\ p.erase = o.erase /\ p.bud = o.bud /\ p.old = o.old
        /\ p.layout = o.layout /\ p.written = o.written /\ p.taken = o.taken \ {l}
    BY <1>14, <1>15 DEF OwnOk, Where, PlaceType
  <2>2. ThreadLebs' = ThreadLebs /\ LebOfHead' = LebOfHead /\ HeadLebs' = HeadLebs /\ GcLebs' = GcLebs
    BY <1>2, <1>7 DEF ThreadLebs, LebOfHead, HeadLebs, GcLebs, Base
  <2> QED BY <1>9, <1>10, <1>11, <1>12, <1>13, <2>1, <2>2, SpaceIs, PlacesNow DEF NextPlaces
<1>18. TouchStep(f, s, j, l, n, 0, g, p)
  <2>1. g[l] = Nobody /\ \A k \in LEBs \ {l} : g[k] = f[k] BY <1>5, <1>6, <1>15 DEF OwnIs
  <2>2. Twice' = Twice /\ Cardinality(GcLebs') = Cardinality(GcLebs) + 0 BY GcLebsFacts DEF GcLebs, Twice
  <2>3. calc_idx_sz' = calc_idx_sz - Term("size", s.lp[l]) + Term("size", n) BY <1>5, <1>9, SizeNow
  <2>4. LebOk(n, Size(live'[l]), old_idx'[l], g[l], WbufOf(jh', g[l]))
    <3>1. PICK x, y, z : x = Size(live[l]) /\ y = old_idx[l] /\ z = s.lp[l] OBVIOUS
    <3> QED BY <1>6, <1>7, <1>9, <2>1, <3>1 DEF LebOk, Nobody, Base, WbufOf
  <2> QED BY <1>2, <1>10, <1>16, <1>17, <2>1, <2>2, <2>3, <2>4 DEF TouchStep
<1>19. /\ OwnInv' /\ CountInv' /\ HeadInv'
       /\ \A k \in LEBs \ {l} : f[k][1] # "head" => SameSpace(sp'.lp[k], sp.lp[k])
  BY <1>2, <1>5, <1>6, <1>18, TouchOffKeeps DEF TouchOff
<1>20. ThreadInv' /\ CmtInv' /\ DataInv' /\ BudgetInv'
  BY <1>5, <1>6, <1>19, LpFreeIs, DataNow, GcSideKeeps DEF GcSide, SameSpace
<1> QED BY <1>3, <1>4, <1>11, <1>12, <1>19, <1>20, EraseKept DEF IInv, GcInv

\* switch_gc_head() keeps the invariant.
LEMMA GcSwitchKeeps ==
    ASSUME IInv, GcSwitch
    PROVE  IInv'
<1>1. /\ gc.pc = "switch" /\ LpFree /\ live' = live /\ idx_gc' = idx_gc /\ dirty_zn' = dirty_zn
      /\ calc_idx_sz' = calc_idx_sz /\ old_idx' = old_idx /\ dirty_idx' = dirty_idx /\ lp_mutex' = lp_mutex
      /\ th' = th /\ old_buds' = old_buds /\ bi' = bi /\ cmt' = cmt BY DEF GcSwitch, index, gcother
<1>2. CASE /\ sp' = Synced(sp, {GCHD}) /\ jh' = [jh EXCEPT ![GCHD] = Seek(@, gc_lnum, 0)]
           /\ buds' = buds \cup {gc_lnum} /\ gc_lnum' = None /\ gc' = [gc EXCEPT !.pc = "move"]
  BY <1>1, <1>2, GcSwitchDone
<1>3. CASE /\ sp' = ReturnLeb(Synced(sp, {GCHD}), gc.leb)
           /\ jh' = JhSynced({GCHD}) /\ gc' = [gc EXCEPT !.pc = "end", !.leb = None, !.err = "again"]
           /\ buds' = buds /\ gc_lnum' = gc_lnum BY <1>1, <1>3, GcSwitchFull
<1> QED BY <1>2, <1>3 DEF GcSwitch

\* Nodes without others.
Less(n, m) == [s \in Sizes |-> n[s] - m[s]]
\* The size of what is left.
LEMMA LessIs ==
    ASSUME NEW n \in Nodes, NEW m \in Nodes, \A s \in Sizes : m[s] <= n[s]
    PROVE  Less(n, m) \in Nodes /\ Size(n) = Size(m) + Size(Less(n, m)) /\ Size(Less(n, m)) \in Nat /\ Size(m) \in Nat
<1>1. PICK k : k = Less(n, m) OBVIOUS
<1> QED BY <1>1, NodesPlus, SizeType DEF Less, Nodes

\* Nodes that leave out one of size s.
LEMMA NodesOver ==
    ASSUME NEW n \in Nodes, NEW m \in Nodes, \A s \in Sizes : m[s] <= n[s], NEW s \in Sizes, m[s] < n[s]
    PROVE  Size(n) >= Size(m) + s
<1>1. PICK k : k = Less(n, m) OBVIOUS
<1>2. k \in Nodes /\ Size(n) = Size(m) + Size(k) /\ Size(m) \in Nat BY <1>1, LessIs
<1>3. k[s] \in Nat /\ k[s] > 0 BY <1>1 DEF Nodes, Less
<1>4. PICK q : q = [k EXCEPT ![s] = k[s] - 1] OBVIOUS
<1>5. q \in Nodes /\ q[s] = k[s] - 1 /\ \A r \in Sizes \ {s} : q[r] = k[r] BY <1>2, <1>3, <1>4 DEF Nodes
<1>6. NodesPre(q, k, s, 1) BY <1>2, <1>3, <1>5 DEF NodesPre
<1> QED BY <1>2, <1>5, <1>6, NodesChange, SizeType, SizeAssumption

\* Nodes go from one LEB to another.
NodesMoved(lv, l, k, m, lv2) ==
    /\ lv \in [LEBs -> Nodes] /\ l \in LEBs /\ k \in LEBs /\ l # k /\ m \in Nodes
    /\ \A s \in Sizes : m[s] <= lv[l][s]
    /\ lv2 = [lv EXCEPT ![l] = [s \in Sizes |-> @[s] - m[s]], ![k] = [s \in Sizes |-> @[s] + m[s]]]
\* Their sizes follow.
LEMMA NodesMovedIs ==
    ASSUME NEW lv, NEW l, NEW k, NEW m, NEW lv2, NodesMoved(lv, l, k, m, lv2)
    PROVE  /\ lv2 \in [LEBs -> Nodes] /\ \A i \in LEBs \ {l, k} : lv2[i] = lv[i]
           /\ Size(lv2[l]) = Size(lv[l]) - Size(m) /\ Size(lv2[k]) = Size(lv[k]) + Size(m)
           /\ Size(m) \in Nat /\ Size(lv[l]) \in Nat /\ Size(lv[k]) \in Nat /\ Size(lv2[l]) \in Nat
           /\ lv2[l] = Less(lv[l], m) /\ lv2[k] \in Nodes
<1>0. /\ lv \in [LEBs -> Nodes] /\ l \in LEBs /\ k \in LEBs /\ l # k /\ m \in Nodes
      /\ \A s \in Sizes : m[s] <= lv[l][s]
      /\ lv2 = [lv EXCEPT ![l] = [s \in Sizes |-> @[s] - m[s]], ![k] = [s \in Sizes |-> @[s] + m[s]]]
  BY DEF NodesMoved
<1>1. PICK a, b : a = lv[l] /\ b = lv[k] OBVIOUS
<1>2. a \in Nodes /\ b \in Nodes /\ \A s \in Sizes : m[s] <= a[s] BY <1>0, <1>1
<1>3. PICK c, d : c = Less(a, m) /\ d = [s \in Sizes |-> b[s] + m[s]] OBVIOUS
<1>4. c \in Nodes /\ Size(a) = Size(m) + Size(c) /\ Size(c) \in Nat /\ Size(m) \in Nat
  BY <1>0, <1>2, <1>3, LessIs
<1>5. d \in Nodes /\ \A s \in Sizes : d[s] = b[s] + m[s] BY <1>0, <1>2, <1>3 DEF Nodes
<1>6. Size(d) = Size(b) + Size(m) BY <1>0, <1>2, <1>5, NodesPlus
<1> QED BY <1>0, <1>1, <1>2, <1>3, <1>4, <1>5, <1>6, SizeType DEF Less

\* The collector moves nodes to its head.
MoveStep(f, s, lv, od, sz, j, h, k, l, m, x, s2, lv2, i) ==
    /\ Mid(f, s, lv, od, sz, j) /\ OwnIs(f) /\ jh[h].leb = k /\ f[l] = <<"garbage", 0>> /\ ~sp.lp[l].index
    /\ NodesMoved(lv, l, k, m, lv2) /\ x = Size(m) /\ HeadWrites(j, h, x, i) /\ s2 = AddDirt(s, l, x)
\* All LEBs are in order after it.
LEMMA MoveKeeps ==
    ASSUME IInv, NEW f, NEW s, NEW lv, NEW od, NEW sz, NEW j, NEW h, NEW k, NEW l, NEW m, NEW x, NEW s2, NEW lv2, NEW i,
           MoveStep(f, s, lv, od, sz, j, h, k, l, m, x, s2, lv2, i)
    PROVE  Mid(f, s2, lv2, od, sz, i)
<1> /\ Mid(f, s, lv, od, sz, j) /\ OwnIs(f) /\ jh[h].leb = k /\ f[l] = <<"garbage", 0>> /\ ~sp.lp[l].index
    /\ NodesMoved(lv, l, k, m, lv2) /\ x = Size(m) /\ HeadWrites(j, h, x, i) /\ s2 = AddDirt(s, l, x)
  BY DEF MoveStep
<1>1. /\ lv2 \in [LEBs -> Nodes] /\ \A r \in LEBs \ {l, k} : lv2[r] = lv[r]
      /\ Size(lv2[l]) = Size(lv[l]) - x /\ Size(lv2[k]) = Size(lv[k]) + x
      /\ x \in Nat /\ Size(lv[l]) \in Nat /\ Size(lv[k]) \in Nat /\ Size(lv2[l]) \in Nat /\ lv2[k] \in Nodes
  BY NodesMovedIs
<1>2. h \in Heads /\ i[h].used = j[h].used + x /\ j[h].used \in Nat /\ \A r \in Heads \ {h} : i[r] = j[r]
  BY HeadWritesIs
<1>3. lv \in [LEBs -> Nodes] /\ l \in LEBs /\ k \in LEBs /\ l # k BY DEF NodesMoved
<1>4. \A r \in LEBs \ {k} : WbufOf(i, f[r]) = WbufOf(j, f[r])
  <2>1. OneWbuf(f, h, k, j, i) BY <1>2 DEF OneWbuf
  <2> QED BY <2>1, OtherWbufs
<1>5. f[k] = <<"head", h>> BY <1>2, <1>3 DEF OwnIs
<1>6. PICK q : q = [lv EXCEPT ![k] = lv2[k]] OBVIOUS
<1>7. q \in [LEBs -> Nodes] /\ q[k] = lv2[k] /\ \A r \in LEBs \ {k} : q[r] = lv[r] BY <1>1, <1>3, <1>6
<1>8. \A r \in LEBs : LebOk(s.lp[r], Size(q[r]), od[r], f[r], WbufOf(i, f[r]))
  <2> SUFFICES ASSUME NEW r \in LEBs PROVE LebOk(s.lp[r], Size(q[r]), od[r], f[r], WbufOf(i, f[r])) OBVIOUS
  <2>1. LebOk(s.lp[r], Size(lv[r]), od[r], f[r], WbufOf(j, f[r])) /\ s.lp[r] \in Props BY DEF Mid
  <2>2. CASE r # k BY <1>4, <1>7, <2>1, <2>2
  <2>3. CASE r = k
    <3>1. PICK a, u, y, old : a = Size(lv[k]) /\ u = j[h].used /\ y = s.lp[k] /\ old = od[k] OBVIOUS
    <3>2. WbufOf(j, f[k]) = u /\ WbufOf(i, f[k]) = u + x BY <1>2, <1>5, <3>1 DEF WbufOf
    <3>3. LebOk(y, a, old, <<"head", h>>, u) /\ y \in Props BY <1>5, <2>1, <2>3, <3>1, <3>2
    <3>4. ~y.index /\ a = LebSize - Spc(y) + u BY <3>3 DEF LebOk
    <3>5. a + x = LebSize - Spc(y) + (u + x) BY <1>1, <1>2, <3>1, <3>3, <3>4, SizeAssumption DEF Props, Spc
    <3> QED BY <1>1, <1>5, <1>7, <2>3, <3>1, <3>2, <3>3, <3>4, <3>5 DEF LebOk
  <2> QED BY <2>2, <2>3
<1>9. DirtStep(f, s, q, od, sz, i, l, x, s2, lv2, od, sz, i)
  <2>1. od \in [LEBs -> Nat] /\ s.lp[l].index = sp.lp[l].index BY <1>3 DEF Mid
  <2>2. LebOk(Dirtier(s.lp[l], x), Size(lv2[l]), od[l], f[l], WbufOf(i, f[l]))
    <3>1. PICK a, y, old, d : a = Size(lv[l]) /\ y = s.lp[l] /\ old = od[l] /\ d = Dirtier(s.lp[l], x) OBVIOUS
    <3>2. LebOk(y, a, old, <<"garbage", 0>>, 0) /\ y \in Props BY <1>3, <3>1 DEF WbufOf, Mid
    <3>3. d.index = y.index /\ d.free = y.free /\ Spc(d) = Spc(y) + x /\ Spc(y) \in Nat
      BY <1>1, <3>1, <3>2, DirtierIs
    <3>4. ~y.index /\ a = LebSize - Spc(y) + 0 BY <2>1, <3>1, <3>2 DEF LebOk
    <3>5. a - x = LebSize - Spc(d) + 0 BY <1>1, <3>1, <3>3, <3>4, SizeAssumption
    <3> QED BY <1>1, <3>1, <3>2, <3>3, <3>4, <3>5 DEF LebOk, WbufOf
  <2> QED BY <1>1, <1>3, <1>7, <1>8, <2>1, <2>2 DEF DirtStep, Mid
<1> QED BY <1>9, DirtKeeps

\* The collector has no head yet.
LEMMA GcMoveStart ==
    ASSUME IInv, GcMove, jh[GCHD].leb = None
    PROVE  IInv'
<1>1. /\ gc.pc = "move" /\ LpFree /\ gc' = [gc EXCEPT !.pc = "switch"]
      /\ UNCHANGED <<sp, live, jh, gc_lnum, idx_gc, buds, old_buds, bi, dirty_zn, calc_idx_sz, old_idx,
                   dirty_idx, th, cmt, lp_mutex>> BY DEF GcMove, index, gcother
<1>2. PICK r : r = gc' OBVIOUS
<1> QED
  BY <1>1, <1>2, GcRuns, GcStepIs, SpaceAssumption, LpFreeIs, DataNow, GcPlainKeeps DEF GcPlain, Twice, GcInv,
     IInv, GcSteps, GcType, GcPcs

\* What the collector moves.
MoveWith(l, k, m, z) ==
    /\ m \in FirstFit(live[l], Room(GCHD)) /\ z \in LEBs \cup {None}
    /\ \/ /\ Size(m) = 0 /\ sp' = sp
          /\ dirty_zn' = dirty_zn /\ calc_idx_sz' = calc_idx_sz /\ old_idx' = old_idx /\ dirty_idx' = dirty_idx
       \/ Size(m) # 0 /\ DirtyZnode(z, 0) /\ sp' = AddDirt(WithZnode(sp, z), l, Size(m))
    /\ live' = [live EXCEPT ![l] = [s \in Sizes |-> @[s] - m[s]], ![k] = [s \in Sizes |-> @[s] + m[s]]]
    /\ jh' = [jh EXCEPT ![GCHD].used = @ + Size(m)]
    /\ \/ m = live[l] /\ gc' = [gc EXCEPT !.pc = "sync", !.moved = TRUE]
       \/ m # live[l] /\ gc' = [gc EXCEPT !.pc = "switch", !.moved = TRUE]
\* GcMove, by its parts.
LEMMA GcMoveIs ==
    ASSUME GcMove, NEW l, l = gc.leb, NEW k, k = jh[GCHD].leb, k # None
    PROVE  /\ gc.pc = "move" /\ LpFree /\ \E m, z : MoveWith(l, k, m, z)
           /\ UNCHANGED <<gc_lnum, buds, idx_gc, lp_mutex, th, old_buds, bi, cmt>>
<1>1. PICK m \in FirstFit(live[l], Room(GCHD)), z \in LEBs \cup {None} :
         /\ IF Size(m) = 0 THEN z = None /\ UNCHANGED index ELSE DirtyZnode(z, 0)
         /\ sp' = IF Size(m) = 0 THEN sp ELSE AddDirt(WithZnode(sp, z), l, Size(m))
         /\ live' = [live EXCEPT ![l] = [s \in Sizes |-> @[s] - m[s]],
                                 ![k] = [s \in Sizes |-> @[s] + m[s]]]
         /\ jh' = [jh EXCEPT ![GCHD].used = @ + Size(m)]
         /\ gc' = [gc EXCEPT !.pc = IF m = live[l] THEN "sync" ELSE "switch", !.moved = TRUE]
  <2>1. \E m \in FirstFit(live[l], Room(GCHD)), z \in LEBs \cup {None} :
         /\ IF Size(m) = 0 THEN z = None /\ UNCHANGED index ELSE DirtyZnode(z, 0)
         /\ sp' = IF Size(m) = 0 THEN sp ELSE AddDirt(WithZnode(sp, z), l, Size(m))
         /\ live' = [live EXCEPT ![l] = [s \in Sizes |-> @[s] - m[s]],
                                 ![k] = [s \in Sizes |-> @[s] + m[s]]]
         /\ jh' = [jh EXCEPT ![GCHD].used = @ + Size(m)]
         /\ gc' = [gc EXCEPT !.pc = IF m = live[l] THEN "sync" ELSE "switch", !.moved = TRUE]
    BY ZenonT(60) DEF GcMove
  <2> QED BY <2>1
<1> QED BY <1>1 DEF GcMove, gcother, MoveWith, index

\* No node is moved.
SizesSame(f, s, lv, od, sz, j, lv2, i) ==
    /\ Mid(f, s, lv, od, sz, j) /\ lv2 \in [LEBs -> Nodes] /\ f \in [LEBs -> Spots]
    /\ \A l \in LEBs : Size(lv2[l]) = Size(lv[l])
    /\ \A h \in Heads : i[h].used = j[h].used
\* All LEBs are in order after it.
LEMMA SizesSameMid ==
    ASSUME NEW f, NEW s, NEW lv, NEW od, NEW sz, NEW j, NEW lv2, NEW i, SizesSame(f, s, lv, od, sz, j, lv2, i)
    PROVE  Mid(f, s, lv2, od, sz, i)
<1>1. Mid(f, s, lv, od, sz, j) /\ lv2 \in [LEBs -> Nodes] /\ f \in [LEBs -> Spots] BY DEF SizesSame
<1>2. \A l \in LEBs : WbufOf(i, f[l]) = WbufOf(j, f[l])
  <2> SUFFICES ASSUME NEW l \in LEBs PROVE WbufOf(i, f[l]) = WbufOf(j, f[l]) OBVIOUS
  <2> QED BY <1>1, SpotIs DEF WbufOf, SizesSame
<1>3. \A l \in LEBs : LebOk(s.lp[l], Size(lv2[l]), od[l], f[l], WbufOf(i, f[l]))
  BY <1>1, <1>2 DEF SizesSame, Mid
<1> QED BY <1>1, <1>3 DEF Mid

\* The znode that is changed when nodes are moved.
LEMMA MoveZnode ==
    ASSUME IInv, NEW f, OwnIs(f), Base(f, sp, jh), NEW z, DirtyZnode(z, 0), NEW s, s = WithZnode(sp, z),
           NEW od, od = old_idx', NEW sz, sz = calc_idx_sz'
    PROVE  ZnodeStep(f, z, s, od, sz) /\ dirty_zn' \in Nat /\ dirty_idx' = dirty_idx
<1>1. dirty_zn \in Nat BY DEF IInv, DataInv
<1>2. CASE z = None BY <1>1, <1>2, SizeNow DEF ZnodeStep, DirtyZnode, WithZnode, Num
<1>3. CASE z # None BY <1>1, <1>3 DEF ZnodeStep, DirtyZnode, Num, WithZnode
<1> QED BY <1>2, <1>3

\* What is moved can be.
LEMMA FirstFitIs ==
    ASSUME NEW n \in Nodes, NEW x \in Int, NEW m, m \in FirstFit(n, x)
    PROVE  /\ m \in Nodes /\ (\A s \in Sizes : m[s] <= n[s]) /\ Size(m) \in Nat /\ Size(m) <= x
           /\ m # n => \E s \in Sizes : m[s] < n[s] /\ s > x - Size(m)
BY SizeAssumption, SizeType DEF Nodes, FirstFit

\* The space and the nodes after the move.
MoveMid(f, l, k, m, z, s2, lv2, od, sz, j2) ==
    /\ OwnIs(f) /\ Base(f, sp, jh) /\ f[l] = <<"garbage", 0>> /\ ~sp.lp[l].index
    /\ l \in LEBs /\ k \in LEBs /\ jh[GCHD].leb = k
    /\ m \in Nodes /\ (\A s \in Sizes : m[s] <= live[l][s]) /\ MoveWith(l, k, m, z)
    /\ s2 = sp' /\ lv2 = live' /\ od = old_idx' /\ sz = calc_idx_sz' /\ j2 = jh'
\* All LEBs are in order after it.
LEMMA MoveMidIs ==
    ASSUME IInv, NEW f, NEW l, NEW k, NEW m, NEW z, NEW s2, NEW lv2, NEW od, NEW sz, NEW j2,
           MoveMid(f, l, k, m, z, s2, lv2, od, sz, j2)
    PROVE  /\ Mid(f, s2, lv2, od, sz, j2) /\ dirty_zn' \in Nat /\ dirty_idx' = dirty_idx
           /\ \A i \in GcLebs : od[i] = old_idx[i]
           /\ HeadWrites(jh, GCHD, Size(m), j2) /\ Size(lv2[l]) = Size(live[l]) - Size(m)
<1> /\ OwnIs(f) /\ Base(f, sp, jh) /\ f[l] = <<"garbage", 0>> /\ ~sp.lp[l].index
    /\ l \in LEBs /\ k \in LEBs /\ jh[GCHD].leb = k
    /\ m \in Nodes /\ (\A s \in Sizes : m[s] <= live[l][s]) /\ MoveWith(l, k, m, z)
    /\ s2 = sp' /\ lv2 = live' /\ od = old_idx' /\ sz = calc_idx_sz' /\ j2 = jh' BY DEF MoveMid
<1>1. PICK x : x = Size(m) OBVIOUS
<1>2. GCHD \in Heads BY SpaceAssumption
<1>3. HeadWrites(jh, GCHD, x, j2) BY <1>1, <1>2, SizeType DEF HeadWrites, MoveWith, Base
<1>4. PICK lv, j : lv = live /\ j = jh OBVIOUS
<1>5. lv \in [LEBs -> Nodes] /\ dirty_zn \in Nat BY <1>4, DataNow
<1>6. NodesMoved(lv, l, k, m, lv2) BY <1>2, <1>4, <1>5 DEF NodesMoved, MoveWith, OwnIs
<1>7. /\ lv2 \in [LEBs -> Nodes] /\ \A i \in LEBs \ {l, k} : lv2[i] = lv[i]
      /\ Size(lv2[l]) = Size(lv[l]) - x /\ Size(lv2[k]) = Size(lv[k]) + x
      /\ Size(lv[l]) \in Nat /\ Size(lv[k]) \in Nat BY <1>1, <1>6, NodesMovedIs
<1>8. CASE x = 0
  <2>1. s2 = sp /\ od = old_idx /\ sz = calc_idx_sz /\ dirty_zn' = dirty_zn /\ dirty_idx' = dirty_idx
    BY <1>1, <1>8 DEF MoveWith
  <2>2. SizesSame(f, s2, lv, od, sz, j, lv2, j2)
    <3>1. \A h \in Heads : j2[h].used = j[h].used BY <1>3, <1>4, <1>8, HeadWritesIs
    <3>2. \A i \in LEBs : Size(lv2[i]) = Size(lv[i]) BY <1>7, <1>8
    <3>3. f \in [LEBs -> Spots] BY DEF OwnIs
    <3> QED BY <1>4, <1>7, <2>1, <3>1, <3>2, <3>3, MidNow DEF SizesSame
  <2> QED BY <1>1, <1>3, <1>4, <1>5, <1>7, <2>1, <2>2, SizesSameMid
<1>9. CASE x # 0
  <2>1. PICK s : s = WithZnode(sp, z) OBVIOUS
  <2>2. DirtyZnode(z, 0) /\ s2 = AddDirt(s, l, x) BY <1>1, <1>9, <2>1 DEF MoveWith
  <2>3. ZnodeStep(f, z, s, od, sz) /\ dirty_zn' \in Nat /\ dirty_idx' = dirty_idx BY <2>1, <2>2, MoveZnode
  <2> QED BY <1>1, <1>3, <1>4, <1>6, <1>7, <2>2, <2>3, ZnodeKeeps, MoveKeeps DEF MoveStep
<1> QED BY <1>8, <1>9

\* The heads after nodes have been written to one.
MidHeads(f, h, n, s2, lv2, od, sz, j2) ==
    /\ Base(f, sp, jh) /\ Mid(f, s2, lv2, od, sz, j2) /\ s2 = sp' /\ j2 = jh'
    /\ HeadWrites(jh, h, n, j2) /\ jh[h].leb # None /\ Room(h) >= n /\ buds' = buds
\* HeadInv is kept.
LEMMA MidHeadsKept ==
    ASSUME IInv, NEW f, NEW h, NEW n, NEW s2, NEW lv2, NEW od, NEW sz, NEW j2,
           MidHeads(f, h, n, s2, lv2, od, sz, j2)
    PROVE  HeadInv' /\ \A k \in Heads : j2[k].leb = jh[k].leb
<1> /\ Base(f, sp, jh) /\ Mid(f, s2, lv2, od, sz, j2) /\ s2 = sp' /\ j2 = jh'
    /\ HeadWrites(jh, h, n, j2) /\ jh[h].leb # None /\ Room(h) >= n /\ buds' = buds BY DEF MidHeads
<1>1. h \in Heads /\ n \in Nat BY DEF HeadWrites
<1>2. /\ j2 \in HeadType
      /\ \A k \in Heads : j2[k].leb = jh[k].leb /\ j2[k].offs = jh[k].offs /\ j2[k].by = jh[k].by
      /\ \A k \in Heads \ {h} : j2[k] = jh[k]
      /\ j2[h].used = jh[h].used + n
  <2>1. PICK j : j = jh OBVIOUS
  <2> QED BY <2>1, HeadWritesIs
<1>3. \A k \in Heads : j2[k].leb \in Maybe(LEBs) /\ BufOk(j2[k], sp.lp)
  <2> SUFFICES ASSUME NEW k \in Heads PROVE j2[k].leb \in Maybe(LEBs) /\ BufOk(j2[k], sp.lp) OBVIOUS
  <2>1. jh[k] \in Buffer /\ BufOk(jh[k], sp.lp) /\ j2[k] \in Buffer BY <1>2 DEF Base, HeadType, Buffer
  <2>2. CASE k # h BY <1>2, <2>1, <2>2 DEF Buffer
  <2>3. CASE k = h
    <3>1. PICK b, c, lp : b = jh[h] /\ c = j2[h] /\ lp = sp.lp OBVIOUS
    <3>2. b \in Buffer /\ c \in Buffer /\ BufOk(b, lp) /\ b.leb # None /\ c.leb = b.leb /\ c.offs = b.offs
          /\ c.used = b.used + n BY <1>1, <1>2, <2>1, <2>3, <3>1
    <3>3. n <= LebSize - b.offs - b.used BY <1>1, <3>1, <3>2, SizeAssumption DEF Room, Buffer
    <3> QED BY <1>1, <2>1, <2>3, <3>1, <3>2, <3>3, WrittenFits DEF Buffer
  <2> QED BY <2>2, <2>3
<1> QED BY <1>2, <1>3, MidBufs, HeadNext DEF IInv, HeadInv

\* A head of its own is long enough for any node that is left.
LEMMA AllMoved ==
    ASSUME IInv, NEW f, OwnIs(f), Base(f, sp, jh), gc.pc = "move", gc_lnum = None, NEW l, l = gc.leb,
           NEW n, n = live[l], NEW x, x = Room(GCHD), NEW m, m \in FirstFit(n, x)
    PROVE  m = n
<1>1. jh[GCHD].leb # None /\ jh[GCHD].offs = 0 /\ jh[GCHD].used = 0 /\ l # None /\ ~sp.lp[l].index
  BY DEF IInv, GcInv
<1>2. LebSize \in Nat BY SizeAssumption
<1>3. x = LebSize BY <1>1, <1>2 DEF Room
<1>4. /\ l \in LEBs /\ sp.lp[l] \in Props
      /\ LebOk(sp.lp[l], Size(live[l]), old_idx[l], <<"garbage", 0>>, 0) BY <1>1, GarbageIs
<1>5. n \in Nodes BY <1>4, DataNow
<1>6. PICK a, b : a = Size(n) /\ b = Spc(sp.lp[l]) OBVIOUS
<1>7. a = LebSize - b + 0 /\ b \in Nat BY <1>1, <1>4, <1>6 DEF LebOk, Props, Spc
<1>8. SUFFICES ASSUME m # n PROVE FALSE OBVIOUS
<1>9. /\ m \in Nodes /\ (\A s \in Sizes : m[s] <= n[s]) /\ Size(m) \in Nat
      /\ \E s \in Sizes : m[s] < n[s] /\ s > x - Size(m) BY <1>2, <1>3, <1>5, <1>8, FirstFitIs
<1>10. PICK s \in Sizes : m[s] < n[s] /\ s > x - Size(m) BY <1>9
<1>11. Size(n) >= Size(m) + s BY <1>5, <1>9, <1>10, NodesOver
<1>12. PICK c : c = Size(m) OBVIOUS
<1> QED BY <1>2, <1>3, <1>6, <1>7, <1>9, <1>10, <1>11, <1>12, SizeAssumption

\* move_nodes() keeps the invariant.
LEMMA GcMoveKeeps ==
    ASSUME IInv, GcMove
    PROVE  IInv'
<1>1. CASE jh[GCHD].leb = None BY <1>1, GcMoveStart
<1>2. CASE jh[GCHD].leb # None
  <2>1. PICK l, k : l = gc.leb /\ k = jh[GCHD].leb OBVIOUS
  <2>2. /\ gc.pc = "move" /\ LpFree /\ \E m, z : MoveWith(l, k, m, z)
        /\ gc_lnum' = gc_lnum /\ buds' = buds /\ idx_gc' = idx_gc /\ lp_mutex' = lp_mutex /\ th' = th
        /\ old_buds' = old_buds /\ bi' = bi /\ cmt' = cmt BY <1>2, <2>1, GcMoveIs
  <2>3. PICK m, z : MoveWith(l, k, m, z) BY <2>2
  <2>4. gc \in GcType /\ gc.by \in Threads /\ th[gc.by].pc = "gc" /\ cmt.pc \notin Exclusive BY <2>2, GcRuns
  <2>5. l # None /\ ~sp.lp[l].index BY <2>1, <2>2 DEF IInv, GcInv
  <2>6. PICK f : OwnOk(f, Places) /\ OwnIs(f) /\ Base(f, sp, jh) BY BaseNow
  <2>7. /\ l \in LEBs /\ f[l] = <<"garbage", 0>> /\ sp.lp[l] \in Props
        /\ LebOk(sp.lp[l], Size(live[l]), old_idx[l], <<"garbage", 0>>, 0) BY <2>1, <2>5, <2>6, GarbageIs
  <2>8. GCHD \in Heads /\ k \in LEBs /\ k # None BY <1>2, <2>1, <2>6, SpaceAssumption DEF Base, HeadType, Maybe
  <2>9. PICK n, x : n = live[l] /\ x = Room(GCHD) OBVIOUS
  <2>10. n \in Nodes /\ x \in Int BY <2>7, <2>8, <2>9, DataNow, RoomType
  <2>11. m \in FirstFit(n, x) BY <2>3, <2>9 DEF MoveWith
  <2>12. m \in Nodes /\ (\A s \in Sizes : m[s] <= n[s]) /\ Size(m) \in Nat /\ Size(m) <= x
    BY <2>10, <2>11, FirstFitIs
  <2>13. PICK s2, lv2, od, sz, j2 : s2 = sp' /\ lv2 = live' /\ od = old_idx' /\ sz = calc_idx_sz' /\ j2 = jh'
    OBVIOUS
  <2>14. MoveMid(f, l, k, m, z, s2, lv2, od, sz, j2)
    BY <2>1, <2>3, <2>5, <2>6, <2>7, <2>8, <2>9, <2>12, <2>13 DEF MoveMid
  <2>15. /\ Mid(f, s2, lv2, od, sz, j2) /\ dirty_zn' \in Nat /\ dirty_idx' = dirty_idx
         /\ \A i \in GcLebs : od[i] = old_idx[i]
         /\ HeadWrites(jh, GCHD, Size(m), j2) /\ Size(lv2[l]) = Size(live[l]) - Size(m) BY <2>14, MoveMidIs
  <2>16. PICK y : y = Size(m) OBVIOUS
  <2>17. MidHeads(f, GCHD, y, s2, lv2, od, sz, j2)
    <3>1. x >= y BY <2>10, <2>12, <2>16
    <3> QED BY <2>1, <2>2, <2>6, <2>8, <2>9, <2>13, <2>15, <2>16, <3>1 DEF MidHeads
  <2>18. HeadInv' /\ \A h \in Heads : j2[h].leb = jh[h].leb BY <2>17, MidHeadsKept
  <2>19. PICK r : r = gc' OBVIOUS
  <2>20. PICK c : /\ r = [gc EXCEPT !.pc = c, !.moved = TRUE]
                  /\ (c = "sync" /\ m = n) \/ (c = "switch" /\ m # n)
    <3>1. CASE m = n /\ r = [gc EXCEPT !.pc = "sync", !.moved = TRUE] BY <3>1
    <3>2. CASE m # n /\ r = [gc EXCEPT !.pc = "switch", !.moved = TRUE] BY <3>2
    <3> QED BY <2>3, <2>9, <2>19, <3>1, <3>2 DEF MoveWith
  <2>21. c \in GcPcs BY <2>20 DEF GcPcs
  <2>22. r \in GcType /\ r.leb = gc.leb /\ r.by = gc.by /\ r.pc = c
    <3>1. PICK q, i, e, w : q = gc /\ i = gc.leb /\ e = gc.err /\ w = TRUE OBVIOUS
    <3> QED BY <2>4, <2>20, <3>1, GcStepIs DEF GcSteps, GcType, GcPcs
  <2>23. OwnInv' /\ CountInv' BY <2>2, <2>6, <2>13, <2>15, <2>18, <2>19, <2>22, MidKeeps DEF MidStep, Twice
  <2>24. ThreadInv' /\ CmtInv' /\ DataInv' /\ BudgetInv'
    BY <2>2, <2>6, <2>13, <2>15, LpFreeIs, DataNow, GcSideKeeps DEF GcSide, Mid
  <2>25. GcInv'
    <3>1. PICK q : q = s2.lp[l] OBVIOUS
    <3>2. ~q.index /\ q \in Props /\ LebOk(q, Size(lv2[l]), od[l], <<"garbage", 0>>, 0)
      BY <2>5, <2>7, <2>15, <3>1 DEF WbufOf, Mid
    <3>3. c = "sync" => Spc(q) = LebSize
      <4>1. ASSUME c = "sync" PROVE Spc(q) = LebSize
        <5> QED BY <2>9, <2>12, <2>15, <2>20, <3>2, <4>1, SizeAssumption DEF LebOk, Props, Spc
      <4> QED BY <4>1
    <3>4. c = "switch" => gc_lnum # None BY <2>1, <2>2, <2>6, <2>9, <2>11, <2>20, AllMoved
    <3>5. gc.by # None BY <2>4, SpaceAssumption
    <3>6. c \in {"sync", "switch"} BY <2>20
    <3> QED BY <2>1, <2>2, <2>4, <2>5, <2>13, <2>19, <2>22, <3>1, <3>2, <3>3, <3>4, <3>5, <3>6 DEF GcInv
  <2> QED BY <2>2, <2>13, <2>15, <2>18, <2>23, <2>24, <2>25, EraseKept DEF IInv
<1> QED BY <1>1, <1>2

(***************************************************************************)
(* Steps of the commit.                                                    *)
(***************************************************************************)
\* What the commit leaves to the threads and the collector.
CmtSide(f, lp) ==
    /\ OwnIs(f) /\ lp = sp'.lp
    /\ \A k \in LEBs : f[k][1] \in {"thread", "garbage"} => SameSpace(lp[k], sp.lp[k])
    /\ old_idx' \in [LEBs -> Nat] /\ dirty_zn' \in Nat /\ dirty_idx' \in SUBSET LEBs
    /\ UNCHANGED <<live, jh, gc_lnum, buds, th, gc, lp_mutex>>
\* What such a step keeps.
LEMMA CmtSideKeeps ==
    ASSUME IInv, NEW f, NEW lp, CmtSide(f, lp)
    PROVE  ThreadInv' /\ GcInv' /\ DataInv'
<1>1. /\ OwnIs(f) /\ lp = sp'.lp
      /\ \A k \in LEBs : f[k][1] \in {"thread", "garbage"} => SameSpace(lp[k], sp.lp[k])
      /\ old_idx' \in [LEBs -> Nat] /\ dirty_zn' \in Nat /\ dirty_idx' \in SUBSET LEBs
      /\ live' = live /\ jh' = jh /\ gc_lnum' = gc_lnum /\ buds' = buds /\ th' = th /\ gc' = gc
      /\ lp_mutex' = lp_mutex BY DEF CmtSide
<1>2. ThreadInv'
  <2>1. \A k \in LEBs : f[k][1] = "thread" => lp[k].free = sp.lp[k].free BY <1>1 DEF SameSpace
  <2>2. (\E t \in Threads : Finding(th[t])) => lp_mutex'.by = "find" BY <1>1 DEF IInv, ThreadInv
  <2> QED BY <1>1, <2>1, <2>2, ThreadSame
<1>3. GcInv'
  <2>1. gc.leb # None => SameSpace(sp'.lp[gc.leb], sp.lp[gc.leb]) BY <1>1 DEF GcType, Maybe, OwnIs, IInv, GcInv
  <2> QED BY <1>1, <2>1, GcNext DEF IInv, GcInv
<1>4. DataInv' BY <1>1 DEF DataInv, IInv
<1> QED BY <1>2, <1>3, <1>4

\* A bud is returned.
LEMMA ReturnBudKeeps ==
    ASSUME IInv, NEW l \in old_buds, ReturnBud(l)
    PROVE  IInv'
<1>1. /\ cmt.pc = "post" /\ LpFree /\ sp' = ReturnLeb(sp, l) /\ old_buds' = old_buds \ {l}
      /\ live' = live /\ jh' = jh /\ gc_lnum' = gc_lnum /\ buds' = buds /\ idx_gc' = idx_gc
      /\ dirty_zn' = dirty_zn /\ calc_idx_sz' = calc_idx_sz /\ old_idx' = old_idx /\ dirty_idx' = dirty_idx
      /\ cmt' = cmt /\ bi' = bi /\ th' = th /\ gc' = gc /\ lp_mutex' = lp_mutex
  BY DEF ReturnBud, cmother, data, index
<1>2. PICK f : OwnOk(f, Places) /\ OwnIs(f) /\ Base(f, sp, jh) BY BaseNow
<1>3. PICK o : o = Places OBVIOUS
<1>4. OwnOk(f, o) /\ l \in o.old BY <1>2, <1>3 DEF Places
<1>5. l \in LEBs BY <1>4 DEF OwnOk, Where, PlaceType
<1>6. f[l] = <<"old", 0>> /\ f[l][1] = "old" BY <1>2, <1>5 DEF OwnIs
<1>7. PICK n, s, j : n = Returned(sp.lp[l]) /\ s = sp /\ j = jh OBVIOUS
<1>8. sp.lp[l] \in Props /\ LebOk(sp.lp[l], Size(live[l]), old_idx[l], <<"old", 0>>, 0)
  BY <1>2, <1>5, <1>6 DEF Base, WbufOf
<1>9. /\ n \in Props /\ n.cat = sp.lp[l].cat /\ n.free = sp.lp[l].free
      /\ n.dirty = sp.lp[l].dirty /\ n.index = sp.lp[l].index /\ n.taken = FALSE
      /\ Spc(n) = Spc(sp.lp[l]) /\ Term("size", n) = Term("size", sp.lp[l])
      /\ Term("size", sp.lp[l]) \in Int BY <1>7, <1>8, ReturnedIs
<1>10. SpaceStep(f, s, j, l, n, 0) BY <1>1, <1>2, <1>5, <1>7, <1>9 DEF SpaceStep, ReturnLeb, Returned
<1>11. PICK p, g : p = [o EXCEPT !.old = @ \ {l}, !.taken = @ \ {l}] /\ g = [f EXCEPT ![l] = Nobody] OBVIOUS
<1>12. OwnOk(g, p) BY <1>4, <1>5, <1>11, OldReturns
<1>13. NextPlaces(p)
  <2>1. ThreadLebs' = ThreadLebs /\ LebOfHead' = LebOfHead /\ HeadLebs' = HeadLebs /\ GcLebs' = GcLebs
    BY <1>1 DEF ThreadLebs, LebOfHead, HeadLebs, GcLebs
  <2> QED
    BY <1>1, <1>3, <1>4, <1>9, <1>10, <1>11, <2>1, SpaceIs, PlacesNow DEF NextPlaces, OwnOk, Where, PlaceType
<1>14. TouchStep(f, s, j, l, n, 0, g, p)
  <2>1. g[l] = Nobody /\ \A k \in LEBs \ {l} : g[k] = f[k] BY <1>2, <1>5, <1>11 DEF OwnIs
  <2>2. Twice' = Twice /\ GcLebs' = GcLebs BY <1>1 DEF Twice, GcLebs
  <2>3. Cardinality(GcLebs') = Cardinality(GcLebs) + 0 BY <2>2, GcLebsFacts
  <2>4. calc_idx_sz' = calc_idx_sz - Term("size", s.lp[l]) + Term("size", n) BY <1>1, <1>2, <1>7, <1>9, SizeNow
  <2>5. LebOk(n, Size(live'[l]), old_idx'[l], g[l], WbufOf(jh', g[l]))
    BY <1>1, <1>8, <1>9, <2>1 DEF WbufOf, Nobody, LebOk
  <2> QED BY <1>1, <1>7, <1>10, <1>12, <1>13, <2>1, <2>2, <2>3, <2>4, <2>5 DEF TouchStep
<1>15. /\ OwnInv' /\ CountInv' /\ HeadInv'
       /\ \A k \in LEBs \ {l} : f[k][1] # "head" => SameSpace(sp'.lp[k], sp.lp[k])
  BY <1>1, <1>2, <1>6, <1>7, <1>14, TouchOffKeeps DEF TouchOff
<1>16. PICK lp : lp = sp'.lp OBVIOUS
<1>17. ThreadInv' /\ GcInv' /\ DataInv'
  BY <1>1, <1>2, <1>6, <1>15, <1>16, DataNow, CmtSideKeeps DEF CmtSide, IInv, DataInv
<1>18. CmtInv' BY <1>1, CmtNext DEF Exclusive
<1>19. BudgetInv' BY <1>1, BudgetFrame DEF IInv
<1> QED BY <1>1, <1>15, <1>17, <1>18, <1>19, EraseKept DEF IInv

\* A LEB has been erased.
LEMMA Unerase ==
    ASSUME IInv, NEW g \in idx_gc, NEW l, l = g.lnum, idx_gc' = idx_gc \ {g}, cmt' = cmt, old_idx' = old_idx
    PROVE  /\ EraseInv' /\ GcLebs' = GcLebs \ {l} /\ l \in GcLebs /\ l \in LEBs
           /\ Cardinality(GcLebs') = Cardinality(GcLebs) - 1
<1>1. EraseInv BY DEF IInv
<1>2. l \in GcLebs BY DEF GcLebs
<1>3. GcLebs' = GcLebs \ {l} BY <1>1 DEF EraseInv, GcLebs
<1> QED BY <1>1, <1>2, <1>3, GcLebsFacts, FS_RemoveElement DEF EraseInv

\* ubifs_gc_end_commit() keeps the invariant.
LEMMA GcEndCommitKeeps ==
    ASSUME IInv, NEW x \in idx_gc, GcEndCommit(x)
    PROVE  IInv'
<1>1. PICK l : l = x.lnum OBVIOUS
<1>2. /\ cmt.pc = "post" /\ x.unmap /\ gc.by = None /\ LpFree
      /\ sp' = ChangeLp(sp, l, [sp.lp[l] EXCEPT !.taken = FALSE], -1) /\ idx_gc' = idx_gc \ {x}
      /\ live' = live /\ jh' = jh /\ gc_lnum' = gc_lnum /\ buds' = buds /\ old_buds' = old_buds
      /\ dirty_zn' = dirty_zn /\ calc_idx_sz' = calc_idx_sz /\ old_idx' = old_idx /\ dirty_idx' = dirty_idx
      /\ cmt' = cmt /\ bi' = bi /\ th' = th /\ gc' = gc /\ lp_mutex' = lp_mutex
  BY <1>1 DEF GcEndCommit, cmother, data, index
<1>3. PICK f : OwnOk(f, Places) /\ OwnIs(f) /\ Base(f, sp, jh) BY BaseNow
<1>4. /\ EraseInv' /\ GcLebs' = GcLebs \ {l} /\ l \in GcLebs /\ l \in LEBs
      /\ Cardinality(GcLebs') = Cardinality(GcLebs) - 1 BY <1>1, <1>2, Unerase
<1>5. PICK o : o = Places OBVIOUS
<1>6. OwnOk(f, o) /\ l \in o.erase BY <1>3, <1>4, <1>5 DEF Places
<1>7. f[l] = <<"erase", 0>> /\ f[l][1] = "erase" BY <1>3, <1>4 DEF OwnIs
<1>8. PICK n, s, j : n = Returned(sp.lp[l]) /\ s = sp /\ j = jh OBVIOUS
<1>9. /\ sp.lp[l] \in Props /\ LebOk(sp.lp[l], Size(live[l]), old_idx[l], <<"erase", 0>>, 0)
      /\ old_idx[l] = 0 BY <1>1, <1>2, <1>3, <1>4, <1>7 DEF Base, WbufOf, IInv, EraseInv
<1>10. /\ n \in Props /\ n.cat = sp.lp[l].cat /\ n.free = sp.lp[l].free
       /\ n.dirty = sp.lp[l].dirty /\ n.index = sp.lp[l].index /\ n.taken = FALSE
       /\ Spc(n) = Spc(sp.lp[l]) /\ Term("size", n) = Term("size", sp.lp[l])
       /\ Term("size", sp.lp[l]) \in Int BY <1>8, <1>9, ReturnedIs
<1>11. PICK d : d = -1 OBVIOUS
<1>12. SpaceStep(f, s, j, l, n, d) BY <1>2, <1>3, <1>4, <1>8, <1>10, <1>11 DEF SpaceStep, Returned
<1>13. PICK p, g : p = [o EXCEPT !.erase = @ \ {l}, !.taken = @ \ {l}] /\ g = [f EXCEPT ![l] = Nobody] OBVIOUS
<1>14. OwnOk(g, p) BY <1>4, <1>6, <1>13, EraseReturns
<1>15. NextPlaces(p)
  BY <1>2, <1>4, <1>5, <1>6, <1>10, <1>12, <1>13, SpaceIs, PlacesNow DEF NextPlaces, ThreadLebs, LebOfHead,
     HeadLebs, OwnOk, Where, PlaceType
<1>16. TouchStep(f, s, j, l, n, d, g, p)
  <2>1. g[l] = Nobody /\ \A k \in LEBs \ {l} : g[k] = f[k] BY <1>3, <1>4, <1>13 DEF OwnIs
  <2>2. Cardinality(GcLebs') = Cardinality(GcLebs) + d BY <1>4, <1>11, GcLebsFacts
  <2>3. calc_idx_sz' = calc_idx_sz - Term("size", s.lp[l]) + Term("size", n) BY <1>2, <1>3, <1>8, <1>10, SizeNow
  <2>4. LebOk(n, Size(live'[l]), old_idx'[l], g[l], WbufOf(jh', g[l]))
    BY <1>2, <1>9, <1>10, <2>1 DEF WbufOf, Nobody, LebOk
  <2> QED BY <1>2, <1>8, <1>12, <1>14, <1>15, <2>1, <2>2, <2>3, <2>4 DEF TouchStep, Twice
<1>17. TouchOff(f, s, j, l, n, d, g, p) BY <1>2, <1>3, <1>7, <1>8, <1>16 DEF TouchOff
<1>18. /\ OwnInv' /\ CountInv' /\ HeadInv'
       /\ \A k \in LEBs \ {l} : f[k][1] # "head" => SameSpace(sp'.lp[k], sp.lp[k]) BY <1>17, TouchOffKeeps
<1>19. PICK lp : lp = sp'.lp OBVIOUS
<1>20. ThreadInv' /\ GcInv' /\ DataInv'
  BY <1>2, <1>3, <1>7, <1>18, <1>19, DataNow, CmtSideKeeps DEF CmtSide, IInv, DataInv
<1>21. CmtInv' BY <1>2, CmtNext DEF Exclusive
<1>22. BudgetInv' BY <1>2, BudgetFrame DEF IInv
<1> QED BY <1>4, <1>18, <1>20, <1>21, <1>22 DEF IInv

\* A step of the commit that moves no LEB.
CmtPlain ==
    /\ cmt'.ihead = cmt.ihead /\ cmt'.ilebs = cmt.ilebs
    /\ cmt'.gaps \cup cmt'.full = cmt.gaps \cup cmt.full
    /\ CmtInv' /\ EraseInv'
    /\ \A t \in Threads : th'[t].leb = th[t].leb /\ th'[t].held = th[t].held
    /\ ThreadInv' /\ (gc.by # None => th'[gc.by].pc = "gc")
    /\ UNCHANGED <<sp, live, jh, gc_lnum, idx_gc, buds, old_buds, bi, dirty_zn, calc_idx_sz, old_idx,
                   dirty_idx, gc, lp_mutex>>
\* Such a step keeps the invariant.
LEMMA CmtPlainKeeps ==
    ASSUME IInv, CmtPlain
    PROVE  IInv'
<1>1. /\ cmt'.ihead = cmt.ihead /\ cmt'.ilebs = cmt.ilebs
      /\ cmt'.gaps \cup cmt'.full = cmt.gaps \cup cmt.full
      /\ CmtInv' /\ EraseInv'
      /\ \A t \in Threads : th'[t].leb = th[t].leb /\ th'[t].held = th[t].held
      /\ ThreadInv' /\ (gc.by # None => th'[gc.by].pc = "gc")
      /\ sp' = sp /\ live' = live /\ jh' = jh /\ gc_lnum' = gc_lnum /\ idx_gc' = idx_gc /\ buds' = buds
      /\ old_buds' = old_buds /\ bi' = bi /\ dirty_zn' = dirty_zn /\ calc_idx_sz' = calc_idx_sz
      /\ old_idx' = old_idx /\ dirty_idx' = dirty_idx /\ gc' = gc /\ lp_mutex' = lp_mutex BY DEF CmtPlain
<1>2. GcInv' BY <1>1, SameIs, GcNext DEF IInv, GcInv
<1>3. BudgetInv' BY <1>1, BudgetFrame DEF IInv
<1> QED BY <1>1, <1>2, <1>3, LebsStill DEF IInv, CountInv, GcLebs, Twice, HeadInv, HeadOk, DataInv

\* The master node is written.
LEMMA WriteMasterKeeps ==
    ASSUME IInv, WriteMaster
    PROVE  IInv'
<1>1. PICK r : r = cmt' OBVIOUS
<1> QED
  BY <1>1, CmtPlainKeeps DEF CmtPlain, CmtInv, Exclusive, IInv, EraseInv, CmtType, CmtPcs, ThreadInv, GcInv,
     WriteMaster, cmother, data

\* Who waited for the commit goes on.
LEMMA WokenIs ==
    ASSUME IInv, th' = Woken, sp' = sp, lp_mutex' = lp_mutex
    PROVE  /\ ThreadInv' /\ (gc.by # None => th'[gc.by].pc = "gc")
           /\ \A t \in Threads : th'[t].leb = th[t].leb /\ th'[t].held = th[t].held
           /\ \A t \in Threads : Reading(t)' => Reading(t)
<1>1. ASSUME NEW t \in Threads
      PROVE  /\ ThOk(th'[t], sp.lp) /\ th'[t].leb = th[t].leb /\ th'[t].held = th[t].held
             /\ th'[t].pc = th[t].pc \/ (th[t].pc = "commit" /\ th'[t].pc = "committed")
             /\ th'[t].any = th[t].any
  <2>1. th[t] \in ThType /\ ThOk(th[t], sp.lp) BY <1>1, ThreadFacts
  <2>2. CASE th[t].pc # "commit" BY <1>1, <2>1, <2>2 DEF Woken
  <2>3. CASE th[t].pc = "commit"
    <3>1. PICK q, r : q = th[t] /\ r = th'[t] OBVIOUS
    <3> QED BY <1>1, <2>1, <2>3, <3>1, ThTyped DEF ThOk, ThType, ThFields, Pcs, ThShape, Woken
  <2> QED BY <2>2, <2>3
<1>2. ThreadInv'
  <2>1. \E u : th' \in [Threads -> u]
    <3>1. PICK w : w = th' OBVIOUS
    <3>2. w \in [Threads -> {w[t] : t \in Threads}] BY <3>1 DEF Woken
    <3> QED BY <3>1, <3>2
  <2> QED BY <1>1, <2>1 DEF ThreadInv, Finding, IInv
<1>3. gc.by # None => th'[gc.by].pc = "gc" BY <1>1 DEF IInv, GcInv, GcType, Maybe
<1> QED BY <1>1, <1>2, <1>3 DEF Reading, Readers

\* There is nothing to commit.
LEMMA CommitCancelledKeeps ==
    ASSUME IInv, CommitCancelled
    PROVE  IInv'
BY WokenIs, CmtNext, EraseKept, CmtPlainKeeps DEF CmtPlain, CommitCancelled, lpvars, data, index

\* The commit is over.
LEMMA CommitDoneKeeps ==
    ASSUME IInv, CommitDone
    PROVE  IInv'
<1>1. PICK r : r = cmt' OBVIOUS
<1> QED
  BY <1>1, WokenIs, CmtPlainKeeps DEF CmtPlain, CmtInv, Exclusive, IInv, EraseInv, CmtType, CmtPcs, CommitDone,
     lpvars, data, index

\* The next state, when several LEBs that no head is on change.
ManyStep(f, s, j, r, e, c, g, p) ==
    /\ OwnIs(f) /\ Base(f, s, j) /\ jh' = j /\ r = sp'
    /\ e = Twice' /\ c = Cardinality(GcLebs)' /\ SpOk(r, e, c) /\ calc_idx_sz' = Total("size", r.lp)
    /\ OwnOk(g, p) /\ NextPlaces(p)
    /\ \A l \in LEBs : LebOk(r.lp[l], Size(live'[l]), old_idx'[l], g[l], WbufOf(j, g[l]))
    /\ \A l \in LEBs : f[l][1] = "head" => SameSpace(r.lp[l], s.lp[l])
    /\ \A h \in Heads : jh[h].leb # None => jh[h].leb \in buds'
\* What is kept then.
LEMMA ManyKeeps ==
    ASSUME IInv, NEW f, NEW s, NEW j, NEW r, NEW e, NEW c, NEW g, NEW p, ManyStep(f, s, j, r, e, c, g, p)
    PROVE  OwnInv' /\ CountInv' /\ HeadInv'
<1>1. /\ OwnIs(f) /\ Base(f, s, j) /\ jh' = j /\ r = sp'
      /\ e = Twice' /\ c = Cardinality(GcLebs)' /\ SpOk(r, e, c) /\ calc_idx_sz' = Total("size", r.lp)
      /\ OwnOk(g, p) /\ NextPlaces(p)
      /\ \A l \in LEBs : LebOk(r.lp[l], Size(live'[l]), old_idx'[l], g[l], WbufOf(j, g[l]))
      /\ \A l \in LEBs : f[l][1] = "head" => SameSpace(r.lp[l], s.lp[l])
      /\ \A h \in Heads : jh[h].leb # None => jh[h].leb \in buds' BY DEF ManyStep
<1>2. OwnInv'
  <2>1. PICK o : o = Places' OBVIOUS
  <2> QED BY <1>1, <2>1, PlacesNext, OwnNext
<1>3. HeadInv'
  <2>1. PICK lp : lp = r.lp OBVIOUS
  <2> QED BY <1>1, <2>1, BufsKept, HeadNext DEF Base
<1> QED BY <1>1, <1>2, <1>3, CountNext

\* LEBs written for the index are returned.
LEMMA WriteIndexKeeps ==
    ASSUME IInv, WriteIndex
    PROVE  IInv'
<1>1. PICK A : A = cmt.gaps \cup cmt.full OBVIOUS
<1>2. /\ cmt.pc = "write" /\ LpFree /\ sp' = ForAll(ReturnLeb, sp, A)
      /\ cmt' = [cmt EXCEPT !.pc = "master", !.gaps = {}, !.full = {}]
      /\ live' = live /\ jh' = jh /\ gc_lnum' = gc_lnum /\ idx_gc' = idx_gc /\ buds' = buds
      /\ old_buds' = old_buds /\ bi' = bi /\ dirty_zn' = dirty_zn /\ calc_idx_sz' = calc_idx_sz
      /\ old_idx' = old_idx /\ dirty_idx' = dirty_idx /\ gc' = gc /\ lp_mutex' = lp_mutex /\ th' = th
  BY <1>1 DEF WriteIndex, cmother, data, index
<1>3. PICK q : q = cmt' OBVIOUS
<1>4. q \in CmtType /\ q.pc = "master" /\ q.ihead = cmt.ihead /\ q.ilebs = cmt.ilebs /\ q.gaps = {}
      /\ q.full = {} BY <1>2, <1>3 DEF CmtType, CmtPcs, IInv, CmtInv
<1>5. PICK f : OwnOk(f, Places) /\ OwnIs(f) /\ Base(f, sp, jh) BY BaseNow
<1>6. PICK o : o = Places OBVIOUS
<1>7. OwnOk(f, o) /\ o.written = A BY <1>1, <1>5, <1>6 DEF Places
<1>8. A \in SUBSET LEBs BY <1>7 DEF OwnOk, Where, PlaceType
<1>9. \A l \in A : f[l] = <<"written", 0>> /\ f[l][1] = "written" BY <1>1, <1>5, <1>8 DEF OwnIs
<1>10. PICK s, j, r, e, c : /\ s = sp /\ j = jh /\ r = sp' /\ e = Twice' /\ c = Cardinality(GcLebs)' OBVIOUS
<1>11. e = Twice /\ c = Cardinality(GcLebs) /\ e \in Int /\ c \in Int
  BY <1>2, <1>10, GcLebsFacts DEF Twice, GcLebs
<1>12. SpOk(s, e, c) /\ \A l \in LEBs : s.lp[l] \in Props BY <1>5, <1>10, <1>11 DEF Base
<1>13. \A l \in LEBs : /\ Returned(s.lp[l]) \in Props
                       /\ Returned(s.lp[l]).free = s.lp[l].free /\ Returned(s.lp[l]).dirty = s.lp[l].dirty
                       /\ Returned(s.lp[l]).index = s.lp[l].index /\ Returned(s.lp[l]).taken = FALSE
                       /\ Term("size", Returned(s.lp[l])) = Term("size", s.lp[l]) BY <1>12, ReturnedIs
<1>14. PICK n : n = [l \in A |-> Returned(s.lp[l])] OBVIOUS
<1>15. Changed(r, s, e, c, A, n)
  <2>1. c + 0 * Cardinality(A) = c
    <3>1. Cardinality(A) \in Nat BY <1>8, SizeAssumption, FS_Subset, FS_CardinalityType
    <3> QED BY <1>11, <3>1
  <2> QED BY <1>2, <1>8, <1>10, <1>11, <1>12, <1>13, <1>14, <2>1, ReturnAll
<1>16. /\ SpOk(r, e, c) /\ Total("size", r.lp) = Total("size", s.lp)
       /\ \A l \in LEBs \ A : SameSpace(r.lp[l], s.lp[l])
       /\ \A l \in A : SameSpace(r.lp[l], Returned(s.lp[l])) BY <1>14, <1>15 DEF Changed
<1>17. PICK p, g : p = [o EXCEPT !.written = {}, !.taken = @ \ o.written] /\ g = Moved(f, o.written, Nobody)
  OBVIOUS
<1>18. OwnOk(g, p) BY <1>7, <1>17, WrittenReturns
<1>19. /\ \A l \in A : g[l] = Nobody
       /\ \A l \in LEBs \ A : g[l] = f[l] BY <1>7, <1>8, <1>17 DEF Moved
<1>20. NextPlaces(p)
  <2>1. Taken' = Taken \ A
    <3>1. \A l \in LEBs : r.lp[l].taken <=> l \notin A /\ s.lp[l].taken
      <4> SUFFICES ASSUME NEW l \in LEBs PROVE r.lp[l].taken <=> l \notin A /\ s.lp[l].taken OBVIOUS
      <4>1. CASE l \in A BY <1>13, <1>16, <4>1 DEF SameSpace
      <4>2. CASE l \notin A BY <1>16, <4>2 DEF SameSpace
      <4> QED BY <4>1, <4>2
    <3> QED BY <1>10, <3>1 DEF Taken
  <2> QED
    BY <1>2, <1>3, <1>4, <1>6, <1>7, <1>17, <2>1, PlacesNow DEF NextPlaces, OwnOk, Where, PlaceType, ThreadLebs,
       LebOfHead, HeadLebs, GcLebs
<1>21. \A l \in LEBs : LebOk(r.lp[l], Size(live[l]), old_idx[l], g[l], WbufOf(j, g[l]))
  <2> SUFFICES ASSUME NEW l \in LEBs
               PROVE  LebOk(r.lp[l], Size(live[l]), old_idx[l], g[l], WbufOf(j, g[l])) OBVIOUS
  <2>1. LebOk(s.lp[l], Size(live[l]), old_idx[l], f[l], WbufOf(j, f[l])) BY <1>5, <1>10 DEF Base
  <2>2. CASE l \notin A BY <1>16, <1>19, <2>1, <2>2, LebSame
  <2>3. CASE l \in A
    <3>1. PICK y, z, a, b : y = s.lp[l] /\ z = r.lp[l] /\ a = Size(live[l]) /\ b = old_idx[l] OBVIOUS
    <3> QED BY <1>9, <1>13, <1>16, <1>19, <2>1, <2>3, <3>1 DEF LebOk, Nobody, Spc, SameSpace, WbufOf
  <2> QED BY <2>2, <2>3
<1>22. \A l \in LEBs : f[l][1] # "written" => SameSpace(r.lp[l], s.lp[l]) BY <1>9, <1>16
<1>23. ManyStep(f, s, j, r, e, c, g, p)
  BY <1>2, <1>5, <1>10, <1>16, <1>18, <1>20, <1>21, <1>22, SizeNow DEF ManyStep, IInv, HeadInv
<1>24. PICK lp : lp = r.lp OBVIOUS
<1>25. ThreadInv' /\ GcInv' /\ DataInv'
  BY <1>2, <1>5, <1>10, <1>22, <1>24, DataNow, CmtSideKeeps DEF CmtSide, IInv, DataInv
<1>26. BudgetInv' BY <1>2, BudgetFrame DEF IInv
<1> QED BY <1>2, <1>3, <1>4, <1>23, <1>25, <1>26, ManyKeeps DEF IInv, CmtInv, Exclusive, EraseInv

\* The commit goes on with another step.
CmtGoes(c) ==
    /\ c \in {"gaps", "layout"} /\ cmt' = [cmt EXCEPT !.pc = c] /\ cmt.pc \in {"alloc", "gaps"}
    /\ UNCHANGED <<sp, live, jh, gc_lnum, idx_gc, buds, old_buds, bi, dirty_zn, calc_idx_sz, old_idx,
                   dirty_idx, gc, lp_mutex, th>>
\* Such a step keeps the invariant.
LEMMA CmtGoesKeeps ==
    ASSUME IInv, NEW c, CmtGoes(c)
    PROVE  IInv'
<1>1. /\ c \in {"gaps", "layout"} /\ cmt' = [cmt EXCEPT !.pc = c] /\ cmt.pc \in {"alloc", "gaps"}
      /\ sp' = sp /\ live' = live /\ jh' = jh /\ gc_lnum' = gc_lnum /\ idx_gc' = idx_gc /\ buds' = buds
      /\ old_buds' = old_buds /\ bi' = bi /\ dirty_zn' = dirty_zn /\ calc_idx_sz' = calc_idx_sz
      /\ old_idx' = old_idx /\ dirty_idx' = dirty_idx /\ gc' = gc /\ lp_mutex' = lp_mutex /\ th' = th
  BY DEF CmtGoes
<1>2. PICK q : q = cmt' OBVIOUS
<1>3. q \in CmtType /\ q.pc = c /\ q.ihead = cmt.ihead /\ q.ilebs = cmt.ilebs /\ q.gaps = cmt.gaps
      /\ q.full = cmt.full /\ q.left = cmt.left BY <1>1, <1>2 DEF CmtType, CmtPcs, IInv, CmtInv
<1>4. CmtInv' BY <1>1, <1>2, <1>3 DEF CmtInv, Reading, IInv, Exclusive
<1> QED BY <1>1, <1>2, <1>3, <1>4, CmtPlainKeeps DEF CmtPlain, IInv, EraseInv, ThreadInv, GcInv

\* An empty LEB for the index.
ForIndex(p) == [p EXCEPT !.free = LebSize, !.dirty = 0, !.taken = TRUE, !.index = TRUE]
\* It adds nothing to the size of the index.
LEMMA ForIndexIs ==
    ASSUME NEW p \in Props
    PROVE  /\ ForIndex(p) \in Props /\ ForIndex(p).cat = p.cat /\ ForIndex(p).free = LebSize
           /\ ForIndex(p).dirty = 0 /\ ForIndex(p).index /\ ForIndex(p).taken
           /\ Spc(ForIndex(p)) = LebSize /\ Term("size", ForIndex(p)) = 0
<1>1. LebSize \in Nat BY SizeAssumption
<1>2. /\ ForIndex(p) \in Props /\ ForIndex(p).cat = p.cat /\ ForIndex(p).free = LebSize
      /\ ForIndex(p).dirty = 0 /\ ForIndex(p).index /\ ForIndex(p).taken BY <1>1 DEF ForIndex, Props
<1>3. Spc(ForIndex(p)) = LebSize BY <1>1, <1>2 DEF Spc
<1>4. Term("size", ForIndex(p)) = 0 BY <1>1, <1>2, <1>3 DEF Term
<1> QED BY <1>2, <1>3, <1>4

\* ubifs_find_free_leb_for_idx() finds a LEB.
LEMMA AllocLebFound ==
    ASSUME IInv, cmt.pc = "alloc", NEW l \in LEBs, sp.lp[l].cat \in {"empty", "freeable"},
           sp' = ChangeLp(sp, l, ForIndex(sp.lp[l]), 0), cmt' = [cmt EXCEPT !.ilebs = @ \cup {l}],
           UNCHANGED <<live, jh, gc_lnum, idx_gc, buds, old_buds, bi, dirty_zn, calc_idx_sz, old_idx,
                   dirty_idx, gc, lp_mutex, th>>
    PROVE  IInv'
<1>1. /\ live' = live /\ jh' = jh /\ gc_lnum' = gc_lnum /\ idx_gc' = idx_gc /\ buds' = buds
      /\ old_buds' = old_buds /\ bi' = bi /\ dirty_zn' = dirty_zn /\ calc_idx_sz' = calc_idx_sz
      /\ old_idx' = old_idx /\ dirty_idx' = dirty_idx /\ gc' = gc /\ lp_mutex' = lp_mutex /\ th' = th OBVIOUS
<1>2. PICK f : OwnOk(f, Places) /\ OwnIs(f) /\ Base(f, sp, jh) BY BaseNow
<1>3. PICK o : o = Places OBVIOUS
<1>4. PICK s, j, y : s = sp /\ j = jh /\ y = sp.lp[l] OBVIOUS
<1>5. y \in Props /\ ~y.taken /\ (y.cat = "empty" => y.free = LebSize)
      /\ (y.cat = "freeable" => Spc(y) = LebSize /\ ~y.index) BY <1>2, <1>4, CategorySays DEF Base, SpOk
<1>6. f[l] = Nobody /\ f[l][1] = "nobody" /\ \A x : OwnOk(f, x) => l \notin x.taken
  BY <1>2, <1>4, <1>5, NobodyIs
<1>7. OwnOk(f, o) /\ l \notin o.taken BY <1>2, <1>3, <1>6
<1>8. PICK a, b : a = Size(live[l]) /\ b = old_idx[l] OBVIOUS
<1>9. LebOk(y, a, b, Nobody, 0) /\ a \in Nat BY <1>2, <1>4, <1>6, <1>8, DataNow, SizeType DEF WbufOf, Base
<1>10. ~y.index /\ Spc(y) = LebSize /\ a = 0 /\ b = 0
  <2>1. LebSize \in Nat /\ y.free \in Nat /\ y.dirty \in Nat /\ Spc(y) \in Nat
    BY <1>5, SizeAssumption DEF Props, Spc
  <2>2. Spc(y) >= LebSize BY <1>4, <1>5, <2>1 DEF Spc
  <2> QED BY <1>4, <1>5, <1>9, <2>1, <2>2 DEF LebOk, Nobody
<1>11. PICK n : n = ForIndex(y) OBVIOUS
<1>12. /\ n \in Props /\ n.cat = y.cat /\ n.free = LebSize /\ n.dirty = 0 /\ n.index /\ n.taken
       /\ Spc(n) = LebSize /\ Term("size", n) = 0 BY <1>5, <1>11, ForIndexIs
<1>13. SpaceStep(f, s, j, l, n, 0) BY <1>2, <1>4, <1>11, <1>12 DEF SpaceStep
<1>14. Taken' = Taken \cup {l} BY <1>12, <1>13, SpaceIs
<1>15. PICK q : q = cmt' OBVIOUS
<1>16. q \in CmtType /\ q.pc = "alloc" /\ q.ihead = cmt.ihead /\ q.ilebs = cmt.ilebs \cup {l} /\ q.gaps = cmt.gaps
       /\ q.full = cmt.full /\ q.left = cmt.left BY <1>15 DEF CmtType, CmtPcs, IInv, CmtInv
<1>17. PICK p, g : p = [o EXCEPT !.layout = @ \cup {l}, !.taken = @ \cup {l}] /\ g = [f EXCEPT ![l] = <<"layout", 0>>]
  OBVIOUS
<1>18. OwnOk(g, p) BY <1>7, <1>17, LayoutTakes
<1>19. NextPlaces(p)
  BY <1>1, <1>3, <1>7, <1>14, <1>15, <1>16, <1>17, PlacesNow DEF NextPlaces, OwnOk, Where, PlaceType,
     ThreadLebs, LebOfHead, HeadLebs, GcLebs
<1>20. TouchStep(f, s, j, l, n, 0, g, p)
  <2>1. g[l] = <<"layout", 0>> /\ \A k \in LEBs \ {l} : g[k] = f[k] BY <1>2, <1>17 DEF OwnIs
  <2>2. Twice' = Twice /\ GcLebs' = GcLebs BY <1>1 DEF Twice, GcLebs
  <2>3. Cardinality(GcLebs') = Cardinality(GcLebs) + 0 BY <2>2, GcLebsFacts
  <2>4. calc_idx_sz' = calc_idx_sz - Term("size", s.lp[l]) + Term("size", n)
    BY <1>1, <1>2, <1>4, <1>10, <1>12, SizeNow DEF Term
  <2>5. LebOk(n, Size(live'[l]), old_idx'[l], g[l], WbufOf(jh', g[l]))
    BY <1>1, <1>8, <1>10, <1>12, <2>1, SizeAssumption DEF WbufOf, LebOk
  <2> QED BY <1>1, <1>4, <1>13, <1>18, <1>19, <2>1, <2>2, <2>3, <2>4, <2>5 DEF TouchStep
<1>21. /\ OwnInv' /\ CountInv' /\ HeadInv'
       /\ \A k \in LEBs \ {l} : f[k][1] # "head" => SameSpace(sp'.lp[k], sp.lp[k])
  BY <1>1, <1>2, <1>4, <1>6, <1>20, TouchOffKeeps DEF TouchOff
<1>22. PICK lp : lp = sp'.lp OBVIOUS
<1>23. ThreadInv' /\ GcInv' /\ DataInv'
  BY <1>1, <1>2, <1>6, <1>21, <1>22, DataNow, CmtSideKeeps DEF CmtSide, IInv, DataInv
<1>24. CmtInv' BY <1>1, <1>15, <1>16 DEF CmtInv, Reading, IInv, Exclusive
<1>25. BudgetInv' BY <1>1, BudgetFrame DEF IInv
<1> QED BY <1>1, <1>15, <1>16, <1>21, <1>23, <1>24, <1>25 DEF IInv, EraseInv

\* alloc_idx_lebs() keeps the invariant.
LEMMA AllocLebKeeps ==
    ASSUME IInv, AllocLeb
    PROVE  IInv'
<1>1. /\ cmt.pc = "alloc"
      /\ UNCHANGED <<live, jh, gc_lnum, idx_gc, buds, old_buds, bi, dirty_zn, calc_idx_sz, old_idx,
                   dirty_idx, gc, lp_mutex, th>> BY DEF AllocLeb, cmother, data, index
<1>2. \/ cmt' = [cmt EXCEPT !.pc = "layout"] /\ sp' = sp
      \/ cmt' = [cmt EXCEPT !.pc = "gaps"] /\ sp' = sp
      \/ \E l \in LEBs : /\ sp.lp[l].cat \in {"empty", "freeable"}
                         /\ sp' = ChangeLp(sp, l, ForIndex(sp.lp[l]), 0)
                         /\ cmt' = [cmt EXCEPT !.ilebs = @ \cup {l}]
  <2> DEFINE ls == IF Cat(sp, "empty") # {} THEN Cat(sp, "empty") ELSE Cat(sp, "freeable")
  <2>1. ls = Cat(sp, "empty") \/ ls = Cat(sp, "freeable") OBVIOUS
  <2>2. \/ cmt' = [cmt EXCEPT !.pc = "layout"] /\ sp' = sp
        \/ cmt' = [cmt EXCEPT !.pc = "gaps"] /\ sp' = sp
        \/ \E l \in OneOfEach(ls) : 
             /\ sp' = ChangeLp(sp, l, [sp.lp[l] EXCEPT !.free = LebSize, !.dirty = 0,
                                                       !.taken = TRUE, !.index = TRUE], 0)
             /\ cmt' = [cmt EXCEPT !.ilebs = @ \cup {l}] BY DEF AllocLeb
  <2> HIDE DEF ls
  <2>3. CASE \E l \in OneOfEach(ls) : 
             /\ sp' = ChangeLp(sp, l, [sp.lp[l] EXCEPT !.free = LebSize, !.dirty = 0,
                                                       !.taken = TRUE, !.index = TRUE], 0)
             /\ cmt' = [cmt EXCEPT !.ilebs = @ \cup {l}]
    <3>1. PICK l \in OneOfEach(ls) : 
             /\ sp' = ChangeLp(sp, l, [sp.lp[l] EXCEPT !.free = LebSize, !.dirty = 0,
                                                       !.taken = TRUE, !.index = TRUE], 0)
             /\ cmt' = [cmt EXCEPT !.ilebs = @ \cup {l}] BY <2>3
    <3> QED BY <2>1, <3>1 DEF ForIndex, Cat, OneOfEach
  <2> QED BY <2>2, <2>3
<1>3. CASE cmt' = [cmt EXCEPT !.pc = "layout"] /\ sp' = sp BY <1>1, <1>3, CmtGoesKeeps DEF CmtGoes
<1>4. CASE cmt' = [cmt EXCEPT !.pc = "gaps"] /\ sp' = sp BY <1>1, <1>4, CmtGoesKeeps DEF CmtGoes
<1>5. CASE \E l \in LEBs : /\ sp.lp[l].cat \in {"empty", "freeable"}
                           /\ sp' = ChangeLp(sp, l, ForIndex(sp.lp[l]), 0)
                           /\ cmt' = [cmt EXCEPT !.ilebs = @ \cup {l}] BY <1>1, <1>5, AllocLebFound
<1> QED BY <1>2, <1>3, <1>4, <1>5

\* A LEB of the committed index is filled up.
GapStep(p, old, left, used, gaps, w, free, n) ==
    /\ p \in Props /\ old \in Nat /\ left \in Nat \ {0}
    /\ \/ p.index /\ Spc(p) <= LebSize /\ old <= p.dirty
       \/ ~p.index /\ p.free = LebSize /\ p.dirty = 0 /\ old <= LebSize
    /\ used = LebSize - Spc(p) /\ gaps = LebSize - used - old
    /\ w = IF gaps < left THEN gaps ELSE left
    /\ free = IF p.free < gaps - w THEN p.free ELSE gaps - w
    /\ n = [p EXCEPT !.free = free, !.dirty = LebSize - used - w - free, !.taken = TRUE, !.index = TRUE]
\* It is as much larger as is written to it.
LEMMA GapStepIs ==
    ASSUME NEW p, NEW old, NEW left, NEW used, NEW gaps, NEW w, NEW free, NEW n,
           GapStep(p, old, left, used, gaps, w, free, n)
    PROVE  /\ n \in Props /\ n.cat = p.cat /\ n.index /\ n.taken
           /\ w \in Nat /\ w <= left /\ Spc(n) <= LebSize /\ n.free # LebSize /\ old <= n.dirty
           /\ Term("size", n) = Term("size", p) + w /\ Term("size", p) \in Int
<1>1. /\ p \in Props /\ old \in Nat /\ left \in Nat \ {0}
      /\ \/ p.index /\ Spc(p) <= LebSize /\ old <= p.dirty
         \/ ~p.index /\ p.free = LebSize /\ p.dirty = 0 /\ old <= LebSize
      /\ used = LebSize - Spc(p) /\ gaps = LebSize - used - old
      /\ w = IF gaps < left THEN gaps ELSE left
      /\ free = IF p.free < gaps - w THEN p.free ELSE gaps - w
      /\ n = [p EXCEPT !.free = free, !.dirty = LebSize - used - w - free, !.taken = TRUE, !.index = TRUE]
  BY DEF GapStep
<1>2. LebSize \in Nat /\ LebSize > 0 /\ p.free \in Nat /\ p.dirty \in Nat /\ Spc(p) = p.free + p.dirty
  BY <1>1, SizeAssumption DEF Props, Spc
<1>3. gaps = Spc(p) - old /\ gaps \in Nat /\ gaps <= LebSize /\ Spc(p) <= LebSize /\ Spc(p) \in Nat
  BY <1>1, <1>2
<1>4. w \in Nat /\ w <= left /\ w <= gaps /\ (gaps > 0 => w > 0) BY <1>1, <1>3
<1>5. free \in Nat /\ free <= gaps - w BY <1>1, <1>2, <1>3, <1>4
<1>6. PICK d : d = LebSize - used - w - free OBVIOUS
<1>7. d = Spc(p) - w - free /\ d \in Nat /\ old <= d BY <1>1, <1>2, <1>3, <1>4, <1>5, <1>6
<1>8. n \in Props /\ n.cat = p.cat /\ n.index /\ n.taken /\ n.free = free /\ n.dirty = d
  BY <1>1, <1>5, <1>6, <1>7 DEF Props
<1>9. Term("size", p) = LebSize - Spc(p)
  <2>1. CASE p.index BY <2>1 DEF Term
  <2>2. CASE ~p.index BY <1>1, <1>2, <2>2 DEF Term
  <2> QED BY <2>1, <2>2
<1> QED BY <1>2, <1>3, <1>4, <1>5, <1>7, <1>8, <1>9 DEF Spc, Term

\* The LEBs that are filled up.
LEMMA GapLebsAre ==
    ASSUME IInv, NEW l \in GapLebs
    PROVE  l \in LEBs /\ ((sp.lp[l].index /\ ~sp.lp[l].taken) \/ l \in GcLebs)
<1> DEFINE IdxFree(ls) == {k \in ls : sp.lp[k].index /\ ~sp.lp[k].taken}
<1> QED BY GcLebsFacts DEF Spacious, GcLebs, GapLebs, IInv, DataInv

\* Nothing is left when no LEB is needed.
LEMMA NoneNeeded ==
    ASSUME IInv, NEW n, n = LebCnt(0), NEW m, m = Cardinality(cmt.ilebs)
    PROVE  ~(n > m)
<1>1. PICK f : OwnOk(f, Places) /\ OwnIs(f) /\ Base(f, sp, jh) BY BaseNow
<1>2. cmt.ihead \in LEBs /\ cmt.ilebs \in SUBSET LEBs BY DEF CmtType, IInv, CmtInv
<1>3. n = 0 BY <1>1, <1>2, SizeAssumption DEF LebCnt, Pos, Base, Props, DivUp
<1> QED BY <1>2, <1>3, SizeAssumption, FS_Subset, FS_CardinalityType

\* A LEB that is to be erased is not any more.
LEMMA NotErased ==
    ASSUME IInv, NEW l \in LEBs, idx_gc' = {g \in idx_gc : g.lnum # l}, old_idx' = old_idx,
           cmt'.pc \in {"gaps", "layout"}
    PROVE  /\ EraseInv' /\ GcLebs' = GcLebs \ {l}
           /\ l \in GcLebs => Cardinality(GcLebs') = Cardinality(GcLebs) + (-1)
           /\ l \notin GcLebs => Cardinality(GcLebs') = Cardinality(GcLebs) + 0
<1>1. GcLebs' = GcLebs \ {l} BY DEF GcLebs
<1>2. GcLebs \in SUBSET LEBs /\ IsFiniteSet(GcLebs) /\ Cardinality(GcLebs) \in Int BY GcLebsFacts
<1>3. PICK a, b : a = Cardinality(GcLebs) /\ b = Cardinality(GcLebs') OBVIOUS
<1>4. l \notin GcLebs => b = a BY <1>1, <1>3
<1>5. a \in Int BY <1>2, <1>3
<1>6. l \notin GcLebs => b = a + 0 BY <1>4, <1>5
<1> QED BY <1>1, <1>2, <1>3, <1>5, <1>6, FS_RemoveElement DEF EraseInv, IInv

\* A LEB of the committed index is filled up, and what is left to lay out.
GapFill(l, y, old, left, used, gaps, w, free, n, d, c) ==
    /\ cmt.pc = "gaps" /\ l \in LEBs /\ ((sp.lp[l].index /\ ~sp.lp[l].taken) \/ l \in GcLebs)
    /\ y = sp.lp[l] /\ old = old_idx[l] /\ left = cmt.left
    /\ used = LebSize - Spc(y) /\ gaps = LebSize - used - old
    /\ w = IF gaps < left THEN gaps ELSE left
    /\ free = IF y.free < gaps - w THEN y.free ELSE gaps - w
    /\ n = [y EXCEPT !.free = free, !.dirty = LebSize - used - w - free, !.taken = TRUE, !.index = TRUE]
    /\ d = Num(y.index) - 1
    /\ c \in {"gaps", "layout"} /\ (c = "gaps" => left - w # 0)
    /\ sp' = ChangeLp(sp, l, n, d)
    /\ calc_idx_sz' = calc_idx_sz + w /\ dirty_zn' = dirty_zn - w
    /\ dirty_idx' = dirty_idx \ {l}
    /\ idx_gc' = {g \in idx_gc : g.lnum # l}
    /\ cmt' = [cmt EXCEPT !.left = @ - w, !.gaps = @ \cup {l}, !.pc = c]
    /\ UNCHANGED <<live, jh, gc_lnum, buds, old_buds, bi, old_idx, gc, lp_mutex, th>>
\* layout_leb_in_gaps() keeps the invariant.
LEMMA GapFillKeeps ==
    ASSUME IInv, NEW l, NEW y, NEW old, NEW left, NEW used, NEW gaps, NEW w, NEW free, NEW n, NEW d, NEW c,
           GapFill(l, y, old, left, used, gaps, w, free, n, d, c)
    PROVE  IInv'
<1>1. /\ cmt.pc = "gaps" /\ l \in LEBs /\ ((sp.lp[l].index /\ ~sp.lp[l].taken) \/ l \in GcLebs)
      /\ y = sp.lp[l] /\ old = old_idx[l] /\ left = cmt.left
      /\ d = Num(y.index) - 1
      /\ c \in {"gaps", "layout"} /\ (c = "gaps" => left - w # 0)
      /\ sp' = ChangeLp(sp, l, n, d)
      /\ calc_idx_sz' = calc_idx_sz + w /\ dirty_zn' = dirty_zn - w
      /\ dirty_idx' = dirty_idx \ {l}
      /\ idx_gc' = {g \in idx_gc : g.lnum # l}
      /\ cmt' = [cmt EXCEPT !.left = @ - w, !.gaps = @ \cup {l}, !.pc = c]
      /\ live' = live /\ jh' = jh /\ gc_lnum' = gc_lnum /\ buds' = buds /\ old_buds' = old_buds
      /\ bi' = bi /\ old_idx' = old_idx /\ gc' = gc /\ lp_mutex' = lp_mutex /\ th' = th BY DEF GapFill
<1>2. PICK f : OwnOk(f, Places) /\ OwnIs(f) /\ Base(f, sp, jh) BY BaseNow
<1>3. PICK o : o = Places OBVIOUS
<1>4. PICK s, j, a : s = sp /\ j = jh /\ a = Size(live[l]) OBVIOUS
<1>5. cmt \in CmtType BY DEF IInv, CmtInv
<1>6. left \in Nat \ {0} /\ dirty_zn = left BY <1>1, <1>5 DEF IInv, CmtInv, CmtType
<1>7. y \in Props /\ LebOk(y, a, old, f[l], WbufOf(jh, f[l])) BY <1>1, <1>2, <1>4 DEF Base
<1>8. \/ y.index /\ ~y.taken /\ f[l] = Nobody /\ l \notin o.taken /\ l \notin GcLebs
      \/ l \in GcLebs /\ f[l] = <<"erase", 0>> /\ y.taken /\ l \in o.erase
  <2>1. CASE l \in GcLebs BY <1>1, <1>2, <1>3, <2>1, PlacesNow DEF OwnIs, Nobody
  <2>2. CASE l \notin GcLebs BY <1>1, <1>2, <1>3, <2>2, NobodyIs
  <2> QED BY <2>1, <2>2
<1>9. f[l][1] \in {"nobody", "erase"} /\ WbufOf(jh, f[l]) = 0 BY <1>8 DEF Nobody, WbufOf
<1>10. a \in Nat /\ old \in Nat BY <1>1, <1>4, DataNow, SizeType
<1>11. /\ \/ y.index /\ Spc(y) <= LebSize /\ old <= y.dirty
          \/ ~y.index /\ y.free = LebSize /\ y.dirty = 0 /\ old <= LebSize
       /\ a = 0
       /\ y.index => l \notin GcLebs
       /\ ~y.index => l \in GcLebs
  <2>1. CASE y.index /\ ~y.taken /\ f[l] = Nobody /\ l \notin o.taken /\ l \notin GcLebs BY <1>7, <2>1 DEF LebOk
  <2>2. CASE l \in GcLebs /\ f[l] = <<"erase", 0>> /\ y.taken /\ l \in o.erase
    BY <1>7, <1>9, <2>2, SizeAssumption DEF Spc, LebOk
  <2> QED BY <1>8, <2>1, <2>2
<1>12. GapStep(y, old, left, used, gaps, w, free, n) BY <1>6, <1>7, <1>10, <1>11 DEF GapFill, GapStep
<1>13. /\ n \in Props /\ n.cat = y.cat /\ n.index /\ n.taken
       /\ w \in Nat /\ w <= left /\ Spc(n) <= LebSize /\ n.free # LebSize /\ old <= n.dirty
       /\ Term("size", n) = Term("size", y) + w /\ Term("size", y) \in Int BY <1>12, GapStepIs
<1>14. d \in Int /\ (y.index => d = 0) /\ (~y.index => d = -1)
  <2>1. PICK b : b = Num(y.index) OBVIOUS
  <2> QED BY <1>1, <1>7, <2>1 DEF Props, Num
<1>15. SpaceStep(f, s, j, l, n, d) BY <1>1, <1>2, <1>4, <1>13, <1>14 DEF SpaceStep
<1>16. Taken' = Taken \cup {l} BY <1>13, <1>15, SpaceIs
<1>17. PICK q : q = cmt' OBVIOUS
<1>18. q \in CmtType /\ q.pc = c /\ q.ihead = cmt.ihead /\ q.ilebs = cmt.ilebs /\ q.gaps = cmt.gaps \cup {l}
       /\ q.full = cmt.full /\ q.left = left - w
  <2>1. left - w \in Nat BY <1>6, <1>13
  <2> QED BY <1>1, <1>5, <1>17, <2>1 DEF CmtType, CmtPcs
<1>19. /\ EraseInv' /\ GcLebs' = GcLebs \ {l} /\ Cardinality(GcLebs') = Cardinality(GcLebs) + d
  <2>1. /\ EraseInv' /\ GcLebs' = GcLebs \ {l}
        /\ l \in GcLebs => Cardinality(GcLebs') = Cardinality(GcLebs) + (-1)
        /\ l \notin GcLebs => Cardinality(GcLebs') = Cardinality(GcLebs) + 0 BY <1>1, <1>17, <1>18, NotErased
  <2>2. CASE y.index BY <1>11, <1>14, <2>1, <2>2
  <2>3. CASE ~y.index BY <1>11, <1>14, <2>1, <2>3
  <2> QED BY <1>7, <2>2, <2>3
<1>20. PICK g : g = [f EXCEPT ![l] = <<"written", 0>>] OBVIOUS
<1>21. \E p : OwnOk(g, p) /\ NextPlaces(p)
  <2>1. OwnOk(f, o) BY <1>2, <1>3
  <2>2. ThreadLebs' = ThreadLebs /\ LebOfHead' = LebOfHead /\ HeadLebs' = HeadLebs
    BY <1>1 DEF ThreadLebs, LebOfHead, HeadLebs
  <2>3. CASE y.index /\ ~y.taken /\ f[l] = Nobody /\ l \notin o.taken /\ l \notin GcLebs
    <3>1. PICK p : p = [o EXCEPT !.written = @ \cup {l}, !.taken = @ \cup {l}] OBVIOUS
    <3>2. /\ p.head = o.head /\ p.thread = o.thread /\ p.reserved = o.reserved
          /\ p.ihead = o.ihead /\ p.garbage = o.garbage /\ p.erase = o.erase /\ p.bud = o.bud /\ p.old = o.old
          /\ p.layout = o.layout /\ p.written = o.written \cup {l} /\ p.taken = o.taken \cup {l}
      BY <2>1, <3>1 DEF OwnOk, Where, PlaceType
    <3>3. GcLebs' = GcLebs BY <1>19, <2>3
    <3>4. NextPlaces(p) BY <1>1, <1>3, <1>16, <1>17, <1>18, <2>2, <3>2, <3>3, PlacesNow DEF NextPlaces
    <3> QED BY <1>1, <1>20, <2>1, <2>3, <3>1, <3>4, WrittenTakes
  <2>4. CASE l \in GcLebs /\ f[l] = <<"erase", 0>> /\ y.taken /\ l \in o.erase
    <3>1. PICK p : p = [o EXCEPT !.written = @ \cup {l}, !.erase = @ \ {l}] OBVIOUS
    <3>2. /\ p.head = o.head /\ p.thread = o.thread /\ p.reserved = o.reserved
          /\ p.ihead = o.ihead /\ p.garbage = o.garbage /\ p.erase = o.erase \ {l} /\ p.bud = o.bud /\ p.old = o.old
          /\ p.layout = o.layout /\ p.written = o.written \cup {l} /\ p.taken = o.taken
      BY <2>1, <3>1 DEF OwnOk, Where, PlaceType
    <3>3. Taken' = Taken BY <1>1, <1>16, <2>4 DEF Taken
    <3>4. NextPlaces(p) BY <1>1, <1>3, <1>17, <1>18, <1>19, <2>2, <3>2, <3>3, PlacesNow DEF NextPlaces
    <3> QED BY <1>1, <1>20, <2>1, <2>4, <3>1, <3>4, EraseToWritten
  <2> QED BY <1>8, <2>3, <2>4
<1>22. PICK p : OwnOk(g, p) /\ NextPlaces(p) BY <1>21
<1>23. TouchStep(f, s, j, l, n, d, g, p)
  <2>1. g[l] = <<"written", 0>> /\ \A k \in LEBs \ {l} : g[k] = f[k] BY <1>1, <1>2, <1>20 DEF OwnIs
  <2>2. calc_idx_sz' = calc_idx_sz - Term("size", s.lp[l]) + Term("size", n)
    <3>1. PICK t, u : t = Term("size", y) /\ u = Term("size", n) OBVIOUS
    <3> QED BY <1>1, <1>2, <1>4, <1>13, <3>1, SizeNow
  <2>3. LebOk(n, Size(live'[l]), old_idx'[l], g[l], WbufOf(jh', g[l]))
    BY <1>1, <1>4, <1>11, <1>13, <2>1 DEF WbufOf, LebOk
  <2> QED BY <1>1, <1>4, <1>15, <1>19, <1>22, <2>1, <2>2, <2>3 DEF TouchStep, Twice
<1>24. /\ OwnInv' /\ CountInv' /\ HeadInv'
       /\ \A k \in LEBs \ {l} : f[k][1] # "head" => SameSpace(sp'.lp[k], sp.lp[k])
  BY <1>1, <1>2, <1>4, <1>9, <1>23, TouchOffKeeps DEF TouchOff
<1>25. PICK lp : lp = sp'.lp OBVIOUS
<1>26. ThreadInv' /\ GcInv' /\ DataInv'
  <2>1. CmtSide(f, lp) BY <1>1, <1>2, <1>6, <1>9, <1>13, <1>24, <1>25, DataNow DEF CmtSide, IInv, DataInv
  <2> QED BY <2>1, CmtSideKeeps
<1>27. CmtInv' BY <1>1, <1>6, <1>13, <1>17, <1>18 DEF CmtInv, Reading, IInv, Exclusive
<1>28. BudgetInv' BY <1>1, BudgetFrame DEF IInv
<1> QED BY <1>19, <1>24, <1>26, <1>27, <1>28 DEF IInv

\* The in-the-gaps commit keeps the invariant.
LEMMA LayoutInGapsKeeps ==
    ASSUME IInv, LayoutInGaps
    PROVE  IInv'
<1>1. /\ cmt.pc = "gaps"
      /\ UNCHANGED <<live, jh, gc_lnum, buds, old_buds, bi, old_idx, gc, lp_mutex, th>>
  BY DEF LayoutInGaps, cmother, data
<1>2. CASE GapLebs = {} BY <1>1, <1>2, CmtGoesKeeps DEF CmtGoes, LayoutInGaps
<1>3. CASE GapLebs # {}
  <2>1. PICK l \in OneOfEach(GapLebs) : InGaps(l) BY <1>3 DEF LayoutInGaps
  <2>2. l \in LEBs /\ ((sp.lp[l].index /\ ~sp.lp[l].taken) \/ l \in GcLebs) BY GapLebsAre DEF OneOfEach
  <2>3. PICK y, old, left : y = sp.lp[l] /\ old = old_idx[l] /\ left = cmt.left OBVIOUS
  <2>4. PICK used : used = LebSize - Spc(y) OBVIOUS
  <2>5. PICK gaps : gaps = LebSize - used - old OBVIOUS
  <2>6. PICK w : w = IF gaps < left THEN gaps ELSE left OBVIOUS
  <2>7. PICK free : free = IF y.free < gaps - w THEN y.free ELSE gaps - w OBVIOUS
  <2>8. PICK n : n = [y EXCEPT !.free = free, !.dirty = LebSize - used - w - free, !.taken = TRUE, !.index = TRUE]
    OBVIOUS
  <2>9. PICK d : d = Num(y.index) - 1 OBVIOUS
  <2>10. PICK m, i : m = LebCnt(left - w) /\ i = Cardinality(cmt.ilebs) OBVIOUS
  <2>11. PICK c : c = IF m > i THEN "gaps" ELSE "layout" OBVIOUS
  <2>12. c = "gaps" => left - w # 0
    <3> SUFFICES ASSUME c = "gaps", left - w = 0 PROVE FALSE OBVIOUS
    <3> QED BY <2>10, <2>11, NoneNeeded
  <2>13. /\ sp' = ChangeLp(sp, l, n, d)
         /\ calc_idx_sz' = calc_idx_sz + w /\ dirty_zn' = dirty_zn - w
         /\ dirty_idx' = dirty_idx \ {l}
         /\ idx_gc' = {g \in idx_gc : g.lnum # l}
         /\ cmt' = [cmt EXCEPT !.left = @ - w, !.gaps = @ \cup {l}, !.pc = c]
    BY <2>1, <2>3, <2>4, <2>5, <2>6, <2>7, <2>8, <2>9, <2>10, <2>11 DEF InGaps
  <2>14. c \in {"gaps", "layout"} BY <2>11
  <2>15. GapFill(l, y, old, left, used, gaps, w, free, n, d, c)
    BY <1>1, <2>2, <2>3, <2>4, <2>5, <2>6, <2>7, <2>8, <2>9, <2>12, <2>13, <2>14 DEF GapFill
  <2> QED BY <2>15, GapFillKeeps
<1> QED BY <1>2, <1>3

\* Of LEB numbers one is the least.
LEMMA MinIs ==
    ASSUME NEW S \in SUBSET LEBs, S # {}
    PROVE  Min(S) \in S
<1>1. PICK v : v = [x \in S |-> x] OBVIOUS
<1>2. \A x \in S : v[x] = x BY <1>1
<1>3. \A x \in S : v[x] \in Nat BY <1>2, SizeAssumption
<1> QED BY <1>2, <1>3, LeastValue DEF Min

\* The properties of the LEB the head of the index is on, when w nodes are in it.
FillStep(p, left, w, n) ==
    /\ p \in Props /\ p.index /\ left \in Nat
    /\ w = IF left < p.free THEN left ELSE p.free
    /\ n = [p EXCEPT !.free = p.free - w, !.dirty = p.dirty]
\* It is as much larger as is written to it.
LEMMA FillIs ==
    ASSUME NEW p, NEW left, NEW w, NEW n, FillStep(p, left, w, n), Spc(p) <= LebSize
    PROVE  /\ n \in Props /\ n.cat = p.cat /\ n.index /\ n.taken = p.taken /\ n.dirty = p.dirty
           /\ w \in Nat /\ w <= left /\ Spc(n) <= LebSize /\ (w # left => n.free # LebSize)
           /\ Term("size", n) = Term("size", p) + w /\ Term("size", p) \in Int
<1>1. /\ p \in Props /\ p.index /\ left \in Nat
      /\ w = IF left < p.free THEN left ELSE p.free
      /\ n = [p EXCEPT !.free = p.free - w, !.dirty = p.dirty] BY DEF FillStep
<1>2. LebSize \in Nat /\ LebSize > 0 /\ p.free \in Nat /\ p.dirty \in Nat /\ Spc(p) = p.free + p.dirty
  BY <1>1, SizeAssumption DEF Props, Spc
<1>3. w \in Nat /\ w <= left /\ w <= p.free /\ (w # left => w = p.free) BY <1>1, <1>2
<1>4. PICK m : m = p.free - w OBVIOUS
<1>5. m \in Nat /\ (w # left => m = 0) BY <1>2, <1>3, <1>4
<1>6. n \in Props /\ n.cat = p.cat /\ n.index /\ n.taken = p.taken /\ n.dirty = p.dirty /\ n.free = m
  BY <1>1, <1>4, <1>5 DEF Props
<1> QED BY <1>1, <1>2, <1>3, <1>4, <1>5, <1>6 DEF Spc, Term

\* The head of the index takes what fits; k is what becomes of the LEBs found.
LayoutStep(h, y, left, w, n) ==
    /\ cmt.pc = "layout" /\ h = cmt.ihead /\ y = sp.lp[h] /\ left = cmt.left
    /\ FillStep(y, left, w, n)
    /\ sp' = ChangeLp(sp, h, n, 0)
    /\ calc_idx_sz' = calc_idx_sz + w /\ dirty_zn' = dirty_zn - w
    /\ \/ w = left /\ cmt' = [cmt EXCEPT !.left = 0, !.pc = "finish"]
       \/ w # left /\ cmt' = [cmt EXCEPT !.pc = "broken"]
       \/ \E x \in cmt.ilebs :
             /\ w # left
             /\ cmt' = [cmt EXCEPT !.left = @ - w, !.ilebs = @ \ {x}, !.ihead = x, !.full = @ \cup {h}]
    /\ UNCHANGED <<live, jh, gc_lnum, idx_gc, buds, old_buds, bi, old_idx, dirty_idx, gc, lp_mutex, th>>
\* Where the LEBs are then.
LayoutGoes(f, h, y, left, w, n, g, p) ==
    /\ OwnOk(g, p) /\ NextPlaces(p)
    /\ \/ g[h] = <<"ihead", 0>>
       \/ g[h] = <<"written", 0>> /\ w # left
    /\ \A k \in LEBs \ {h} : g[k] = f[k] \/ (f[k] = <<"layout", 0>> /\ g[k] = <<"ihead", 0>>)
    /\ cmt' \in CmtType /\ cmt'.pc \in {"finish", "broken", "layout"}
    /\ cmt'.pc = "layout" => cmt'.left = left - w
\* There are such places.
LEMMA LayoutGoesOn ==
    ASSUME IInv, NEW h, NEW y, NEW left, NEW w, NEW n, LayoutStep(h, y, left, w, n), w \in Nat, w <= left,
           NEW f, OwnOk(f, Places), OwnIs(f), Taken' = Taken
    PROVE  \E g, p : LayoutGoes(f, h, y, left, w, n, g, p)
<1>1. /\ cmt.pc = "layout" /\ h = cmt.ihead /\ y = sp.lp[h] /\ left = cmt.left
      /\ \/ w = left /\ cmt' = [cmt EXCEPT !.left = 0, !.pc = "finish"]
         \/ w # left /\ cmt' = [cmt EXCEPT !.pc = "broken"]
         \/ \E x \in cmt.ilebs :
               /\ w # left
               /\ cmt' = [cmt EXCEPT !.left = @ - w, !.ilebs = @ \ {x}, !.ihead = x, !.full = @ \cup {h}]
  BY DEF LayoutStep
<1>0. /\ live' = live /\ jh' = jh /\ gc_lnum' = gc_lnum /\ idx_gc' = idx_gc /\ buds' = buds
      /\ old_buds' = old_buds /\ bi' = bi /\ old_idx' = old_idx /\ dirty_idx' = dirty_idx
      /\ gc' = gc /\ lp_mutex' = lp_mutex /\ th' = th BY DEF LayoutStep
<1>2. PICK o : o = Places OBVIOUS
<1>3. OwnOk(f, o) BY <1>2
<1>4. cmt \in CmtType /\ h \in LEBs /\ cmt.ilebs \in SUBSET LEBs /\ left \in Nat
  BY <1>1 DEF IInv, CmtInv, CmtType
<1>5. PICK q : q = cmt' OBVIOUS
<1>6. f[h] = <<"ihead", 0>> BY <1>1, <1>4 DEF OwnIs
<1>7. ThreadLebs' = ThreadLebs /\ LebOfHead' = LebOfHead /\ HeadLebs' = HeadLebs /\ GcLebs' = GcLebs
  BY <1>0 DEF ThreadLebs, LebOfHead, HeadLebs, GcLebs
<1>8. CASE \/ w = left /\ cmt' = [cmt EXCEPT !.left = 0, !.pc = "finish"]
           \/ w # left /\ cmt' = [cmt EXCEPT !.pc = "broken"]
  <2>1. q \in CmtType /\ q.pc \in {"finish", "broken"} /\ q.ihead = cmt.ihead /\ q.ilebs = cmt.ilebs
        /\ q.gaps = cmt.gaps /\ q.full = cmt.full
    <3>1. CASE cmt' = [cmt EXCEPT !.left = 0, !.pc = "finish"] BY <1>4, <1>5, <3>1 DEF CmtType, CmtPcs
    <3>2. CASE cmt' = [cmt EXCEPT !.pc = "broken"] BY <1>4, <1>5, <3>2 DEF CmtType, CmtPcs
    <3> QED BY <1>8, <3>1, <3>2
  <2> QED BY <1>0, <1>2, <1>3, <1>5, <1>6, <1>7, <2>1, PlacesNow DEF LayoutGoes, NextPlaces
<1>9. CASE \E x \in cmt.ilebs :
               /\ w # left
               /\ cmt' = [cmt EXCEPT !.left = @ - w, !.ilebs = @ \ {x}, !.ihead = x, !.full = @ \cup {h}]
  <2>1. PICK x \in cmt.ilebs :
               /\ w # left
               /\ cmt' = [cmt EXCEPT !.left = @ - w, !.ilebs = @ \ {x}, !.ihead = x, !.full = @ \cup {h}]
    BY <1>9
  <2>2. x \in LEBs /\ x \in o.layout BY <1>2, <1>4, <2>1, PlacesNow
  <2>3. f[x] = <<"layout", 0>> BY <2>1, <2>2 DEF OwnIs
  <2>4. o.ihead = h BY <1>1, <1>2, PlacesNow
  <2>5. PICK g, p : /\ g = ToIndexHead(f, x, o.ihead)
                    /\ p = [o EXCEPT !.layout = @ \ {x}, !.ihead = x, !.written = @ \cup {o.ihead}] OBVIOUS
  <2>6. OwnOk(g, p) BY <1>3, <2>2, <2>5, LayoutToHead
  <2>7. g[x] = <<"ihead", 0>> /\ g[h] = <<"written", 0>> /\ \A k \in LEBs \ {x, h} : g[k] = f[k]
    BY <1>4, <1>6, <2>2, <2>3, <2>4, <2>5 DEF ToIndexHead
  <2>8. left - w \in Nat BY <1>4
  <2>9. q \in CmtType /\ q.pc = "layout" /\ q.ihead = x /\ q.ilebs = cmt.ilebs \ {x} /\ q.left = left - w
        /\ q.gaps = cmt.gaps /\ q.full = cmt.full \cup {h}
    BY <1>1, <1>4, <1>5, <2>1, <2>2, <2>8 DEF CmtType, CmtPcs
  <2>10. NextPlaces(p)
    BY <1>0, <1>2, <1>3, <1>5, <1>7, <2>4, <2>5, <2>9, PlacesNow DEF NextPlaces, OwnOk, Where, PlaceType
  <2> QED BY <1>5, <2>1, <2>3, <2>6, <2>7, <2>9, <2>10 DEF LayoutGoes
<1> QED BY <1>1, <1>8, <1>9

\* Such a step keeps the invariant.
LEMMA LayoutStepKeeps ==
    ASSUME IInv, NEW h, NEW y, NEW left, NEW w, NEW n, LayoutStep(h, y, left, w, n)
    PROVE  IInv'
<1>1. /\ cmt.pc = "layout" /\ h = cmt.ihead /\ y = sp.lp[h] /\ left = cmt.left
      /\ FillStep(y, left, w, n)
      /\ sp' = ChangeLp(sp, h, n, 0)
      /\ calc_idx_sz' = calc_idx_sz + w /\ dirty_zn' = dirty_zn - w BY DEF LayoutStep
<1>2. /\ live' = live /\ jh' = jh /\ gc_lnum' = gc_lnum /\ idx_gc' = idx_gc /\ buds' = buds
      /\ old_buds' = old_buds /\ bi' = bi /\ old_idx' = old_idx /\ dirty_idx' = dirty_idx
      /\ gc' = gc /\ lp_mutex' = lp_mutex /\ th' = th BY DEF LayoutStep
<1>3. PICK f : OwnOk(f, Places) /\ OwnIs(f) /\ Base(f, sp, jh) BY BaseNow
<1>4. PICK s, j, r, e, c : s = sp /\ j = jh /\ r = sp' /\ e = Twice' /\ c = Cardinality(GcLebs)' OBVIOUS
<1>5. cmt \in CmtType /\ h \in LEBs /\ left \in Nat /\ dirty_zn = left BY <1>1 DEF IInv, CmtInv, CmtType
<1>6. f[h] = <<"ihead", 0>> /\ f[h][1] = "ihead" /\ WbufOf(jh, f[h]) = 0 BY <1>1, <1>3, <1>5 DEF WbufOf, OwnIs
<1>7. PICK a, b : a = Size(live[h]) /\ b = old_idx[h] OBVIOUS
<1>8. y.index /\ Spc(y) <= LebSize /\ a = 0 /\ b <= y.dirty BY <1>1, <1>3, <1>5, <1>6, <1>7 DEF LebOk, Base
<1>9. /\ n \in Props /\ n.cat = y.cat /\ n.index /\ n.taken = y.taken /\ n.dirty = y.dirty
      /\ w \in Nat /\ w <= left /\ Spc(n) <= LebSize /\ (w # left => n.free # LebSize)
      /\ Term("size", n) = Term("size", y) + w /\ Term("size", y) \in Int BY <1>1, <1>8, FillIs
<1>10. y.taken /\ n.taken BY <1>1, <1>3, <1>5, <1>6, <1>9 DEF OwnIs, Nobody
<1>11. /\ \A k \in LEBs \ {h} : SameSpace(sp'.lp[k], s.lp[k])
       /\ SameSpace(sp'.lp[h], n)
       /\ SpOk(sp', Twice, Cardinality(GcLebs) + 0)
       /\ Total("size", sp'.lp) = calc_idx_sz - Term("size", s.lp[h]) + Term("size", n)
       /\ Taken' = IF n.taken THEN Taken \cup {h} ELSE Taken \ {h}
  BY <1>1, <1>3, <1>4, <1>5, <1>9, SpaceIs DEF SpaceStep
<1>12. Taken' = Taken BY <1>1, <1>5, <1>10, <1>11 DEF Taken
<1>13. PICK g, p : LayoutGoes(f, h, y, left, w, n, g, p) BY <1>3, <1>9, <1>12, LayoutGoesOn
<1>14. /\ OwnOk(g, p) /\ NextPlaces(p)
       /\ \/ g[h] = <<"ihead", 0>>
          \/ g[h] = <<"written", 0>> /\ w # left
       /\ \A k \in LEBs \ {h} : g[k] = f[k] \/ (f[k] = <<"layout", 0>> /\ g[k] = <<"ihead", 0>>)
       /\ cmt' \in CmtType /\ cmt'.pc \in {"finish", "broken", "layout"}
       /\ cmt'.pc = "layout" => cmt'.left = left - w BY <1>13 DEF LayoutGoes
<1>15. SpOk(r, e, c) /\ e = Twice'
  <2>1. PICK i : i = Cardinality(GcLebs) OBVIOUS
  <2> QED BY <1>2, <1>4, <1>11, <2>1, GcLebsFacts DEF Twice, GcLebs
<1>16. calc_idx_sz' = Total("size", r.lp)
  <2>1. PICK t, u : t = Term("size", y) /\ u = Term("size", n) OBVIOUS
  <2> QED BY <1>1, <1>3, <1>4, <1>9, <1>11, <2>1, SizeNow
<1>17. \A l \in LEBs : LebOk(r.lp[l], Size(live'[l]), old_idx'[l], g[l], WbufOf(j, g[l]))
  <2> SUFFICES ASSUME NEW l \in LEBs
               PROVE  LebOk(r.lp[l], Size(live[l]), old_idx[l], g[l], WbufOf(j, g[l])) BY <1>2
  <2>1. CASE l = h
    <3>1. WbufOf(j, g[h]) = 0 BY <1>14 DEF WbufOf
    <3>2. LebOk(n, 0, b, g[h], 0)
      <4>1. CASE g[h] = <<"ihead", 0>> BY <1>8, <1>9, <4>1 DEF LebOk
      <4>2. CASE g[h] = <<"written", 0>> /\ w # left BY <1>8, <1>9, <4>2 DEF LebOk
      <4> QED BY <1>14, <4>1, <4>2
    <3>3. LebOk(r.lp[h], 0, b, g[h], 0) BY <1>4, <1>11, <3>2, LebSame
    <3> QED BY <1>7, <1>8, <2>1, <3>1, <3>3
  <2>2. CASE l # h
    <3>1. LebOk(r.lp[l], Size(live[l]), old_idx[l], f[l], WbufOf(j, f[l]))
      BY <1>3, <1>4, <1>11, <2>2, LebSame DEF Base
    <3>2. CASE g[l] = f[l] BY <3>1, <3>2
    <3>3. CASE f[l] = <<"layout", 0>> /\ g[l] = <<"ihead", 0>>
      <4>1. PICK z, m, d : z = r.lp[l] /\ m = Size(live[l]) /\ d = old_idx[l] OBVIOUS
      <4> QED BY <3>1, <3>3, <4>1 DEF LebOk, WbufOf
    <3> QED BY <1>14, <2>2, <3>2, <3>3
  <2> QED BY <2>1, <2>2
<1>18. \A l \in LEBs : f[l][1] # "ihead" => SameSpace(r.lp[l], s.lp[l]) BY <1>4, <1>6, <1>11
<1>19. ManyStep(f, s, j, r, e, c, g, p)
  BY <1>2, <1>3, <1>4, <1>14, <1>15, <1>16, <1>17, <1>18 DEF ManyStep, IInv, HeadInv
<1>20. PICK lp : lp = sp'.lp OBVIOUS
<1>21. ThreadInv' /\ GcInv' /\ DataInv'
  <2>1. CmtSide(f, lp) BY <1>1, <1>2, <1>3, <1>4, <1>5, <1>9, <1>18, <1>20, DataNow DEF CmtSide, IInv, DataInv
  <2> QED BY <2>1, CmtSideKeeps
<1>22. CmtInv' BY <1>1, <1>2, <1>5, <1>14 DEF CmtInv, Reading, IInv, Exclusive
<1>23. BudgetInv' BY <1>2, BudgetFrame DEF IInv
<1> QED BY <1>2, <1>14, <1>19, <1>21, <1>22, <1>23, ManyKeeps DEF IInv, EraseInv

\* layout_in_empty_space() keeps the invariant.
LEMMA LayoutLebKeeps ==
    ASSUME IInv, LayoutLeb
    PROVE  IInv'
<1>1. PICK h, y, left : h = cmt.ihead /\ y = sp.lp[h] /\ left = cmt.left OBVIOUS
<1>2. PICK w : w = IF left < y.free THEN left ELSE y.free OBVIOUS
<1>3. PICK n : n = [y EXCEPT !.free = y.free - w, !.dirty = y.dirty] OBVIOUS
<1>4. PICK x : x = Min(cmt.ilebs) OBVIOUS
<1>5. /\ cmt.pc = "layout" /\ sp' = ChangeLp(sp, h, n, 0)
      /\ calc_idx_sz' = calc_idx_sz + w /\ dirty_zn' = dirty_zn - w
      /\ cmt' = IF w = cmt.left THEN [cmt EXCEPT !.left = 0, !.pc = "finish"]
                ELSE IF cmt.ilebs = {} THEN [cmt EXCEPT !.pc = "broken"]
                ELSE [cmt EXCEPT !.left = @ - w, !.ilebs = @ \ {x}, !.ihead = x, !.full = @ \cup {h}]
  BY <1>1, <1>2, <1>3, <1>4 DEF LayoutLeb, SetSpace
<1>6. cmt \in CmtType /\ h \in LEBs /\ left \in Nat BY <1>1 DEF IInv, CmtInv, CmtType
<1>7. FillStep(y, left, w, n)
  <2>1. PICK f : OwnIs(f) /\ Base(f, sp, jh) BY BaseNow
  <2> QED BY <1>1, <1>2, <1>3, <1>6, <2>1 DEF FillStep, LebOk, OwnIs, Base
<1>8. \/ w = left /\ cmt' = [cmt EXCEPT !.left = 0, !.pc = "finish"]
      \/ w # left /\ cmt' = [cmt EXCEPT !.pc = "broken"]
      \/ \E k \in cmt.ilebs :
            /\ w # left
            /\ cmt' = [cmt EXCEPT !.left = @ - w, !.ilebs = @ \ {k}, !.ihead = k, !.full = @ \cup {h}]
  <2>1. CASE w = left BY <1>1, <1>5, <2>1
  <2>2. CASE w # left /\ cmt.ilebs = {} BY <1>1, <1>5, <2>2
  <2>3. CASE w # left /\ cmt.ilebs # {} BY <1>1, <1>4, <1>5, <1>6, <2>3, MinIs DEF CmtType
  <2> QED BY <2>1, <2>2, <2>3
<1>9. LayoutStep(h, y, left, w, n) BY <1>1, <1>5, <1>7, <1>8 DEF LayoutStep, LayoutLeb, cmother, data
<1> QED BY <1>9, LayoutStepKeeps

\* Nothing else of the LEB properties is read.
NotDirty(s, e, g, z) == SpOk(s, e, g) /\ z = [s EXCEPT !.dirty = FALSE]
\* The counters are as exact as before.
LEMMA NotDirtyIs ==
    ASSUME NEW s, NEW e, NEW g, NEW z, NotDirty(s, e, g, z)
    PROVE  SpOk(z, e, g) /\ z.lp = s.lp
<1>0. SpOk(s, e, g) /\ z = [s EXCEPT !.dirty = FALSE] BY DEF NotDirty
<1>1. s \in SpType BY <1>0 DEF SpOk
<1>2. PICK a, m : a = s.lp /\ m = s.lst OBVIOUS
<1>3. z = [lp |-> a, lst |-> m, dirty |-> FALSE] BY <1>0, <1>1, <1>2 DEF SpType
<1>4. z \in SpType
  <2>1. PICK v : v = [lp |-> a, lst |-> m, dirty |-> FALSE] OBVIOUS
  <2>2. v \in SpType
    <3>1. PICK b : b = FALSE OBVIOUS
    <3> QED BY <1>1, <1>2, <2>1, <3>1, SpTyped DEF SpType
  <2> QED BY <1>3, <2>1, <2>2
<1> QED BY <1>0, <1>2, <1>3, <1>4 DEF SpOk

\* A LEB that is given back adds nothing to the size of the index.
LEMMA UnusedIs ==
    ASSUME NEW p \in Props, p.index, p.free = LebSize, p.dirty = 0
    PROVE  /\ Unused(p) \in Props /\ Unused(p).free = LebSize /\ Unused(p).dirty = 0
           /\ Unused(p).index = FALSE /\ Unused(p).taken = FALSE
           /\ Spc(Unused(p)) = LebSize
           /\ Term("size", Unused(p)) = Term("size", p)
<1>1. /\ Unused(p) \in Props /\ Unused(p).free = LebSize /\ Unused(p).dirty = 0
      /\ Unused(p).index = FALSE /\ Unused(p).taken = FALSE BY DEF Props, Unused
<1> QED BY <1>1, SizeAssumption DEF Spc, Term

\* The index is as large as has been laid out, nothing of it is left to commit.
LEMMA NewIndexBudget ==
    ASSUME IInv, bi' = Recalculated([bi EXCEPT !.old = calc_idx_sz, !.uncommitted = 0]), calc_idx_sz \in Int,
           th' = th
    PROVE  BudgetInv'
<1>1. PICK b : b = [bi EXCEPT !.old = calc_idx_sz, !.uncommitted = 0] OBVIOUS
<1>2. PICK z : z = calc_idx_sz OBVIOUS
<1>3. b \in BudgetType /\ b.idx = bi.idx /\ b.data = bi.data /\ b.dd = bi.dd
  <2>1. PICK a : a = bi OBVIOUS
  <2>2. b = [a EXCEPT !.old = z, !.uncommitted = 0] /\ a \in BudgetType BY <1>1, <1>2, <2>1 DEF IInv, BudgetInv
  <2>3. b \in BudgetType
    <3>1. BudgetShape(b) BY <2>2 DEF BudgetType, BudgetShape
    <3>2. BudgetFields(b) BY <1>2, <2>2 DEF BudgetFields, BudgetType
    <3> QED BY <3>1, <3>2, BudgetTyped
  <2> QED BY <2>1, <2>2, <2>3 DEF BudgetType
<1>4. PICK c : c = Recalculated(b) OBVIOUS
<1> QED BY <1>1, <1>3, <1>4, RecalculatedIs DEF BudgetInv, BudgetExact, IInv

\* ubifs_tnc_start_commit() ends.
LEMMA LayoutDoneKeeps ==
    ASSUME IInv, LayoutDone
    PROVE  IInv'
<1>1. PICK A, x : A = cmt.ilebs /\ x = ForAll(FreeUnused, sp, A) OBVIOUS
<1>2. /\ cmt.pc = "finish" /\ sp' = [x EXCEPT !.dirty = FALSE]
      /\ old_idx' = [l \in LEBs |-> 0]
      /\ dirty_idx' = Cat(x, "dirty_idx")
      /\ bi' = Recalculated([bi EXCEPT !.old = calc_idx_sz, !.uncommitted = 0])
      /\ cmt' = [cmt EXCEPT !.pc = "write", !.ilebs = {}, !.nxt = IdxLive] BY <1>1 DEF LayoutDone
<1>3. /\ live' = live /\ jh' = jh /\ gc_lnum' = gc_lnum /\ idx_gc' = idx_gc /\ buds' = buds
      /\ old_buds' = old_buds /\ dirty_zn' = dirty_zn /\ calc_idx_sz' = calc_idx_sz
      /\ gc' = gc /\ lp_mutex' = lp_mutex /\ th' = th BY DEF LayoutDone, data
<1>4. PICK q : q = cmt' OBVIOUS
<1>5. q \in CmtType /\ q.pc = "write" /\ q.ihead = cmt.ihead /\ q.ilebs = {} /\ q.gaps = cmt.gaps
      /\ q.full = cmt.full BY <1>2, <1>4 DEF CmtType, CmtPcs, IInv, CmtInv, IdxLive
<1>6. PICK f : OwnOk(f, Places) /\ OwnIs(f) /\ Base(f, sp, jh) BY BaseNow
<1>7. PICK o : o = Places OBVIOUS
<1>8. OwnOk(f, o) /\ o.layout = A BY <1>1, <1>6, <1>7 DEF Places
<1>9. A \in SUBSET LEBs BY <1>8 DEF OwnOk, Where, PlaceType
<1>10. \A l \in A : f[l] = <<"layout", 0>> /\ f[l][1] = "layout" BY <1>1, <1>6, <1>9 DEF OwnIs
<1>11. PICK s, j, r, e, c : /\ s = sp /\ j = jh /\ r = sp' /\ e = Twice' /\ c = Cardinality(GcLebs)' OBVIOUS
<1>12. e = Twice /\ c = Cardinality(GcLebs) /\ e \in Int /\ c \in Int
  BY <1>3, <1>11, GcLebsFacts DEF Twice, GcLebs
<1>13. SpOk(s, e, c) /\ \A l \in LEBs : s.lp[l] \in Props BY <1>6, <1>11, <1>12 DEF Base
<1>14. \A l \in LEBs : LebOk(s.lp[l], Size(live[l]), old_idx[l], f[l], WbufOf(j, f[l])) BY <1>6, <1>11 DEF Base
<1>15. \A l \in A : s.lp[l].index /\ s.lp[l].free = LebSize /\ s.lp[l].dirty = 0 /\ Size(live[l]) = 0
  <2> SUFFICES ASSUME NEW l \in A
               PROVE  s.lp[l].index /\ s.lp[l].free = LebSize /\ s.lp[l].dirty = 0 /\ Size(live[l]) = 0 OBVIOUS
  <2>1. PICK y, a, b, u : y = s.lp[l] /\ a = Size(live[l]) /\ b = old_idx[l] /\ u = WbufOf(j, f[l]) OBVIOUS
  <2> QED BY <1>9, <1>10, <1>14, <2>1 DEF LebOk
<1>16. \A l \in A : /\ Unused(s.lp[l]) \in Props
                    /\ Unused(s.lp[l]).free = LebSize /\ Unused(s.lp[l]).dirty = 0
                    /\ Unused(s.lp[l]).index = FALSE /\ Unused(s.lp[l]).taken = FALSE
                    /\ Spc(Unused(s.lp[l])) = LebSize
                    /\ Term("size", Unused(s.lp[l])) = Term("size", s.lp[l]) BY <1>9, <1>13, <1>15, UnusedIs
<1>17. PICK n : n = [l \in A |-> Unused(s.lp[l])] OBVIOUS
<1>18. Changed(x, s, e, c, A, n)
  <2>1. c + 0 * Cardinality(A) = c
    <3>1. IsFiniteSet(A) BY <1>9, SizeAssumption, FS_Subset
    <3>2. Cardinality(A) \in Nat BY <3>1, FS_CardinalityType
    <3> QED BY <1>12, <3>2
  <2> QED BY <1>1, <1>9, <1>11, <1>12, <1>13, <1>16, <1>17, <2>1, UnusedAll
<1>19. /\ SpOk(x, e, c) /\ Total("size", x.lp) = Total("size", s.lp)
       /\ \A l \in LEBs \ A : SameSpace(x.lp[l], s.lp[l])
       /\ \A l \in A : SameSpace(x.lp[l], Unused(s.lp[l])) BY <1>17, <1>18 DEF Changed
<1>20. SpOk(r, e, c) /\ r.lp = x.lp BY <1>2, <1>11, <1>19, NotDirtyIs DEF NotDirty
<1>21. /\ Total("size", r.lp) = Total("size", s.lp)
       /\ \A l \in LEBs \ A : SameSpace(r.lp[l], s.lp[l])
       /\ \A l \in A : SameSpace(r.lp[l], Unused(s.lp[l])) BY <1>19, <1>20
<1>22. PICK p, g : p = [o EXCEPT !.layout = {}, !.taken = @ \ o.layout] /\ g = Moved(f, o.layout, Nobody)
  OBVIOUS
<1>23. OwnOk(g, p) BY <1>8, <1>22, LayoutReturns
<1>24. /\ \A l \in A : g[l] = Nobody
       /\ \A l \in LEBs \ A : g[l] = f[l] BY <1>8, <1>9, <1>22 DEF Moved
<1>25. NextPlaces(p)
  <2>1. Taken' = Taken \ A
    <3>1. \A l \in LEBs : r.lp[l].taken <=> l \notin A /\ s.lp[l].taken
      <4> SUFFICES ASSUME NEW l \in LEBs PROVE r.lp[l].taken <=> l \notin A /\ s.lp[l].taken OBVIOUS
      <4>1. CASE l \in A BY <1>16, <1>21, <4>1 DEF SameSpace
      <4>2. CASE l \notin A BY <1>21, <4>2 DEF SameSpace
      <4> QED BY <4>1, <4>2
    <3> QED BY <1>11, <3>1 DEF Taken
  <2> QED
    BY <1>3, <1>4, <1>5, <1>7, <1>8, <1>22, <2>1, PlacesNow DEF NextPlaces, OwnOk, Where, PlaceType, ThreadLebs,
       LebOfHead, HeadLebs, GcLebs
<1>26. \A l \in LEBs : LebOk(r.lp[l], Size(live'[l]), old_idx'[l], g[l], WbufOf(j, g[l]))
  <2> SUFFICES ASSUME NEW l \in LEBs
               PROVE  LebOk(r.lp[l], Size(live[l]), 0, g[l], WbufOf(j, g[l])) BY <1>2, <1>3
  <2>1. LebSize \in Nat BY SizeAssumption
  <2>2. CASE l \notin A
    <3>1. PICK y, a, b, k, u : y = s.lp[l] /\ a = Size(live[l]) /\ b = old_idx[l] /\ k = f[l] /\ u = WbufOf(j, f[l])
      OBVIOUS
    <3>2. LebOk(y, a, 0, k, u) BY <1>13, <1>14, <2>1, <3>1 DEF LebOk, Props
    <3> QED BY <1>21, <1>24, <2>2, <3>1, <3>2, LebSame
  <2>3. CASE l \in A
    <3>1. PICK z : z = r.lp[l] OBVIOUS
    <3> QED BY <1>15, <1>16, <1>21, <1>24, <2>1, <2>3, <3>1 DEF WbufOf, Nobody, LebOk, Spc, SameSpace
  <2> QED BY <2>2, <2>3
<1>27. \A l \in LEBs : f[l][1] # "layout" => SameSpace(r.lp[l], s.lp[l]) BY <1>10, <1>21
<1>28. ManyStep(f, s, j, r, e, c, g, p)
  <2>1. calc_idx_sz' = Total("size", r.lp) BY <1>3, <1>6, <1>11, <1>21, SizeNow
  <2> QED BY <1>3, <1>6, <1>11, <1>20, <1>23, <1>25, <1>26, <1>27, <2>1 DEF ManyStep, IInv, HeadInv
<1>29. PICK lp : lp = r.lp OBVIOUS
<1>30. ThreadInv' /\ GcInv' /\ DataInv'
  BY <1>2, <1>3, <1>6, <1>11, <1>27, <1>29, DataNow, CmtSideKeeps DEF CmtSide, Cat
<1>31. BudgetInv' BY <1>2, <1>3, <1>6, SizeNow, NewIndexBudget
<1> QED BY <1>2, <1>3, <1>4, <1>5, <1>28, <1>30, <1>31, ManyKeeps DEF IInv, CmtInv, Exclusive, EraseInv

\* A freed LEB of the index adds nothing to its size.
LEMMA FreedIdxIs ==
    ASSUME NEW p \in Props, p.index, Spc(p) = LebSize
    PROVE  /\ FreedIdx(p) \in Props /\ FreedIdx(p).free = LebSize /\ FreedIdx(p).dirty = 0
           /\ ~FreedIdx(p).index /\ FreedIdx(p).taken
           /\ Term("size", FreedIdx(p)) = Term("size", p)
<1>0. LebSize \in Nat BY SizeAssumption
<1>1. /\ FreedIdx(p) \in Props /\ FreedIdx(p).free = LebSize /\ FreedIdx(p).dirty = 0
      /\ ~FreedIdx(p).index /\ FreedIdx(p).taken BY <1>0 DEF Props, FreedIdx
<1> QED BY <1>0, <1>1 DEF Term

\* LEBs with only dirt are freed, those of the index when the commit is over.
GcStarts(s, e, c, A, B, r) ==
    /\ SpOk(s, e, c) /\ e \in Int /\ c \in Int /\ A = Cat(s, "freeable") /\ B = Cat(s, "frdi_idx") /\ r = GcStart(s)
GcStarted(s, e, c, A, B, r) ==
    /\ A \in SUBSET LEBs /\ B \in SUBSET LEBs /\ A \cap B = {}
    /\ SpOk(r, e, c + Cardinality(B)) /\ Total("size", r.lp) = Total("size", s.lp)
    /\ \A l \in LEBs \ (A \cup B) : SameSpace(r.lp[l], s.lp[l])
    /\ \A l \in A : /\ ~s.lp[l].taken /\ ~s.lp[l].index /\ Spc(s.lp[l]) = LebSize
                    /\ r.lp[l].free = LebSize /\ r.lp[l].dirty = 0 /\ ~r.lp[l].index /\ ~r.lp[l].taken
    /\ \A l \in B : /\ ~s.lp[l].taken /\ s.lp[l].index /\ Spc(s.lp[l]) = LebSize
                    /\ r.lp[l].free = LebSize /\ r.lp[l].dirty = 0 /\ ~r.lp[l].index /\ r.lp[l].taken
\* ubifs_gc_start_commit(): what it leads to.
LEMMA GcStartIs ==
    ASSUME NEW s, NEW e, NEW c, NEW A, NEW B, NEW r, GcStarts(s, e, c, A, B, r)
    PROVE  GcStarted(s, e, c, A, B, r)
<1>1. /\ SpOk(s, e, c) /\ e \in Int /\ c \in Int
      /\ A = Cat(s, "freeable") /\ B = Cat(s, "frdi_idx") /\ r = GcStart(s) BY DEF GcStarts
<1>2. A \in SUBSET LEBs /\ B \in SUBSET LEBs /\ A \cap B = {} BY <1>1 DEF Cat
<1>3. \A l \in LEBs : s.lp[l] \in Props /\ InCategory(s.lp[l]) BY <1>1 DEF SpOk, SpType
<1>4. \A l \in A : ~s.lp[l].taken /\ ~s.lp[l].index /\ Spc(s.lp[l]) = LebSize
  BY <1>1, <1>3, CategorySays DEF Cat
<1>5. \A l \in B : ~s.lp[l].taken /\ s.lp[l].index /\ Spc(s.lp[l]) = LebSize BY <1>1, <1>3, CategorySays DEF Cat
<1>6. PICK x : x = ForAll(FreeLeb, s, A) OBVIOUS
<1>7. PICK m, n : m = [l \in A |-> Freed(s.lp[l])] /\ n = [l \in B |-> FreedIdx(x.lp[l])] OBVIOUS
<1>8. \A l \in A : /\ Freed(s.lp[l]).free = LebSize /\ Freed(s.lp[l]).dirty = 0
                   /\ ~Freed(s.lp[l]).index /\ Freed(s.lp[l]).taken = s.lp[l].taken
                   /\ Term("size", Freed(s.lp[l])) = Term("size", s.lp[l]) BY <1>2, <1>3, <1>4, FreedIs
<1>9. IsFiniteSet(A) /\ IsFiniteSet(B) /\ Cardinality(A) \in Nat /\ Cardinality(B) \in Nat
  BY <1>2, SizeAssumption, FS_Subset, FS_CardinalityType
<1>10. Changed(x, s, e, c, A, m)
  <2>1. Changed(ForAll(FreeLeb, s, A), s, e, c + 0 * Cardinality(A), A, [l \in A |-> Freed(s.lp[l])])
    BY <1>1, <1>2, <1>8, FreeAll
  <2>2. c + 0 * Cardinality(A) = c BY <1>1, <1>9
  <2> QED BY <1>6, <1>7, <2>1, <2>2
<1>11. /\ SpOk(x, e, c) /\ Total("size", x.lp) = Total("size", s.lp)
       /\ \A l \in LEBs \ A : SameSpace(x.lp[l], s.lp[l])
       /\ \A l \in A : SameSpace(x.lp[l], Freed(s.lp[l])) BY <1>7, <1>10 DEF Changed
<1>12. \A l \in B : x.lp[l].index /\ Spc(x.lp[l]) = LebSize
  <2> SUFFICES ASSUME NEW l \in B PROVE x.lp[l].index /\ Spc(x.lp[l]) = LebSize OBVIOUS
  <2> QED BY <1>2, <1>5, <1>11 DEF SameSpace, Spc
<1>13. \A l \in B : /\ FreedIdx(x.lp[l]).free = LebSize /\ FreedIdx(x.lp[l]).dirty = 0
                    /\ ~FreedIdx(x.lp[l]).index /\ FreedIdx(x.lp[l]).taken
                    /\ Term("size", FreedIdx(x.lp[l])) = Term("size", x.lp[l])
  BY <1>2, <1>11, <1>12, FreedIdxIs DEF SpOk, SpType
<1>14. Changed(r, x, e, c + Cardinality(B), B, n)
  <2>1. r = ForAll(FreeIdxLeb, x, B) BY <1>1, <1>6 DEF GcStart
  <2>2. Changed(r, x, e, c + 1 * Cardinality(B), B, n) BY <1>1, <1>2, <1>7, <1>11, <1>13, <2>1, FreeIdxAll
  <2>3. c + 1 * Cardinality(B) = c + Cardinality(B) BY <1>1, <1>9
  <2> QED BY <2>2, <2>3
<1>15. /\ SpOk(r, e, c + Cardinality(B)) /\ Total("size", r.lp) = Total("size", x.lp)
       /\ \A l \in LEBs \ B : SameSpace(r.lp[l], x.lp[l])
       /\ \A l \in B : SameSpace(r.lp[l], FreedIdx(x.lp[l])) BY <1>7, <1>14 DEF Changed
<1>16. \A l \in A : r.lp[l].free = LebSize /\ r.lp[l].dirty = 0 /\ ~r.lp[l].index /\ ~r.lp[l].taken
  <2> SUFFICES ASSUME NEW l \in A
               PROVE  r.lp[l].free = LebSize /\ r.lp[l].dirty = 0 /\ ~r.lp[l].index /\ ~r.lp[l].taken OBVIOUS
  <2> QED BY <1>2, <1>4, <1>8, <1>11, <1>15 DEF SameSpace
<1> QED BY <1>2, <1>4, <1>5, <1>11, <1>13, <1>15, <1>16 DEF GcStarted, SameSpace

\* All LEBs to be erased after the commit may be unmapped then.
LEMMA EraseStarts ==
    ASSUME IInv, NEW B \in SUBSET LEBs, B \cap GcLebs = {}, cmt'.pc \in {"alloc", "finish"},
           idx_gc' = {[g EXCEPT !.unmap = TRUE] : g \in idx_gc} \cup {[lnum |-> l, unmap |-> TRUE] : l \in B}
    PROVE  EraseInv' /\ GcLebs' = GcLebs \cup B /\ Cardinality(GcLebs') = Cardinality(GcLebs) + Cardinality(B)
<1>1. \A g \in idx_gc : [g EXCEPT !.unmap = TRUE] = [lnum |-> g.lnum, unmap |-> TRUE]
  <2> SUFFICES ASSUME NEW g \in idx_gc
               PROVE  [g EXCEPT !.unmap = TRUE] = [lnum |-> g.lnum, unmap |-> TRUE] OBVIOUS
  <2>1. g \in [lnum : LEBs, unmap : BOOLEAN] BY DEF IInv, EraseInv
  <2>2. g = [lnum |-> g.lnum, unmap |-> g.unmap] BY <2>1
  <2>3. PICK w : w = TRUE OBVIOUS
  <2>4. PICK x : x = g.lnum OBVIOUS
  <2>5. [g EXCEPT !.unmap = w] = [lnum |-> x, unmap |-> w] BY <2>1, <2>4
  <2> QED BY <2>3, <2>4, <2>5
<1>2. PICK C : C = GcLebs \cup B OBVIOUS
<1>3. C \in SUBSET LEBs BY <1>2, GcLebsFacts
<1>4. idx_gc' = {[lnum |-> l, unmap |-> TRUE] : l \in C}
  <2>1. \A x : x \in idx_gc' => x \in {[lnum |-> l, unmap |-> TRUE] : l \in C}
    <3> SUFFICES ASSUME NEW x, x \in idx_gc' PROVE \E l \in C : x = [lnum |-> l, unmap |-> TRUE] OBVIOUS
    <3>1. CASE \E g \in idx_gc : x = [g EXCEPT !.unmap = TRUE]
      <4>1. PICK g \in idx_gc : x = [g EXCEPT !.unmap = TRUE] BY <3>1
      <4> QED BY <1>1, <1>2, <4>1 DEF GcLebs
    <3>2. CASE \E l \in B : x = [lnum |-> l, unmap |-> TRUE] BY <1>2, <3>2
    <3> QED BY <3>1, <3>2
  <2>2. \A l \in C : [lnum |-> l, unmap |-> TRUE] \in idx_gc'
    <3> SUFFICES ASSUME NEW l \in C PROVE [lnum |-> l, unmap |-> TRUE] \in idx_gc' OBVIOUS
    <3>1. CASE l \in GcLebs
      <4>1. PICK g \in idx_gc : l = g.lnum BY <3>1 DEF GcLebs
      <4> QED BY <1>1, <4>1
    <3>2. CASE l \in B BY <3>2
    <3> QED BY <1>2, <3>1, <3>2
  <2> QED BY <2>1, <2>2
<1>5. GcLebs' = C
  <2>1. \A x : (\E g \in idx_gc' : x = g.lnum) <=> \E l \in C : x = [lnum |-> l, unmap |-> TRUE].lnum BY <1>4
  <2> QED BY <2>1 DEF GcLebs
<1>6. EraseInv'
  <2>1. \A g \in idx_gc' : \E l \in C : g = [lnum |-> l, unmap |-> TRUE] BY <1>4
  <2>2. \A g \in idx_gc' : g = [lnum |-> g.lnum, unmap |-> TRUE] /\ g.lnum \in LEBs
    <3> SUFFICES ASSUME NEW g \in idx_gc' PROVE g = [lnum |-> g.lnum, unmap |-> TRUE] /\ g.lnum \in LEBs OBVIOUS
    <3>1. PICK l \in C : g = [lnum |-> l, unmap |-> TRUE] BY <2>1
    <3> QED BY <1>3, <3>1
  <2>3. \A g \in idx_gc' : g \in [lnum : LEBs, unmap : BOOLEAN]
    <3>1. PICK w : w = TRUE OBVIOUS
    <3>2. \A l \in LEBs : [lnum |-> l, unmap |-> w] \in [lnum : LEBs, unmap : BOOLEAN] BY <3>1
    <3> QED BY <1>3, <2>1, <3>1, <3>2
  <2> QED BY <2>2, <2>3 DEF EraseInv
<1>7. Cardinality(C) = Cardinality(GcLebs) + Cardinality(B)
  <2>1. IsFiniteSet(GcLebs) BY GcLebsFacts
  <2>2. IsFiniteSet(B) BY SizeAssumption, FS_Subset
  <2>3. PICK D : D = GcLebs OBVIOUS
  <2>4. Cardinality(D \cup B) = Cardinality(D) + Cardinality(B) - Cardinality(D \cap B)
    BY <2>1, <2>2, <2>3, FS_Union
  <2>5. Cardinality(D \cap B) = 0 BY <2>3, FS_EmptySet
  <2> QED BY <1>2, <2>1, <2>2, <2>3, <2>4, <2>5, FS_CardinalityType
<1>8. Cardinality(GcLebs') = Cardinality(GcLebs) + Cardinality(B)
  <2>1. PICK G : G = GcLebs' OBVIOUS
  <2> QED BY <1>5, <1>7, <2>1
<1> QED BY <1>2, <1>5, <1>6, <1>8

\* The buds that are no heads are to be returned, LEBs are to be erased.
StartPlaces(f, B, g, p) ==
    /\ OwnOk(g, p) /\ NextPlaces(p)
    /\ \A l \in LEBs : /\ l \in B => g[l] = <<"erase", 0>>
                       /\ l \notin B => g[l] = f[l] \/ (f[l] = <<"bud", 0>> /\ g[l] = <<"old", 0>>)
\* There are such places.
LEMMA StartPlacesAre ==
    ASSUME IInv, NEW f, OwnOk(f, Places), OwnIs(f), old_buds = {}, NEW B \in SUBSET LEBs, B \cap Taken = {},
           GcLebs' = GcLebs \cup B, Taken' = Taken \cup B, LebOfHead' = LebOfHead, HeadLebs' = HeadLebs,
           old_buds' = buds \ HeadLebs, buds' = buds \cap HeadLebs, th' = th, gc_lnum' = gc_lnum, gc' = gc,
           cmt'.ihead = cmt.ihead, cmt'.ilebs = cmt.ilebs, cmt'.gaps \cup cmt'.full = cmt.gaps \cup cmt.full
    PROVE  \E g, p : StartPlaces(f, B, g, p)
<1>1. PICK o : o = Places OBVIOUS
<1>2. OwnOk(f, o) BY <1>1
<1>3. o.old = {} /\ o.bud = buds \ HeadLebs /\ o.taken = Taken BY <1>1, PlacesNow
<1>4. PICK i, q : i = Moved(f, o.bud, <<"old", 0>>) /\ q = [o EXCEPT !.bud = {}, !.old = o.bud] OBVIOUS
<1>5. OwnOk(i, q) BY <1>2, <1>3, <1>4, BudsToOld
<1>6. /\ q.head = o.head /\ q.thread = o.thread /\ q.reserved = o.reserved
      /\ q.ihead = o.ihead /\ q.garbage = o.garbage /\ q.erase = o.erase /\ q.bud = {} /\ q.old = o.bud
      /\ q.layout = o.layout /\ q.written = o.written /\ q.taken = o.taken
  BY <1>2, <1>4 DEF OwnOk, Where, PlaceType
<1>7. PICK g, p : g = Moved(i, B, <<"erase", 0>>) /\ p = [q EXCEPT !.erase = @ \cup B, !.taken = @ \cup B]
  OBVIOUS
<1>8. OwnOk(g, p) BY <1>3, <1>5, <1>6, <1>7, EraseTakes
<1>9. NextPlaces(p)
  BY <1>1, <1>3, <1>5, <1>6, <1>7, PlacesNow DEF NextPlaces, OwnOk, Where, PlaceType, ThreadLebs
<1>10. \A l \in LEBs : /\ l \in B => g[l] = <<"erase", 0>>
                       /\ l \notin B => g[l] = f[l] \/ (f[l] = <<"bud", 0>> /\ g[l] = <<"old", 0>>)
  <2> SUFFICES ASSUME NEW l \in LEBs
               PROVE  /\ l \in B => g[l] = <<"erase", 0>>
                      /\ l \notin B => g[l] = f[l] \/ (f[l] = <<"bud", 0>> /\ g[l] = <<"old", 0>>) OBVIOUS
  <2> QED BY <1>3, <1>4, <1>7 DEF Moved, OwnIs
<1> QED BY <1>8, <1>9, <1>10 DEF StartPlaces

\* Nobody reads, so the collector is off.
LEMMA NobodyReads ==
    ASSUME IInv, \A t \in Threads : ~Reading(t)
    PROVE  gc.by = None /\ gc.pc = "off" /\ gc.leb = None
<1>1. gc \in GcType /\ (gc.pc = "off" <=> gc.by = None) /\ (gc.by # None => th[gc.by].pc = "gc")
      /\ (gc.pc \in {"off", "iter", "pick"} => gc.leb = None) BY DEF IInv, GcInv
<1>2. gc.by = None
  <2> SUFFICES ASSUME gc.by # None PROVE FALSE OBVIOUS
  <2>1. PICK t : t = gc.by OBVIOUS
  <2> QED BY <1>1, <2>1 DEF GcType, Maybe, Reading, Readers
<1> QED BY <1>1, <1>2

\* What a LEB is after it.
LEMMA StartLeb ==
    ASSUME NEW p \in Props, NEW q, NEW a, NEW b, NEW o, NEW u, NEW k, LebOk(p, a, b, o, u), a \in Nat, b \in Nat,
           \/ SameSpace(q, p) /\ k = o
           \/ SameSpace(q, p) /\ o = <<"bud", 0>> /\ k = <<"old", 0>>
           \/ /\ o = Nobody /\ k = Nobody /\ u = 0 /\ ~p.index /\ Spc(p) = LebSize
              /\ q.free = LebSize /\ q.dirty = 0 /\ ~q.index
           \/ /\ o = Nobody /\ k = <<"erase", 0>> /\ u = 0 /\ p.index /\ Spc(p) = LebSize
              /\ q.free = LebSize /\ q.dirty = 0 /\ ~q.index
    PROVE  LebOk(q, a, b, k, u)
<1>0. LebSize \in Nat BY SizeAssumption
<1>1. CASE SameSpace(q, p) /\ k = o BY <1>1, LebSame
<1>2. CASE SameSpace(q, p) /\ o = <<"bud", 0>> /\ k = <<"old", 0>> BY <1>2, LebSame DEF LebOk
<1>3. CASE /\ o = Nobody /\ k = Nobody /\ u = 0 /\ ~p.index /\ Spc(p) = LebSize
           /\ q.free = LebSize /\ q.dirty = 0 /\ ~q.index BY <1>0, <1>3 DEF LebOk, Nobody, Spc
<1>4. CASE /\ o = Nobody /\ k = <<"erase", 0>> /\ u = 0 /\ p.index /\ Spc(p) = LebSize
           /\ q.free = LebSize /\ q.dirty = 0 /\ ~q.index BY <1>0, <1>4 DEF LebOk, Spc, Props, Nobody
<1> QED BY <1>1, <1>2, <1>3, <1>4

\* The commit starts.
LEMMA CommitStartKeeps ==
    ASSUME IInv, CommitStart
    PROVE  IInv'
<1>1. PICK s, j : s = Synced(sp, Heads) /\ j = JhSynced(Heads) OBVIOUS
<1>2. PICK r : r = sp' OBVIOUS
<1>3. PICK A, B : A = Cat(s, "freeable") /\ B = Cat(s, "frdi_idx") OBVIOUS
<1>4. PICK m : m = IF dirty_zn = 0 THEN "finish" ELSE "alloc" OBVIOUS
<1>5. /\ cmt.pc = "rest" /\ \A t \in Threads : ~Reading(t)
      /\ r = GcStart(s) /\ jh' = j
      /\ idx_gc' = {[g EXCEPT !.unmap = TRUE] : g \in idx_gc} \cup {[lnum |-> l, unmap |-> TRUE] : l \in B}
      /\ old_buds' = buds \ HeadLebs /\ buds' = buds \cap HeadLebs
      /\ cmt' = [cmt EXCEPT !.pc = m, !.left = dirty_zn]
  BY <1>1, <1>2, <1>3, <1>4 DEF CommitStart, GcStartList, HeadLebs
<1>6. /\ live' = live /\ gc_lnum' = gc_lnum /\ bi' = bi /\ dirty_zn' = dirty_zn /\ calc_idx_sz' = calc_idx_sz
      /\ old_idx' = old_idx /\ dirty_idx' = dirty_idx /\ gc' = gc /\ lp_mutex' = lp_mutex /\ th' = th
  BY DEF CommitStart, index
<1>7. cmt \in CmtType /\ dirty_zn \in Nat /\ old_buds = {} BY <1>5, DataNow DEF IInv, CmtInv
<1>8. PICK q : q = cmt' OBVIOUS
<1>9. q \in CmtType /\ q.pc = m /\ q.ihead = cmt.ihead /\ q.ilebs = cmt.ilebs /\ q.gaps = cmt.gaps
      /\ q.full = cmt.full /\ q.left = dirty_zn /\ m \in {"alloc", "finish"}
  BY <1>4, <1>5, <1>7, <1>8 DEF CmtType, CmtPcs
<1>10. PICK f : OwnOk(f, Places) /\ OwnIs(f) /\ Base(f, sp, jh) BY BaseNow
<1>11. Base(f, s, j)
  <2>1. PICK H : H = Heads OBVIOUS
  <2> QED BY <1>1, <1>10, <2>1, BaseSynced
<1>12. PICK e, c0, c : e = Twice /\ c0 = Cardinality(GcLebs) /\ c = Cardinality(GcLebs)' OBVIOUS
<1>13. GcStarted(s, e, c0, A, B, r) BY <1>3, <1>5, <1>11, <1>12, GcLebsFacts, GcStartIs DEF GcStarts, Base
<1>14. /\ A \in SUBSET LEBs /\ B \in SUBSET LEBs /\ A \cap B = {}
       /\ SpOk(r, e, c0 + Cardinality(B)) /\ Total("size", r.lp) = Total("size", s.lp)
       /\ \A l \in LEBs \ (A \cup B) : SameSpace(r.lp[l], s.lp[l])
       /\ \A l \in A : /\ ~s.lp[l].taken /\ ~s.lp[l].index /\ Spc(s.lp[l]) = LebSize
                       /\ r.lp[l].free = LebSize /\ r.lp[l].dirty = 0 /\ ~r.lp[l].index /\ ~r.lp[l].taken
       /\ \A l \in B : /\ ~s.lp[l].taken /\ s.lp[l].index /\ Spc(s.lp[l]) = LebSize
                       /\ r.lp[l].free = LebSize /\ r.lp[l].dirty = 0 /\ ~r.lp[l].index /\ r.lp[l].taken
  BY <1>13 DEF GcStarted
<1>15. \A l \in A \cup B : f[l] = Nobody /\ f[l][1] = "nobody" /\ ~sp.lp[l].taken
  <2> SUFFICES ASSUME NEW l \in A \cup B
               PROVE  f[l] = Nobody /\ f[l][1] = "nobody" /\ ~sp.lp[l].taken OBVIOUS
  <2> QED BY <1>10, <1>11, <1>14 DEF Nobody, OwnIs, Base
<1>16. B \cap Taken = {} /\ B \cap GcLebs = {}
  <2>1. B \cap GcLebs = {}
    <3> SUFFICES ASSUME NEW l \in B, l \in GcLebs PROVE FALSE OBVIOUS
    <3> QED BY <1>10, <1>14, <1>15 DEF Nobody, OwnIs
  <2> QED BY <1>15, <2>1 DEF Taken
<1>17. EraseInv' /\ GcLebs' = GcLebs \cup B /\ Cardinality(GcLebs') = Cardinality(GcLebs) + Cardinality(B)
  BY <1>5, <1>8, <1>9, <1>14, <1>16, EraseStarts
<1>18. Taken' = Taken \cup B
  <2>1. \A l \in LEBs : r.lp[l].taken <=> l \in B \/ sp.lp[l].taken
    <3> SUFFICES ASSUME NEW l \in LEBs PROVE r.lp[l].taken <=> l \in B \/ sp.lp[l].taken OBVIOUS
    <3>1. CASE l \in B BY <1>14, <3>1
    <3>2. CASE l \in A BY <1>14, <1>15, <3>2
    <3>3. CASE l \notin A \cup B BY <1>11, <1>14, <3>3 DEF SameSpace, Base
    <3> QED BY <3>1, <3>2, <3>3
  <2> QED BY <1>2, <1>14, <2>1 DEF Taken
<1>19. LebOfHead' = LebOfHead /\ HeadLebs' = HeadLebs BY <1>5, <1>11 DEF LebOfHead, HeadLebs, Base
<1>20. PICK g, p : StartPlaces(f, B, g, p)
  <2>1. cmt'.ihead = cmt.ihead /\ cmt'.ilebs = cmt.ilebs /\ cmt'.gaps \cup cmt'.full = cmt.gaps \cup cmt.full
    BY <1>8, <1>9
  <2> QED BY <1>5, <1>6, <1>7, <1>10, <1>14, <1>16, <1>17, <1>18, <1>19, <2>1, StartPlacesAre
<1>21. /\ OwnOk(g, p) /\ NextPlaces(p)
       /\ \A l \in LEBs : /\ l \in B => g[l] = <<"erase", 0>>
                          /\ l \notin B => g[l] = f[l] \/ (f[l] = <<"bud", 0>> /\ g[l] = <<"old", 0>>)
  BY <1>20 DEF StartPlaces
<1>22. \A l \in LEBs : LebOk(r.lp[l], Size(live'[l]), old_idx'[l], g[l], WbufOf(j, g[l]))
  <2> SUFFICES ASSUME NEW l \in LEBs
               PROVE  LebOk(r.lp[l], Size(live[l]), old_idx[l], g[l], WbufOf(j, g[l])) BY <1>6
  <2>1. PICK x, y, a, b, o, u, k : /\ x = s.lp[l] /\ y = r.lp[l] /\ a = Size(live[l]) /\ b = old_idx[l]
                                   /\ o = f[l] /\ u = WbufOf(j, f[l]) /\ k = g[l] OBVIOUS
  <2>2. a \in Nat /\ b \in Nat BY <2>1, DataNow, SizeType
  <2>3. WbufOf(j, g[l]) = u
    <3>1. CASE g[l] = f[l] BY <2>1, <3>1
    <3>2. CASE f[l] = <<"bud", 0>> /\ g[l] = <<"old", 0>> BY <2>1, <3>2 DEF WbufOf
    <3>3. CASE l \in B BY <1>15, <1>21, <2>1, <3>3 DEF WbufOf, Nobody
    <3> QED BY <1>21, <3>1, <3>2, <3>3
  <2>4. \/ SameSpace(y, x) /\ k = o
        \/ SameSpace(y, x) /\ o = <<"bud", 0>> /\ k = <<"old", 0>>
        \/ /\ o = Nobody /\ k = Nobody /\ u = 0 /\ ~x.index /\ Spc(x) = LebSize
           /\ y.free = LebSize /\ y.dirty = 0 /\ ~y.index
        \/ /\ o = Nobody /\ k = <<"erase", 0>> /\ u = 0 /\ x.index /\ Spc(x) = LebSize
           /\ y.free = LebSize /\ y.dirty = 0 /\ ~y.index
    <3>1. CASE l \in B BY <1>14, <1>15, <1>21, <2>1, <3>1 DEF WbufOf, Nobody
    <3>2. CASE l \in A BY <1>14, <1>15, <1>21, <2>1, <3>2 DEF WbufOf, Nobody
    <3>3. CASE l \notin A \cup B BY <1>14, <1>21, <2>1, <3>3
    <3> QED BY <3>1, <3>2, <3>3
  <2>5. LebOk(y, a, b, k, u) BY <1>11, <2>1, <2>2, <2>4, StartLeb DEF Base
  <2> QED BY <2>1, <2>3, <2>5
<1>23. \A l \in LEBs : f[l] # Nobody => SameSpace(r.lp[l], s.lp[l]) BY <1>14, <1>15
<1>24. ManyStep(f, s, j, r, e, c, g, p)
  <2>1. calc_idx_sz' = Total("size", r.lp) BY <1>6, <1>11, <1>14, SizeNow
  <2>2. SpOk(r, e, c) BY <1>12, <1>14, <1>17
  <2>3. OwnIs(f) /\ Base(f, s, j) /\ jh' = j /\ r = sp' /\ c = Cardinality(GcLebs)'
    BY <1>2, <1>5, <1>10, <1>11, <1>12
  <2> QED
    BY <1>5, <1>6, <1>12, <1>21, <1>22, <1>23, <2>1, <2>2, <2>3 DEF ManyStep, IInv, HeadInv, HeadLebs, Nobody,
       Twice
<1>25. PICK lp : lp = sp'.lp OBVIOUS
<1>26. ThreadInv'
  <2>1. \A k \in LEBs : f[k][1] = "thread" => lp[k].free = sp.lp[k].free
    <3> SUFFICES ASSUME NEW k \in LEBs, f[k][1] = "thread" PROVE lp[k].free = sp.lp[k].free OBVIOUS
    <3> QED BY <1>2, <1>11, <1>23, <1>25 DEF SameSpace, Base, Nobody
  <2> QED BY <1>6, <1>10, <1>25, <2>1, ThreadSame DEF IInv, ThreadInv
<1>27. GcInv' BY <1>5, <1>6, NobodyReads, GcNext
<1>28. CmtInv' BY <1>4, <1>5, <1>6, <1>7, <1>8, <1>9 DEF CmtInv, Reading
<1>29. BudgetInv' BY <1>6, BudgetFrame DEF IInv
<1> QED BY <1>5, <1>6, <1>17, <1>24, <1>26, <1>27, <1>28, <1>29, ManyKeeps DEF IInv, DataInv

\* Nothing changes.
LEMMA StutterKeeps ==
    ASSUME IInv, UNCHANGED vars
    PROVE  IInv'
<1>1. /\ sp' = sp /\ live' = live /\ jh' = jh /\ gc_lnum' = gc_lnum /\ idx_gc' = idx_gc /\ buds' = buds
      /\ old_buds' = old_buds /\ bi' = bi /\ dirty_zn' = dirty_zn /\ calc_idx_sz' = calc_idx_sz
      /\ old_idx' = old_idx /\ dirty_idx' = dirty_idx /\ th' = th /\ gc' = gc /\ cmt' = cmt
      /\ lp_mutex' = lp_mutex BY DEF vars
<1>2. OwnInv'
  <2>1. PICK f : OwnOk(f, Places) /\ LebsOk(f) BY DEF IInv, OwnInv
  <2> QED BY <1>1, <2>1 DEF OwnInv, Places, GcLebs, HeadLebs, LebsOk, LebOk, Wbuf
<1>3. CountInv' BY <1>1 DEF IInv, CountInv, GcLebs, Twice
<1>4. CmtInv' BY <1>1 DEF IInv, CmtInv, Reading
<1>5. BudgetInv' BY <1>1, BudgetFrame DEF IInv
<1> QED BY <1>1, <1>2, <1>3, <1>4, <1>5 DEF IInv, HeadInv, HeadOk, DataInv, ThreadInv, GcInv, EraseInv

\* Every step of a thread.
LEMMA ThreadsKeep ==
    ASSUME IInv, NEW t \in Threads,
           \/ \E k \in Requests : Request(t, k)
           \/ BudgetSpace(t) \/ Shrink(t) \/ Shrunk(t) \/ GcFreed(t) \/ GcFailed(t) \/ MkspcRetry(t)
           \/ Convert(t) \/ Release(t)
           \/ Write(t) \/ WriteNode(t) \/ FindFree(t) \/ FindFreeLeb(t) \/ FoundFree(t)
           \/ AddBud(t) \/ GotLeb(t) \/ GotNoLeb(t) \/ ReserveAgain(t) \/ GcEnter(t)
    PROVE  IInv'
<1>1. CASE \E k \in Requests : Request(t, k) BY <1>1, RequestKeeps
<1>2. CASE BudgetSpace(t) BY <1>2, BudgetSpaceKeeps
<1>3. CASE Shrink(t) BY <1>3, ShrinkKeeps
<1>4. CASE Shrunk(t) BY <1>4, ShrunkKeeps
<1>5. CASE GcFreed(t) BY <1>5, GcFreedKeeps
<1>6. CASE GcFailed(t) BY <1>6, GcFailedKeeps
<1>7. CASE MkspcRetry(t) BY <1>7, MkspcRetryKeeps
<1>8. CASE Convert(t) BY <1>8, ConvertKeeps
<1>9. CASE Release(t) BY <1>9, ReleaseKeeps
<1>10. CASE Write(t) BY <1>10, WriteKeeps
<1>11. CASE WriteNode(t) BY <1>11, WriteNodeKeeps
<1>12. CASE FindFree(t) BY <1>12, FindFreeKeeps
<1>13. CASE FindFreeLeb(t) BY <1>13, FindFreeLebNone, FindFreeLebFound
<1>14. CASE FoundFree(t) BY <1>14, FoundFreeKeeps
<1>15. CASE AddBud(t) BY <1>15, AddBudKeeps
<1>16. CASE GotLeb(t) BY <1>16, GotLebKeeps
<1>17. CASE GotNoLeb(t) BY <1>17, GotNoLebKeeps
<1>18. CASE ReserveAgain(t) BY <1>18, ReserveAgainKeeps
<1>19. CASE GcEnter(t) BY <1>19, GcEnterKeeps
<1> QED
  BY <1>1, <1>2, <1>3, <1>4, <1>5, <1>6, <1>7, <1>8, <1>9, <1>10, <1>11, <1>12, <1>13, <1>14, <1>15, <1>16,
     <1>17, <1>18, <1>19

\* Every step, and none, keeps the invariant.
LEMMA NextKeeps ==
    ASSUME IInv, [Next]_vars
    PROVE  IInv'
<1>1. CASE UNCHANGED vars BY <1>1, StutterKeeps
<1>2. CASE Next
  <2>1. ASSUME NEW t \in Threads,
               \/ \E k \in Requests : Request(t, k)
               \/ BudgetSpace(t) \/ Shrink(t) \/ Shrunk(t) \/ GcFreed(t) \/ GcFailed(t) \/ MkspcRetry(t)
               \/ Convert(t) \/ Release(t)
               \/ Write(t) \/ WriteNode(t) \/ FindFree(t) \/ FindFreeLeb(t) \/ FoundFree(t)
               \/ AddBud(t) \/ GotLeb(t) \/ GotNoLeb(t) \/ ReserveAgain(t) \/ GcEnter(t)
        PROVE  IInv' BY <2>1, ThreadsKeep
  <2>2. CASE \E h \in Others : WbufTimer(h) BY <2>2, WbufTimerKeeps
  <2>3. CASE GcIter BY <2>3, GcIterKeeps
  <2>4. CASE GcPick BY <2>4, GcPickKeeps
  <2>5. CASE GcIndex BY <2>5, GcIndexKeeps
  <2>6. CASE GcMove BY <2>6, GcMoveKeeps
  <2>7. CASE GcSwitch BY <2>7, GcSwitchKeeps
  <2>8. CASE GcSync BY <2>8, GcSyncKeeps
  <2>9. CASE GcFree BY <2>9, GcFreeKeeps
  <2>10. CASE GcEnd BY <2>10, GcEndKeeps
  <2>11. CASE CommitStart BY <2>11, CommitStartKeeps
  <2>12. CASE CommitCancelled BY <2>12, CommitCancelledKeeps
  <2>13. CASE AllocLeb BY <2>13, AllocLebKeeps
  <2>14. CASE LayoutInGaps BY <2>14, LayoutInGapsKeeps
  <2>15. CASE LayoutLeb BY <2>15, LayoutLebKeeps
  <2>16. CASE LayoutDone BY <2>16, LayoutDoneKeeps
  <2>17. CASE WriteIndex BY <2>17, WriteIndexKeeps
  <2>18. CASE WriteMaster BY <2>18, WriteMasterKeeps
  <2>19. CASE CommitDone BY <2>19, CommitDoneKeeps
  <2>20. CASE \E l \in old_buds : ReturnBud(l) BY <2>20, ReturnBudKeeps
  <2>21. CASE \E g \in idx_gc : GcEndCommit(g) BY <2>21, GcEndCommitKeeps
  <2> QED
    BY <1>2, <2>1, <2>2, <2>3, <2>4, <2>5, <2>6, <2>7, <2>8, <2>9, <2>10, <2>11, <2>12, <2>13, <2>14, <2>15,
       <2>16, <2>17, <2>18, <2>19, <2>20, <2>21 DEF Next
<1> QED BY <1>1, <1>2

\* The LEBs with a property, one by one.
LEMMA TotalCounts ==
    ASSUME NEW lp, NEW f, NEW A \in SUBSET LEBs, \A l \in LEBs : Term(f, lp[l]) = IF l \in A THEN 1 ELSE 0
    PROVE  Total(f, lp) = Cardinality(A)
<1> DEFINE w == [l \in LEBs |-> Term(f, lp[l])]
<1>1. IsFiniteSet(LEBs) BY SizeAssumption
<1> HIDE DEF w
<1> QED BY <1>1, SumCounts DEF Total

\* The counters of a mount.
CountsOf(c, lp) ==
    /\ c = [empty |-> c.empty, taken |-> c.taken, idx |-> c.idx, used |-> c.used, dead |-> c.dead,
            dark |-> c.dark, freeable |-> c.freeable, idx_gc |-> c.idx_gc]
    /\ c.idx_gc = 0
    /\ c.empty = Total("empty", lp) /\ c.taken = Total("taken", lp) /\ c.idx = Total("idx", lp)
    /\ c.used = Total("used", lp) /\ c.dead = Total("dead", lp) /\ c.dark = Total("dark", lp)
    /\ c.freeable = Total("freeable", lp)

\* The counters of a mount are the totals.
LEMMA CountedIs ==
    ASSUME NEW lp
    PROVE  CountsOf(Counted(lp), lp)
<1>1. PICK c : c = Counted(lp) OBVIOUS
<1>2. Cardinality({l \in LEBs : lp[l].index}) = Total("idx", lp)
  <2>1. PICK A : A = {l \in LEBs : lp[l].index} OBVIOUS
  <2> QED BY <2>1, TotalCounts DEF Term, Num
<1>3. Cardinality({l \in LEBs : lp[l].cat = "freeable"}) = Total("freeable", lp)
  <2>1. PICK A : A = {l \in LEBs : lp[l].cat = "freeable"} OBVIOUS
  <2> QED BY <2>1, TotalCounts DEF Term, Num
<1> QED BY <1>1, <1>2, <1>3 DEF CountsOf, Counted, SumFunction, Total, Term

\* The holders of a LEB, one by one.
LEMMA HoldersAre ==
    ASSUME NEW l, NEW x
    PROVE  x \in Holders(l) <=>
              \/ \E h \in Heads : jh[h].leb = l /\ x = <<"head", h>>
              \/ \E t \in Threads : th[t].leb = l /\ x = <<"thread", t>>
              \/ gc_lnum = l /\ x = <<"reserved", 0>>
              \/ cmt.ihead = l /\ x = <<"index head", 0>>
              \/ gc.leb = l /\ x = <<"garbage", 0>>
              \/ l \in GcLebs /\ x = <<"erase", 0>>
              \/ l \in buds \ HeadLebs /\ x = <<"bud", 0>>
              \/ l \in old_buds /\ x = <<"old bud", 0>>
              \/ l \in cmt.ilebs /\ x = <<"layout", 0>>
              \/ l \in cmt.gaps \cup cmt.full /\ x = <<"written", 0>>
<1>1. PICK A : A = {<<"reserved", {gc_lnum}>>, <<"index head", {cmt.ihead}>>, <<"garbage", {gc.leb}>>,
                    <<"erase", GcLebs>>, <<"bud", buds \ HeadLebs>>, <<"old bud", old_buds>>,
                    <<"layout", cmt.ilebs>>, <<"written", cmt.gaps \cup cmt.full>>} OBVIOUS
<1>2. x \in {<<r[1], 0>> : r \in {q \in A : l \in q[2]}} <=> \E r \in A : l \in r[2] /\ x = <<r[1], 0>> OBVIOUS
<1>3. (\E r \in A : l \in r[2] /\ x = <<r[1], 0>>) <=>
              \/ gc_lnum = l /\ x = <<"reserved", 0>>
              \/ cmt.ihead = l /\ x = <<"index head", 0>>
              \/ gc.leb = l /\ x = <<"garbage", 0>>
              \/ l \in GcLebs /\ x = <<"erase", 0>>
              \/ l \in buds \ HeadLebs /\ x = <<"bud", 0>>
              \/ l \in old_buds /\ x = <<"old bud", 0>>
              \/ l \in cmt.ilebs /\ x = <<"layout", 0>>
              \/ l \in cmt.gaps \cup cmt.full /\ x = <<"written", 0>>
  <2>1. ASSUME NEW r \in A, l \in r[2], x = <<r[1], 0>>
        PROVE
              \/ gc_lnum = l /\ x = <<"reserved", 0>>
              \/ cmt.ihead = l /\ x = <<"index head", 0>>
              \/ gc.leb = l /\ x = <<"garbage", 0>>
              \/ l \in GcLebs /\ x = <<"erase", 0>>
              \/ l \in buds \ HeadLebs /\ x = <<"bud", 0>>
              \/ l \in old_buds /\ x = <<"old bud", 0>>
              \/ l \in cmt.ilebs /\ x = <<"layout", 0>>
              \/ l \in cmt.gaps \cup cmt.full /\ x = <<"written", 0>>
    <3>1. CASE r = <<"reserved", {gc_lnum}>> BY <2>1, <3>1
    <3>2. CASE r = <<"index head", {cmt.ihead}>> BY <2>1, <3>2
    <3>3. CASE r = <<"garbage", {gc.leb}>> BY <2>1, <3>3
    <3>4. CASE r = <<"erase", GcLebs>> BY <2>1, <3>4
    <3>5. CASE r = <<"bud", buds \ HeadLebs>> BY <2>1, <3>5
    <3>6. CASE r = <<"old bud", old_buds>> BY <2>1, <3>6
    <3>7. CASE r = <<"layout", cmt.ilebs>> BY <2>1, <3>7
    <3>8. CASE r = <<"written", cmt.gaps \cup cmt.full>> BY <2>1, <3>8
    <3> QED BY <1>1, <3>1, <3>2, <3>3, <3>4, <3>5, <3>6, <3>7, <3>8
  <2>2. ASSUME gc_lnum = l, x = <<"reserved", 0>> PROVE \E r \in A : l \in r[2] /\ x = <<r[1], 0>>
    <3>1. PICK r : r = <<"reserved", {gc_lnum}>> OBVIOUS
    <3> QED BY <1>1, <2>2, <3>1
  <2>3. ASSUME cmt.ihead = l, x = <<"index head", 0>> PROVE \E r \in A : l \in r[2] /\ x = <<r[1], 0>>
    <3>1. PICK r : r = <<"index head", {cmt.ihead}>> OBVIOUS
    <3> QED BY <1>1, <2>3, <3>1
  <2>4. ASSUME gc.leb = l, x = <<"garbage", 0>> PROVE \E r \in A : l \in r[2] /\ x = <<r[1], 0>>
    <3>1. PICK r : r = <<"garbage", {gc.leb}>> OBVIOUS
    <3> QED BY <1>1, <2>4, <3>1
  <2>5. ASSUME l \in GcLebs, x = <<"erase", 0>> PROVE \E r \in A : l \in r[2] /\ x = <<r[1], 0>>
    <3>1. PICK r : r = <<"erase", GcLebs>> OBVIOUS
    <3> QED BY <1>1, <2>5, <3>1
  <2>6. ASSUME l \in buds \ HeadLebs, x = <<"bud", 0>> PROVE \E r \in A : l \in r[2] /\ x = <<r[1], 0>>
    <3>1. PICK r : r = <<"bud", buds \ HeadLebs>> OBVIOUS
    <3> QED BY <1>1, <2>6, <3>1
  <2>7. ASSUME l \in old_buds, x = <<"old bud", 0>> PROVE \E r \in A : l \in r[2] /\ x = <<r[1], 0>>
    <3>1. PICK r : r = <<"old bud", old_buds>> OBVIOUS
    <3> QED BY <1>1, <2>7, <3>1
  <2>8. ASSUME l \in cmt.ilebs, x = <<"layout", 0>> PROVE \E r \in A : l \in r[2] /\ x = <<r[1], 0>>
    <3>1. PICK r : r = <<"layout", cmt.ilebs>> OBVIOUS
    <3> QED BY <1>1, <2>8, <3>1
  <2>9. ASSUME l \in cmt.gaps \cup cmt.full, x = <<"written", 0>> PROVE \E r \in A : l \in r[2] /\ x = <<r[1], 0>>
    <3>1. PICK r : r = <<"written", cmt.gaps \cup cmt.full>> OBVIOUS
    <3> QED BY <1>1, <2>9, <3>1
  <2> QED BY <2>1, <2>2, <2>3, <2>4, <2>5, <2>6, <2>7, <2>8, <2>9
<1> QED BY <1>1, <1>2, <1>3 DEF Holders, GcLebs, HeadLebs

\* What Holders calls a spot.
Called(o) == IF o = <<"ihead", 0>> THEN <<"index head", 0>> ELSE IF o = <<"old", 0>> THEN <<"old bud", 0>> ELSE o

\* The only holder of a LEB is that at its spot.
LEMMA HoldersOf ==
    ASSUME NEW f, OwnIs(f), NEW l \in LEBs
    PROVE  /\ f[l] # Nobody => Holders(l) = {Called(f[l])}
           /\ f[l] = Nobody => Holders(l) = {}
<1>1. PICK o : o = f[l] /\ o \in Spots BY DEF OwnIs
<1>2. ASSUME NEW x
      PROVE  x \in Holders(l) <=>
              \/ \E h \in Heads : o = <<"head", h>> /\ x = <<"head", h>>
              \/ \E t \in Threads : o = <<"thread", t>> /\ x = <<"thread", t>>
              \/ o = <<"reserved", 0>> /\ x = <<"reserved", 0>>
              \/ o = <<"ihead", 0>> /\ x = <<"index head", 0>>
              \/ o = <<"garbage", 0>> /\ x = <<"garbage", 0>>
              \/ o = <<"erase", 0>> /\ x = <<"erase", 0>>
              \/ o = <<"bud", 0>> /\ x = <<"bud", 0>>
              \/ o = <<"old", 0>> /\ x = <<"old bud", 0>>
              \/ o = <<"layout", 0>> /\ x = <<"layout", 0>>
              \/ o = <<"written", 0>> /\ x = <<"written", 0>>
  <2>1. x \in Holders(l) <=>
              \/ \E h \in Heads : jh[h].leb = l /\ x = <<"head", h>>
              \/ \E t \in Threads : th[t].leb = l /\ x = <<"thread", t>>
              \/ gc_lnum = l /\ x = <<"reserved", 0>>
              \/ cmt.ihead = l /\ x = <<"index head", 0>>
              \/ gc.leb = l /\ x = <<"garbage", 0>>
              \/ l \in GcLebs /\ x = <<"erase", 0>>
              \/ l \in buds \ HeadLebs /\ x = <<"bud", 0>>
              \/ l \in old_buds /\ x = <<"old bud", 0>>
              \/ l \in cmt.ilebs /\ x = <<"layout", 0>>
              \/ l \in cmt.gaps \cup cmt.full /\ x = <<"written", 0>> BY HoldersAre
  <2> QED BY <1>1, <2>1 DEF OwnIs
<1>3. \/ \E h \in Heads : o = <<"head", h>>
      \/ \E t \in Threads : o = <<"thread", t>>
      \/ o \in {<<"reserved", 0>>, <<"ihead", 0>>, <<"garbage", 0>>, <<"erase", 0>>, <<"bud", 0>>,
                <<"old", 0>>, <<"layout", 0>>, <<"written", 0>>, <<"nobody", 0>>} BY <1>1 DEF Spots
<1>4. o # Nobody => \A x : x \in Holders(l) <=> x = Called(o)
  <2>1. SUFFICES ASSUME o # Nobody, NEW x PROVE x \in Holders(l) <=> x = Called(o) OBVIOUS
  <2>2. CASE \E h \in Heads : o = <<"head", h>> BY <1>2, <2>2 DEF Called
  <2>3. CASE \E t \in Threads : o = <<"thread", t>> BY <1>2, <2>3 DEF Called
  <2>4. CASE o = <<"reserved", 0>> BY <1>2, <2>4 DEF Called
  <2>5. CASE o = <<"garbage", 0>> BY <1>2, <2>5 DEF Called
  <2>6. CASE o = <<"erase", 0>> BY <1>2, <2>6 DEF Called
  <2>7. CASE o = <<"bud", 0>> BY <1>2, <2>7 DEF Called
  <2>8. CASE o = <<"layout", 0>> BY <1>2, <2>8 DEF Called
  <2>9. CASE o = <<"written", 0>> BY <1>2, <2>9 DEF Called
  <2>10. CASE o = <<"ihead", 0>> BY <1>2, <2>10 DEF Called
  <2>11. CASE o = <<"old", 0>> BY <1>2, <2>11 DEF Called
  <2> QED BY <1>3, <2>1, <2>2, <2>3, <2>4, <2>5, <2>6, <2>7, <2>8, <2>9, <2>10, <2>11 DEF Nobody
<1>5. o = Nobody => \A x : x \notin Holders(l) BY <1>2 DEF Nobody
<1> QED BY <1>1, <1>4, <1>5

\* A LEB is taken while one and only one has it.
LEMMA OneHolderHolds ==
    ASSUME IInv
    PROVE  OneHolder
<1>1. PICK f : OwnOk(f, Places) BY DEF IInv, OwnInv
<1>2. OwnIs(f) BY <1>1, OwnRead
<1>3. ASSUME NEW l \in LEBs PROVE Cardinality(Holders(l)) = Num(sp.lp[l].taken)
  <2>1. f[l] = Nobody <=> ~sp.lp[l].taken BY <1>2 DEF OwnIs
  <2>2. CASE f[l] = Nobody BY <1>2, <2>1, <2>2, HoldersOf, FS_EmptySet DEF Num
  <2>3. CASE f[l] # Nobody
    <3>1. Cardinality({Called(f[l])}) = 1 BY FS_Singleton
    <3> QED BY <1>2, <2>1, <2>3, <3>1, HoldersOf DEF Num
  <2> QED BY <2>2, <2>3
<1> QED BY <1>3 DEF OneHolder

\* As many LEBs as records of them are to be erased after the commit.
LEMMA EraseCount ==
    ASSUME IInv
    PROVE  Cardinality(idx_gc) = Cardinality(GcLebs)
<1>1. PICK A, B : A = idx_gc /\ B = GcLebs OBVIOUS
<1>2. PICK m : m = [g \in A |-> g.lnum] OBVIOUS
<1>3. m \in Bijection(A, B)
  BY <1>1, <1>2 DEF Bijection, Injection, Surjection, IsInjective, GcLebs, IInv, EraseInv
<1> QED BY <1>1, <1>3, GcLebsFacts, FS_Injection DEF Bijection

\* The counters x are those c of the LEB properties, but for e and g.
LstPre(x, c, lp, e, g) ==
    /\ x \in Lst /\ CountsOf(c, lp) /\ c.taken \in Int
    /\ \A f \in {"empty", "idx", "used", "dead", "dark", "freeable"} : x[f] = Total(f, lp)
    /\ x.taken = Total("taken", lp) + e /\ x.idx_gc = g

\* So the counters are those that are stated.
LEMMA LstIs ==
    ASSUME NEW x, NEW c, NEW lp, NEW e, NEW g, LstPre(x, c, lp, e, g)
    PROVE  x = [c EXCEPT !.taken = @ + e, !.idx_gc = g]
<1>1. /\ x.empty = c.empty /\ x.idx = c.idx /\ x.used = c.used /\ x.dead = c.dead /\ x.dark = c.dark
      /\ x.freeable = c.freeable BY DEF CountsOf, LstPre
<1>2. PICK y : y = c.taken + e OBVIOUS
<1>3. c \in Lst BY <1>1 DEF Lst, CountsOf, LstPre
<1>4. PICK z : z = [c EXCEPT !.taken = y, !.idx_gc = g] OBVIOUS
<1> QED BY <1>1, <1>2, <1>3, <1>4 DEF Lst, LstPre, CountsOf

\* The counters are those of the LEB properties.
LEMMA CountersHold ==
    ASSUME IInv
    PROVE  CountersExact
<1>1. PICK s, c, e, g : s = sp /\ c = Counted(sp.lp) /\ e = Twice /\ g = Cardinality(GcLebs) OBVIOUS
<1>2. SpOk(s, e, g) /\ calc_idx_sz = Total("size", sp.lp) BY <1>1 DEF IInv, CountInv
<1>3. CountsOf(c, s.lp) BY <1>1, CountedIs
<1>4. s.lst = [c EXCEPT !.taken = @ + e, !.idx_gc = g]
  <2>1. PICK x : x = s.lst OBVIOUS
  <2>2. PICK lp : lp = s.lp OBVIOUS
  <2>3. c.taken \in Int BY <1>2, <1>3, <2>2, TotalType DEF CountsOf, Terms, SpOk, SpType
  <2>4. LstPre(x, c, lp, e, g) BY <1>2, <1>3, <2>1, <2>2, <2>3 DEF LstPre, SpOk, SpType
  <2> QED BY <2>1, <2>4, LstIs
<1>5. calc_idx_sz = SumFunction([l \in LEBs |-> IF sp.lp[l].index THEN LebSize - Spc(sp.lp[l]) ELSE 0])
  BY <1>2 DEF SumFunction, Total, Term
<1> QED BY <1>1, <1>2, <1>4, <1>5, EraseCount DEF CountersExact, SpOk, InCategory, Twice

\* The inductive invariant implies the property.
LEMMA SpaceInvHolds ==
    ASSUME IInv
    PROVE  SpaceInv
BY OneHolderHolds, CountersHold DEF SpaceInv, IInv, BudgetInv

\* The LEB properties of a mount, in their categories.
FirstLp(m) ==
    FoldSet(LAMBDA l, r : ChangeCategory(r, l),
            [l \in LEBs |-> Uncategorized(m.lp[l], l \in {m.gc_lnum, m.ihead})], LEBs)

\* What is so at the start.
Start(m, lp, size) ==
    /\ m \in Mounts
    /\ lp = FirstLp(m)
    /\ size = SumFunction([l \in LEBs |-> IF m.lp[l].index THEN LebSize - Spc(m.lp[l]) ELSE 0])
    /\ sp = [lp |-> lp, lst |-> Counted(lp), dirty |-> FALSE]
    /\ live = m.live
    /\ jh = [h \in Heads |-> [leb |-> None, offs |-> 0, used |-> 0, by |-> None]]
    /\ gc_lnum = m.gc_lnum /\ idx_gc = {} /\ buds = {} /\ old_buds = {}
    /\ bi = Recalculated([idx |-> 0, data |-> 0, dd |-> 0, uncommitted |-> 0, old |-> size,
                          min_idx |-> 0, nospace |-> FALSE, nospace_rp |-> FALSE])
    /\ dirty_zn = 0 /\ calc_idx_sz = size
    /\ old_idx = [l \in LEBs |-> 0] /\ dirty_idx = {}
    /\ th = [t \in Threads |-> Idle] /\ gc = NoGc
    /\ cmt = [pc |-> "rest", ihead |-> m.ihead, left |-> 0, ilebs |-> {}, gaps |-> {},
              full |-> {}, nxt |-> {}]
    /\ lp_mutex = Unlocked

\* Init, by its parts.
LEMMA InitStarts ==
    ASSUME Init
    PROVE  \E m, lp, size : Start(m, lp, size)
BY ZenonT(60) DEF Init, Start, FirstLp

\* The LEB properties of a mount.
MountLp(m, lp) ==
    /\ m \in Mounts
    /\ lp \in [LEBs -> Props]
    /\ \A l \in LEBs : /\ InCategory(lp[l])
                       /\ lp[l].free = m.lp[l].free /\ lp[l].dirty = m.lp[l].dirty
                       /\ lp[l].index = m.lp[l].index
                       /\ lp[l].taken <=> l = m.gc_lnum \/ l = m.ihead

\* The LEB properties are in their categories.
LEMMA StartLp ==
    ASSUME NEW m, NEW lp, NEW size, Start(m, lp, size)
    PROVE  MountLp(m, lp)
<1>1. m \in Mounts BY DEF Start
<1>2. PICK b : b = [l \in LEBs |-> Uncategorized(m.lp[l], l \in {m.gc_lnum, m.ihead})] OBVIOUS
<1>3. ASSUME NEW l \in LEBs
      PROVE  /\ b[l] \in NewProps /\ b[l].cat = "none"
             /\ b[l].free = m.lp[l].free /\ b[l].dirty = m.lp[l].dirty
             /\ b[l].index = m.lp[l].index
             /\ b[l].taken <=> l = m.gc_lnum \/ l = m.ihead
  <2>1. PICK p : p = m.lp[l] OBVIOUS
  <2>2. PICK k \in BOOLEAN : k = (l \in {m.gc_lnum, m.ihead})
    <3>1. CASE l \in {m.gc_lnum, m.ihead} BY <3>1
    <3>2. CASE ~(l \in {m.gc_lnum, m.ihead})
      <4>1. PICK c \in BOOLEAN : c = FALSE OBVIOUS
      <4>2. PICK d \in BOOLEAN : d <=> l \in {m.gc_lnum, m.ihead} BY <3>2, <4>1
      <4> QED BY <3>2, <4>2
    <3> QED BY <3>1, <3>2
  <2> QED BY <1>1, <1>2, <2>1, <2>2, MountAssumption DEF NewProps, Uncategorized
<1>4. /\ lp \in [LEBs -> Props]
      /\ \A l \in LEBs : SameSpace(lp[l], b[l]) /\ InCategory(lp[l])
  BY <1>2, <1>3, FirstCategories DEF Start, FirstLp
<1> QED BY <1>1, <1>3, <1>4 DEF MountLp, SameSpace

\* The counters of a mount are exact.
LEMMA StartCounts ==
    ASSUME NEW m, NEW lp, NEW size, Start(m, lp, size)
    PROVE  CountInv
<1>1. MountLp(m, lp) BY StartLp
<1>2. lp \in [LEBs -> Props] /\ \A l \in LEBs : InCategory(lp[l]) BY <1>1 DEF MountLp
<1>3. PICK c : c = Counted(lp) OBVIOUS
<1>4. CountsOf(c, lp) BY <1>3, CountedIs
<1>5. sp = [lp |-> lp, lst |-> c, dirty |-> FALSE] BY <1>3 DEF Start
<1>6. \A f \in Terms : Total(f, lp) \in Int BY <1>2, TotalType
<1>7. c \in Lst BY <1>4, <1>6 DEF Lst, CountsOf, Terms
<1>8. /\ \A f \in {"empty", "idx", "used", "dead", "dark", "freeable"} : c[f] = Total(f, lp)
      /\ c.taken = Total("taken", lp) + 0 /\ c.idx_gc = 0
  <2>1. PICK x : x = Total("taken", lp) OBVIOUS
  <2> QED BY <1>4, <1>6, <2>1 DEF CountsOf, Terms
<1>9. SpOk(sp, 0, 0) BY <1>2, <1>5, <1>7, <1>8 DEF SpOk, SpType
<1>10. calc_idx_sz = Total("size", sp.lp)
  <2>1. PICK v, w : /\ v = [l \in LEBs |-> IF m.lp[l].index THEN LebSize - Spc(m.lp[l]) ELSE 0]
                    /\ w = [l \in LEBs |-> Term("size", lp[l])] OBVIOUS
  <2> QED BY <1>1, <1>5, <2>1 DEF SumFunction, Term, MountLp, Spc, Start, Total
<1> QED BY <1>9, <1>10, FS_EmptySet, UnlockedIs DEF CountInv, Start, Twice, Num, GcLebs

\* Nothing is held.
LEMMA StartBudget ==
    ASSUME NEW m, NEW lp, NEW size, Start(m, lp, size)
    PROVE  BudgetInv
<1>1. size \in Int BY StartCounts, StartLp, TotalType DEF CountInv, Start, Terms, MountLp
<1>2. PICK b : b = [idx |-> 0, data |-> 0, dd |-> 0, uncommitted |-> 0, old |-> size,
                    min_idx |-> 0, nospace |-> FALSE, nospace_rp |-> FALSE] OBVIOUS
<1>3. b \in BudgetType /\ b.idx = 0 /\ b.data = 0 /\ b.dd = 0 BY <1>1, <1>2 DEF BudgetType
<1>4. ASSUME NEW f \in {"idx", "data", "dd"} PROVE HeldOf(f, th) = 0
  <2>1. PICK w : w = [t \in Threads |-> th[t].held[f]] OBVIOUS
  <2>2. \A t \in Threads : w[t] = 0 BY <2>1, IdleIs DEF Start, NoGrowth
  <2>3. PICK A : A = {} OBVIOUS
  <2> QED BY <2>1, <2>2, <2>3, SumCounts, SizeAssumption, FS_EmptySet DEF HeldOf
<1> QED BY <1>2, <1>3, <1>4, RecalculatedIs, BudgetIsInv DEF BudgetIs, Start

\* The LEBs that are taken at a mount.
LEMMA StartOwn ==
    ASSUME NEW m, NEW lp, NEW size, Start(m, lp, size)
    PROVE  OwnInv
<1>1. /\ m \in Mounts /\ lp \in [LEBs -> Props]
      /\ \A l \in LEBs : /\ lp[l].free = m.lp[l].free /\ lp[l].dirty = m.lp[l].dirty
                         /\ lp[l].index = m.lp[l].index
                         /\ lp[l].taken <=> l = m.gc_lnum \/ l = m.ihead BY StartLp DEF MountLp
<1>2. PICK g, i : g = m.gc_lnum /\ i = m.ihead OBVIOUS
<1>3. /\ g \in LEBs /\ i \in LEBs /\ lp[i].index
      /\ m.lp[g] = [free |-> LebSize, dirty |-> 0, index |-> FALSE]
      /\ m.live \in [LEBs -> [Sizes -> Nat]] BY <1>1, <1>2, MountAssumption
<1>4. lp[g].free = LebSize /\ lp[g].dirty = 0 /\ ~lp[g].index /\ g # i BY <1>1, <1>3
<1>5. PICK f : f = [l \in LEBs |-> IF l = g THEN <<"reserved", 0>> ELSE IF l = i THEN <<"ihead", 0>> ELSE Nobody]
  OBVIOUS
<1>6. /\ sp.lp = lp /\ live = m.live /\ old_idx = [l \in LEBs |-> 0]
      /\ gc_lnum = g /\ idx_gc = {} /\ buds = {} /\ old_buds = {}
      /\ jh = [h \in Heads |-> [leb |-> None, offs |-> 0, used |-> 0, by |-> None]]
      /\ th = [t \in Threads |-> Idle]
      /\ cmt.ihead = i /\ cmt.ilebs = {} /\ cmt.gaps = {} /\ cmt.full = {} BY <1>2 DEF Start
<1>7. PICK o : o = Places OBVIOUS
<1>8. /\ o.head = [h \in Heads |-> None] /\ o.thread = [t \in Threads |-> None]
      /\ o.reserved = g /\ o.ihead = i /\ o.garbage = None /\ o.erase = {} /\ o.bud = {} /\ o.old = {}
      /\ o.layout = {} /\ o.written = {} /\ o.taken = {g, i}
  <2>1. {l \in LEBs : sp.lp[l].taken} = {g, i} BY <1>1, <1>2, <1>3, <1>6
  <2>2. /\ o.reserved = gc_lnum /\ o.ihead = cmt.ihead /\ o.garbage = gc.leb /\ o.erase = GcLebs
        /\ o.bud = buds \ HeadLebs /\ o.old = old_buds /\ o.layout = cmt.ilebs
        /\ o.written = cmt.gaps \cup cmt.full BY <1>7 DEF Places
  <2> QED BY <1>6, <1>7, <2>1, <2>2, IdleIs DEF Start, NoGc, Places, GcLebs
<1>9. o \in PlaceType BY <1>3, <1>7, <1>8 DEF PlaceType, Places, Maybe
<1>10. ASSUME NEW l \in LEBs
       PROVE  /\ \A h \in Heads : f[l] = <<"head", h>> <=> o.head[h] = l
              /\ \A t \in Threads : f[l] = <<"thread", t>> <=> o.thread[t] = l
              /\ f[l] = <<"reserved", 0>> <=> o.reserved = l
              /\ f[l] = <<"ihead", 0>> <=> o.ihead = l
              /\ f[l] = <<"garbage", 0>> <=> o.garbage = l
              /\ f[l] = <<"erase", 0>> <=> l \in o.erase
              /\ f[l] = <<"bud", 0>> <=> l \in o.bud
              /\ f[l] = <<"old", 0>> <=> l \in o.old
              /\ f[l] = <<"layout", 0>> <=> l \in o.layout
              /\ f[l] = <<"written", 0>> <=> l \in o.written
              /\ f[l] = Nobody <=> l \notin o.taken
  <2>1. l # None BY SpaceAssumption
  <2>2. CASE l = g BY <1>4, <1>5, <1>8, <2>1, <2>2 DEF Nobody
  <2>3. CASE l = i BY <1>4, <1>5, <1>8, <2>1, <2>3 DEF Nobody
  <2>4. CASE l # g /\ l # i BY <1>5, <1>8, <2>1, <2>4 DEF Nobody
  <2> QED BY <2>2, <2>3, <2>4
<1>11. ASSUME NEW l \in LEBs PROVE LebOk(sp.lp[l], Size(live[l]), old_idx[l], f[l], Wbuf(f[l]))
  <2>1. PICK p, n, q : p = sp.lp[l] /\ n = Size(live[l]) /\ q = f[l] OBVIOUS
  <2>2. /\ p \in Props /\ p.free = m.lp[l].free /\ p.dirty = m.lp[l].dirty /\ p.index = m.lp[l].index
    BY <1>1, <1>6, <2>1
  <2>3. IF p.index THEN /\ Spc(p) <= LebSize /\ n = 0 /\ (p.free = LebSize => l = i)
        ELSE Spc(p) + n = LebSize BY <1>1, <1>2, <1>6, <2>1, <2>2, MountAssumption DEF Spc
  <2>4. n \in Int
    <3>1. PICK v : v = live[l] OBVIOUS
    <3> QED BY <1>3, <1>6, <2>1, <3>1, SizeType DEF Nodes
  <2> QED BY <1>3, <1>4, <1>5, <1>6, <2>1, <2>2, <2>3, <2>4, SizeAssumption DEF Wbuf, LebOk, Props, Spc, Nobody
<1> QED BY <1>5, <1>7, <1>9, <1>10, <1>11 DEF OwnInv, LebsOk, OwnOk, Where, Spots, Nobody

\* A mount has the inductive invariant.
LEMMA StartIs ==
    ASSUME NEW m, NEW lp, NEW size, Start(m, lp, size)
    PROVE  IInv
<1>1. MountLp(m, lp) BY StartLp
<1>2. HeadInv BY DEF HeadInv, HeadOk, HeadType, Maybe, Start
<1>3. DataInv BY <1>1, MountAssumption, UnlockedIs DEF DataInv, MountLp, Start
<1>4. ThreadInv
  <2>1. th = [t \in Threads |-> Idle] BY DEF Start
  <2>2. \E u : th \in [Threads -> u] BY <2>1
  <2> QED BY <2>1, <2>2, IdleIs DEF ThreadInv, ThOk, Finding
<1>5. GcInv
  BY <1>1, SizeAssumption, SpaceAssumption, MountAssumption DEF GcInv, Start, NoGc, GcType, Maybe, GcPcs, Errs,
     MountLp
<1>6. CmtInv BY <1>1, MountAssumption DEF CmtInv, Exclusive, CmtType, CmtPcs, MountLp, Start
<1>7. EraseInv BY DEF EraseInv, Start
<1> QED BY <1>2, <1>3, <1>4, <1>5, <1>6, <1>7, StartOwn, StartCounts, StartBudget DEF IInv

\* The inductive invariant holds at the start.
LEMMA InitIs ==
    ASSUME Init
    PROVE  IInv
BY InitStarts, StartIs

\* LEBs are taken while one and only one has them, and counters and budgets
\* agree with the LEBs.
THEOREM SpaceAgrees == Spec => []SpaceInv
<1>1. Init => IInv BY InitIs
<1>2. IInv /\ [Next]_vars => IInv' BY NextKeeps
<1>3. IInv => SpaceInv BY SpaceInvHolds
<1> QED BY <1>1, <1>2, <1>3, PTL DEF Spec

=============================================================================
