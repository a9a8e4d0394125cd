--------------------------- MODULE TranslateProofs --------------------------
(***************************************************************************)
(* Proofs about translate_task: whatever the groups, the conditions and    *)
(* the effects, what is written to output.sas says of the values of the    *)
(* variables what the ground task says of its atoms.                       *)
(***************************************************************************)
EXTENDS Translate, FiniteSetTheorems, WellFoundedInduction, TLAPS

-----------------------------------------------------------------------------
(* Numbers.                                                                *)

\* A set of naturals has a least element.
LEMMA LeastNumber ==
  ASSUME NEW T \in SUBSET Nat, T # {}
  PROVE  \E m \in T : \A k \in T : m <= k
<1>. DEFINE R == OpToRel(<, Nat)
<1>1. PICK m \in T : \A k \in T : <<k, m>> \notin R
  BY NatLessThanWellFounded, WFMin, Zenon
<1>2. ASSUME NEW k \in T PROVE m <= k
  <2>. SUFFICES ASSUME k < m PROVE FALSE
    OBVIOUS
  <2>1. <<k, m>> \in Nat \X Nat /\ <<k, m>>[1] < <<k, m>>[2]
    OBVIOUS
  <2>. QED
    BY <2>1, <1>1 DEF OpToRel
<1>. QED
  BY <1>2

\* Induction: a set with 0 and the successors of its elements has every number.
LEMMA Induction ==
  ASSUME NEW S, 0 \in S, \A n \in Nat : n \in S => n + 1 \in S
  PROVE  Nat \subseteq S
<1>. SUFFICES ASSUME Nat \ S # {} PROVE FALSE
  OBVIOUS
<1>1. PICK n \in Nat \ S : \A k \in Nat \ S : n <= k
  BY LeastNumber
<1>2. n # 0 /\ n - 1 \in Nat /\ n - 1 \in S
  BY <1>1
<1>3. (n - 1) + 1 \in S
  BY <1>2
<1>. QED
  BY <1>1, <1>2, <1>3

-----------------------------------------------------------------------------
(* Values stand for atoms.                                                 *)

\* The groups of a dictionary: lists of atoms without repetitions.
WellGrouped(groups) ==
  groups \in Seq(Seq(AtomsOf(groups))) /\ \A v \in DOMAIN groups : IsInjective(groups[v])

\* The values of the variables that stand for the true atoms of a state.
Represents(groups, w, s) ==
  /\ DOMAIN w = DOMAIN groups
  /\ \A v \in DOMAIN groups :
       /\ w[v] \in Values(groups, v)
       /\ \A j \in DOMAIN groups[v] : (w[v] = j - 1) <=> (groups[v][j] \in s)

TrueAt(C, w) == \A p \in C : w[p[1]] = p[2]

LEMMA GroupFacts ==
  ASSUME NEW G, WellGrouped(G), NEW v \in DOMAIN G
  PROVE  /\ v \in Nat /\ Len(G[v]) \in Nat /\ DOMAIN G[v] = 1..Len(G[v])
         /\ \A j \in DOMAIN G[v] : G[v][j] \in AtomsOf(G)
         /\ \A i, j \in DOMAIN G[v] : G[v][i] = G[v][j] => i = j
  BY DEF WellGrouped, IsInjective

LEMMA PairFacts ==
  ASSUME NEW G, NEW a, NEW p
  PROVE  p \in Pairs(G, a) <=> \E v, j : v \in DOMAIN G /\ j \in DOMAIN G[v] /\ G[v][j] = a /\ p = <<v, j - 1>>
  BY DEF Pairs

LEMMA PairOfAtom ==
  ASSUME NEW G, NEW a
  PROVE  Pairs(G, a) # {} <=> a \in AtomsOf(G)
<1>1. a \in AtomsOf(G) <=> \E v \in DOMAIN G : \E j \in DOMAIN G[v] : G[v][j] = a
  BY DEF AtomsOf, ToSet
<1>2. ASSUME NEW p \in Pairs(G, a) PROVE a \in AtomsOf(G)
  BY <1>1, PairFacts
<1>3. ASSUME NEW v \in DOMAIN G, NEW j \in DOMAIN G[v], G[v][j] = a PROVE <<v, j - 1>> \in Pairs(G, a)
  BY <1>3, PairFacts
<1>. QED
  BY <1>1, <1>2, <1>3

\* A pair of an atom is true when the atom is.
LEMMA PairTrue ==
  ASSUME NEW G, WellGrouped(G), NEW w, NEW s, Represents(G, w, s), NEW a, NEW p \in Pairs(G, a)
  PROVE  /\ p[1] \in DOMAIN G /\ p = <<p[1], p[2]>>
         /\ p[2] \in Values(G, p[1]) /\ p[2] # NoneOfThose(G, p[1])
         /\ (w[p[1]] = p[2]) <=> (a \in s)
         /\ \A q \in Pairs(G, a) : q[1] = p[1] => q = p
<1>1. PICK v, j : v \in DOMAIN G /\ j \in DOMAIN G[v] /\ G[v][j] = a /\ p = <<v, j - 1>>
  BY PairFacts
<1>2. p[1] = v /\ p[2] = j - 1
  BY <1>1
<1>3. ASSUME NEW q \in Pairs(G, a), q[1] = p[1] PROVE q = p
  <2>1. PICK u, i : u \in DOMAIN G /\ i \in DOMAIN G[u] /\ G[u][i] = a /\ q = <<u, i - 1>>
    BY PairFacts
  <2>. QED
    BY <1>1, <1>2, <1>3, <2>1, GroupFacts
<1>. QED
  BY <1>1, <1>2, <1>3, GroupFacts DEF Represents, Values, NoneOfThose

LEMMA PairsApart ==
  ASSUME NEW G, WellGrouped(G), NEW a, NEW p \in Pairs(G, a), NEW q \in Pairs(G, a), q[1] = p[1]
  PROVE  q = p
<1>1. PICK v, j : v \in DOMAIN G /\ j \in DOMAIN G[v] /\ G[v][j] = a /\ p = <<v, j - 1>>
  BY PairFacts
<1>2. PICK u, i : u \in DOMAIN G /\ i \in DOMAIN G[u] /\ G[u][i] = a /\ q = <<u, i - 1>>
  BY PairFacts
<1>. QED
  BY <1>1, <1>2, GroupFacts

\* A state with at most one atom of every group is represented by some values.
LEMMA SomethingRepresents ==
  ASSUME NEW G, WellGrouped(G), NEW s, Strips!Exclusive(G, s)
  PROVE  \E w : Represents(G, w, s)
<1>. DEFINE n(v) == IF \E j \in DOMAIN G[v] : G[v][j] \in s THEN (CHOOSE j \in DOMAIN G[v] : G[v][j] \in s) - 1
                    ELSE Len(G[v])
            w == [v \in DOMAIN G |-> n(v)]
<1>1. ASSUME NEW v \in DOMAIN G
      PROVE  /\ w[v] \in Values(G, v)
             /\ \A j \in DOMAIN G[v] : (w[v] = j - 1) <=> (G[v][j] \in s)
  <2>1. w[v] = n(v)
    OBVIOUS
  <2>2. CASE \E j \in DOMAIN G[v] : G[v][j] \in s
    <3>1. PICK i \in DOMAIN G[v] : G[v][i] \in s /\ n(v) = i - 1
      BY <2>2
    <3>2. ASSUME NEW j \in DOMAIN G[v], G[v][j] \in s PROVE i = j
      <4>1. G[v][i] \in ToSet(G[v]) \cap s /\ G[v][j] \in ToSet(G[v]) \cap s
        BY <3>1, <3>2 DEF ToSet
      <4>2. G[v][i] = G[v][j]
        BY <4>1 DEF Strips!Exclusive, Strips!ToSet, ToSet
      <4>. QED
        BY <4>2, GroupFacts
    <3>. HIDE DEF n, w
    <3>. QED
      BY <2>1, <3>1, <3>2, GroupFacts DEF Values, NoneOfThose
  <2>3. CASE ~ \E j \in DOMAIN G[v] : G[v][j] \in s
    <3>1. n(v) = Len(G[v])
      BY <2>3
    <3>. HIDE DEF n, w
    <3>. QED
      BY <2>1, <2>3, <3>1, GroupFacts DEF Values, NoneOfThose
  <2>. QED
    BY <2>2, <2>3
<1>2. DOMAIN w = DOMAIN G
  OBVIOUS
<1>. HIDE DEF w
<1>. QED
  BY <1>1, <1>2 DEF Represents

\* The atoms of its group that are true decide the value of a variable.
LEMMA RepresentsOnce ==
  ASSUME NEW G, WellGrouped(G), NEW w, NEW u, NEW s, NEW r, Represents(G, w, s), Represents(G, u, r),
         NEW v \in DOMAIN G, \A j \in DOMAIN G[v] : G[v][j] \in s <=> G[v][j] \in r
  PROVE  w[v] = u[v]
<1>1. ASSUME NEW x, NEW y, NEW X, NEW Y, Represents(G, x, X), Represents(G, y, Y), x[v] # Len(G[v]),
             \A j \in DOMAIN G[v] : G[v][j] \in X <=> G[v][j] \in Y
      PROVE  x[v] = y[v]
  <2>1. x[v] + 1 \in DOMAIN G[v] /\ (x[v] + 1) - 1 = x[v]
    BY <1>1, GroupFacts DEF Represents, Values, NoneOfThose
  <2>. QED
    BY <1>1, <2>1 DEF Represents
<1>. QED
  BY <1>1

-----------------------------------------------------------------------------
(* translate_strips_conditions_aux.                                        *)

\* The literals that the dictionary knows hold.
Known(l, groups, s) == l.atom \in AtomsOf(groups) => Holds(l, s)

\* Values of some of the variables.
Fits(A, w) == \A v \in DOMAIN A : w[v] \in A[v]

LEMMA ElementOfSeq ==
  ASSUME NEW S, NEW C \in Seq(S)
  PROVE  /\ \A i \in DOMAIN C : C[i] \in S
         /\ Len(C) \in Nat /\ DOMAIN C = 1..Len(C) /\ (C = <<>> <=> Len(C) = 0)
  OBVIOUS

LEMMA LiteralFacts ==
  ASSUME NEW A, NEW l \in LiteralsOver(A), NEW s
  PROVE  /\ ~ l.negated => (Holds(l, s) <=> l.atom \in s)
         /\ l.negated => (Holds(l, s) <=> l.atom \notin s)
         /\ l.atom \in A
<1>1. l.negated \in BOOLEAN /\ l.atom \in A
  BY DEF LiteralsOver
<1>2. Holds(l, s) <=> ((l.atom \in s) <=> ~ l.negated)
  BY <1>1, SMT DEF Holds
<1>. QED
  BY <1>1, <1>2

LEMMA PositiveMeaning ==
  ASSUME NEW G, WellGrouped(G), NEW w, NEW s, Represents(G, w, s),
         NEW A, NEW C \in Seq(LiteralsOver(A))
  PROVE  /\ DOMAIN PositiveValues(C, G) \subseteq DOMAIN G
         /\ Fits(PositiveValues(C, G), w)
              <=> \A i \in DOMAIN C : ~ C[i].negated => Known(C[i], G, s)
<1>. DEFINE pairs == UNION {Pairs(G, a) : a \in Atoms(C)}
            P == PositiveValues(C, G)
<1>1. /\ DOMAIN P = {p[1] : p \in pairs}
      /\ \A v \in DOMAIN P : P[v] = {n \in Values(G, v) : \A p \in pairs : p[1] = v => p[2] = n}
  BY DEF PositiveValues
<1>2. \A p : p \in pairs <=> \E a \in Atoms(C) : p \in Pairs(G, a)
  OBVIOUS
<1>3. \A a : a \in Atoms(C) <=> \E i \in DOMAIN C : ~ C[i].negated /\ C[i].atom = a
  BY DEF Atoms
<1>. HIDE DEF pairs, P
<1>4. DOMAIN P \subseteq DOMAIN G
  BY <1>1, <1>2, PairTrue
<1>5. ASSUME Fits(P, w), NEW i \in DOMAIN C, ~ C[i].negated, C[i].atom \in AtomsOf(G)
      PROVE  C[i].atom \in s
  <2>1. PICK p : p \in Pairs(G, C[i].atom)
    BY <1>5, PairOfAtom
  <2>2. p \in pairs /\ p[1] \in DOMAIN P
    BY <1>1, <1>2, <1>3, <1>5, <2>1
  <2>3. w[p[1]] \in P[p[1]]
    BY <1>5, <2>2 DEF Fits
  <2>4. w[p[1]] = p[2]
    BY <1>1, <2>2, <2>3
  <2>. QED
    BY <2>1, <2>4, PairTrue
<1>6. ASSUME \A i \in DOMAIN C : ~ C[i].negated /\ C[i].atom \in AtomsOf(G) => C[i].atom \in s
      PROVE  Fits(P, w)
  <2>. SUFFICES ASSUME NEW v \in DOMAIN P PROVE w[v] \in P[v]
    BY DEF Fits
  <2>1. w[v] \in Values(G, v)
    BY <1>4 DEF Represents
  <2>2. ASSUME NEW p \in pairs, p[1] = v PROVE p[2] = w[v]
    <3>1. PICK i \in DOMAIN C : ~ C[i].negated /\ p \in Pairs(G, C[i].atom)
      BY <1>2, <1>3
    <3>2. C[i].atom \in s
      BY <1>6, <3>1, PairOfAtom
    <3>. QED
      BY <2>2, <3>1, <3>2, PairTrue
  <2>. QED
    BY <1>1, <2>1, <2>2
<1>7. \A i \in DOMAIN C : ~ C[i].negated => (Holds(C[i], s) <=> C[i].atom \in s)
  <2>1. \A i \in DOMAIN C : C[i] \in LiteralsOver(A)
    BY ElementOfSeq
  <2>. QED
    BY <2>1, LiteralFacts
<1>. QED
  BY <1>4, <1>5, <1>6, <1>7 DEF P, Known

\* candidates[0]: among the pairs of an atom there is one of a smallest variable.
LEMMA SmallestIsOne ==
  ASSUME NEW G, WellGrouped(G), NEW a, Pairs(G, a) # {}
  PROVE  Smallest(Pairs(G, a), G) \in Pairs(G, a)
<1>. DEFINE pairs == Pairs(G, a)
            size(p) == NoneOfThose(G, p[1])
            sizes == {size(p) : p \in pairs}
<1>1. ASSUME NEW p \in pairs PROVE p[1] \in Nat /\ size(p) \in Nat
  <2>1. PICK v, j : v \in DOMAIN G /\ j \in DOMAIN G[v] /\ p = <<v, j - 1>>
    BY PairFacts
  <2>. QED
    BY <2>1, GroupFacts DEF NoneOfThose
<1>. HIDE DEF size
<1>2. PICK m \in sizes : \A k \in sizes : m <= k
  <2>1. sizes \in SUBSET Nat /\ sizes # {}
    BY <1>1
  <2>. HIDE DEF sizes
  <2>. QED
    BY <2>1, LeastNumber
<1>. DEFINE firsts == {p[1] : p \in {q \in pairs : size(q) = m}}
<1>3. PICK n \in firsts : \A k \in firsts : n <= k
  <2>1. firsts \in SUBSET Nat /\ firsts # {}
    BY <1>1, <1>2
  <2>. HIDE DEF firsts
  <2>. QED
    BY <2>1, LeastNumber
<1>4. PICK p \in pairs : size(p) = m /\ p[1] = n
  BY <1>3
<1>5. ASSUME NEW q \in pairs PROVE size(p) < size(q) \/ (size(p) = size(q) /\ p[1] <= q[1])
  <2>1. size(q) \in sizes /\ m \in Nat /\ size(q) \in Nat
    BY <1>1, <1>2
  <2>2. m <= size(q) /\ (size(q) = m => q[1] \in firsts)
    BY <1>2, <2>1
  <2>. HIDE DEF sizes, firsts
  <2>3. size(q) = m => n <= q[1]
    BY <1>3, <2>2
  <2>. QED
    BY <1>4, <2>1, <2>2, <2>3
<1>. QED
  BY <1>4, <1>5 DEF Smallest, size

LEMMA ExcludedMeaning ==
  ASSUME NEW G, WellGrouped(G), NEW w, NEW s, Represents(G, w, s), NEW a, NEW A, DOMAIN A \subseteq DOMAIN G
  PROVE  /\ DOMAIN Excluded(A, a, G) \subseteq DOMAIN G
         /\ Fits(Excluded(A, a, G), w) <=> Fits(A, w) /\ (a \in AtomsOf(G) => a \notin s)
<1>. DEFINE pairs == Pairs(G, a)
            free == Smallest(pairs, G)
            E == Excluded(A, a, G)
<1>1. CASE pairs = {}
  BY <1>1, PairOfAtom DEF Excluded
<1>2. CASE \E p \in pairs : p[1] \in DOMAIN A
  <2>1. PICK p \in pairs : p[1] \in DOMAIN A
    BY <1>2
  <2>2. E = [v \in DOMAIN A |-> {n \in A[v] : <<v, n>> \notin pairs}]
    BY <1>2 DEF Excluded
  <2>3. DOMAIN E = DOMAIN A /\ \A v \in DOMAIN A : \A n : n \in E[v] <=> n \in A[v] /\ <<v, n>> \notin pairs
    BY <2>2
  <2>4. a \in AtomsOf(G)
    BY <1>2, PairOfAtom
  <2>5. ASSUME NEW v \in DOMAIN A, <<v, w[v]>> \in pairs PROVE a \in s
    <3>. DEFINE q == <<v, w[v]>>
    <3>1. q \in pairs /\ q[1] = v /\ q[2] = w[v]
      BY <2>5
    <3>. HIDE DEF q
    <3>. QED
      BY <3>1, PairTrue
  <2>6. a \in s => <<p[1], w[p[1]]>> \in pairs
    BY <2>1, PairTrue
  <2>. HIDE DEF E, pairs
  <2>7. Fits(E, w) <=> Fits(A, w) /\ a \notin s
    BY <2>1, <2>3, <2>5, <2>6 DEF Fits
  <2>. QED
    BY <2>3, <2>4, <2>7 DEF E
<1>3. CASE pairs # {} /\ \A p \in pairs : p[1] \notin DOMAIN A
  <2>1. free \in pairs
    BY <1>3, SmallestIsOne
  <2>2. E = [v \in DOMAIN A \cup {free[1]} |-> IF v = free[1] THEN Values(G, v) \ {free[2]} ELSE A[v]]
    BY <1>3 DEF Excluded
  <2>3. free[1] \in DOMAIN G /\ free[1] \notin DOMAIN A /\ ((w[free[1]] = free[2]) <=> a \in s)
    BY <1>3, <2>1, PairTrue
  <2>4. w[free[1]] \in Values(G, free[1]) /\ a \in AtomsOf(G)
    BY <1>3, <2>3, PairOfAtom DEF Represents
  <2>. HIDE DEF E, pairs, free
  <2>5. /\ DOMAIN E = DOMAIN A \cup {free[1]} /\ E[free[1]] = Values(G, free[1]) \ {free[2]}
        /\ \A v \in DOMAIN A : E[v] = A[v]
    BY <2>2, <2>3
  <2>6. Fits(E, w) <=> Fits(A, w) /\ a \notin s
    BY <2>3, <2>4, <2>5 DEF Fits
  <2>. QED
    BY <2>3, <2>4, <2>5, <2>6 DEF E
<1>. QED
  BY <1>1, <1>2, <1>3

\* The values that Allowed goes through.
Step(A, l, groups) == IF l.negated THEN Excluded(A, l.atom, groups) ELSE A

Folded(f, n, C, groups) ==
  f = [k \in 0..n |-> IF k = 0 THEN PositiveValues(C, groups) ELSE Step(f[k - 1], C[k], groups)]

LEMMA FoldedExists ==
  ASSUME NEW C, NEW G
  PROVE  \A n \in Nat : \E f : Folded(f, n, C, G)
<1>. DEFINE S == {n \in Nat : \E f : Folded(f, n, C, G)}
<1>1. 0 \in S
  <2>. DEFINE f == [k \in 0..0 |-> PositiveValues(C, G)]
  <2>1. f = [k \in 0..0 |-> IF k = 0 THEN PositiveValues(C, G) ELSE Step(f[k - 1], C[k], G)]
    OBVIOUS
  <2>2. Folded(f, 0, C, G)
    BY <2>1 DEF Folded
  <2>. QED
    BY <2>2
<1>2. ASSUME NEW n \in Nat, n \in S PROVE n + 1 \in S
  <2>1. PICK f : Folded(f, n, C, G)
    BY <1>2
  <2>. DEFINE last == Step(f[n], C[n + 1], G)
              g == [k \in 0..(n + 1) |-> IF k = n + 1 THEN last ELSE f[k]]
              h(k) == IF k = 0 THEN PositiveValues(C, G) ELSE Step(g[k - 1], C[k], G)
  <2>2. ASSUME NEW k \in 0..(n + 1) PROVE g[k] = h(k)
    <3>1. CASE k = n + 1
      <4>1. k - 1 = n /\ g[k - 1] = f[n] /\ g[k] = last /\ k # 0
        BY <3>1
      <4>. HIDE DEF g
      <4>. QED
        BY <3>1, <4>1
    <3>2. CASE k # n + 1
      <4>1. k \in 0..n /\ g[k] = f[k] /\ (k # 0 => k - 1 \in 0..n /\ g[k - 1] = f[k - 1])
        BY <3>2
      <4>2. f[k] = IF k = 0 THEN PositiveValues(C, G) ELSE Step(f[k - 1], C[k], G)
        BY <2>1, <4>1 DEF Folded
      <4>. HIDE DEF g
      <4>. QED
        BY <4>1, <4>2
    <3>. QED
      BY <3>1, <3>2
  <2>3. g = [k \in 0..(n + 1) |-> g[k]]
    OBVIOUS
  <2>4. g = [k \in 0..(n + 1) |-> h(k)]
    <3>. HIDE DEF g, h
    <3>. QED
      BY <2>2, <2>3
  <2>5. Folded(g, n + 1, C, G)
    BY <2>4 DEF Folded
  <2>. QED
    BY <2>5
<1>3. Nat \subseteq S
  <2>. HIDE DEF S
  <2>. QED
    BY <1>1, <1>2, Induction
<1>. QED
  BY <1>3

LEMMA AllowedIsFolded ==
  ASSUME NEW C, NEW G, Len(C) \in Nat
  PROVE  Folded(Allowed(C, G), Len(C), C, G)
<1>1. Allowed(C, G) = CHOOSE f : Folded(f, Len(C), C, G)
  BY DEF Allowed, Folded, Step
<1>2. \E f : Folded(f, Len(C), C, G)
  BY FoldedExists
<1>. QED
  BY <1>1, <1>2, Zenon

LEMMA AllowedMeaning ==
  ASSUME NEW G, WellGrouped(G), NEW w, NEW s, Represents(G, w, s), NEW A, NEW C \in Seq(LiteralsOver(A))
  PROVE  Fits(Allowed(C, G)[Len(C)], w) <=> \A l \in ToSet(C) : Known(l, G, s)
<1>. DEFINE f == Allowed(C, G)
            Holding(k) == \A i \in DOMAIN C : ~ C[i].negated \/ i <= k => Known(C[i], G, s)
            Right(k) == DOMAIN f[k] \subseteq DOMAIN G /\ (Fits(f[k], w) <=> Holding(k))
            S == {k \in Nat : k <= Len(C) => Right(k)}
<1>1. Len(C) \in Nat /\ DOMAIN C = 1..Len(C) /\ \A i \in DOMAIN C : C[i] \in LiteralsOver(A)
  BY ElementOfSeq
<1>2. Folded(f, Len(C), C, G)
  BY <1>1, AllowedIsFolded
<1>. HIDE DEF f
<1>3. 0 \in S
  <2>1. f[0] = PositiveValues(C, G)
    BY <1>1, <1>2 DEF Folded
  <2>2. Holding(0) <=> \A i \in DOMAIN C : ~ C[i].negated => Known(C[i], G, s)
    BY <1>1
  <2>. QED
    BY <2>1, <2>2, PositiveMeaning
<1>4. ASSUME NEW k \in Nat, k \in S PROVE k + 1 \in S
  <2>. SUFFICES ASSUME k + 1 <= Len(C) PROVE Right(k + 1)
    OBVIOUS
  <2>. DEFINE l == C[k + 1]
  <2>1. Right(k) /\ k + 1 \in DOMAIN C /\ l \in LiteralsOver(A)
    BY <1>1, <1>4
  <2>2. f[k + 1] = Step(f[k], l, G)
    BY <1>1, <1>2 DEF Folded
  <2>3. Holding(k + 1) <=> Holding(k) /\ (l.negated => Known(l, G, s))
    BY <1>1, <2>1
  <2>. HIDE DEF Holding, l
  <2>4. CASE ~ l.negated
    BY <2>1, <2>2, <2>3, <2>4 DEF Step
  <2>5. CASE l.negated
    <3>1. f[k + 1] = Excluded(f[k], l.atom, G)
      BY <2>2, <2>5 DEF Step
    <3>2. Known(l, G, s) <=> (l.atom \in AtomsOf(G) => l.atom \notin s)
      BY <2>1, <2>5, LiteralFacts DEF Known
    <3>3. /\ DOMAIN Excluded(f[k], l.atom, G) \subseteq DOMAIN G
          /\ Fits(Excluded(f[k], l.atom, G), w)
               <=> Fits(f[k], w) /\ (l.atom \in AtomsOf(G) => l.atom \notin s)
      BY <2>1, ExcludedMeaning
    <3>. QED
      BY <2>1, <2>3, <2>5, <3>1, <3>2, <3>3
  <2>. QED
    BY <2>4, <2>5
<1>5. Nat \subseteq S
  <2>. HIDE DEF S
  <2>. QED
    BY <1>3, <1>4, Induction
<1>6. Fits(f[Len(C)], w) <=> Holding(Len(C))
  <2>. HIDE DEF Holding
  <2>. QED
    BY <1>1, <1>5
<1>7. Holding(Len(C)) <=> \A l \in ToSet(C) : Known(l, G, s)
  BY <1>1 DEF ToSet
<1>. QED
  BY <1>6, <1>7 DEF f

\* multiply_out: the conditions are the choices of values.
LEMMA MultipliedMeaning ==
  ASSUME NEW A, NEW w
  PROVE  /\ (\E c \in MultipliedOut(A) : TrueAt(c, w)) <=> Fits(A, w)
         /\ \A c, d \in MultipliedOut(A) : TrueAt(c, w) /\ TrueAt(d, w) => c = d
<1>. DEFINE X == UNION {A[v] : v \in DOMAIN A}
            F == {g \in [DOMAIN A -> X] : \A v \in DOMAIN g : g[v] \in A[v]}
            Chosen(g) == {<<v, g[v]>> : v \in DOMAIN g}
<1>1. MultipliedOut(A) = {Chosen(g) : g \in F}
  BY DEF MultipliedOut
<1>2. ASSUME NEW g \in F
      PROVE  TrueAt(Chosen(g), w) <=> \A v \in DOMAIN A : w[v] = g[v]
  <2>1. DOMAIN g = DOMAIN A
    OBVIOUS
  <2>2. ASSUME NEW v \in DOMAIN g PROVE \E p \in Chosen(g) : p[1] = v /\ p[2] = g[v]
    <3>1. <<v, g[v]>> \in Chosen(g)
      OBVIOUS
    <3>. HIDE DEF Chosen
    <3>. QED
      BY <3>1
  <2>3. \A p \in Chosen(g) : p[1] \in DOMAIN g /\ p[2] = g[p[1]]
    OBVIOUS
  <2>. HIDE DEF F, Chosen
  <2>. QED
    BY <2>1, <2>2, <2>3 DEF TrueAt
<1>3. ASSUME Fits(A, w) PROVE \E c \in MultipliedOut(A) : TrueAt(c, w)
  <2>. DEFINE g == [v \in DOMAIN A |-> w[v]]
  <2>1. g \in F
    BY <1>3 DEF Fits
  <2>2. \A v \in DOMAIN A : w[v] = g[v]
    OBVIOUS
  <2>. HIDE DEF g, F, Chosen
  <2>. QED
    BY <1>1, <1>2, <2>1, <2>2
<1>4. ASSUME NEW g \in F, NEW h \in F, TrueAt(Chosen(g), w), TrueAt(Chosen(h), w) PROVE g = h
  <2>1. \A v \in DOMAIN A : g[v] = h[v]
    BY <1>2, <1>4
  <2>. QED
    BY <2>1
<1>5. ASSUME NEW g \in F, TrueAt(Chosen(g), w) PROVE Fits(A, w)
  <2>1. \A v \in DOMAIN A : w[v] = g[v] /\ g[v] \in A[v]
    BY <1>2, <1>5
  <2>. QED
    BY <2>1 DEF Fits
<1>. HIDE DEF F, Chosen
<1>. QED
  BY <1>1, <1>3, <1>4, <1>5

\* The disjuncts of a condition: one holds, and no other, for the values if the
\* literals that the dictionary knows hold for the atoms.
LEMMA AuxMeaning ==
  ASSUME NEW G, WellGrouped(G), NEW w, NEW s, Represents(G, w, s), NEW A, NEW C \in Seq(LiteralsOver(A))
  PROVE  /\ (\E c \in ConditionsAux(C, G) : TrueAt(c, w)) <=> \A l \in ToSet(C) : Known(l, G, s)
         /\ \A c, d \in ConditionsAux(C, G) : TrueAt(c, w) /\ TrueAt(d, w) => c = d
  BY MultipliedMeaning, AllowedMeaning DEF ConditionsAux

-----------------------------------------------------------------------------
(* translate_strips_conditions.                                            *)

\* What the proofs use of a task.
LEMMA TaskFacts ==
  ASSUME task \in Tasks
  PROVE  /\ WellGrouped(task.groups) /\ WellGrouped(task.mutex)
         /\ AtomsOf(task.mutex) \subseteq AllAtoms
         /\ task.goal \in Seq(LiteralsOver(AllAtoms \cup task.init))
         /\ \A l \in ToSet(task.goal) : l.negated => l.atom \in AllAtoms
         /\ \A x \in ToSet(task.axioms) : x.condition \in Seq(LiteralsOver(AllAtoms))
         /\ Strips!Exclusive(task.groups, task.init) => Strips!Exclusive(task.mutex, task.init)
         /\ task.axioms \in Seq(ToSet(task.axioms)) /\ task.operators \in Seq(ToSet(task.operators))
<1>. DEFINE t == task
<1>1. /\ \A groups \in {t.groups, t.mutex} :
             /\ groups \in Seq(Seq(AtomsOf(groups)))
             /\ \A v \in DOMAIN groups : IsInjective(groups[v])
             /\ AtomsOf(groups) \subseteq AtomsOf(t.groups)
      /\ t.goal \in Seq(LiteralsOver(AtomsOf(t.groups) \cup t.init))
      /\ \A l \in ToSet(t.goal) : l.negated => l.atom \in AtomsOf(t.groups)
      /\ \A x \in ToSet(t.axioms) : x.condition \in Seq(LiteralsOver(AtomsOf(t.groups)))
      /\ Strips!Exclusive(t.groups, t.init) => Strips!Exclusive(t.mutex, t.init)
      /\ t.axioms \in Seq(ToSet(t.axioms)) /\ t.operators \in Seq(ToSet(t.operators))
  BY TasksAreGround DEF TasksAssumption
<1>. QED
  BY <1>1 DEF WellGrouped, AllAtoms

LEMMA OperatorFacts ==
  ASSUME task \in Tasks, NEW op \in ToSet(task.operators)
  PROVE  /\ op.precondition \in Seq(LiteralsOver(AllAtoms)) /\ IsFiniteSet(op.add)
         /\ \A e \in op.add \cup op.del : e.atom \in AllAtoms /\ e.condition \in Seq(LiteralsOver(AllAtoms))
         /\ \A s \in Legal : Strips!Applicable(op, s) =>
              Strips!Exclusive(task.groups, Strips!Result(op, s)) /\ Strips!Exclusive(task.mutex, Strips!Result(op, s))
  BY TasksAreGround DEF TasksAssumption, AllAtoms, Legal

\* For every state that the mutex groups allow: the condition holds for the atoms
\* exactly if one of its disjuncts holds for the values, and then one only.
LEMMA ConditionsMeaning ==
  ASSUME task \in Tasks, NEW w, NEW s, Represents(task.groups, w, s), Strips!Exclusive(task.mutex, s),
         NEW A, NEW C \in Seq(LiteralsOver(A)),
         \A l \in ToSet(C) : l.atom \in AllAtoms \/ Holds(l, s)
  PROVE  /\ (\E c \in Conditions(C) : TrueAt(c, w)) <=> AllHold(ToSet(C), s)
         /\ \A c, d \in Conditions(C) : TrueAt(c, w) /\ TrueAt(d, w) => c = d
<1>1. CASE C = <<>>
  <2>1. Conditions(C) = {{}} /\ ToSet(C) = {}
    BY <1>1 DEF Conditions, ToSet
  <2>. QED
    BY <2>1 DEF TrueAt, AllHold
<1>2. CASE C # <<>>
  <2>1. AllHold(ToSet(C), s) <=> \A l \in ToSet(C) : Known(l, task.groups, s)
    BY DEF AllHold, Known, AllAtoms
  <2>2. PICK u : Represents(task.mutex, u, s)
    BY TaskFacts, SomethingRepresents
  <2>3. ConditionsAux(C, task.mutex) = {} => ~ AllHold(ToSet(C), s)
    <3>1. (\E c \in ConditionsAux(C, task.mutex) : TrueAt(c, u)) <=> \A l \in ToSet(C) : Known(l, task.mutex, s)
      BY <2>2, TaskFacts, AuxMeaning
    <3>. QED
      BY <3>1 DEF AllHold, Known
  <2>4. /\ (\E c \in ConditionsAux(C, task.groups) : TrueAt(c, w)) <=> AllHold(ToSet(C), s)
        /\ \A c, d \in ConditionsAux(C, task.groups) : TrueAt(c, w) /\ TrueAt(d, w) => c = d
    BY <2>1, TaskFacts, AuxMeaning
  <2>. QED
    BY <1>2, <2>3, <2>4 DEF Conditions
<1>. QED
  BY <1>1, <1>2

-----------------------------------------------------------------------------
(* Conditions are made of the values of the variables.                     *)

Typed(C, groups) == \A p \in C : p = <<p[1], p[2]>> /\ p[1] \in DOMAIN groups /\ p[2] \in Values(groups, p[1])

ValuesTyped(A, groups) == DOMAIN A \subseteq DOMAIN groups /\ \A v \in DOMAIN A : A[v] \subseteq Values(groups, v)

LEMMA PairTyped ==
  ASSUME NEW G, WellGrouped(G), NEW a, NEW p \in Pairs(G, a)
  PROVE  /\ p = <<p[1], p[2]>> /\ p[1] \in DOMAIN G
         /\ p[2] \in Values(G, p[1]) /\ p[2] # NoneOfThose(G, p[1]) /\ NoneOfThose(G, p[1]) \in Nat
         /\ p[2] + 1 \in DOMAIN G[p[1]] /\ G[p[1]][p[2] + 1] = a
<1>1. PICK v, j : v \in DOMAIN G /\ j \in DOMAIN G[v] /\ G[v][j] = a /\ p = <<v, j - 1>>
  BY PairFacts
<1>2. p[1] = v /\ p[2] = j - 1 /\ (j - 1) + 1 = j
  BY <1>1, GroupFacts
<1>. QED
  BY <1>1, <1>2, GroupFacts DEF Values, NoneOfThose

LEMMA StepTyped ==
  ASSUME NEW G, WellGrouped(G), NEW A, ValuesTyped(A, G), NEW l
  PROVE  ValuesTyped(Step(A, l, G), G)
<1>. DEFINE pairs == Pairs(G, l.atom)
            free == Smallest(pairs, G)
            E == Excluded(A, l.atom, G)
<1>1. CASE pairs = {}
  BY <1>1 DEF Step, Excluded
<1>2. CASE \E p \in pairs : p[1] \in DOMAIN A
  <2>1. E = [v \in DOMAIN A |-> {n \in A[v] : <<v, n>> \notin pairs}]
    BY <1>2 DEF Excluded
  <2>2. DOMAIN E = DOMAIN A /\ \A v \in DOMAIN A : E[v] \subseteq A[v]
    BY <2>1
  <2>. HIDE DEF E
  <2>3. ValuesTyped(E, G)
    BY <2>2 DEF ValuesTyped
  <2>. QED
    BY <2>3 DEF Step, E
<1>3. CASE pairs # {} /\ \A p \in pairs : p[1] \notin DOMAIN A
  <2>1. free \in pairs /\ free[1] \in DOMAIN G
    BY <1>3, SmallestIsOne, PairTyped
  <2>2. E = [v \in DOMAIN A \cup {free[1]} |-> IF v = free[1] THEN Values(G, v) \ {free[2]} ELSE A[v]]
    BY <1>3 DEF Excluded
  <2>. HIDE DEF E, free
  <2>3. ValuesTyped(E, G)
    BY <2>1, <2>2 DEF ValuesTyped
  <2>. QED
    BY <2>3 DEF Step, E
<1>. QED
  BY <1>1, <1>2, <1>3

LEMMA AuxTyped ==
  ASSUME NEW G, WellGrouped(G), NEW A, NEW C \in Seq(LiteralsOver(A)), NEW c \in ConditionsAux(C, G)
  PROVE  Typed(c, G)
<1>. DEFINE f == Allowed(C, G)
            Right(k) == ValuesTyped(f[k], G)
            S == {k \in Nat : k <= Len(C) => Right(k)}
<1>1. Len(C) \in Nat
  BY ElementOfSeq
<1>2. Folded(f, Len(C), C, G)
  BY <1>1, AllowedIsFolded
<1>. HIDE DEF f
<1>3. 0 \in S
  <2>1. f[0] = PositiveValues(C, G)
    BY <1>1, <1>2 DEF Folded
  <2>2. \A a \in Atoms(C) : \A p \in Pairs(G, a) : p[1] \in DOMAIN G
    BY PairTyped
  <2>3. ValuesTyped(PositiveValues(C, G), G)
    BY <2>2 DEF PositiveValues, ValuesTyped
  <2>. QED
    BY <2>1, <2>3
<1>4. ASSUME NEW k \in Nat, k \in S PROVE k + 1 \in S
  <2>. SUFFICES ASSUME k + 1 <= Len(C) PROVE Right(k + 1)
    OBVIOUS
  <2>1. f[k + 1] = Step(f[k], C[k + 1], G)
    BY <1>1, <1>2 DEF Folded
  <2>. QED
    BY <1>1, <1>4, <2>1, StepTyped
<1>5. Nat \subseteq S
  <2>. HIDE DEF S
  <2>. QED
    BY <1>3, <1>4, Induction
<1>6. ValuesTyped(f[Len(C)], G) /\ c \in MultipliedOut(f[Len(C)])
  BY <1>1, <1>5 DEF ConditionsAux, f
<1>. QED
  BY <1>6 DEF MultipliedOut, ValuesTyped, Typed

LEMMA ConditionsTyped ==
  ASSUME task \in Tasks, NEW A, NEW C \in Seq(LiteralsOver(A)), NEW c \in Conditions(C)
  PROVE  Typed(c, task.groups)
<1>1. CASE C = <<>>
  BY <1>1 DEF Conditions, Typed
<1>2. CASE C # <<>>
  BY <1>2, TaskFacts, AuxTyped DEF Conditions
<1>. QED
  BY <1>1, <1>2

-----------------------------------------------------------------------------
(* Sets that are read as lists.                                            *)

LEMMA ImageIsFinite ==
  ASSUME NEW f, IsFiniteSet(DOMAIN f)
  PROVE  IsFiniteSet({f[x] : x \in DOMAIN f})
<1>. DEFINE T == {f[x] : x \in DOMAIN f}
            g == [x \in DOMAIN f |-> f[x]]
<1>1. g \in Surjection(DOMAIN f, T)
  BY DEF Surjection
<1>. QED
  BY <1>1, FS_Surjection

LEMMA ListOfSet ==
  ASSUME NEW S, IsFiniteSet(S)
  PROVE  SetToSeq(S) \in Seq(S) /\ ToSet(SetToSeq(S)) = S
<1>. DEFINE n == Cardinality(S)
            f == SetToSeq(S)
<1>1. n \in Nat /\ Bijection(1..n, S) # {}
  BY FS_CardinalityType DEF ExistsBijection
<1>2. \E g \in [1..n -> S] : IsInjective(g)
  BY <1>1 DEF Bijection, Injection
<1>3. f \in [1..n -> S] /\ IsInjective(f)
  BY <1>2 DEF SetToSeq
<1>4. f \in Injection(1..n, S) /\ Cardinality(1..n) = n
  BY <1>1, <1>3, FS_Interval DEF Injection
<1>5. f \in Surjection(1..n, S)
  BY <1>4, FS_Injection
<1>6. f \in Seq(S)
  BY <1>1, <1>3
<1>. HIDE DEF f
<1>7. DOMAIN f = 1..n /\ \A x \in S : \E i \in 1..n : f[i] = x
  BY <1>3, <1>5 DEF Surjection
<1>8. ToSet(f) = S
  BY <1>3, <1>7 DEF ToSet
<1>. QED
  BY <1>6, <1>8 DEF f

-----------------------------------------------------------------------------
(* Add and delete effects.                                                 *)

\* The values stand for the atoms of a legal state.
Meets(w, s) == task \in Tasks /\ s \in Legal /\ Represents(task.groups, w, s)

LEMMA Meaning ==
  ASSUME NEW w, NEW s, Meets(w, s), NEW C \in Seq(LiteralsOver(AllAtoms))
  PROVE  /\ (\E c \in Conditions(C) : TrueAt(c, w)) <=> AllHold(ToSet(C), s)
         /\ \A c, d \in Conditions(C) : TrueAt(c, w) /\ TrueAt(d, w) => c = d
         /\ \A c \in Conditions(C) : Typed(c, task.groups)
<1>1. \A l \in ToSet(C) : l.atom \in AllAtoms
  BY ElementOfSeq, LiteralFacts DEF ToSet
<1>2. /\ task \in Tasks /\ Represents(task.groups, w, s)
      /\ Strips!Exclusive(task.mutex, s)
  BY DEF Meets, Legal
<1>. QED
  BY <1>1, <1>2, ConditionsMeaning, ConditionsTyped

\* An add effect on v triggers.
Adds(op, v, s) ==
  \E f \in op.add : AllHold(ToSet(f.condition), s) /\ \E p \in Pairs(task.groups, f.atom) : p[1] = v

LEMMA AddMeaning ==
  ASSUME NEW w, NEW s, Meets(w, s), NEW op \in ToSet(task.operators), NEW v, NEW n
  PROVE  (\E e \in AddEffects(op) : e.var = v /\ e.post = n /\ TrueAt(e.condition, w))
           <=> \E f \in op.add : AllHold(ToSet(f.condition), s) /\ <<v, n>> \in Pairs(task.groups, f.atom)
<1>. DEFINE G == task.groups
<1>1. \A f \in op.add : (\E c \in Conditions(f.condition) : TrueAt(c, w)) <=> AllHold(ToSet(f.condition), s)
  BY OperatorFacts, Meaning DEF Meets
<1>2. ASSUME NEW e \in AddEffects(op), e.var = v, e.post = n, TrueAt(e.condition, w)
      PROVE  \E f \in op.add : AllHold(ToSet(f.condition), s) /\ <<v, n>> \in Pairs(G, f.atom)
  <2>1. PICK f \in op.add : \E p \in Pairs(G, f.atom), c \in Conditions(f.condition) :
                              e = [var |-> p[1], post |-> p[2], condition |-> c]
    BY DEF AddEffects
  <2>2. PICK p \in Pairs(G, f.atom), c \in Conditions(f.condition) :
                              e = [var |-> p[1], post |-> p[2], condition |-> c]
    BY <2>1
  <2>3. p = <<v, n>> /\ e.condition = c
    <3>1. p = <<p[1], p[2]>>
      BY PairTyped, TaskFacts DEF Meets
    <3>. QED
      BY <1>2, <2>2, <3>1
  <2>. QED
    BY <1>1, <1>2, <2>2, <2>3
<1>3. ASSUME NEW f \in op.add, AllHold(ToSet(f.condition), s), <<v, n>> \in Pairs(G, f.atom)
      PROVE  \E e \in AddEffects(op) : e.var = v /\ e.post = n /\ TrueAt(e.condition, w)
  <2>1. PICK c \in Conditions(f.condition) : TrueAt(c, w)
    BY <1>1, <1>3
  <2>. DEFINE p == <<v, n>>
              e == [var |-> p[1], post |-> p[2], condition |-> c]
  <2>2. e \in AddEffects(op)
    BY <1>3 DEF AddEffects
  <2>. QED
    BY <2>1, <2>2
<1>. QED
  BY <1>2, <1>3

LEMMA NegatedLiteral ==
  ASSUME NEW A, NEW l \in LiteralsOver(A), NEW s
  PROVE  Negate(l) \in LiteralsOver(A) /\ (Holds(Negate(l), s) <=> ~ Holds(l, s))
<1>1. l.negated \in BOOLEAN /\ l.atom \in A /\ l = [atom |-> l.atom, negated |-> l.negated]
  BY DEF LiteralsOver
<1>2. Negate(l) = [atom |-> l.atom, negated |-> ~ l.negated]
  BY <1>1 DEF Negate
<1>3. Negate(l) \in LiteralsOver(A) /\ (~ l.negated) \in BOOLEAN
  BY <1>1, <1>2 DEF LiteralsOver
<1>4. Holds(l, s) <=> ((l.atom \in s) <=> ~ l.negated)
  BY <1>1, SMT DEF Holds
<1>5. Holds(Negate(l), s) <=> ((l.atom \in s) <=> l.negated)
  <2>. DEFINE n == ~ l.negated
  <2>0. n <=> ~ l.negated
    OBVIOUS
  <2>. HIDE DEF n
  <2>1. Negate(l) = [atom |-> l.atom, negated |-> n]
    BY <1>2 DEF n
  <2>2. Negate(l).atom = l.atom /\ Negate(l).negated = n
    BY <2>1
  <2>. QED
    BY <1>3, <2>0, <2>2, LiteralFacts
<1>. QED
  BY <1>1, <1>3, <1>4, <1>5

\* negate_and_translate_condition: the disjunction of the conditions is negated.
LEMMA NoAddMeaning ==
  ASSUME NEW w, NEW s, Meets(w, s), NEW op \in ToSet(task.operators), NEW v
  PROVE  /\ (\E n \in NoAddEffect(op, v) : TrueAt(n, w)) <=> ~ Adds(op, v, s)
         /\ \A n \in NoAddEffect(op, v) : Typed(n, task.groups)
<1>. DEFINE conds == AddConditions(op, v)
            L == LiteralsOver(AllAtoms)
            picks == {f \in [conds -> UNION {ToSet(c) : c \in conds}] : \A c \in conds : f[c] \in ToSet(c)}
            against(f) == {Negate(f[c]) : c \in conds}
<1>1. \A c : c \in conds <=> \E f \in op.add : /\ Conditions(f.condition) # {} /\ c = f.condition
                                             /\ \E p \in Pairs(task.groups, f.atom) : p[1] = v
  BY DEF AddConditions
<1>2. \A c \in conds : c \in Seq(L) /\ \A l \in ToSet(c) : l \in L
  <2>1. \A c \in conds : c \in Seq(L)
    BY <1>1, OperatorFacts DEF Meets
  <2>. HIDE DEF conds, L
  <2>. QED
    BY <2>1, ElementOfSeq DEF ToSet
<1>3. IsFiniteSet(conds)
  <2>. DEFINE S == {f \in op.add : Conditions(f.condition) # {} /\ \E p \in Pairs(task.groups, f.atom) : p[1] = v}
              g == [f \in S |-> f.condition]
  <2>1. IsFiniteSet(DOMAIN g)
    BY OperatorFacts, FS_Subset DEF Meets
  <2>2. conds = {g[x] : x \in DOMAIN g}
    BY DEF AddConditions
  <2>. HIDE DEF g
  <2>. QED
    BY <2>1, <2>2, ImageIsFinite
<1>4. Adds(op, v, s) <=> \E c \in conds : AllHold(ToSet(c), s)
  <2>1. ASSUME NEW f \in op.add, AllHold(ToSet(f.condition), s) PROVE Conditions(f.condition) # {}
    BY <2>1, Meaning, OperatorFacts DEF Meets
  <2>. QED
    BY <1>1, <2>1 DEF Adds
<1>5. CASE <<>> \in conds
  <2>1. NoAddEffect(op, v) = {}
    BY <1>5 DEF NoAddEffect
  <2>2. ToSet(<<>>) = {}
    BY DEF ToSet
  <2>3. AllHold(ToSet(<<>>), s)
    BY <2>2 DEF AllHold
  <2>. QED
    BY <1>4, <1>5, <2>1, <2>3
<1>6. CASE <<>> \notin conds
  <2>1. NoAddEffect(op, v) = UNION {Conditions(SetToSeq(against(f))) : f \in picks}
    BY <1>6 DEF NoAddEffect
  <2>2. ASSUME NEW f \in picks
        PROVE  /\ (\E n \in Conditions(SetToSeq(against(f))) : TrueAt(n, w)) <=> \A c \in conds : ~ Holds(f[c], s)
               /\ \A n \in Conditions(SetToSeq(against(f))) : Typed(n, task.groups)
    <3>1. DOMAIN f = conds /\ \A c \in conds : f[c] \in L
      BY <1>2
    <3>2. IsFiniteSet(against(f))
      <4>. DEFINE g == [c \in conds |-> Negate(f[c])]
      <4>1. against(f) = {g[c] : c \in DOMAIN g} /\ DOMAIN g = conds
        OBVIOUS
      <4>. HIDE DEF g, against, conds
      <4>. QED
        BY <1>3, <4>1, ImageIsFinite
    <3>3. against(f) \subseteq L
      BY <3>1, NegatedLiteral
    <3>4. SetToSeq(against(f)) \in Seq(L) /\ ToSet(SetToSeq(against(f))) = against(f)
      <4>. HIDE DEF against, L
      <4>. QED
        BY <3>2, <3>3, ListOfSet
    <3>5. AllHold(against(f), s) <=> \A c \in conds : ~ Holds(f[c], s)
      BY <3>1, NegatedLiteral DEF AllHold
    <3>. HIDE DEF against, picks
    <3>. QED
      BY <3>4, <3>5, Meaning
  <2>3. ASSUME \A c \in conds : ~ AllHold(ToSet(c), s)
        PROVE  \E f \in picks : \A c \in conds : ~ Holds(f[c], s)
    <3>. DEFINE f == [c \in conds |-> CHOOSE l \in ToSet(c) : ~ Holds(l, s)]
    <3>1. \A c \in conds : f[c] \in ToSet(c) /\ ~ Holds(f[c], s)
      BY <2>3 DEF AllHold
    <3>2. f \in picks
      BY <3>1
    <3>. QED
      BY <3>1, <3>2
  <2>4. ASSUME NEW f \in picks, \A c \in conds : ~ Holds(f[c], s)
        PROVE  \A c \in conds : ~ AllHold(ToSet(c), s)
    BY <2>4 DEF AllHold
  <2>. HIDE DEF picks, against, conds
  <2>. QED
    BY <1>4, <2>1, <2>2, <2>3, <2>4
<1>. QED
  BY <1>5, <1>6

\* Conditions that hold together do not disagree on a variable.
LEMMA TrueIsConsistent ==
  ASSUME NEW G, NEW C, NEW w, Typed(C, G), TrueAt(C, w)
  PROVE  Consistent(C)
BY DEF Typed, TrueAt, Consistent

\* A delete effect on v triggers: its atom is there, and nothing is added.
Deletes(op, v, s) ==
  /\ \E d \in op.del : /\ AllHold(ToSet(d.condition), s)
                       /\ d.atom \in s
                       /\ \E p \in Pairs(task.groups, d.atom) : p[1] = v
  /\ ~ Adds(op, v, s)

LEMMA DeleteMeaning ==
  ASSUME NEW w, NEW s, Meets(w, s), NEW op \in ToSet(task.operators), NEW v, NEW n
  PROVE  (\E e \in DeleteEffects(op) : e.var = v /\ e.post = n /\ TrueAt(e.condition, w))
           <=> n = NoneOfThose(task.groups, v) /\ Deletes(op, v, s)
<1>. DEFINE G == task.groups
            effect(p, c, m) == [var |-> p[1], post |-> NoneOfThose(G, p[1]), condition |-> c \cup {p} \cup m]
<1>1. \A e : e \in DeleteEffects(op) <=>
               /\ \E d \in op.del : \E p \in Pairs(G, d.atom) :
                    \E c \in Conditions(d.condition) : \E m \in NoAddEffect(op, p[1]) : e = effect(p, c, m)
               /\ Consistent(e.condition)
  <2>. DEFINE of(d, p) == {effect(p, c, m) : c \in Conditions(d.condition), m \in NoAddEffect(op, p[1])}
  <2>1. DeleteEffects(op) = {e \in UNION {UNION {of(d, p) : p \in Pairs(G, d.atom)} : d \in op.del} :
                               Consistent(e.condition)}
    BY DEF DeleteEffects
  <2>2. \A d, p, e : e \in of(d, p) <=>
          \E c \in Conditions(d.condition) : \E m \in NoAddEffect(op, p[1]) : e = effect(p, c, m)
    <3>. HIDE DEF effect
    <3>. QED
      OBVIOUS
  <2>. HIDE DEF of, effect
  <2>. QED
    BY <2>1, <2>2
<1>2. WellGrouped(G) /\ Represents(G, w, s)
  BY TaskFacts DEF Meets
<1>3. ASSUME NEW d \in op.del
      PROVE  /\ (\E c \in Conditions(d.condition) : TrueAt(c, w)) <=> AllHold(ToSet(d.condition), s)
             /\ \A c \in Conditions(d.condition) : Typed(c, G)
  BY Meaning, OperatorFacts DEF Meets
<1>4. ASSUME NEW p, NEW c, NEW m
      PROVE  /\ effect(p, c, m).var = p[1] /\ effect(p, c, m).post = NoneOfThose(G, p[1])
             /\ effect(p, c, m).condition = c \cup {p} \cup m
             /\ TrueAt(effect(p, c, m).condition, w) <=> TrueAt(c, w) /\ w[p[1]] = p[2] /\ TrueAt(m, w)
  BY DEF TrueAt
<1>. HIDE DEF effect
<1>5. ASSUME NEW e \in DeleteEffects(op), e.var = v, e.post = n, TrueAt(e.condition, w)
      PROVE  n = NoneOfThose(G, v) /\ Deletes(op, v, s)
  <2>1. PICK d \in op.del : \E p \in Pairs(G, d.atom) :
               \E c \in Conditions(d.condition) : \E m \in NoAddEffect(op, p[1]) : e = effect(p, c, m)
    BY <1>1
  <2>2. PICK p \in Pairs(G, d.atom) :
               \E c \in Conditions(d.condition) : \E m \in NoAddEffect(op, p[1]) : e = effect(p, c, m)
    BY <2>1
  <2>3. PICK c \in Conditions(d.condition), m \in NoAddEffect(op, p[1]) : e = effect(p, c, m)
    BY <2>2
  <2>4. /\ p[1] = v /\ n = NoneOfThose(G, v)
        /\ TrueAt(c, w) /\ w[p[1]] = p[2] /\ TrueAt(m, w)
    BY <1>4, <1>5, <2>3
  <2>5. AllHold(ToSet(d.condition), s) /\ d.atom \in s
    BY <1>2, <1>3, <2>4, PairTrue
  <2>6. ~ Adds(op, v, s)
    BY <2>3, <2>4, NoAddMeaning
  <2>. QED
    BY <2>4, <2>5, <2>6 DEF Deletes
<1>6. ASSUME n = NoneOfThose(G, v), Deletes(op, v, s)
      PROVE  \E e \in DeleteEffects(op) : e.var = v /\ e.post = n /\ TrueAt(e.condition, w)
  <2>1. PICK d \in op.del : /\ AllHold(ToSet(d.condition), s) /\ d.atom \in s
                            /\ \E p \in Pairs(G, d.atom) : p[1] = v
    BY <1>6 DEF Deletes
  <2>2. PICK p \in Pairs(G, d.atom) : p[1] = v
    BY <2>1
  <2>3. PICK c \in Conditions(d.condition) : TrueAt(c, w)
    BY <1>3, <2>1
  <2>4. PICK m \in NoAddEffect(op, p[1]) : TrueAt(m, w)
    BY <1>6, <2>2, NoAddMeaning DEF Deletes
  <2>. DEFINE e == effect(p, c, m)
  <2>5. e.var = v /\ e.post = n /\ TrueAt(e.condition, w)
    BY <1>2, <1>4, <1>6, <2>1, <2>2, <2>3, <2>4, PairTrue
  <2>6. Typed(e.condition, G)
    <3>1. Typed(c, G) /\ Typed(m, G) /\ Typed({p}, G)
      BY <1>2, <1>3, NoAddMeaning, PairTyped DEF Typed
    <3>. QED
      BY <1>4, <3>1 DEF Typed
  <2>7. e \in DeleteEffects(op)
    BY <1>1, <2>1, <2>5, <2>6, TrueIsConsistent
  <2>. QED
    BY <2>5, <2>7
<1>. QED
  BY <1>5, <1>6

-----------------------------------------------------------------------------
(* The effects of an operator.                                             *)

Effects(op) == AddEffects(op) \cup DeleteEffects(op)

\* An effect sets v to n.
Sets(E, v, n, w) == \E e \in E : e.var = v /\ e.post = n /\ TrueAt(e.condition, w)

\* Effects make y of the value x of v.
Becomes(E, v, w, y) ==
  /\ \A n : Sets(E, v, n, w) => n = y
  /\ (\A n : ~ Sets(E, v, n, w)) => w[v] = y

LEMMA SetsMeaning ==
  ASSUME NEW w, NEW s, Meets(w, s), NEW op \in ToSet(task.operators), NEW v, NEW n
  PROVE  Sets(Effects(op), v, n, w)
           <=> \/ \E f \in op.add : AllHold(ToSet(f.condition), s) /\ <<v, n>> \in Pairs(task.groups, f.atom)
               \/ n = NoneOfThose(task.groups, v) /\ Deletes(op, v, s)
<1>1. Sets(Effects(op), v, n, w) <=> \/ \E e \in AddEffects(op) : e.var = v /\ e.post = n /\ TrueAt(e.condition, w)
                                     \/ \E e \in DeleteEffects(op) : e.var = v /\ e.post = n /\ TrueAt(e.condition, w)
  BY DEF Sets, Effects
<1>. QED
  BY <1>1, AddMeaning, DeleteMeaning

LEMMA PairAt ==
  ASSUME NEW G, WellGrouped(G), NEW a, NEW v
  PROVE  /\ (\E p \in Pairs(G, a) : p[1] = v) <=> v \in DOMAIN G /\ \E j \in DOMAIN G[v] : G[v][j] = a
         /\ \A p \in Pairs(G, a) : p[1] = v => <<v, p[2]>> \in Pairs(G, a)
<1>1. ASSUME NEW p \in Pairs(G, a), p[1] = v PROVE \E j \in DOMAIN G[v] : G[v][j] = a
  BY <1>1, PairTyped
<1>2. ASSUME v \in DOMAIN G, NEW j \in DOMAIN G[v], G[v][j] = a PROVE \E p \in Pairs(G, a) : p[1] = v
  <2>1. <<v, j - 1>> \in Pairs(G, a)
    BY <1>2, PairFacts
  <2>. QED
    BY <2>1
<1>3. \A p \in Pairs(G, a) : p[1] \in DOMAIN G /\ p = <<p[1], p[2]>>
  BY PairTyped
<1>. QED
  BY <1>1, <1>2, <1>3

\* What the effects do to the values is what they do to the atoms.
LEMMA EffectMeaning ==
  ASSUME NEW w, NEW s, Meets(w, s), NEW op \in ToSet(task.operators),
         NEW u, Represents(task.groups, u, Strips!Result(op, s)), NEW v \in DOMAIN task.groups
  PROVE  Becomes(Effects(op), v, w, u[v])
<1>. DEFINE G == task.groups
            r == Strips!Result(op, s)
            fires(f) == AllHold(ToSet(f.condition), s)
<1>1. WellGrouped(G) /\ Represents(G, w, s) /\ Strips!Exclusive(G, s)
  BY TaskFacts DEF Meets, Legal
<1>2. \A a : a \in r <=> \/ a \in s /\ \A d \in op.del : fires(d) => d.atom # a
                         \/ \E f \in op.add : fires(f) /\ f.atom = a
  BY DEF Strips!Result, Strips!Fires, Strips!AllHold, Strips!Holds, Strips!ToSet, AllHold, Holds, ToSet
<1>. HIDE DEF r, fires
<1>3. Adds(op, v, s) <=> \E f \in op.add : fires(f) /\ \E j \in DOMAIN G[v] : G[v][j] = f.atom
  BY <1>1, PairAt DEF Adds, fires
<1>4. Deletes(op, v, s)
        <=> (\E d \in op.del : fires(d) /\ d.atom \in s /\ \E j \in DOMAIN G[v] : G[v][j] = d.atom) /\ ~ Adds(op, v, s)
  BY <1>1, PairAt DEF Deletes, fires
<1>5. ASSUME NEW f \in op.add, fires(f), NEW n, <<v, n>> \in Pairs(G, f.atom) PROVE n = u[v]
  <2>1. f.atom \in r
    BY <1>2, <1>5
  <2>. QED
    BY <1>1, <1>5, <2>1, PairTrue DEF r
<1>6. ASSUME Deletes(op, v, s) PROVE NoneOfThose(G, v) = u[v]
  <2>. SUFFICES ASSUME u[v] # Len(G[v]) PROVE FALSE
    BY DEF NoneOfThose
  <2>. DEFINE i == u[v] + 1
  <2>1. i \in DOMAIN G[v] /\ G[v][i] \in r
    <3>1. i \in DOMAIN G[v] /\ i - 1 = u[v]
      BY <1>1, GroupFacts DEF Represents, Values, NoneOfThose
    <3>. HIDE DEF i
    <3>. QED
      BY <3>1 DEF Represents, r
  <2>2. PICK d \in op.del : fires(d) /\ d.atom \in s /\ \E j \in DOMAIN G[v] : G[v][j] = d.atom
    BY <1>4, <1>6
  <2>. HIDE DEF i
  <2>3. G[v][i] \in s => d.atom = G[v][i]
    BY <1>1, <2>1, <2>2 DEF Strips!Exclusive, Strips!ToSet, ToSet
  <2>. QED
    BY <1>2, <1>3, <1>4, <1>6, <2>1, <2>2, <2>3
<1>7. ASSUME ~ Adds(op, v, s), ~ Deletes(op, v, s) PROVE w[v] = u[v]
  <2>1. \A j \in DOMAIN G[v] : G[v][j] \in s <=> G[v][j] \in r
    BY <1>2, <1>3, <1>4, <1>7
  <2>. QED
    BY <1>1, <2>1, RepresentsOnce DEF r
<1>8. Adds(op, v, s) => \E n : \E f \in op.add : fires(f) /\ <<v, n>> \in Pairs(G, f.atom)
  <2>. SUFFICES ASSUME NEW f \in op.add, fires(f), NEW p \in Pairs(G, f.atom), p[1] = v
                PROVE  <<v, p[2]>> \in Pairs(G, f.atom)
    BY DEF Adds, fires
  <2>. QED
    BY <1>1, PairAt
<1>9. \A n : Sets(Effects(op), v, n, w)
        <=> \/ \E f \in op.add : fires(f) /\ <<v, n>> \in Pairs(G, f.atom)
            \/ n = NoneOfThose(G, v) /\ Deletes(op, v, s)
  BY SetsMeaning DEF fires
<1>. QED
  BY <1>5, <1>6, <1>7, <1>8, <1>9 DEF Becomes

-----------------------------------------------------------------------------
(* build_sas_operator.                                                     *)

LEMMA EffectsTyped ==
  ASSUME task \in Tasks, NEW op \in ToSet(task.operators), NEW w, NEW s, Meets(w, s), NEW e \in Effects(op)
  PROVE  /\ e.var \in DOMAIN task.groups /\ e.post \in Values(task.groups, e.var)
         /\ Typed(e.condition, task.groups)
<1>. DEFINE G == task.groups
<1>1. WellGrouped(G)
  BY TaskFacts
<1>2. ASSUME NEW f \in op.add \cup op.del, NEW c \in Conditions(f.condition) PROVE Typed(c, G)
  BY <1>2, OperatorFacts, ConditionsTyped
<1>3. CASE e \in AddEffects(op)
  <2>1. PICK f \in op.add : \E p \in Pairs(G, f.atom), c \in Conditions(f.condition) :
                              e = [var |-> p[1], post |-> p[2], condition |-> c]
    BY <1>3 DEF AddEffects
  <2>2. PICK p \in Pairs(G, f.atom), c \in Conditions(f.condition) :
               e = [var |-> p[1], post |-> p[2], condition |-> c]
    BY <2>1
  <2>3. e.var = p[1] /\ e.post = p[2] /\ e.condition = c
    BY <2>2
  <2>. QED
    BY <1>1, <1>2, <2>2, <2>3, PairTyped
<1>4. CASE e \in DeleteEffects(op)
  <2>. DEFINE effect(p, c, m) == [var |-> p[1], post |-> NoneOfThose(G, p[1]), condition |-> c \cup {p} \cup m]
              of(d, p) == {effect(p, c, m) : c \in Conditions(d.condition), m \in NoAddEffect(op, p[1])}
  <2>1. e \in UNION {UNION {of(d, p) : p \in Pairs(G, d.atom)} : d \in op.del}
    BY <1>4 DEF DeleteEffects
  <2>2. \A d, p, y : y \in of(d, p) =>
          \E c \in Conditions(d.condition) : \E m \in NoAddEffect(op, p[1]) : y = effect(p, c, m)
    <3>. HIDE DEF effect
    <3>. QED
      OBVIOUS
  <2>3. ASSUME NEW p, NEW c, NEW m, e = effect(p, c, m)
        PROVE  e.var = p[1] /\ e.post = NoneOfThose(G, p[1]) /\ e.condition = c \cup {p} \cup m
    BY <2>3
  <2>. HIDE DEF of, effect
  <2>4. PICK d \in op.del : \E p \in Pairs(G, d.atom) : e \in of(d, p)
    BY <2>1
  <2>5. PICK p \in Pairs(G, d.atom) : e \in of(d, p)
    BY <2>4
  <2>6. PICK c \in Conditions(d.condition) : \E m \in NoAddEffect(op, p[1]) : e = effect(p, c, m)
    BY <2>2, <2>5
  <2>7. PICK m \in NoAddEffect(op, p[1]) : e = effect(p, c, m)
    BY <2>6
  <2>8. Typed(c, G) /\ Typed(m, G) /\ Typed({p}, G) /\ p[1] \in DOMAIN G /\ NoneOfThose(G, p[1]) \in Nat
    BY <1>1, <1>2, <2>6, <2>7, NoAddMeaning, PairTyped DEF Typed
  <2>9. e.var = p[1] /\ e.post = NoneOfThose(G, p[1]) /\ e.condition = c \cup {p} \cup m
    BY <2>3, <2>7
  <2>10. Typed(e.condition, G)
    BY <2>8, <2>9 DEF Typed
  <2>. QED
    BY <2>8, <2>9, <2>10 DEF Values
<1>. QED
  BY <1>3, <1>4 DEF Effects

\* build_implied_facts: what is implied by what is true is true.
LEMMA ImpliedIsTrue ==
  ASSUME NEW w, NEW s, Meets(w, s), NEW c, TrueAt(c, w), NEW v, NEW n, <<v, n>> \in Implied(c)
  PROVE  w[v] = n
<1>. DEFINE G == task.groups
            lonely(a) == {x \in DOMAIN G : G[x] = <<a>>}
            fact(p, a) == p \in Pairs(G, a)
            beside(p, g) == {b \in ToSet(g) : \E other \in ToSet(g) \ {b} : fact(p, other)}
            under(p, g) == UNION {{<<x, 1>> : x \in lonely(a)} : a \in beside(p, g)}
<1>1. \A p : ImpliedBy(p) = UNION {under(p, g) : g \in ToSet(task.mutex)}
  BY DEF ImpliedBy
<1>. HIDE DEF under
<1>2. PICK p \in c, g \in ToSet(task.mutex) : <<v, n>> \in under(p, g)
  BY <1>1 DEF Implied
<1>3. PICK a \in beside(p, g) : v \in lonely(a) /\ n = 1
  BY <1>2 DEF under
<1>4. PICK b \in ToSet(g) \ {a} : p \in Pairs(G, b)
  BY <1>3
<1>5. WellGrouped(G) /\ Represents(G, w, s) /\ Strips!Exclusive(task.mutex, s)
  BY TaskFacts DEF Meets, Legal
<1>6. b \in s
  BY <1>2, <1>4, <1>5, PairTrue DEF TrueAt
<1>7. a \notin s
  <2>1. PICK i \in DOMAIN task.mutex : task.mutex[i] = g
    BY DEF ToSet
  <2>. QED
    BY <1>3, <1>4, <1>5, <1>6, <2>1 DEF Strips!Exclusive, Strips!ToSet, ToSet
<1>8. v \in DOMAIN G /\ G[v] = <<a>>
  BY <1>3
<1>9. Len(G[v]) = 1 /\ DOMAIN G[v] = 1..1 /\ G[v][1] = a
  BY <1>8
<1>10. w[v] \in 0..1
  BY <1>5, <1>8, <1>9 DEF Represents, Values, NoneOfThose
<1>11. (w[v] = 1 - 1) <=> G[v][1] \in s
  <2>1. 1 \in DOMAIN G[v]
    BY <1>9
  <2>. QED
    BY <1>5, <1>8, <2>1 DEF Represents
<1>. QED
  BY <1>3, <1>7, <1>9, <1>10, <1>11

LEMMA FirstValueIsTrue ==
  ASSUME NEW w, NEW s, Meets(w, s), NEW c, TrueAt(c, w), NEW v, NEW n
  PROVE  FirstValue(c, v, n) = -1 \/ FirstValue(c, v, n) = w[v]
<1>1. CASE \E p \in c : p[1] = v
  <2>. DEFINE p == CHOOSE q \in c : q[1] = v
  <2>1. p \in c /\ p[1] = v
    BY <1>1
  <2>2. FirstValue(c, v, n) = p[2]
    BY <1>1 DEF FirstValue
  <2>. HIDE DEF p
  <2>. QED
    BY <2>1, <2>2 DEF TrueAt
<1>2. CASE ~ \E p \in c : p[1] = v
  BY <1>2, ImpliedIsTrue DEF FirstValue
<1>. QED
  BY <1>1, <1>2

\* The disjuncts of the effects that lines are written for.
Kept(E, v, n) ==
  IF NoneOfThose(task.groups, v) = 1 THEN Pruned(v, n, Disjuncts(E, v, n)) ELSE Disjuncts(E, v, n)

LEMMA LineFacts ==
  ASSUME NEW w, NEW s, Meets(w, s), NEW c, TrueAt(c, w), NEW v \in DOMAIN task.groups, NEW n,
         NEW E, \A e \in E : Typed(e.condition, task.groups)
  PROVE  /\ \A l \in Lines(c, E, v, n) : l.var = v /\ l.post = n /\ (l.pre = -1 \/ l.pre = w[v])
         /\ (\E l \in Lines(c, E, v, n) : TrueAt(l.condition, w)) <=> \E k \in Kept(E, v, n) : TrueAt(k, w)
<1>. DEFINE pre == FirstValue(c, v, n)
            line(k) == [var |-> v, pre |-> pre, post |-> n, condition |-> k \ {<<v, pre>>}]
<1>1. Lines(c, E, v, n) = {line(k) : k \in Kept(E, v, n)}
  BY DEF Lines, Kept
<1>2. \A k \in Disjuncts(E, v, n) : Typed(k, task.groups)
  BY DEF Disjuncts
<1>3. ASSUME NEW k \in Kept(E, v, n) PROVE Typed(k, task.groups)
  <2>1. k \in Disjuncts(E, v, n) \/ k = {} \/ \E d \in Disjuncts(E, v, n) : k = d \ {<<v, 1 - n>>}
    BY <1>3 DEF Kept, Pruned
  <2>. QED
    BY <1>2, <2>1 DEF Typed
<1>4. pre = -1 \/ pre = w[v]
  BY FirstValueIsTrue
<1>5. NoneOfThose(task.groups, v) \in Nat
  BY GroupFacts, TaskFacts DEF Meets, NoneOfThose
<1>. HIDE DEF pre
<1>6. ASSUME NEW k \in Kept(E, v, n) PROVE TrueAt(k \ {<<v, pre>>}, w) <=> TrueAt(k, w)
  <2>1. CASE pre = -1
    <3>1. \A p \in k : p # <<v, pre>>
      BY <1>3, <1>5, <1>6, <2>1 DEF Typed, Values
    <3>2. k \ {<<v, pre>>} = k
      BY <3>1
    <3>. QED
      BY <3>2
  <2>2. CASE pre = w[v]
    BY <2>2 DEF TrueAt
  <2>. QED
    BY <1>4, <2>1, <2>2
<1>7. \A k : line(k).var = v /\ line(k).post = n /\ line(k).pre = pre /\ line(k).condition = k \ {<<v, pre>>}
  OBVIOUS
<1>. HIDE DEF line
<1>. QED
  BY <1>1, <1>4, <1>6, <1>7

LEMMA PrunedMeaning ==
  ASSUME NEW v, NEW n, NEW D, NEW w
  PROVE  (\E k \in Pruned(v, n, D) : TrueAt(k, w)) <=> \E d \in D : TrueAt(d \ {<<v, 1 - n>>}, w)
<1>. DEFINE without(d) == d \ {<<v, 1 - n>>}
            rest == {without(d) : d \in D}
<1>1. TrueAt({}, w)
  BY DEF TrueAt
<1>2. CASE {} \in rest
  <2>1. Pruned(v, n, D) = {{}}
    BY <1>2 DEF Pruned
  <2>2. PICK d \in D : without(d) = {}
    BY <1>2
  <2>. QED
    BY <1>1, <2>1, <2>2
<1>3. CASE {} \notin rest
  <2>1. Pruned(v, n, D) = rest
    BY <1>3 DEF Pruned
  <2>. QED
    BY <2>1
<1>. QED
  BY <1>2, <1>3

\* prune_stupid_effect_conditions goes by the effects that set a variable to one
\* value and does not look at the others.  It is right for an operator that
\* deletes an atom with a variable of its own only if it adds it never or anyhow.
Decided(t) ==
  \A op \in ToSet(t.operators) : \A d \in op.del, f \in op.add, v \in DOMAIN t.groups :
    Len(t.groups[v]) = 1 /\ t.groups[v][1] = d.atom /\ f.atom = d.atom
      => \E g \in op.add : g.atom = d.atom /\ g.condition = <<>>

\* An effect that is added whenever the operator is executed.
LEMMA AddedAnyhow ==
  ASSUME NEW op, NEW v, NEW g \in op.add, g.condition = <<>>, \E p \in Pairs(task.groups, g.atom) : p[1] = v,
         NEW s
  PROVE  Adds(op, v, s) /\ NoAddEffect(op, v) = {}
<1>1. ToSet(<<>>) = {} /\ Conditions(<<>>) # {}
  BY DEF ToSet, Conditions
<1>2. AllHold(ToSet(g.condition), s)
  BY <1>1 DEF AllHold
<1>3. <<>> \in AddConditions(op, v)
  BY <1>1 DEF AddConditions
<1>. QED
  BY <1>2, <1>3 DEF Adds, NoAddEffect

\* A condition that was dropped asked for the other value: without it the effect
\* sets the variable to what it is, and no other effect changes it.
LEMMA DroppedIsRight ==
  ASSUME NEW w, NEW s, Meets(w, s), Decided(task), NEW op \in ToSet(task.operators),
         NEW u, Represents(task.groups, u, Strips!Result(op, s)),
         NEW v \in DOMAIN task.groups, NoneOfThose(task.groups, v) = 1,
         NEW e \in Effects(op), e.var = v, TrueAt(e.condition \ {<<v, 1 - e.post>>}, w)
  PROVE  e.post = u[v]
<1>. DEFINE G == task.groups
            a == G[v][1]
            r == Strips!Result(op, s)
<1>1. WellGrouped(G) /\ Represents(G, w, s)
  BY TaskFacts DEF Meets
<1>2. e.post \in 0..1 /\ Typed(e.condition, G)
  BY EffectsTyped DEF Meets, Values
<1>3. DOMAIN G[v] = {1} /\ w[v] \in 0..1 /\ u[v] \in 0..1
  <2>1. DOMAIN G[v] = 1..1
    BY <1>1, GroupFacts DEF NoneOfThose
  <2>. QED
    BY <1>1, <2>1 DEF Represents, Values
<1>4. ((w[v] = 0) <=> a \in s) /\ ((u[v] = 0) <=> a \in r)
  <2>1. 1 \in DOMAIN G[v] /\ 1 - 1 = 0
    BY <1>3
  <2>. QED
    BY <1>1, <2>1 DEF Represents
<1>5. Becomes(Effects(op), v, w, u[v])
  BY EffectMeaning
<1>6. CASE w[v] = 1 - e.post
  <2>1. TrueAt(e.condition, w)
    BY <1>6 DEF TrueAt
  <2>. QED
    BY <1>5, <2>1 DEF Becomes, Sets
<1>7. CASE w[v] = e.post
  <2>. DEFINE fires(f) == AllHold(ToSet(f.condition), s)
  <2>1. \A b : b \in r <=> \/ b \in s /\ \A d \in op.del : fires(d) => d.atom # b
                           \/ \E f \in op.add : fires(f) /\ f.atom = b
    BY DEF Strips!Result, Strips!Fires, Strips!AllHold, Strips!Holds, Strips!ToSet, AllHold, Holds, ToSet
  <2>. HIDE DEF fires, r
  <2>2. ASSUME NEW d \in op.del, d.atom = a, NEW f \in op.add, f.atom = a
        PROVE  /\ \E g \in op.add : fires(g) /\ g.atom = a
               /\ NoAddEffect(op, v) = {}
    <3>1. PICK g \in op.add : g.atom = a /\ g.condition = <<>>
      BY <2>2 DEF Decided, NoneOfThose
    <3>2. \E p \in Pairs(G, a) : p[1] = v
      BY <1>1, <1>3, PairAt
    <3>3. NoAddEffect(op, v) = {}
      BY <3>1, <3>2, AddedAnyhow
    <3>4. fires(g)
      <4>1. ToSet(g.condition) = {}
        BY <3>1 DEF ToSet
      <4>. QED
        BY <4>1 DEF fires, AllHold
    <3>. QED
      BY <3>1, <3>3, <3>4
  <2>3. CASE e.post = 0
    <3>1. a \in s
      BY <1>4, <1>7, <2>3
    <3>2. e \in AddEffects(op)
      <4>1. e.post # NoneOfThose(G, e.var)
        BY <2>3
      <4>2. \A y \in DeleteEffects(op) : y.post = NoneOfThose(G, y.var)
        BY DEF DeleteEffects
      <4>. QED
        BY <4>1, <4>2 DEF Effects
    <3>3. PICK f \in op.add : \E p \in Pairs(G, f.atom) : p[1] = v
      BY <3>2 DEF AddEffects
    <3>4. f.atom = a
      BY <1>1, <1>3, <3>3, PairAt
    <3>5. a \in r
      BY <2>1, <2>2, <3>1, <3>3, <3>4
    <3>. QED
      BY <1>4, <2>3, <3>5
  <2>4. CASE e.post = 1
    <3>1. a \notin s
      BY <1>4, <1>7, <2>4
    <3>2. e \in DeleteEffects(op)
      <4>1. ASSUME NEW y \in AddEffects(op) PROVE y.post # NoneOfThose(G, y.var)
        <5>1. \E f \in op.add : \E p \in Pairs(G, f.atom) : y.var = p[1] /\ y.post = p[2]
          BY DEF AddEffects
        <5>. QED
          BY <1>1, <5>1, PairTyped
      <4>. QED
        BY <2>4, <4>1 DEF Effects
    <3>3. PICK d \in op.del : \E p \in Pairs(G, d.atom) : p[1] = v /\ NoAddEffect(op, v) # {}
      BY <3>2 DEF DeleteEffects
    <3>4. d.atom = a
      BY <1>1, <1>3, <3>3, PairAt
    <3>5. \A f \in op.add : f.atom # a
      BY <2>2, <3>3, <3>4
    <3>6. a \notin r
      BY <2>1, <3>1, <3>5
    <3>. QED
      BY <1>3, <1>4, <2>4, <3>6
  <2>. QED
    BY <1>2, <2>3, <2>4
<1>. QED
  BY <1>2, <1>3, <1>6, <1>7

\* What the lines of an operator do to the values.
LEMMA LinesMeaning ==
  ASSUME NEW w, NEW s, Meets(w, s), Decided(task), NEW op \in ToSet(task.operators),
         NEW u, Represents(task.groups, u, Strips!Result(op, s)),
         NEW c \in Conditions(op.precondition), TrueAt(c, w), NEW i, NEW v \in DOMAIN task.groups
  PROVE  Becomes(SASOperator(i, c, Effects(op)).effects, v, w, u[v])
<1>. DEFINE E == Effects(op)
            o == SASOperator(i, c, E)
            lines(e) == Lines(c, E, e.var, e.post)
            open == {f \in E : <<f.var, f.post>> \notin c}
            none == NoneOfThose(task.groups, v)
<1>1. o.effects = UNION {lines(e) : e \in open}
  BY DEF SASOperator
<1>2. \A e \in E : e.var \in DOMAIN task.groups /\ Typed(e.condition, task.groups)
  BY EffectsTyped DEF Meets
<1>3. ASSUME NEW e \in E
      PROVE  /\ \A l \in lines(e) : l.var = e.var /\ l.post = e.post /\ (l.pre = -1 \/ l.pre = w[e.var])
             /\ (\E l \in lines(e) : TrueAt(l.condition, w)) <=> \E k \in Kept(E, e.var, e.post) : TrueAt(k, w)
  <2>. HIDE DEF E
  <2>. QED
    BY <1>2, LineFacts
<1>4. Becomes(E, v, w, u[v])
  BY EffectMeaning
<1>5. ASSUME NEW e \in E, e.var = v, NEW k \in Kept(E, v, e.post), TrueAt(k, w) PROVE e.post = u[v]
  <2>1. CASE none = 1
    <3>1. PICK d \in Disjuncts(E, v, e.post) : TrueAt(d \ {<<v, 1 - e.post>>}, w)
      BY <1>5, <2>1, PrunedMeaning DEF Kept
    <3>2. PICK y \in E : y.var = v /\ y.post = e.post /\ y.condition = d
      BY DEF Disjuncts
    <3>. QED
      BY <2>1, <3>1, <3>2, DroppedIsRight
  <2>2. CASE none # 1
    <3>1. PICK y \in E : y.var = v /\ y.post = e.post /\ y.condition = k
      BY <1>5, <2>2 DEF Kept, Disjuncts
    <3>. QED
      BY <1>4, <1>5, <3>1 DEF Becomes, Sets
  <2>. QED
    BY <2>1, <2>2
<1>6. ASSUME NEW e \in E, e.var = v, TrueAt(e.condition, w) PROVE \E k \in Kept(E, v, e.post) : TrueAt(k, w)
  <2>1. e.condition \in Disjuncts(E, v, e.post)
    BY <1>6 DEF Disjuncts
  <2>2. TrueAt(e.condition \ {<<v, 1 - e.post>>}, w)
    BY <1>6 DEF TrueAt
  <2>. QED
    BY <1>6, <2>1, <2>2, PrunedMeaning DEF Kept
<1>. HIDE DEF E, o, lines
<1>7. ASSUME NEW n, Sets(o.effects, v, n, w) PROVE n = u[v]
  <2>1. PICK e, l : e \in open /\ l \in lines(e) /\ l.var = v /\ l.post = n /\ TrueAt(l.condition, w)
    BY <1>1, <1>7 DEF Sets
  <2>. QED
    BY <1>3, <1>5, <2>1
<1>8. ASSUME \A n : ~ Sets(o.effects, v, n, w) PROVE w[v] = u[v]
  <2>1. CASE \E e \in E : e.var = v /\ TrueAt(e.condition, w)
    <3>1. PICK e \in E : e.var = v /\ TrueAt(e.condition, w)
      BY <2>1
    <3>2. e.post = u[v]
      BY <1>4, <3>1 DEF Becomes, Sets
    <3>3. e \notin open
      <4>. SUFFICES ASSUME e \in open PROVE FALSE
        OBVIOUS
      <4>1. PICK l \in lines(e) : TrueAt(l.condition, w)
        BY <1>3, <1>6, <3>1
      <4>. QED
        BY <1>1, <1>3, <1>8, <3>1, <4>1 DEF Sets
    <3>. QED
      BY <3>1, <3>2, <3>3 DEF TrueAt
  <2>2. CASE \A e \in E : e.var = v => ~ TrueAt(e.condition, w)
    BY <1>4, <2>2 DEF Becomes, Sets
  <2>. QED
    BY <2>1, <2>2
<1>. QED
  BY <1>7, <1>8 DEF Becomes, E, o

\* An operator may be executed when its own disjunct of the precondition holds.
LEMMA CanRunMeaning ==
  ASSUME NEW s, Meets(value, s), NEW op \in ToSet(task.operators), NEW c \in Conditions(op.precondition), NEW i
  PROVE  CanRun(SASOperator(i, c, Effects(op))) <=> TrueAt(c, value)
<1>. DEFINE E == Effects(op)
            o == SASOperator(i, c, E)
            lines(e) == Lines(c, E, e.var, e.post)
            open == {f \in E : <<f.var, f.post>> \notin c}
<1>1. o.prevail = c /\ o.effects = UNION {lines(e) : e \in open}
  BY DEF SASOperator
<1>2. \A e \in E : e.var \in DOMAIN task.groups /\ Typed(e.condition, task.groups)
  BY EffectsTyped DEF Meets
<1>3. ASSUME TrueAt(c, value), NEW l \in o.effects PROVE l.pre \in {-1, value[l.var]}
  <2>1. PICK e \in open : l \in lines(e)
    BY <1>1, <1>3
  <2>. HIDE DEF E
  <2>. QED
    BY <1>2, <1>3, <2>1, LineFacts
<1>. HIDE DEF o
<1>. QED
  BY <1>1, <1>3 DEF CanRun, True, TrueAt, o

LEMMA PostsMeaning ==
  ASSUME NEW s, Meets(value, s), Decided(task), NEW op \in ToSet(task.operators),
         NEW u, Represents(task.groups, u, Strips!Result(op, s)),
         NEW c \in Conditions(op.precondition), TrueAt(c, value), NEW i, NEW v \in DOMAIN task.groups
  PROVE  Posts(SASOperator(i, c, Effects(op)), v) = {u[v]}
<1>. DEFINE o == SASOperator(i, c, Effects(op))
            posts == {e.post : e \in {f \in Triggered(o) : f.var = v}}
<1>1. Becomes(o.effects, v, value, u[v])
  BY LinesMeaning
<1>. HIDE DEF o
<1>2. \A n : n \in posts <=> Sets(o.effects, v, n, value)
  BY DEF Triggered, True, TrueAt, Sets
<1>3. Posts(o, v) = IF posts = {} THEN {value[v]} ELSE posts
  BY DEF Posts
<1>. HIDE DEF posts
<1>4. ASSUME posts = {} PROVE Posts(o, v) = {u[v]}
  BY <1>1, <1>2, <1>3, <1>4 DEF Becomes
<1>5. ASSUME posts # {} PROVE Posts(o, v) = {u[v]}
  <2>1. \A n \in posts : n = u[v]
    BY <1>1, <1>2 DEF Becomes
  <2>2. posts = {u[v]}
    BY <1>5, <2>1
  <2>. QED
    BY <1>3, <1>5, <2>2
<1>. QED
  BY <1>4, <1>5 DEF o

-----------------------------------------------------------------------------
(* States.                                                                 *)

\* The state with the static atoms, which no variable stands for.
Whole(s) == s \cup (task.init \ AllAtoms)

DecodedAt(w) == {a \in AllAtoms : \E p \in Pairs(task.groups, a) : w[p[1]] = p[2]} \cup (task.init \ AllAtoms)

LEMMA DecodedMeaning ==
  ASSUME NEW w, NEW s, Meets(w, s)
  PROVE  DecodedAt(w) = Whole(s)
<1>1. WellGrouped(task.groups) /\ Represents(task.groups, w, s) /\ s \subseteq AllAtoms
  BY TaskFacts DEF Meets, Legal
<1>2. ASSUME NEW a \in AllAtoms PROVE (\E p \in Pairs(task.groups, a) : w[p[1]] = p[2]) <=> a \in s
  <2>1. Pairs(task.groups, a) # {}
    BY PairOfAtom DEF AllAtoms
  <2>. QED
    BY <1>1, <2>1, PairTrue
<1>. QED
  BY <1>1, <1>2 DEF DecodedAt, Whole

LEMMA AtomsInGroups ==
  ASSUME NEW G, NEW v \in DOMAIN G
  PROVE  ToSet(G[v]) \subseteq AtomsOf(G) /\ \A j \in DOMAIN G[v] : G[v][j] \in AtomsOf(G)
BY DEF AtomsOf, ToSet

\* No group has static atoms.
LEMMA WholeIsLegal ==
  ASSUME NEW w, NEW s, Meets(w, s)
  PROVE  Represents(task.groups, w, Whole(s)) /\ Strips!Exclusive(task.mutex, Whole(s))
<1>1. /\ Represents(task.groups, w, s) /\ Strips!Exclusive(task.mutex, s)
      /\ AtomsOf(task.mutex) \subseteq AllAtoms
  BY TaskFacts DEF Meets, Legal
<1>2. \A a \in AllAtoms : a \in Whole(s) <=> a \in s
  BY DEF Whole
<1>3. Represents(task.groups, w, Whole(s))
  <2>1. \A v \in DOMAIN task.groups : \A j \in DOMAIN task.groups[v] : task.groups[v][j] \in AllAtoms
    BY AtomsInGroups DEF AllAtoms
  <2>. QED
    BY <1>1, <1>2, <2>1 DEF Represents
<1>4. Strips!Exclusive(task.mutex, Whole(s))
  <2>1. \A v \in DOMAIN task.mutex : ToSet(task.mutex[v]) \subseteq AllAtoms
    BY <1>1, AtomsInGroups
  <2>. QED
    BY <1>1, <1>2, <2>1 DEF Strips!Exclusive, Strips!ToSet, ToSet
<1>. QED
  BY <1>3, <1>4

\* A condition of operators and axioms does not see the static atoms.
LEMMA WholeHolds ==
  ASSUME NEW s, NEW C \in Seq(LiteralsOver(AllAtoms))
  PROVE  AllHold(ToSet(C), Whole(s)) <=> AllHold(ToSet(C), s)
<1>1. \A l \in ToSet(C) : l.atom \in AllAtoms
  BY ElementOfSeq, LiteralFacts DEF ToSet
<1>2. \A l \in ToSet(C) : l.atom \in Whole(s) <=> l.atom \in s
  BY <1>1 DEF Whole
<1>3. \A l \in ToSet(C) : Holds(l, Whole(s)) <=> Holds(l, s)
  <2>1. \A l \in ToSet(C) : l \in LiteralsOver(AllAtoms)
    BY ElementOfSeq DEF ToSet
  <2>. QED
    BY <1>2, <2>1, LiteralFacts DEF LiteralsOver
<1>. QED
  BY <1>3 DEF AllHold

LEMMA WholeResult ==
  ASSUME task \in Tasks, NEW op \in ToSet(task.operators), NEW s \in Legal
  PROVE  /\ Strips!Applicable(op, Whole(s)) <=> AllHold(ToSet(op.precondition), s)
         /\ Strips!Result(op, Whole(s)) = Whole(Strips!Result(op, s))
         /\ Strips!Applicable(op, Whole(s)) => Strips!Result(op, s) \in Legal
<1>. DEFINE fires(f, x) == AllHold(ToSet(f.condition), x)
<1>1. /\ op.precondition \in Seq(LiteralsOver(AllAtoms))
      /\ \A e \in op.add \cup op.del : e.atom \in AllAtoms /\ e.condition \in Seq(LiteralsOver(AllAtoms))
  BY OperatorFacts
<1>2. \A x : Strips!Applicable(op, x) <=> AllHold(ToSet(op.precondition), x)
  BY DEF Strips!Applicable, Strips!Conditions, Strips!AllHold, Strips!Holds, Strips!ToSet, AllHold, Holds, ToSet
<1>3. \A e \in op.add \cup op.del : fires(e, Whole(s)) <=> fires(e, s)
  BY <1>1, WholeHolds
<1>4. \A x, a : a \in Strips!Result(op, x)
        <=> \/ a \in x /\ \A d \in op.del : fires(d, x) => d.atom # a
            \/ \E f \in op.add : fires(f, x) /\ f.atom = a
  BY DEF Strips!Result, Strips!Fires, Strips!AllHold, Strips!Holds, Strips!ToSet, AllHold, Holds, ToSet
<1>. HIDE DEF fires
<1>5. ASSUME NEW a PROVE a \in Strips!Result(op, Whole(s)) <=> a \in Whole(Strips!Result(op, s))
  <2>1. \A x : a \in Whole(x) <=> a \in x \/ (a \in task.init /\ a \notin AllAtoms)
    BY DEF Whole
  <2>2. /\ \A d \in op.del : fires(d, Whole(s)) <=> fires(d, s)
        /\ \A f \in op.add : fires(f, Whole(s)) <=> fires(f, s)
    BY <1>3
  <2>3. CASE a \in AllAtoms
    BY <1>4, <2>1, <2>2, <2>3
  <2>4. CASE a \notin AllAtoms
    <3>1. (\A d \in op.del : d.atom # a) /\ (\A f \in op.add : f.atom # a)
      BY <1>1, <2>4
    <3>. QED
      BY <1>4, <2>1, <3>1
  <2>. QED
    BY <2>3, <2>4
<1>6. Strips!Result(op, s) \subseteq AllAtoms
  <2>1. s \subseteq AllAtoms
    BY DEF Legal
  <2>. QED
    BY <1>1, <1>4, <2>1
<1>7. Strips!Applicable(op, Whole(s)) <=> Strips!Applicable(op, s)
  BY <1>1, <1>2, WholeHolds
<1>. QED
  BY <1>2, <1>5, <1>6, <1>7, OperatorFacts, WholeHolds, <1>1 DEF Legal

-----------------------------------------------------------------------------
(* No step changes the task, and nothing that depends on it alone.         *)

LEMMA SameConditions ==
  ASSUME task' = task, NEW C
  PROVE  Conditions(C)' = Conditions(C)
BY DEF Conditions

LEMMA SameAddConditions ==
  ASSUME task' = task, NEW op, NEW v
  PROVE  AddConditions(op, v)' = AddConditions(op, v)
<1>1. \A f \in op.add : Conditions(f.condition)' = Conditions(f.condition)
  BY SameConditions
<1>. QED
  BY <1>1 DEF AddConditions

LEMMA SameNoAddEffect ==
  ASSUME task' = task, NEW op, NEW v
  PROVE  NoAddEffect(op, v)' = NoAddEffect(op, v)
<1>1. AddConditions(op, v)' = AddConditions(op, v)
  BY SameAddConditions
<1>. DEFINE picks(conds) == {f \in [conds -> UNION {ToSet(c) : c \in conds}] : \A c \in conds : f[c] \in ToSet(c)}
            against(f, conds) == SetToSeq({Negate(f[c]) : c \in conds})
            conds == AddConditions(op, v)
<1>2. /\ NoAddEffect(op, v) = IF <<>> \in conds THEN {} ELSE UNION {Conditions(against(f, conds)) : f \in picks(conds)}
      /\ NoAddEffect(op, v)' = IF <<>> \in conds' THEN {}
                              ELSE UNION {Conditions(against(f, conds))' : f \in picks(conds)'}
  BY DEF NoAddEffect
<1>3. \A f : Conditions(against(f, conds))' = Conditions(against(f, conds))
  BY <1>1 DEF Conditions
<1>. HIDE DEF picks, against
<1>. QED
  BY <1>1, <1>2, <1>3

LEMMA SameEffects ==
  ASSUME task' = task, NEW op
  PROVE  Effects(op)' = Effects(op)
<1>1. \A C : Conditions(C)' = Conditions(C)
  BY SameConditions
<1>2. \A v : NoAddEffect(op, v)' = NoAddEffect(op, v)
  BY SameNoAddEffect
<1>3. AddEffects(op)' = AddEffects(op)
  BY <1>1 DEF AddEffects
<1>4. DeleteEffects(op)' = DeleteEffects(op)
  <2>. DEFINE of(d, p) ==
                {[var |-> p[1], post |-> NoneOfThose(task.groups, p[1]), condition |-> c \cup {p} \cup n] :
                   c \in Conditions(d.condition), n \in NoAddEffect(op, p[1])}
  <2>1. \A d, p : of(d, p)' = of(d, p)
    BY <1>1, <1>2
  <2>2. /\ DeleteEffects(op) = {e \in UNION {UNION {of(d, p) : p \in Pairs(task.groups, d.atom)} : d \in op.del} :
                                 Consistent(e.condition)}
        /\ DeleteEffects(op)' = {e \in UNION {UNION {of(d, p)' : p \in Pairs(task'.groups, d.atom)} : d \in op.del} :
                                  Consistent(e.condition)}
    BY DEF DeleteEffects
  <2>. HIDE DEF of
  <2>. QED
    BY <2>1, <2>2
<1>. QED
  BY <1>3, <1>4 DEF Effects

LEMMA SameLines ==
  ASSUME task' = task, addImplied' = addImplied, NEW c, NEW E, NEW v, NEW n
  PROVE  Lines(c, E, v, n)' = Lines(c, E, v, n)
<1>1. Implied(c)' = Implied(c)
  BY DEF Implied, ImpliedBy
<1>2. FirstValue(c, v, n)' = FirstValue(c, v, n)
  BY <1>1 DEF FirstValue
<1>. QED
  BY <1>2 DEF Lines

LEMMA SASOperatorsAre ==
  ASSUME NEW i
  PROVE  /\ SASOperators(i) = {SASOperator(i, c, Effects(task.operators[i])) : c \in Conditions(task.operators[i].precondition)}
         /\ SASOperators(i)' = {SASOperator(i, c, Effects(task.operators[i])) : c \in Conditions(task.operators[i].precondition)}'
BY DEF SASOperators, Effects

LEMMA SameOperators ==
  ASSUME task' = task, addImplied' = addImplied, NEW i
  PROVE  SASOperators(i)' = SASOperators(i)
<1>1. \A o : Effects(o)' = Effects(o)
  BY SameEffects
<1>2. \A c, E : SASOperator(i, c, E)' = SASOperator(i, c, E)
  <2>1. \A c, E, v, n : Lines(c, E, v, n)' = Lines(c, E, v, n)
    BY SameLines
  <2>. QED
    BY <2>1 DEF SASOperator
<1>3. \A C : Conditions(C)' = Conditions(C)
  BY SameConditions
<1>. QED
  BY <1>1, <1>2, <1>3, SASOperatorsAre

LEMMA SameAxioms ==
  ASSUME task' = task, NEW x
  PROVE  SASAxioms(x)' = SASAxioms(x)
<1>1. \A C : Conditions(C)' = Conditions(C)
  BY SameConditions
<1>. QED
  BY <1>1 DEF SASAxioms

LEMMA SameLegal ==
  ASSUME task' = task
  PROVE  AllAtoms' = AllAtoms /\ Legal' = Legal
BY DEF AllAtoms, Legal

-----------------------------------------------------------------------------
(* The values that are written for a state.                                *)

\* The value of a variable for the pairs that are true.
ValueFor(groups, pairs, v) ==
  IF \E p \in pairs : p[1] = v THEN (CHOOSE p \in pairs : p[1] = v)[2] ELSE NoneOfThose(groups, v)

PairsOf(groups, s) == UNION {Pairs(groups, a) : a \in s}

LEMMA ConsistentIsExclusive ==
  ASSUME NEW G, WellGrouped(G), NEW s
  PROVE  Consistent(PairsOf(G, s)) <=> Strips!Exclusive(G, s)
<1>1. \A p : p \in PairsOf(G, s) <=> \E a \in s : p \in Pairs(G, a)
  BY DEF PairsOf
<1>2. ASSUME Consistent(PairsOf(G, s)), NEW v \in DOMAIN G, NEW i \in DOMAIN G[v], NEW j \in DOMAIN G[v],
             G[v][i] \in s, G[v][j] \in s
      PROVE  G[v][i] = G[v][j]
  <2>. DEFINE p == <<v, i - 1>>
              q == <<v, j - 1>>
  <2>1. p \in PairsOf(G, s) /\ q \in PairsOf(G, s)
    BY <1>1, <1>2, PairFacts
  <2>2. p[1] = q[1] /\ p[2] = i - 1 /\ q[2] = j - 1
    OBVIOUS
  <2>. HIDE DEF p, q
  <2>3. p = q
    BY <1>2, <2>1, <2>2 DEF Consistent
  <2>4. i \in Int /\ j \in Int
    BY GroupFacts
  <2>. QED
    BY <2>2, <2>3, <2>4
<1>3. ASSUME Strips!Exclusive(G, s), NEW a \in s, NEW b \in s, NEW p \in Pairs(G, a), NEW q \in Pairs(G, b), p[1] = q[1]
      PROVE  p = q
  <2>1. p[1] \in DOMAIN G /\ a \in ToSet(G[p[1]]) /\ b \in ToSet(G[p[1]])
    BY <1>3, PairTyped DEF ToSet
  <2>2. a = b
    BY <1>3, <2>1 DEF Strips!Exclusive, Strips!ToSet, ToSet
  <2>. QED
    BY <1>3, <2>2, PairsApart
<1>. QED
  BY <1>1, <1>2, <1>3 DEF Consistent, Strips!Exclusive, Strips!ToSet, ToSet

LEMMA ValuesRepresent ==
  ASSUME NEW G, WellGrouped(G), NEW s, Consistent(PairsOf(G, s))
  PROVE  Represents(G, [v \in DOMAIN G |-> ValueFor(G, PairsOf(G, s), v)], s)
<1>. DEFINE pairs == PairsOf(G, s)
            n(v) == ValueFor(G, pairs, v)
            w == [v \in DOMAIN G |-> n(v)]
<1>1. \A p : p \in pairs <=> \E a \in s : p \in Pairs(G, a)
  BY DEF PairsOf
<1>. HIDE DEF pairs
<1>2. ASSUME NEW v \in DOMAIN G
      PROVE  /\ n(v) \in Values(G, v)
             /\ \A j \in DOMAIN G[v] : (n(v) = j - 1) <=> (G[v][j] \in s)
  <2>1. \A j \in DOMAIN G[v] : G[v][j] \in s => <<v, j - 1>> \in pairs
    BY <1>1, PairFacts
  <2>2. CASE \E p \in pairs : p[1] = v
    <3>1. PICK p \in pairs : p[1] = v /\ n(v) = p[2]
      BY <2>2 DEF ValueFor
    <3>2. PICK a \in s : p \in Pairs(G, a)
      BY <1>1
    <3>3. p[2] \in Values(G, v) /\ p[2] + 1 \in DOMAIN G[v] /\ G[v][p[2] + 1] = a
      BY <3>1, <3>2, PairTyped
    <3>4. ASSUME NEW j \in DOMAIN G[v], G[v][j] \in s PROVE p[2] = j - 1
      <4>. DEFINE q == <<v, j - 1>>
      <4>1. q \in pairs /\ q[1] = v /\ q[2] = j - 1
        BY <2>1, <3>4
      <4>. HIDE DEF q
      <4>2. p = q
        BY <3>1, <4>1 DEF Consistent, pairs
      <4>. QED
        BY <4>1, <4>2
    <3>5. ASSUME NEW j \in DOMAIN G[v], p[2] = j - 1 PROVE G[v][j] \in s
      <4>1. j = p[2] + 1
        BY <3>5, GroupFacts
      <4>. QED
        BY <3>2, <3>3, <4>1
    <3>. HIDE DEF n
    <3>. QED
      BY <3>1, <3>3, <3>4, <3>5
  <2>3. CASE ~ \E p \in pairs : p[1] = v
    <3>1. n(v) = Len(G[v])
      BY <2>3 DEF ValueFor, NoneOfThose
    <3>2. \A j \in DOMAIN G[v] : G[v][j] \notin s
      BY <2>1, <2>3
    <3>. HIDE DEF n
    <3>. QED
      BY <3>1, <3>2, GroupFacts DEF Values, NoneOfThose
  <2>. QED
    BY <2>2, <2>3
<1>3. DOMAIN w = DOMAIN G /\ \A v \in DOMAIN G : w[v] = n(v)
  OBVIOUS
<1>. HIDE DEF w, n
<1>4. Represents(G, w, s)
  BY <1>2, <1>3 DEF Represents
<1>. QED
  BY <1>4 DEF w, n, pairs

LEMMA EncodedMeets ==
  ASSUME task \in Tasks, NEW s \in Legal
  PROVE  Meets(Encoded(s), s)
<1>1. WellGrouped(task.groups) /\ Strips!Exclusive(task.groups, s)
  BY TaskFacts DEF Legal
<1>2. Encoded(s) = [v \in DOMAIN task.groups |-> ValueFor(task.groups, PairsOf(task.groups, s), v)]
  BY DEF Encoded, ValueFor, PairsOf
<1>. QED
  BY <1>1, <1>2, ConsistentIsExclusive, ValuesRepresent DEF Meets

-----------------------------------------------------------------------------
(* The invariant: the values are those of a state that the groups allow,    *)
(* first of the initial one, and what is written is what was asked for.     *)

Start == task.init \cap AllAtoms

Translated ==
  IF phase \in {"axioms", "run"} THEN DOMAIN task.operators
  ELSE {i \in DOMAIN task.operators : phase = "operators" /\ i <= position}

TranslatedAxioms ==
  IF phase = "run" THEN DOMAIN task.axioms ELSE {i \in DOMAIN task.axioms : phase = "axioms" /\ i <= position}

ValuesInv ==
  /\ phase = "init" => value = [v \in DOMAIN task.groups |-> NoneOfThose(task.groups, v)]
  /\ phase \in {"goal", "operators", "axioms"} => Start \in Legal /\ Represents(task.groups, value, Start)

GoalInv ==
  /\ phase \in {"operators", "axioms", "run"} => Conditions(task.goal) = {goal}
  /\ phase = "unsolvable" => Conditions(task.goal) = {}

WrittenInv ==
  /\ operators = UNION {SASOperators(i) : i \in Translated}
  /\ axioms = UNION {SASAxioms(task.axioms[i]) : i \in TranslatedAxioms}

TrInv ==
  /\ task \in Tasks
  /\ position \in Nat
  /\ phase \in {"init", "goal", "operators", "axioms", "run", "unsolvable", "failed"}
  /\ phase \in {"init", "goal"} => position = 0
  /\ ValuesInv
  /\ GoalInv
  /\ WrittenInv

\* While the task is executed the values are those of a legal state.
RunInv == phase = "run" => \E s \in Legal : Represents(task.groups, value, s)

LEMMA InitHasInv == TrInit => TrInv
<1>. SUFFICES ASSUME TrInit PROVE TrInv
  OBVIOUS
<1>. USE DEF TrInit
<1>1. Translated = {} /\ TranslatedAxioms = {}
  BY DEF Translated, TranslatedAxioms
<1>2. WrittenInv
  BY <1>1 DEF WrittenInv
<1>. QED
  BY <1>2 DEF TrInv, ValuesInv, GoalInv

LEMMA WrittenStays ==
  ASSUME WrittenInv, task' = task, addImplied' = addImplied, operators' = operators, axioms' = axioms,
         Translated' = Translated, TranslatedAxioms' = TranslatedAxioms
  PROVE  WrittenInv'
<1>1. \A i : SASOperators(i)' = SASOperators(i)
  BY SameOperators
<1>2. \A x : SASAxioms(x)' = SASAxioms(x)
  BY SameAxioms
<1>3. (UNION {SASOperators(i) : i \in Translated})' = UNION {SASOperators(i) : i \in Translated}
  BY <1>1
<1>4. (UNION {SASAxioms(task.axioms[i]) : i \in TranslatedAxioms})' = UNION {SASAxioms(task.axioms[i]) : i \in TranslatedAxioms}
  BY <1>2
<1>. QED
  BY <1>3, <1>4 DEF WrittenInv

LEMMA StartIsLegal ==
  ASSUME task \in Tasks, Consistent(InitPairs)
  PROVE  Start \in Legal
<1>1. Strips!Exclusive(task.groups, task.init) /\ Strips!Exclusive(task.mutex, task.init)
  BY ConsistentIsExclusive, TaskFacts DEF InitPairs, PairsOf
<1>. QED
  BY <1>1 DEF Start, Legal, Strips!Exclusive

LEMMA StepTranslateInit ==
  ASSUME TrInv, TranslateInit
  PROVE  TrInv'
<1>. USE DEF TrInv, TranslateInit
<1>1. Start \in Legal
  BY StartIsLegal
<1>2. value' = [v \in DOMAIN task.groups |-> ValueFor(task.groups, PairsOf(task.groups, task.init), v)]
  BY DEF ValuesInv, InitPairs, PairsOf, ValueFor
<1>3. Represents(task.groups, value', task.init)
  <2>1. WellGrouped(task.groups) /\ Consistent(PairsOf(task.groups, task.init))
    BY TaskFacts DEF InitPairs, PairsOf
  <2>. QED
    BY <1>2, <2>1, ValuesRepresent
<1>4. Represents(task.groups, value', Start)
  <2>1. \A v \in DOMAIN task.groups : \A j \in DOMAIN task.groups[v] : task.groups[v][j] \in AllAtoms
    BY AtomsInGroups DEF AllAtoms
  <2>. QED
    BY <1>3, <2>1 DEF Represents, Start
<1>5. Start' = Start /\ Legal' = Legal
  BY SameLegal DEF Start
<1>6. ValuesInv'
  BY <1>1, <1>4, <1>5 DEF ValuesInv
<1>7. Translated' = Translated /\ TranslatedAxioms' = TranslatedAxioms
  BY DEF Translated, TranslatedAxioms
<1>8. WrittenInv'
  BY <1>7, WrittenStays
<1>. QED
  BY <1>6, <1>8 DEF GoalInv

LEMMA StepInitFails ==
  ASSUME TrInv, InitFails
  PROVE  TrInv'
<1>. USE DEF TrInv, InitFails
<1>1. Translated' = Translated /\ TranslatedAxioms' = TranslatedAxioms
  BY DEF Translated, TranslatedAxioms
<1>2. WrittenInv'
  BY <1>1, WrittenStays
<1>. QED
  BY <1>2 DEF ValuesInv, GoalInv

\* The values stay those of the initial state while the rest is translated.
LEMMA ValuesStay ==
  ASSUME Start \in Legal, Represents(task.groups, value, Start), task' = task, value' = value
  PROVE  Start' \in Legal' /\ Represents(task.groups, value, Start)'
<1>1. Start' = Start /\ Legal' = Legal
  BY SameLegal DEF Start
<1>. QED
  BY <1>1

LEMMA StepTranslateGoal ==
  ASSUME TrInv, TranslateGoal
  PROVE  TrInv'
<1>. DEFINE all == Conditions(task.goal)
            only == {c \in all : all = {c}}
<1>1. /\ phase = "goal" /\ position = 0 /\ task \in Tasks /\ WrittenInv
      /\ phase' = IF all = {} THEN "unsolvable" ELSE IF only # {} THEN "operators" ELSE "failed"
      /\ goal' = UNION only
      /\ UNCHANGED <<task, addImplied, position, value, operators, axioms>>
  BY DEF TrInv, TranslateGoal
<1>2. Conditions(task.goal)' = all
  BY <1>1, SameConditions
<1>. HIDE DEF all
<1>3. only # {} => all = {goal'}
  <2>. SUFFICES ASSUME NEW c \in all, all = {c} PROVE goal' = c
    OBVIOUS
  <2>1. only = {c}
    OBVIOUS
  <2>. HIDE DEF only
  <2>. QED
    BY <1>1, <2>1
<1>. HIDE DEF only
<1>4. GoalInv'
  BY <1>1, <1>2, <1>3 DEF GoalInv
<1>5. ValuesInv'
  <2>1. Start \in Legal /\ Represents(task.groups, value, Start)
    BY <1>1 DEF TrInv, ValuesInv
  <2>2. Start' \in Legal' /\ Represents(task.groups, value, Start)'
    BY <1>1, <2>1, ValuesStay
  <2>. QED
    BY <1>1, <2>2 DEF ValuesInv
<1>6. Translated' = Translated /\ TranslatedAxioms' = TranslatedAxioms
  <2>1. \A i \in DOMAIN task.operators : ~ i <= 0
    BY <1>1, TaskFacts, ElementOfSeq
  <2>2. Translated = {} /\ Translated' = {}
    BY <1>1, <2>1 DEF Translated
  <2>. QED
    BY <1>1, <2>2 DEF TranslatedAxioms
<1>7. WrittenInv'
  BY <1>1, <1>6, WrittenStays
<1>. QED
  BY <1>1, <1>4, <1>5, <1>7 DEF TrInv

LEMMA StepTranslateOperator ==
  ASSUME TrInv, TranslateOperator
  PROVE  TrInv'
<1>1. /\ phase = "operators" /\ position \in Nat /\ position < Len(task.operators) /\ task \in Tasks
      /\ operators' = operators \cup SASOperators(position + 1) /\ position' = position + 1
      /\ UNCHANGED <<task, addImplied, phase, value, goal, axioms>>
      /\ GoalInv /\ WrittenInv /\ Start \in Legal /\ Represents(task.groups, value, Start)
  BY DEF TrInv, ValuesInv, TranslateOperator
<1>2. ValuesInv'
  <2>1. Start' \in Legal' /\ Represents(task.groups, value, Start)'
    BY <1>1, ValuesStay
  <2>. QED
    BY <1>1, <2>1 DEF ValuesInv
<1>3. GoalInv'
  <2>1. Conditions(task.goal)' = Conditions(task.goal)
    BY <1>1, SameConditions
  <2>. QED
    BY <1>1, <2>1 DEF GoalInv
<1>4. Translated' = Translated \cup {position + 1} /\ TranslatedAxioms = {} /\ TranslatedAxioms' = {}
  <2>1. DOMAIN task.operators = 1..Len(task.operators) /\ Len(task.operators) \in Nat
    BY <1>1, TaskFacts, ElementOfSeq
  <2>2. /\ Translated = {i \in DOMAIN task.operators : i <= position}
        /\ Translated' = {i \in DOMAIN task.operators : i <= position + 1}
    BY <1>1 DEF Translated
  <2>3. Translated' = Translated \cup {position + 1}
    BY <1>1, <2>1, <2>2
  <2>. QED
    BY <1>1, <2>3 DEF TranslatedAxioms
<1>5. \A i : SASOperators(i)' = SASOperators(i)
  BY <1>1, SameOperators
<1>6. operators' = UNION {SASOperators(i) : i \in Translated'}
  BY <1>1, <1>4 DEF WrittenInv
<1>7. (UNION {SASOperators(i) : i \in Translated})' = operators'
  BY <1>5, <1>6
<1>8. WrittenInv'
  BY <1>1, <1>4, <1>7 DEF WrittenInv
<1>. QED
  BY <1>1, <1>2, <1>3, <1>8 DEF TrInv

LEMMA StepOperatorsEnd ==
  ASSUME TrInv, OperatorsEnd
  PROVE  TrInv'
<1>1. /\ phase = "operators" /\ position = Len(task.operators) /\ task \in Tasks
      /\ phase' = "axioms" /\ position' = 0
      /\ UNCHANGED <<task, addImplied, value, goal, operators, axioms>>
      /\ GoalInv /\ WrittenInv /\ Start \in Legal /\ Represents(task.groups, value, Start)
  BY DEF TrInv, ValuesInv, OperatorsEnd
<1>2. ValuesInv'
  <2>1. Start' \in Legal' /\ Represents(task.groups, value, Start)'
    BY <1>1, ValuesStay
  <2>. QED
    BY <1>1, <2>1 DEF ValuesInv
<1>3. GoalInv'
  <2>1. Conditions(task.goal)' = Conditions(task.goal)
    BY <1>1, SameConditions
  <2>. QED
    BY <1>1, <2>1 DEF GoalInv
<1>4. Translated' = Translated
  <2>1. \A i \in DOMAIN task.operators : i <= Len(task.operators)
    BY <1>1, TaskFacts, ElementOfSeq
  <2>. QED
    BY <1>1, <2>1 DEF Translated
<1>5. TranslatedAxioms' = TranslatedAxioms
  <2>1. \A i \in DOMAIN task.axioms : ~ i <= 0
    BY <1>1, TaskFacts, ElementOfSeq
  <2>. QED
    BY <1>1, <2>1 DEF TranslatedAxioms
<1>6. WrittenInv'
  BY <1>1, <1>4, <1>5, WrittenStays
<1>. QED
  BY <1>1, <1>2, <1>3, <1>6 DEF TrInv

LEMMA StepTranslateAxiom ==
  ASSUME TrInv, TranslateAxiom
  PROVE  TrInv'
<1>1. /\ phase = "axioms" /\ position \in Nat /\ position < Len(task.axioms) /\ task \in Tasks
      /\ axioms' = axioms \cup SASAxioms(task.axioms[position + 1]) /\ position' = position + 1
      /\ UNCHANGED <<task, addImplied, phase, value, goal, operators>>
      /\ GoalInv /\ WrittenInv /\ Start \in Legal /\ Represents(task.groups, value, Start)
  BY DEF TrInv, ValuesInv, TranslateAxiom
<1>2. ValuesInv'
  <2>1. Start' \in Legal' /\ Represents(task.groups, value, Start)'
    BY <1>1, ValuesStay
  <2>. QED
    BY <1>1, <2>1 DEF ValuesInv
<1>3. GoalInv'
  <2>1. Conditions(task.goal)' = Conditions(task.goal)
    BY <1>1, SameConditions
  <2>. QED
    BY <1>1, <2>1 DEF GoalInv
<1>4. TranslatedAxioms' = TranslatedAxioms \cup {position + 1} /\ Translated' = Translated
  <2>1. DOMAIN task.axioms = 1..Len(task.axioms) /\ Len(task.axioms) \in Nat
    BY <1>1, TaskFacts, ElementOfSeq
  <2>2. /\ TranslatedAxioms = {i \in DOMAIN task.axioms : i <= position}
        /\ TranslatedAxioms' = {i \in DOMAIN task.axioms : i <= position + 1}
    BY <1>1 DEF TranslatedAxioms
  <2>3. TranslatedAxioms' = TranslatedAxioms \cup {position + 1}
    BY <1>1, <2>1, <2>2
  <2>. QED
    BY <1>1, <2>3 DEF Translated
<1>5. \A i : SASOperators(i)' = SASOperators(i)
  BY <1>1, SameOperators
<1>6. \A x : SASAxioms(x)' = SASAxioms(x)
  BY <1>1, SameAxioms
<1>7. axioms' = UNION {SASAxioms(task.axioms[i]) : i \in TranslatedAxioms'}
  BY <1>1, <1>4 DEF WrittenInv
<1>8. (UNION {SASAxioms(task.axioms[i]) : i \in TranslatedAxioms})' = axioms'
  BY <1>1, <1>6, <1>7
<1>9. (UNION {SASOperators(i) : i \in Translated})' = operators'
  BY <1>1, <1>4, <1>5 DEF WrittenInv
<1>10. WrittenInv'
  BY <1>1, <1>8, <1>9 DEF WrittenInv
<1>. QED
  BY <1>1, <1>2, <1>3, <1>10 DEF TrInv

LEMMA StepAxiomsEnd ==
  ASSUME TrInv, AxiomsEnd
  PROVE  TrInv'
<1>1. /\ phase = "axioms" /\ position = Len(task.axioms) /\ position \in Nat /\ task \in Tasks /\ phase' = "run"
      /\ UNCHANGED <<task, addImplied, position, value, goal, operators, axioms>>
      /\ GoalInv /\ WrittenInv /\ Start \in Legal /\ Represents(task.groups, value, Start)
  BY DEF TrInv, ValuesInv, AxiomsEnd
<1>2. ValuesInv'
  BY <1>1 DEF ValuesInv
<1>3. GoalInv'
  <2>1. Conditions(task.goal)' = Conditions(task.goal)
    BY <1>1, SameConditions
  <2>. QED
    BY <1>1, <2>1 DEF GoalInv
<1>4. Translated' = Translated
  BY <1>1 DEF Translated
<1>5. TranslatedAxioms' = TranslatedAxioms
  <2>1. \A i \in DOMAIN task.axioms : i <= Len(task.axioms)
    BY <1>1, TaskFacts, ElementOfSeq
  <2>. QED
    BY <1>1, <2>1 DEF TranslatedAxioms
<1>6. WrittenInv'
  BY <1>1, <1>4, <1>5, WrittenStays
<1>. QED
  BY <1>1, <1>2, <1>3, <1>6 DEF TrInv

\* Every operator that was written is a variant of an action.
LEMMA OperatorsAreVariants ==
  ASSUME TrInv, phase = "run"
  PROVE  \A o : o \in operators <=>
           \E i \in DOMAIN task.operators : \E c \in Conditions(task.operators[i].precondition) :
             o = SASOperator(i, c, Effects(task.operators[i]))
<1>1. operators = UNION {SASOperators(i) : i \in DOMAIN task.operators}
  BY DEF TrInv, WrittenInv, Translated
<1>2. \A i : \A o : o \in SASOperators(i) <=>
        \E c \in Conditions(task.operators[i].precondition) : o = SASOperator(i, c, Effects(task.operators[i]))
  <2>1. \A i : SASOperators(i) = {SASOperator(i, c, Effects(task.operators[i])) :
                                    c \in Conditions(task.operators[i].precondition)}
    BY SASOperatorsAre
  <2>. QED
    BY <2>1
<1>. SUFFICES ASSUME NEW o
              PROVE  o \in operators <=> \E i \in DOMAIN task.operators :
                       \E c \in Conditions(task.operators[i].precondition) : o = SASOperator(i, c, Effects(task.operators[i]))
  OBVIOUS
<1>3. o \in operators <=> \E i \in DOMAIN task.operators : o \in SASOperators(i)
  BY <1>1
<1>. QED
  BY <1>2, <1>3

LEMMA OperatorIsOfTask ==
  ASSUME NEW i \in DOMAIN task.operators
  PROVE  task.operators[i] \in ToSet(task.operators)
BY DEF ToSet

\* Executing what was written executes the action.
LEMMA RunIsAction ==
  ASSUME TrInv, Decided(task), NEW s, Meets(value, s), NEW o \in operators, Run(o)
  PROVE  \E op \in ToSet(task.operators) :
           /\ Strips!Applicable(op, Whole(s))
           /\ Strips!Result(op, s) \in Legal
           /\ Represents(task.groups, value', Strips!Result(op, s))
<1>. DEFINE G == task.groups
<1>1. task \in Tasks /\ phase = "run" /\ s \in Legal /\ Represents(G, value, s) /\ WellGrouped(G)
  BY TaskFacts DEF Meets, Run
<1>2. PICK i \in DOMAIN task.operators : \E c \in Conditions(task.operators[i].precondition) :
               o = SASOperator(i, c, Effects(task.operators[i]))
  BY <1>1, OperatorsAreVariants
<1>3. PICK c \in Conditions(task.operators[i].precondition) : o = SASOperator(i, c, Effects(task.operators[i]))
  BY <1>2
<1>. DEFINE op == task.operators[i]
            r == Strips!Result(op, s)
<1>4. op \in ToSet(task.operators)
  BY OperatorIsOfTask
<1>5. TrueAt(c, value)
  BY <1>3, <1>4, CanRunMeaning DEF Run
<1>6. Strips!Applicable(op, Whole(s)) /\ r \in Legal
  <2>1. op.precondition \in Seq(LiteralsOver(AllAtoms))
    BY <1>1, <1>4, OperatorFacts
  <2>2. AllHold(ToSet(op.precondition), s)
    BY <1>5, <2>1, Meaning
  <2>. QED
    BY <1>1, <1>4, <2>2, WholeResult
<1>7. PICK u : Represents(G, u, r)
  <2>1. Strips!Exclusive(G, r)
    BY <1>6 DEF Legal
  <2>. QED
    BY <1>1, <2>1, SomethingRepresents
<1>8. \A v \in DOMAIN G : Posts(o, v) = {u[v]}
  BY <1>3, <1>4, <1>5, <1>7, PostsMeaning
<1>9. DOMAIN value' = DOMAIN G /\ \A v \in DOMAIN G : value'[v] = u[v]
  <2>1. DOMAIN value = DOMAIN G
    BY <1>1 DEF Represents
  <2>2. value' \in [DOMAIN value -> UNION {Posts(o, v) : v \in DOMAIN value}] /\ \A v \in DOMAIN value : value'[v] \in Posts(o, v)
    BY DEF Run
  <2>. QED
    BY <1>8, <2>1, <2>2
<1>. HIDE DEF r
<1>10. Represents(G, value', r)
  BY <1>7, <1>9 DEF Represents
<1>. QED
  BY <1>4, <1>6, <1>10 DEF r

LEMMA StepRun ==
  ASSUME TrInv, NEW o \in operators, Run(o)
  PROVE  TrInv'
<1>1. /\ phase = "run" /\ phase' = phase /\ position \in Nat /\ task \in Tasks
      /\ UNCHANGED <<task, addImplied, position, goal, operators, axioms>>
      /\ GoalInv /\ WrittenInv
  BY DEF TrInv, Run
<1>2. ValuesInv'
  BY <1>1 DEF ValuesInv
<1>3. GoalInv'
  <2>1. Conditions(task.goal)' = Conditions(task.goal)
    BY <1>1, SameConditions
  <2>. QED
    BY <1>1, <2>1 DEF GoalInv
<1>4. Translated' = Translated /\ TranslatedAxioms' = TranslatedAxioms
  BY <1>1 DEF Translated, TranslatedAxioms
<1>5. WrittenInv'
  BY <1>1, <1>4, WrittenStays
<1>. QED
  BY <1>1, <1>2, <1>3, <1>5 DEF TrInv

LEMMA StepNothing ==
  ASSUME TrInv, UNCHANGED trVars
  PROVE  TrInv'
<1>1. /\ position \in Nat /\ task \in Tasks /\ WrittenInv /\ GoalInv /\ ValuesInv
      /\ UNCHANGED <<task, addImplied, phase, position, value, goal, operators, axioms>>
  BY DEF TrInv, trVars
<1>2. Start' = Start /\ Legal' = Legal
  BY <1>1, SameLegal DEF Start
<1>3. ValuesInv'
  BY <1>1, <1>2 DEF ValuesInv
<1>4. GoalInv'
  <2>1. Conditions(task.goal)' = Conditions(task.goal)
    BY <1>1, SameConditions
  <2>. QED
    BY <1>1, <2>1 DEF GoalInv
<1>5. Translated' = Translated /\ TranslatedAxioms' = TranslatedAxioms
  BY <1>1 DEF Translated, TranslatedAxioms
<1>6. WrittenInv'
  BY <1>1, <1>5, WrittenStays
<1>. QED
  BY <1>1, <1>3, <1>4, <1>6 DEF TrInv

\* The invariant, whatever the operators do.
LEMMA Invariant == TrSpec => []TrInv
<1>1. TrInit => TrInv
  BY InitHasInv
<1>2. TrInv /\ [TrNext]_trVars => TrInv'
  <2>. SUFFICES ASSUME TrInv, [TrNext]_trVars PROVE TrInv'
    OBVIOUS
  <2>1. CASE TranslateInit
    BY <2>1, StepTranslateInit
  <2>2. CASE InitFails
    BY <2>2, StepInitFails
  <2>3. CASE TranslateGoal
    BY <2>3, StepTranslateGoal
  <2>4. CASE TranslateOperator
    BY <2>4, StepTranslateOperator
  <2>5. CASE OperatorsEnd
    BY <2>5, StepOperatorsEnd
  <2>6. CASE TranslateAxiom
    BY <2>6, StepTranslateAxiom
  <2>7. CASE AxiomsEnd
    BY <2>7, StepAxiomsEnd
  <2>8. ASSUME NEW o \in operators, Run(o) PROVE TrInv'
    BY <2>8, StepRun
  <2>9. CASE UNCHANGED trVars
    BY <2>9, StepNothing
  <2>. QED
    BY <2>1, <2>2, <2>3, <2>4, <2>5, <2>6, <2>7, <2>8, <2>9 DEF TrNext, TrEnded
<1>. QED
  BY <1>1, <1>2, PTL DEF TrSpec

LEMMA InitRuns == TrInit => RunInv
BY DEF TrInit, RunInv

LEMMA StepRunInv ==
  ASSUME TrInv, RunInv, Decided(task), [TrNext]_trVars
  PROVE  RunInv'
<1>1. ASSUME phase' # "run" PROVE RunInv'
  BY <1>1 DEF RunInv
<1>2. CASE AxiomsEnd
  <2>1. Start \in Legal /\ Represents(task.groups, value, Start) /\ task' = task /\ value' = value
    BY <1>2 DEF TrInv, ValuesInv, AxiomsEnd
  <2>2. Legal' = Legal
    BY <2>1, SameLegal
  <2>. QED
    BY <2>1, <2>2 DEF RunInv
<1>3. ASSUME NEW o \in operators, Run(o) PROVE RunInv'
  <2>1. /\ phase = "run" /\ task' = task /\ task \in Tasks
    BY <1>3 DEF TrInv, Run
  <2>2. PICK s \in Legal : Represents(task.groups, value, s)
    BY <2>1 DEF RunInv
  <2>3. PICK r \in Legal : Represents(task.groups, value', r)
    BY <1>3, <2>1, <2>2, RunIsAction DEF Meets
  <2>4. Legal' = Legal
    BY <2>1, SameLegal
  <2>. QED
    BY <2>1, <2>3, <2>4 DEF RunInv
<1>4. CASE UNCHANGED trVars
  <2>1. Legal' = Legal
    BY <1>4, SameLegal DEF trVars
  <2>. QED
    BY <1>4, <2>1 DEF trVars, RunInv
<1>5. CASE TranslateInit \/ InitFails \/ TranslateGoal \/ TranslateOperator \/ OperatorsEnd \/ TranslateAxiom
  <2>1. phase' # "run"
    BY <1>5 DEF TranslateInit, InitFails, TranslateGoal, TranslateOperator, OperatorsEnd, TranslateAxiom
  <2>. QED
    BY <1>1, <2>1
<1>. QED
  BY <1>2, <1>3, <1>4, <1>5 DEF TrNext, TrEnded

\* The values stay those of a state that the groups allow.
LEMMA RunInvariant ==
  ASSUME \A t \in Tasks : Decided(t)
  PROVE  TrSpec => []RunInv
<1>1. TrInit => RunInv
  BY InitRuns
<1>2. TrInv /\ RunInv /\ [TrNext]_trVars => RunInv'
  <2>. SUFFICES ASSUME TrInv, RunInv, [TrNext]_trVars PROVE RunInv'
    OBVIOUS
  <2>1. Decided(task)
    BY DEF TrInv
  <2>. QED
    BY <2>1, StepRunInv
<1>. QED
  BY <1>1, <1>2, Invariant, PTL DEF TrSpec

-----------------------------------------------------------------------------
(* The properties that the runs check.                                     *)

LEMMA AxiomsAgreeWhen ==
  ASSUME TrInv
  PROVE  AxiomsAgree
<1>. SUFFICES ASSUME phase = "run", NEW x \in ToSet(task.axioms), NEW s \in Legal
              PROVE  AllHold(ToSet(x.condition), s)
                       <=> \E y \in axioms : y \in SASAxioms(x) /\ \A p \in y.condition : Encoded(s)[p[1]] = p[2]
  BY DEF AxiomsAgree
<1>1. task \in Tasks /\ axioms = UNION {SASAxioms(task.axioms[i]) : i \in DOMAIN task.axioms}
  BY DEF TrInv, WrittenInv, TranslatedAxioms
<1>2. SASAxioms(x) \subseteq axioms
  BY <1>1 DEF ToSet
<1>3. Meets(Encoded(s), s) /\ x.condition \in Seq(LiteralsOver(AllAtoms))
  BY <1>1, EncodedMeets, TaskFacts
<1>4. (\E c \in Conditions(x.condition) : TrueAt(c, Encoded(s))) <=> AllHold(ToSet(x.condition), s)
  BY <1>3, Meaning
<1>5. \E effect : SASAxioms(x) = {[condition |-> c, effect |-> effect] : c \in Conditions(x.condition)}
  BY DEF SASAxioms
<1>6. (\E y \in SASAxioms(x) : TrueAt(y.condition, Encoded(s))) <=> \E c \in Conditions(x.condition) : TrueAt(c, Encoded(s))
  <2>1. PICK effect : SASAxioms(x) = {[condition |-> c, effect |-> effect] : c \in Conditions(x.condition)}
    BY <1>5
  <2>. DEFINE axiom(c) == [condition |-> c, effect |-> effect]
  <2>2. \A c \in Conditions(x.condition) : axiom(c) \in SASAxioms(x) /\ axiom(c).condition = c
    BY <2>1
  <2>3. \A y \in SASAxioms(x) : y.condition \in Conditions(x.condition)
    BY <2>1
  <2>. HIDE DEF axiom
  <2>. QED
    BY <2>2, <2>3
<1>. QED
  BY <1>2, <1>4, <1>6 DEF TrueAt

\* In every state that the groups allow the conditions of an axiom hold for the
\* values when they hold for the atoms (translate_strips_axiom), for every task.
THEOREM AxiomsAlwaysAgree == TrSpec => []AxiomsAgree
<1>1. TrInv => AxiomsAgree
  BY AxiomsAgreeWhen
<1>. QED
  BY <1>1, Invariant, PTL

\* The goal may mention static atoms, and they hold.
LEMMA GoalMeaning ==
  ASSUME NEW w, NEW s, Meets(w, s)
  PROVE  (\E c \in Conditions(task.goal) : TrueAt(c, w)) <=> AllHold(ToSet(task.goal), Whole(s))
<1>. DEFINE A == AllAtoms \cup task.init
            C == task.goal
<1>1. /\ task \in Tasks /\ C \in Seq(LiteralsOver(A))
      /\ \A l \in ToSet(C) : l.negated => l.atom \in AllAtoms
  BY TaskFacts DEF Meets
<1>2. ASSUME NEW l \in ToSet(C) PROVE l.atom \in AllAtoms \/ Holds(l, Whole(s))
  <2>1. l \in LiteralsOver(A)
    <3>. HIDE DEF A, C
    <3>. QED
      BY <1>1, ElementOfSeq DEF ToSet
  <2>2. l.atom \in AllAtoms \/ (l.atom \in Whole(s) /\ ~ l.negated)
    BY <1>1, <2>1, LiteralFacts DEF Whole
  <2>. QED
    BY <2>1, <2>2, LiteralFacts
<1>. HIDE DEF A, C
<1>. QED
  BY <1>1, <1>2, WholeIsLegal, ConditionsMeaning DEF C

LEMMA GoalAgreesWhen ==
  ASSUME TrInv, RunInv
  PROVE  GoalAgrees
<1>1. ASSUME phase = "run" PROVE True(goal) <=> AllHold(ToSet(task.goal), Decoded)
  <2>1. PICK s \in Legal : Represents(task.groups, value, s)
    BY <1>1 DEF RunInv
  <2>2. Meets(value, s) /\ Conditions(task.goal) = {goal}
    BY <1>1, <2>1 DEF TrInv, GoalInv, Meets
  <2>3. Decoded = Whole(s)
    BY <2>2, DecodedMeaning DEF Decoded, DecodedAt
  <2>. QED
    BY <2>2, <2>3, GoalMeaning DEF True, TrueAt
<1>2. ASSUME phase = "unsolvable", NEW s \in Legal
      PROVE  ~ AllHold(ToSet(task.goal), s \cup (task.init \ AllAtoms))
  <2>1. Meets(Encoded(s), s) /\ Conditions(task.goal) = {}
    BY <1>2, EncodedMeets DEF TrInv, GoalInv
  <2>. QED
    BY <2>1, GoalMeaning DEF Whole
<1>. QED
  BY <1>1, <1>2 DEF GoalAgrees

\* The goal of output.sas is the goal of the task, and a task that is replaced by
\* an unsolvable one has no legal state with its goal (translate_task).
THEOREM GoalAlwaysAgrees ==
  ASSUME \A t \in Tasks : Decided(t)
  PROVE  TrSpec => []GoalAgrees
<1>1. TrInv /\ RunInv => GoalAgrees
  BY GoalAgreesWhen
<1>. QED
  BY <1>1, Invariant, RunInvariant, PTL

LEMMA OneVariantWhen ==
  ASSUME TrInv, RunInv
  PROVE  OneVariantRuns
<1>. SUFFICES ASSUME phase = "run", NEW i \in DOMAIN task.operators
              PROVE  Cardinality({o \in operators : o.action = i /\ CanRun(o)})
                       = IF Strips!Applicable(task.operators[i], Decoded) THEN 1 ELSE 0
  BY DEF OneVariantRuns
<1>. DEFINE op == task.operators[i]
            able == {o \in operators : o.action = i /\ CanRun(o)}
            variant(c) == SASOperator(i, c, Effects(op))
<1>1. PICK s \in Legal : Represents(task.groups, value, s)
  BY DEF RunInv
<1>2. Meets(value, s) /\ task \in Tasks /\ op \in ToSet(task.operators)
  BY <1>1, OperatorIsOfTask DEF TrInv, Meets
<1>3. Decoded = Whole(s)
  BY <1>2, DecodedMeaning DEF Decoded, DecodedAt
<1>4. Strips!Applicable(op, Decoded) <=> AllHold(ToSet(op.precondition), s)
  BY <1>2, <1>3, WholeResult
<1>5. /\ (\E c \in Conditions(op.precondition) : TrueAt(c, value)) <=> AllHold(ToSet(op.precondition), s)
      /\ \A c, d \in Conditions(op.precondition) : TrueAt(c, value) /\ TrueAt(d, value) => c = d
  BY <1>2, OperatorFacts, Meaning
<1>6. \A o : o \in able <=> \E c \in Conditions(op.precondition) : o = variant(c) /\ TrueAt(c, value)
  <2>1. \A j, c, E : SASOperator(j, c, E).action = j
    BY DEF SASOperator
  <2>2. \A c \in Conditions(op.precondition) : CanRun(variant(c)) <=> TrueAt(c, value)
    BY <1>2, CanRunMeaning
  <2>. SUFFICES ASSUME NEW o
                PROVE  o \in able <=> \E c \in Conditions(op.precondition) : o = variant(c) /\ TrueAt(c, value)
    OBVIOUS
  <2>3. o \in operators <=> \E j \in DOMAIN task.operators :
          \E c \in Conditions(task.operators[j].precondition) : o = SASOperator(j, c, Effects(task.operators[j]))
    BY OperatorsAreVariants
  <2>4. o \in operators /\ o.action = i <=> \E c \in Conditions(op.precondition) : o = variant(c)
    BY <2>1, <2>3
  <2>. HIDE DEF variant
  <2>. QED
    BY <2>2, <2>4
<1>. HIDE DEF able, variant
<1>7. CASE AllHold(ToSet(op.precondition), s)
  <2>1. PICK c \in Conditions(op.precondition) : TrueAt(c, value)
    BY <1>5, <1>7
  <2>2. able = {variant(c)}
    BY <1>5, <1>6, <2>1
  <2>. QED
    BY <1>4, <1>7, <2>2, FS_Singleton DEF able
<1>8. CASE ~ AllHold(ToSet(op.precondition), s)
  <2>1. able = {}
    BY <1>5, <1>6, <1>8
  <2>. QED
    BY <1>4, <1>8, <2>1, FS_EmptySet DEF able
<1>. QED
  BY <1>7, <1>8

\* Of the variants of an action one can run if it is applicable, and none if not
\* (translate_strips_operator), however many its precondition makes of it.
THEOREM OneVariantAlwaysRuns ==
  ASSUME \A t \in Tasks : Decided(t)
  PROVE  TrSpec => []OneVariantRuns
<1>1. TrInv /\ RunInv => OneVariantRuns
  BY OneVariantWhen
<1>. QED
  BY <1>1, Invariant, RunInvariant, PTL

-----------------------------------------------------------------------------
(* The translated task implements the ground task.                         *)

Shown == IF phase = "run" THEN Decoded ELSE task.init

LEMMA SameDecoded ==
  ASSUME task' = task
  PROVE  Decoded' = DecodedAt(value')
<1>1. AllAtoms' = AllAtoms
  BY SameLegal
<1>. QED
  BY <1>1 DEF Decoded, DecodedAt

LEMMA InitImplements == TrInit => Strips!StripsInit
BY DEF TrInit, Strips!StripsInit

LEMMA StepImplements ==
  ASSUME TrInv, RunInv, Decided(task), [TrNext]_trVars
  PROVE  [Strips!StripsNext]_<<task, Shown>>
<1>0. task \in Tasks
  BY DEF TrInv
<1>1. ASSUME phase # "run", phase' # "run", task' = task PROVE UNCHANGED <<task, Shown>>
  BY <1>1 DEF Shown
<1>2. CASE TranslateInit \/ InitFails \/ TranslateGoal \/ TranslateOperator \/ OperatorsEnd \/ TranslateAxiom
  <2>1. phase # "run" /\ phase' # "run" /\ task' = task
    BY <1>2 DEF TranslateInit, InitFails, TranslateGoal, TranslateOperator, OperatorsEnd, TranslateAxiom
  <2>. QED
    BY <1>1, <2>1
<1>3. CASE AxiomsEnd
  <2>1. /\ phase = "axioms" /\ phase' = "run" /\ task' = task /\ value' = value
        /\ Meets(value, Start)
    BY <1>0, <1>3 DEF TrInv, ValuesInv, AxiomsEnd, Meets
  <2>2. DecodedAt(value) = Whole(Start)
    BY <2>1, DecodedMeaning
  <2>3. Whole(Start) = task.init
    BY DEF Whole, Start
  <2>4. Decoded' = task.init
    BY <2>1, <2>2, <2>3, SameDecoded
  <2>. QED
    BY <2>1, <2>4 DEF Shown
<1>4. ASSUME NEW o \in operators, Run(o) PROVE Strips!StripsNext
  <2>1. phase = "run" /\ phase' = "run" /\ task' = task
    BY <1>4 DEF Run
  <2>2. PICK s \in Legal : Meets(value, s)
    BY <1>0, <2>1 DEF RunInv, Meets
  <2>3. PICK op \in ToSet(task.operators) :
               /\ Strips!Applicable(op, Whole(s))
               /\ Strips!Result(op, s) \in Legal
               /\ Represents(task.groups, value', Strips!Result(op, s))
    BY <1>4, <2>2, RunIsAction
  <2>4. Decoded = Whole(s)
    BY <2>2, DecodedMeaning DEF Decoded, DecodedAt
  <2>5. Decoded' = Whole(Strips!Result(op, s))
    <3>1. Meets(value', Strips!Result(op, s))
      BY <1>0, <2>3 DEF Meets
    <3>. QED
      BY <2>1, <3>1, DecodedMeaning, SameDecoded
  <2>6. Strips!Result(op, Whole(s)) = Whole(Strips!Result(op, s))
    BY <1>0, <2>2, <2>3, WholeResult
  <2>7. Strips!Execute(op)
    BY <2>1, <2>3, <2>4, <2>5, <2>6 DEF Strips!Execute
  <2>. QED
    BY <2>7 DEF Strips!StripsNext, Strips!ToSet, ToSet
<1>5. CASE UNCHANGED trVars
  <2>1. task' = task /\ value' = value /\ phase' = phase
    BY <1>5 DEF trVars
  <2>2. Decoded' = Decoded
    BY <2>1, SameDecoded DEF Decoded, DecodedAt
  <2>. QED
    BY <2>1, <2>2 DEF Shown
<1>. QED
  BY <1>2, <1>3, <1>4, <1>5 DEF TrNext, TrEnded

\* The task in output.sas implements the ground PDDL task: every execution of it
\* is one of the task, atom by atom, conditional effects included.
THEOREM TranslationImplementsStrips ==
  ASSUME \A t \in Tasks : Decided(t)
  PROVE  TrSpec => ImplementsStrips
<1>1. TrInit => Strips!StripsInit
  BY InitImplements
<1>2. TrInv /\ RunInv /\ [TrNext]_trVars => [Strips!StripsNext]_<<task, Shown>>
  <2>. SUFFICES ASSUME TrInv, RunInv, [TrNext]_trVars PROVE [Strips!StripsNext]_<<task, Shown>>
    OBVIOUS
  <2>1. Decided(task)
    BY DEF TrInv
  <2>. QED
    BY <2>1, StepImplements
<1>. QED
  BY <1>1, <1>2, Invariant, RunInvariant, PTL DEF TrSpec, ImplementsStrips, Strips!StripsSpec, Shown
=============================================================================
