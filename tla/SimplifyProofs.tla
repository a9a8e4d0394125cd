---------------------------- MODULE SimplifyProofs ----------------------------
(***************************************************************************)
(* Proofs about the simplification of a task: for every task that the      *)
(* translation can build, the new task has the executions of the old one.  *)
(***************************************************************************)
EXTENDS Simplify, FiniteSetTheorems, TLAPS

-----------------------------------------------------------------------------
(* Counting: the new number of a value is the number of the smaller ones.  *)

\* Of two members of a finite set of numbers, fewer lie below the smaller, and
\* below each of them lie fewer than all.
LEMMA CountBelow ==
  ASSUME NEW S \in SUBSET Nat, IsFiniteSet(S), NEW a \in S
  PROVE  /\ Cardinality({n \in S : n < a}) \in Nat
         /\ Cardinality({n \in S : n < a}) < Cardinality(S)
         /\ \A b \in S : a < b => Cardinality({n \in S : n < a}) < Cardinality({n \in S : n < b})
<1>. DEFINE Below(b) == {n \in S : n < b}
<1>1. \A b \in S : IsFiniteSet(Below(b)) /\ Cardinality(Below(b)) \in Nat
  BY FS_Subset, FS_CardinalityType
<1>2. ASSUME NEW T, IsFiniteSet(T), Below(a) \subseteq T, a \in T
      PROVE  Cardinality(Below(a)) < Cardinality(T)
  <2>1. Cardinality(Below(a)) <= Cardinality(T) /\ Cardinality(Below(a)) \in Nat /\ Cardinality(T) \in Nat
    BY <1>1, <1>2, FS_Subset, FS_CardinalityType
  <2>2. Below(a) # T
    BY <1>2
  <2>3. Cardinality(Below(a)) # Cardinality(T)
    BY <1>2, <2>2, FS_Subset
  <2>. QED
    BY <2>1, <2>3
<1>3. Cardinality(Below(a)) < Cardinality(S)
  BY <1>2
<1>4. ASSUME NEW b \in S, a < b PROVE Cardinality(Below(a)) < Cardinality(Below(b))
  <2>1. \A n \in S : n \in Int
    OBVIOUS
  <2>2. \A n \in S : n < a => n < b
    BY <1>4, <2>1
  <2>3. Below(a) \subseteq Below(b) /\ a \in Below(b)
    BY <1>4, <2>2
  <2>. QED
    BY <2>3, <1>1, <1>2
<1>. QED
  BY <1>1, <1>3, <1>4

\* What two members of a set with one element have in common.
LEMMA OnlyElement ==
  ASSUME NEW S, IsFiniteSet(S), ~ Cardinality(S) > 1, NEW a \in S, NEW b \in S
  PROVE  a = b
<1>1. Cardinality({a}) = 1 /\ IsFiniteSet({a})
  BY FS_Singleton
<1>2. Cardinality({a}) <= Cardinality(S) /\ (Cardinality({a}) = Cardinality(S) => S = {a})
  BY FS_Subset
<1>3. Cardinality(S) \in Nat
  BY FS_CardinalityType
<1>. QED
  BY <1>1, <1>2, <1>3

-----------------------------------------------------------------------------
(* The renaming.                                                           *)

\* The task is one that the translation builds, and each variable reaches its
\* initial value and only values of its domain.
ReachedInv ==
  /\ sas \in SasTasks
  /\ reached = [v \in Vars |-> reached[v]]
  /\ \A v \in Vars : sas.init[v] \in reached[v] /\ reached[v] \subseteq Domain(v)

LEMMA AtomsOfTask ==
  ASSUME sas \in SasTasks, NEW p
  PROVE  p \in Atoms(sas) <=> p = <<p[1], p[2]>> /\ p[1] \in Vars /\ p[2] \in Domain(p[1])
BY DEF Atoms, Vars, Domain

LEMMA TaskFacts ==
  ASSUME sas \in SasTasks
  PROVE  /\ Vars \in SUBSET Nat /\ IsFiniteSet(Vars)
         /\ \A v \in Vars : sas.ranges[v] \in Nat /\ sas.init[v] \in Nat /\ sas.init[v] \in Domain(v)
         /\ \A C \in {sas.goal} \cup sas.mutexes : C \subseteq Atoms(sas)
         /\ \A o \in sas.operators :
              /\ o.prevail \subseteq Atoms(sas)
              /\ \A e \in o.effects :
                   /\ <<e.var, e.post>> \in Atoms(sas) /\ e.condition \subseteq Atoms(sas)
                   /\ e.pre = -1 \/ <<e.var, e.pre>> \in o.prevail
         /\ \A x \in sas.axioms : x.condition \subseteq Atoms(sas) /\ x.effect \in Atoms(sas)
<1>1. sas.ranges \in Seq(Nat) /\ sas.init \in [Vars -> Nat] /\ \A v \in Vars : <<v, sas.init[v]>> \in Atoms(sas)
  BY TasksAreTranslated DEF TasksAssumption, Vars
<1>2. Vars = 1..Len(sas.ranges) /\ Len(sas.ranges) \in Nat
  BY <1>1 DEF Vars
<1>3. IsFiniteSet(Vars)
  BY <1>2, FS_Interval
<1>4. ASSUME NEW v \in Vars PROVE sas.init[v] \in Domain(v)
  <2>1. <<v, sas.init[v]>> \in Atoms(sas)
    BY <1>1
  <2>. QED
    BY <2>1, AtomsOfTask
<1>5. \A v \in Vars : sas.ranges[v] \in Nat /\ sas.init[v] \in Nat
  BY <1>1 DEF Vars
<1>. QED
  BY <1>2, <1>3, <1>4, <1>5, TasksAreTranslated DEF TasksAssumption

\* The values of one variable are numbered without repetition from 0.
LEMMA RankIsInjective ==
  ASSUME ReachedInv, NEW v \in Vars
  PROVE  /\ \A n \in reached[v] : Rank(v, n) \in Nat
         /\ \A m, n \in reached[v] : Rank(v, m) = Rank(v, n) => m = n
<1>1. reached[v] \in SUBSET Nat /\ IsFiniteSet(reached[v])
  <2>1. sas.ranges[v] \in Nat
    BY TaskFacts DEF ReachedInv
  <2>2. 0 \in Int /\ sas.ranges[v] - 1 \in Int
    BY <2>1
  <2>3. IsFiniteSet(Domain(v))
    BY <2>2, FS_Interval DEF Domain
  <2>4. Domain(v) \subseteq Nat
    BY <2>2 DEF Domain
  <2>. QED
    BY <2>3, <2>4, FS_Subset DEF ReachedInv
<1>2. \A n \in reached[v] : Rank(v, n) \in Nat
  BY <1>1, CountBelow DEF Rank
<1>3. \A m, n \in reached[v] : m < n => Rank(v, m) < Rank(v, n)
  BY <1>1, CountBelow DEF Rank
<1>. QED
  BY <1>1, <1>2, <1>3

\* The variables that stay are numbered without repetition from 1.
LEMMA IndexIsInjective ==
  ASSUME ReachedInv
  PROVE  /\ NewCount \in Nat
         /\ \A v \in Vars : Kept(v) => Index(v) \in 1..NewCount
         /\ \A u, v \in Vars : Kept(u) /\ Kept(v) /\ Index(u) = Index(v) => u = v
<1>. DEFINE K == {v \in Vars : Kept(v)}
<1>1. K \in SUBSET Nat /\ IsFiniteSet(K) /\ NewCount = Cardinality(K)
  BY TaskFacts, FS_Subset DEF ReachedInv, NewCount
<1>2. \A v : {u \in K : u < v} = {u \in Vars : u < v /\ Kept(u)}
  OBVIOUS
<1>3. \A v : Index(v) = Cardinality({u \in K : u < v}) + 1
  BY <1>2 DEF Index
<1>. HIDE DEF K
<1>4. ASSUME NEW v \in K
      PROVE  Index(v) \in Nat /\ 1 <= Index(v) /\ Index(v) < Cardinality(K) + 1
  <2>1. Cardinality({u \in K : u < v}) \in Nat /\ Cardinality({u \in K : u < v}) < Cardinality(K)
    BY <1>1, CountBelow
  <2>2. Cardinality(K) \in Nat
    BY <1>1, FS_CardinalityType
  <2>. QED
    BY <1>3, <2>1, <2>2
<1>5. \A u, v \in K : u < v => Index(u) < Index(v)
  <2>1. \A u, v \in K : u < v => Cardinality({n \in K : n < u}) < Cardinality({n \in K : n < v})
    BY <1>1, CountBelow
  <2>2. \A u \in K : Cardinality({n \in K : n < u}) \in Nat
    BY <1>1, CountBelow
  <2>3. ASSUME NEW u \in K, NEW v \in K, u < v PROVE Index(u) < Index(v)
    <3>1. /\ Cardinality({n \in K : n < u}) \in Nat /\ Cardinality({n \in K : n < v}) \in Nat
          /\ Cardinality({n \in K : n < u}) < Cardinality({n \in K : n < v})
      BY <2>1, <2>2, <2>3
    <3>. QED
      BY <1>3, <3>1
  <2>. QED
    BY <2>3
<1>6. NewCount \in Nat
  BY <1>1, FS_CardinalityType
<1>7. \A v \in K : Index(v) \in 1..NewCount
  BY <1>1, <1>4, <1>6
<1>8. \A u, v \in K : Index(u) = Index(v) => u = v
  BY <1>1, <1>4, <1>5
<1>. QED
  BY <1>6, <1>7, <1>8 DEF K

\* A variable that is removed has only its initial value.
LEMMA RemovedIsConstant ==
  ASSUME ReachedInv, NEW v \in Vars, ~ Kept(v)
  PROVE  reached[v] = {sas.init[v]}
<1>1. sas.ranges[v] \in Nat
  BY TaskFacts DEF ReachedInv
<1>2. IsFiniteSet(Domain(v))
  BY <1>1, FS_Interval DEF Domain
<1>3. IsFiniteSet(reached[v]) /\ sas.init[v] \in reached[v]
  BY <1>2, FS_Subset DEF ReachedInv
<1>. QED
  BY <1>3, OnlyElement DEF Kept

\* A state w of the task and a state u of the simplified one: each variable that
\* stays has the new number of its value, the others their only value.
Renamed(w, u) ==
  /\ w = [v \in Vars |-> w[v]]
  /\ \A v \in Vars : w[v] \in reached[v] /\ (Kept(v) => u[Index(v)] = Rank(v, w[v]))

\* Conditions mean the same: one holds in the task if none of its pairs has been
\* removed as always false and the renamed rest holds.
LEMMA SameTruth ==
  ASSUME ReachedInv, NEW w, NEW u, Renamed(w, u), NEW C, C \subseteq Atoms(sas)
  PROVE  Old!TrueIn(C, w) <=> CanHold(C) /\ New!TrueIn(NewPairs(C), u)
<1>1. \A p \in C : p[1] \in Vars
  BY AtomsOfTask DEF ReachedInv
<1>2. ASSUME Old!TrueIn(C, w) PROVE CanHold(C) /\ New!TrueIn(NewPairs(C), u)
  <2>1. \A p \in C : w[p[1]] = p[2] /\ p[2] \in reached[p[1]]
    BY <1>1, <1>2 DEF Old!TrueIn, Renamed
  <2>2. CanHold(C)
    BY <2>1 DEF CanHold, AlwaysFalse
  <2>3. ASSUME NEW p \in C, ~ AlwaysTrue(p) PROVE u[NewPair(p)[1]] = NewPair(p)[2]
    <3>1. Kept(p[1])
      BY <2>1, <2>3 DEF AlwaysTrue, AlwaysFalse
    <3>. QED
      BY <1>1, <2>1, <3>1 DEF Renamed, NewPair
  <2>. QED
    BY <2>2, <2>3 DEF New!TrueIn, NewPairs
<1>3. ASSUME CanHold(C), New!TrueIn(NewPairs(C), u), NEW p \in C
      PROVE  w[p[1]] = p[2]
  <2>1. p[2] \in reached[p[1]] /\ w[p[1]] \in reached[p[1]]
    BY <1>1, <1>3 DEF CanHold, AlwaysFalse, Renamed
  <2>2. CASE Kept(p[1])
    <3>1. NewPair(p) \in NewPairs(C)
      BY <2>2 DEF NewPairs, AlwaysTrue
    <3>2. u[Index(p[1])] = Rank(p[1], p[2])
      BY <1>3, <3>1 DEF New!TrueIn, NewPair
    <3>. QED
      BY <1>1, <2>1, <2>2, <3>2, RankIsInjective DEF Renamed
  <2>3. CASE ~ Kept(p[1])
    BY <1>1, <2>1, <2>3, RemovedIsConstant
  <2>. QED
    BY <2>2, <2>3
<1>. QED
  BY <1>2, <1>3 DEF Old!TrueIn

\* Two states of the task that are renamed to one are one.
LEMMA RenamedOnce ==
  ASSUME ReachedInv, NEW u, NEW w, NEW x, Renamed(w, u), Renamed(x, u)
  PROVE  w = x
<1>1. ASSUME NEW v \in Vars PROVE w[v] = x[v]
  BY RankIsInjective, RemovedIsConstant DEF Renamed
<1>. QED
  BY <1>1 DEF Renamed

\* The new initial state is the old one, renamed.
LEMMA InitialRenamed ==
  ASSUME ReachedInv
  PROVE  Renamed([v \in Vars |-> sas.init[v]], NewInit)
<1>. DEFINE first(v) == <<v, sas.init[v]>>
            I == {first(v) : v \in Vars}
<1>1. ASSUME NEW v \in Vars, Kept(v)
      PROVE  NewInit[Index(v)] = Rank(v, sas.init[v])
  <2>1. ~ AlwaysTrue(first(v))
    BY <1>1 DEF AlwaysTrue
  <2>2. NewPair(first(v)) \in NewPairs(I) /\ NewPair(first(v))[1] = Index(v)
    BY <2>1 DEF NewPairs, NewPair
  <2>3. ASSUME NEW p \in NewPairs(I), p[1] = Index(v) PROVE p[2] = Rank(v, sas.init[v])
    <3>1. PICK x \in Vars : p = NewPair(first(x)) /\ ~ AlwaysTrue(first(x))
      BY DEF NewPairs
    <3>2. Kept(x) /\ Index(x) = Index(v)
      BY <2>3, <3>1 DEF AlwaysTrue, AlwaysFalse, NewPair, ReachedInv
    <3>3. x = v
      BY <1>1, <3>2, IndexIsInjective
    <3>. QED
      BY <3>1, <3>3 DEF NewPair
  <2>4. Index(v) \in 1..NewCount
    BY <1>1, IndexIsInjective
  <2>5. (CHOOSE p \in NewPairs(I) : p[1] = Index(v))[2] = Rank(v, sas.init[v])
    <3>. HIDE DEF I, first
    <3>. QED
      BY <2>2, <2>3
  <2>. QED
    BY <2>4, <2>5 DEF NewInit
<1>. QED
  BY <1>1 DEF Renamed, ReachedInv

-----------------------------------------------------------------------------
(* Operators and axioms.                                                   *)

\* An operator that is translated: no exception removes it, no assertion fails.
Translated(o) == ~ Impossible(o) /\ \A e \in o.effects : ~ AssertionFails(e)

\* An effect that is not dropped is one of a variable that stays.
LEMMA EffectsOfKept ==
  ASSUME ReachedInv, NEW o, Translated(o), NEW e \in o.effects
  PROVE  /\ ~ DoesNothing(e) <=> CanHold(e.condition) /\ Kept(e.var)
         /\ CanHold(e.condition) => e.post \in reached[e.var]
BY DEF Translated, AssertionFails, DoesNothing, AlwaysTrue, AlwaysFalse, Post

\* What can be executed in one task can be executed in the other.
LEMMA SameEnabled ==
  ASSUME ReachedInv, NEW w, NEW u, Renamed(w, u), NEW o \in sas.operators, Translated(o)
  PROVE  Old!Enabled(o, w) <=> New!Enabled(NewOperator(o), u)
<1>1. o.prevail \subseteq Atoms(sas) /\ CanHold(o.prevail)
  BY TaskFacts DEF ReachedInv, Translated, Impossible
<1>2. Old!TrueIn(o.prevail, w) <=> New!TrueIn(NewOperator(o).prevail, u)
  BY <1>1, SameTruth DEF NewOperator
<1>3. ASSUME Old!TrueIn(o.prevail, w), NEW e \in o.effects
      PROVE  e.pre \in {-1, w[e.var]}
  BY <1>3, TaskFacts DEF ReachedInv, Old!TrueIn
<1>4. ASSUME Old!TrueIn(o.prevail, w), NEW f \in NewOperator(o).effects
      PROVE  f.pre \in {-1, u[f.var]}
  <2>1. PICK e \in o.effects :
          /\ ~ DoesNothing(e) /\ f.var = Index(e.var)
          /\ f.pre = IF e.pre = -1 THEN -1 ELSE Rank(e.var, e.pre)
    BY DEF NewOperator
  <2>2. Kept(e.var) /\ e.var \in Vars
    <3>1. <<e.var, e.post>> \in Atoms(sas)
      BY TaskFacts DEF ReachedInv
    <3>. QED
      BY <2>1, <3>1, EffectsOfKept, AtomsOfTask DEF ReachedInv
  <2>3. e.pre \in {-1, w[e.var]}
    BY <1>3, <1>4
  <2>. QED
    BY <2>1, <2>2, <2>3 DEF Renamed
<1>. QED
  BY <1>2, <1>3, <1>4 DEF Old!Enabled, New!Enabled

\* What an operator sets a variable to is what the simplified one sets it to.
LEMMA SamePosts ==
  ASSUME ReachedInv, NEW w, NEW u, Renamed(w, u), NEW o \in sas.operators, Translated(o),
         NEW v \in Vars
  PROVE  /\ Old!Posts(o, v, w) \subseteq reached[v]
         /\ Kept(v) => New!Posts(NewOperator(o), Index(v), u) = {Rank(v, n) : n \in Old!Posts(o, v, w)}
<1>1. ASSUME NEW e \in o.effects
      PROVE  /\ e.var \in Vars
             /\ Old!TrueIn(e.condition, w) <=> CanHold(e.condition) /\ New!TrueIn(NewPairs(e.condition), u)
  <2>1. <<e.var, e.post>> \in Atoms(sas) /\ e.condition \subseteq Atoms(sas)
    BY TaskFacts DEF ReachedInv
  <2>. QED
    BY <2>1, AtomsOfTask, SameTruth DEF ReachedInv
<1>2. Old!Posts(o, v, w) \subseteq reached[v]
  BY <1>1, EffectsOfKept DEF Old!Posts
<1>. DEFINE N(e) == [var |-> Index(e.var), pre |-> IF e.pre = -1 THEN -1 ELSE Rank(e.var, e.pre),
                     post |-> Rank(e.var, e.post), condition |-> NewPairs(e.condition)]
<1>3. NewOperator(o).effects = {N(e) : e \in {f \in o.effects : ~ DoesNothing(f)}}
  BY DEF NewOperator
<1>4. \A e : N(e).var = Index(e.var) /\ N(e).post = Rank(e.var, e.post) /\ N(e).condition = NewPairs(e.condition)
  OBVIOUS
<1>. HIDE DEF N
<1>5. ASSUME Kept(v), NEW k \in New!Posts(NewOperator(o), Index(v), u)
      PROVE  \E n \in Old!Posts(o, v, w) : k = Rank(v, n)
  <2>1. PICK e \in o.effects :
          ~ DoesNothing(e) /\ k = N(e).post /\ N(e).var = Index(v) /\ New!TrueIn(N(e).condition, u)
    BY <1>3 DEF New!Posts
  <2>2. CanHold(e.condition) /\ Kept(e.var) /\ e.var = v
    BY <1>1, <1>4, <1>5, <2>1, EffectsOfKept, IndexIsInjective
  <2>3. e.post \in Old!Posts(o, v, w)
    BY <1>1, <1>4, <2>1, <2>2 DEF Old!Posts
  <2>. QED
    BY <1>4, <2>1, <2>2, <2>3
<1>6. ASSUME Kept(v), NEW n \in Old!Posts(o, v, w)
      PROVE  Rank(v, n) \in New!Posts(NewOperator(o), Index(v), u)
  <2>1. PICK e \in o.effects : e.post = n /\ e.var = v /\ Old!TrueIn(e.condition, w)
    BY DEF Old!Posts
  <2>2. CanHold(e.condition) /\ New!TrueIn(NewPairs(e.condition), u)
    BY <1>1, <2>1
  <2>3. N(e) \in NewOperator(o).effects
    BY <1>3, <1>6, <2>1, <2>2, EffectsOfKept
  <2>4. N(e).post \in New!Posts(NewOperator(o), Index(v), u)
    BY <1>4, <2>1, <2>2, <2>3 DEF New!Posts
  <2>. QED
    BY <1>4, <2>1, <2>4
<1>. QED
  BY <1>2, <1>5, <1>6

\* An operator of the simplified task leads where the operator it comes from leads.
LEMMA OutcomesRenamed ==
  ASSUME ReachedInv, NEW w, NEW u, Renamed(w, u), DOMAIN u = 1..NewCount,
         NEW o \in sas.operators, Translated(o), NEW t \in New!Outcomes(NewOperator(o), u)
  PROVE  DOMAIN t = 1..NewCount /\ \E x \in Old!Outcomes(o, w) : Renamed(x, t)
<1>. DEFINE Next(v) == IF Old!Posts(o, v, w) = {} THEN {w[v]} ELSE Old!Posts(o, v, w)
            Fits(v, n) == n \in Next(v) /\ (Kept(v) => t[Index(v)] = Rank(v, n))
            x == [v \in Vars |-> CHOOSE n \in reached[v] : Fits(v, n)]
<1>1. DOMAIN t = 1..NewCount
  BY DEF New!Outcomes
<1>2. ASSUME NEW v \in Vars PROVE \E n \in reached[v] : Fits(v, n)
  <2>1. w[v] \in reached[v] /\ Old!Posts(o, v, w) \subseteq reached[v]
    BY SamePosts DEF Renamed
  <2>2. CASE Kept(v)
    <3>1. Index(v) \in DOMAIN u
      BY <2>2, IndexIsInjective
    <3>2. u[Index(v)] = Rank(v, w[v])
      BY <2>2 DEF Renamed
    <3>3. New!Posts(NewOperator(o), Index(v), u) = {Rank(v, n) : n \in Old!Posts(o, v, w)}
      BY <2>2, SamePosts
    <3>4. t[Index(v)] \in IF New!Posts(NewOperator(o), Index(v), u) = {} THEN {u[Index(v)]}
                          ELSE New!Posts(NewOperator(o), Index(v), u)
      BY <3>1 DEF New!Outcomes
    <3>. QED
      BY <2>1, <3>2, <3>3, <3>4
  <2>3. CASE ~ Kept(v)
    BY <2>1, <2>3
  <2>. QED
    BY <2>2, <2>3
<1>3. \A v \in Vars : x[v] \in reached[v] /\ Fits(v, x[v])
  <2>. HIDE DEF Fits
  <2>. QED
    BY <1>2
<1>4. Renamed(x, t)
  <2>1. x = [v \in Vars |-> x[v]]
    OBVIOUS
  <2>. HIDE DEF x
  <2>. QED
    BY <1>3, <2>1 DEF Renamed
<1>5. x \in Old!Outcomes(o, w)
  <2>1. DOMAIN w = Vars /\ x = [v \in Vars |-> x[v]]
    BY DEF Renamed
  <2>2. ASSUME NEW v \in Vars PROVE x[v] \in UNION {0..(sas.ranges[n] - 1) : n \in Vars}
    <3>1. x[v] \in 0..(sas.ranges[v] - 1)
      BY <1>3 DEF ReachedInv, Domain
    <3>. HIDE DEF x
    <3>. QED
      BY <3>1
  <2>3. \A v \in Vars : x[v] \in Next(v)
    BY <1>3
  <2>. HIDE DEF x
  <2>4. x \in [Vars -> UNION {0..(sas.ranges[n] - 1) : n \in Vars}]
    BY <2>1, <2>2
  <2>. QED
    BY <2>1, <2>3, <2>4 DEF Old!Outcomes
<1>. QED
  BY <1>1, <1>4, <1>5

\* An axiom that stays, and the axiom of the simplified task that it becomes.
Stays(x) == CanHold(x.condition) /\ Kept(x.effect[1]) /\ ~ AlwaysFalse(x.effect)

NewAxiom(x) == [condition |-> NewPairs(x.condition), effect |-> NewPair(x.effect)]

LEMMA DerivedRenamed ==
  ASSUME ReachedInv, NEW w, NEW u, Renamed(w, u), DOMAIN u = 1..NewCount,
         NEW x \in sas.axioms, Stays(x), NEW t \in New!Derived(NewAxiom(x), u)
  PROVE  DOMAIN t = 1..NewCount /\ \E y \in Old!Derived(x, w) : Renamed(y, t)
<1>. DEFINE v == x.effect[1]
            k == Index(v)
<1>1. v \in Vars /\ x.condition \subseteq Atoms(sas) /\ x.effect[2] \in reached[v] /\ Kept(v)
  BY TaskFacts, AtomsOfTask DEF ReachedInv, Stays, AlwaysFalse
<1>2. k \in DOMAIN u /\ \A z \in Vars : Kept(z) => (Index(z) = k => z = v) /\ Index(z) \in DOMAIN u
  BY <1>1, IndexIsInjective
<1>3. NewInit[k] = Rank(v, sas.init[v])
  BY <1>1, InitialRenamed DEF Renamed
<1>4. Old!TrueIn(x.condition, w) <=> New!TrueIn(NewPairs(x.condition), u)
  BY <1>1, SameTruth DEF Stays
<1>5. NewAxiom(x).condition = NewPairs(x.condition) /\ NewAxiom(x).effect = <<k, Rank(v, x.effect[2])>>
  BY DEF NewAxiom, NewPair
<1>6. PICK n : /\ t = [u EXCEPT ![k] = n]
               /\ n \in {NewInit[k]} \cup {m \in {Rank(v, x.effect[2])} : New!TrueIn(NewPairs(x.condition), u)}
  <2>1. NewTask.init = NewInit
    BY DEF NewTask
  <2>. HIDE DEF v, k
  <2>. QED
    BY <1>5, <2>1 DEF New!Derived
<1>7. PICK m \in {sas.init[v]} \cup {l \in {x.effect[2]} : Old!TrueIn(x.condition, w)} : n = Rank(v, m)
  BY <1>3, <1>4, <1>6
<1>8. m \in reached[v]
  BY <1>1, <1>7 DEF ReachedInv
<1>. DEFINE y == [w EXCEPT ![v] = m]
<1>9. y \in Old!Derived(x, w)
  BY <1>7 DEF Old!Derived
<1>10. Renamed(y, t)
  <2>1. w = [z \in Vars |-> w[z]]
    BY DEF Renamed
  <2>2. y = [z \in Vars |-> y[z]] /\ \A z \in Vars : y[z] = IF z = v THEN m ELSE w[z]
    BY <2>1
  <2>3. \A z \in DOMAIN u : t[z] = IF z = k THEN n ELSE u[z]
    BY <1>6
  <2>. HIDE DEF y, v, k
  <2>4. ASSUME NEW z \in Vars PROVE y[z] \in reached[z] /\ (Kept(z) => t[Index(z)] = Rank(z, y[z]))
    <3>1. CASE z = v
      BY <1>2, <1>7, <1>8, <2>2, <2>3, <3>1 DEF k
    <3>2. CASE z # v
      BY <1>2, <2>2, <2>3, <3>2 DEF Renamed
    <3>. QED
      BY <3>1, <3>2
  <2>. QED
    BY <2>2, <2>4 DEF Renamed
<1>. QED
  BY <1>6, <1>9, <1>10

-----------------------------------------------------------------------------
(* The invariant.                                                          *)

\* The arcs of what has been read are there, and lead from expanded values to
\* reached ones: when the queues are empty, the reached values are closed.
ArcsInv ==
  /\ \A v \in Vars : arcs[v] \subseteq Domain(v) \X Domain(v)
  /\ queue = [v \in Vars |-> queue[v]] /\ \A v \in Vars : queue[v] \subseteq reached[v]
  /\ \A v \in Vars : \A a \in arcs[v] : a[1] \in reached[v] \ queue[v] => a[2] \in reached[v]
  /\ phase = "graph" => queue = reached
  /\ phase \notin {"graph", "reach"} => \A v \in Vars : queue[v] = {}
  /\ \A x \in sas.axioms : Arcs(x.effect[1], -1, x.effect[2]) \subseteq arcs[x.effect[1]]
  /\ \A o \in sas.operators :
       ~ (phase = "graph" /\ o \in unread) => \A v \in Vars : ArcsOf(o, v) \subseteq arcs[v]

\* What has been translated: every operator that has been looked at is removed
\* or in the new task, and the new task has nothing else.
TranslationInv ==
  /\ phase \in {"graph", "reach"} => result = {}
  /\ phase \in {"apply", "run"} =>
       /\ CanHold(sas.goal)
       /\ \A o \in sas.operators \ unread : Impossible(o) \/ (Translated(o) /\ NewOperator(o) \in result)
  /\ \A n \in result : \E o \in sas.operators : Translated(o) /\ n = NewOperator(o)
  /\ phase = "unsolvable" => ~ CanHold(sas.goal)
  /\ phase = "failed" => \E o \in sas.operators : \E e \in o.effects : Contradictory(e)

\* The state of the new task is one of the old task, renamed.
RunInv ==
  phase = "run" =>
    /\ unread = {} /\ \A x \in sas.axioms : CanHold(x.condition) => ~ AlwaysFalse(x.effect)
    /\ DOMAIN values = 1..NewCount /\ \E x : Renamed(x, values)

SiInv ==
  /\ phase \in {"graph", "reach", "apply", "run", "unsolvable", "failed"}
  /\ unread \subseteq sas.operators
  /\ ReachedInv
  /\ ArcsInv
  /\ TranslationInv
  /\ RunInv

\* The renaming depends on the task and on what is reached.
LEMMA RenamingFixed ==
  ASSUME UNCHANGED <<sas, reached>>
  PROVE  /\ Vars' = Vars /\ NewCount' = NewCount /\ NewInit' = NewInit
         /\ \A v : Domain(v)' = Domain(v) /\ Kept(v)' = Kept(v) /\ Index(v)' = Index(v)
         /\ \A v, n : Rank(v, n)' = Rank(v, n)
         /\ \A C : CanHold(C)' = CanHold(C) /\ NewPairs(C)' = NewPairs(C)
         /\ \A p : AlwaysFalse(p)' = AlwaysFalse(p)
         /\ \A o : Impossible(o)' = Impossible(o) /\ Translated(o)' = Translated(o)
                   /\ NewOperator(o)' = NewOperator(o)
         /\ \A w, u : Renamed(w, u)' = Renamed(w, u)
         /\ ReachedInv' = ReachedInv
<1>1. Vars' = Vars /\ \A v : Domain(v)' = Domain(v) /\ Kept(v)' = Kept(v)
  BY DEF Vars, Domain, Kept
<1>2. \A v, n : Rank(v, n)' = Rank(v, n)
  BY DEF Rank
<1>3. \A v : Index(v)' = Index(v)
  BY DEF Index, Vars, Kept
<1>4. NewCount' = NewCount
  BY DEF NewCount, Vars, Kept
<1>5. \A p : AlwaysFalse(p)' = AlwaysFalse(p) /\ AlwaysTrue(p)' = AlwaysTrue(p) /\ NewPair(p)' = NewPair(p)
  BY <1>2, <1>3 DEF AlwaysFalse, AlwaysTrue, Kept, NewPair
<1>6. \A C : CanHold(C)' = CanHold(C) /\ NewPairs(C)' = NewPairs(C)
  BY <1>5 DEF CanHold, NewPairs
<1>7. NewInit' = NewInit
  <2>. DEFINE I == NewPairs({<<v, sas.init[v]>> : v \in Vars})
              First(n, J) == [k \in 1..n |-> (CHOOSE p \in J : p[1] = k)[2]]
  <2>1. I' = I
    BY <1>1, <1>5 DEF NewPairs
  <2>2. NewInit = First(NewCount, I) /\ NewInit' = First(NewCount', I')
    BY DEF NewInit
  <2>. HIDE DEF I, First
  <2>. QED
    BY <1>4, <2>1, <2>2
<1>8. \A e : AssertionFails(e)' = AssertionFails(e) /\ DoesNothing(e)' = DoesNothing(e)
  BY <1>5, <1>6 DEF AssertionFails, DoesNothing, Pre, Post
<1>9. \A o : Impossible(o)' = Impossible(o)
  BY <1>5, <1>6 DEF Impossible, Pre
<1>10. \A o : Translated(o)' = Translated(o)
  BY <1>8, <1>9 DEF Translated
<1>11. \A o : NewOperator(o)' = NewOperator(o)
  BY <1>2, <1>3, <1>6, <1>8 DEF NewOperator
<1>12. \A w, u : Renamed(w, u)' = Renamed(w, u)
  BY <1>1, <1>2, <1>3 DEF Renamed
<1>13. ReachedInv' = ReachedInv
  BY <1>1 DEF ReachedInv
<1>. QED
  BY <1>1, <1>2, <1>3, <1>4, <1>5, <1>6, <1>7, <1>9, <1>10, <1>11, <1>12, <1>13

\* The arcs that effects and axioms contribute.
LEMMA ArcsOfTask ==
  ASSUME sas \in SasTasks
  PROVE  /\ \A x \in sas.axioms : /\ x.effect[1] \in Vars /\ x.effect[2] \in Domain(x.effect[1])
                                  /\ Arcs(x.effect[1], -1, x.effect[2])
                                       \subseteq Domain(x.effect[1]) \X Domain(x.effect[1])
         /\ \A o \in sas.operators : \A v \in Vars : ArcsOf(o, v) \subseteq Domain(v) \X Domain(v)
<1>1. ASSUME NEW x \in sas.axioms
      PROVE  /\ x.effect[1] \in Vars /\ x.effect[2] \in Domain(x.effect[1])
             /\ Arcs(x.effect[1], -1, x.effect[2]) \subseteq Domain(x.effect[1]) \X Domain(x.effect[1])
  <2>1. x.effect[1] \in Vars /\ x.effect[2] \in Domain(x.effect[1])
    BY TaskFacts, AtomsOfTask
  <2>. QED
    BY <2>1 DEF Arcs
<1>2. ASSUME NEW o \in sas.operators, NEW v \in Vars, NEW e \in o.effects, e.var = v
      PROVE  Arcs(v, e.pre, e.post) \subseteq Domain(v) \X Domain(v)
  <2>1. <<e.var, e.post>> \in Atoms(sas) /\ (e.pre = -1 \/ <<e.var, e.pre>> \in Atoms(sas))
    BY TaskFacts
  <2>2. e.post \in Domain(v) /\ (e.pre = -1 \/ e.pre \in Domain(v))
    BY <1>2, <2>1, AtomsOfTask
  <2>. QED
    BY <2>2 DEF Arcs
<1>. QED
  BY <1>1, <1>2 DEF ArcsOf

LEMMA SiInitInv == SiInit => SiInv
<1>. SUFFICES ASSUME SiInit PROVE SiInv
  OBVIOUS
<1>. USE DEF SiInit
<1>1. phase \in {"graph", "reach"} /\ result = {} /\ queue = reached
  OBVIOUS
<1>2. ReachedInv
  BY TaskFacts DEF ReachedInv
<1>3. ArcsInv
  <2>1. ASSUME NEW v \in Vars PROVE arcs[v] \subseteq Domain(v) \X Domain(v)
    BY ArcsOfTask
  <2>2. ASSUME NEW x \in sas.axioms
        PROVE  Arcs(x.effect[1], -1, x.effect[2]) \subseteq arcs[x.effect[1]]
    BY ArcsOfTask
  <2>3. \A o \in sas.operators : phase = "graph" /\ o \in unread
    OBVIOUS
  <2>. QED
    BY <1>1, <2>1, <2>2, <2>3 DEF ArcsInv
<1>. QED
  BY <1>1, <1>2, <1>3 DEF SiInv, TranslationInv, RunInv

LEMMA ReadOperatorInv ==
  ASSUME SiInv, NEW o \in unread, ReadOperator(o)
  PROVE  SiInv'
<1>1. /\ phase = "graph" /\ phase' \in {"graph", "reach"} /\ (phase' = "graph" \/ unread' = {})
      /\ unread' = unread \ {o} /\ UNCHANGED <<sas, reached, queue, result, values>>
      /\ arcs' = [v \in Vars |-> arcs[v] \cup ArcsOf(o, v)]
  BY DEF ReadOperator
<1>2. ReachedInv' /\ Vars' = Vars /\ \A v : Domain(v)' = Domain(v)
  BY <1>1, RenamingFixed DEF SiInv
<1>3. \A v, e, f : Arcs(v, e, f)' = Arcs(v, e, f)
  BY <1>2 DEF Arcs
<1>4. \A p, v : ArcsOf(p, v)' = ArcsOf(p, v)
  BY <1>3 DEF ArcsOf
<1>5. ArcsInv'
  <2>1. /\ \A v \in Vars : arcs[v] \subseteq Domain(v) \X Domain(v)
        /\ queue = reached
        /\ \A x \in sas.axioms : Arcs(x.effect[1], -1, x.effect[2]) \subseteq arcs[x.effect[1]]
        /\ \A p \in sas.operators : p \in unread \/ \A v \in Vars : ArcsOf(p, v) \subseteq arcs[v]
    BY <1>1 DEF SiInv, ArcsInv
  <2>2. \A v \in Vars : arcs'[v] = arcs[v] \cup ArcsOf(o, v)
    BY <1>1
  <2>3. \A v \in Vars : arcs'[v] \subseteq Domain(v) \X Domain(v)
    <3>1. \A v \in Vars : ArcsOf(o, v) \subseteq Domain(v) \X Domain(v)
      BY ArcsOfTask DEF SiInv, ReachedInv
    <3>. QED
      BY <2>1, <2>2, <3>1
  <2>4. \A p \in sas.operators : p \in unread' \/ \A v \in Vars : ArcsOf(p, v) \subseteq arcs'[v]
    BY <1>1, <2>1, <2>2
  <2>5. \A x \in sas.axioms : Arcs(x.effect[1], -1, x.effect[2]) \subseteq arcs'[x.effect[1]]
    BY <2>1, <2>2, ArcsOfTask DEF SiInv, ReachedInv
  <2>6. queue' = [v \in Vars |-> queue'[v]] /\ queue' = reached'
    BY <1>1, <2>1 DEF SiInv, ReachedInv
  <2>7. \A v \in Vars : reached'[v] \ queue'[v] = {} /\ queue'[v] \subseteq reached'[v]
    BY <2>6
  <2>. QED
    BY <1>1, <1>2, <1>3, <1>4, <2>3, <2>4, <2>5, <2>6, <2>7 DEF ArcsInv
<1>. QED
  BY <1>1, <1>2, <1>5 DEF SiInv, TranslationInv, RunInv

LEMMA ExpandInv ==
  ASSUME SiInv, NEW v \in Vars, NEW n \in queue[v], Expand(v, n)
  PROVE  SiInv'
<1>. DEFINE new == {a[2] : a \in {b \in arcs[v] : b[1] = n}} \ reached[v]
<1>1. /\ phase = "reach" /\ UNCHANGED <<sas, phase, unread, arcs, result, values>>
      /\ reached' = [reached EXCEPT ![v] = @ \cup new]
      /\ queue' = [queue EXCEPT ![v] = (@ \ {n}) \cup new]
  BY DEF Expand
<1>2. Vars' = Vars /\ \A u : Domain(u)' = Domain(u)
  BY <1>1 DEF Vars, Domain
<1>3. \A u, e, f : Arcs(u, e, f)' = Arcs(u, e, f)
  BY <1>2 DEF Arcs
<1>4. \A p, u : ArcsOf(p, u)' = ArcsOf(p, u)
  BY <1>3 DEF ArcsOf
<1>5. new \subseteq Domain(v) /\ new \cap reached[v] = {} /\ \A a \in arcs[v] : a[1] = n => a[2] \in reached[v] \cup new
  BY DEF SiInv, ArcsInv
<1>. HIDE DEF new
<1>6. /\ reached = [u \in Vars |-> reached[u]] /\ queue = [u \in Vars |-> queue[u]]
      /\ \A u \in Vars : sas.init[u] \in reached[u] /\ reached[u] \subseteq Domain(u) /\ queue[u] \subseteq reached[u]
  BY DEF SiInv, ReachedInv, ArcsInv
<1>7. \A u \in Vars : /\ reached'[u] = IF u = v THEN reached[u] \cup new ELSE reached[u]
                      /\ queue'[u] = IF u = v THEN (queue[u] \ {n}) \cup new ELSE queue[u]
  BY <1>1, <1>6
<1>8. reached' = [u \in Vars |-> reached'[u]] /\ queue' = [u \in Vars |-> queue'[u]]
  BY <1>1, <1>6
<1>9. ReachedInv'
  BY <1>1, <1>2, <1>5, <1>6, <1>7, <1>8 DEF SiInv, ReachedInv
<1>10. ArcsInv'
  <2>1. \A u \in Vars : queue'[u] \subseteq reached'[u]
    BY <1>6, <1>7
  <2>2. ASSUME NEW u \in Vars, NEW a \in arcs[u], a[1] \in reached'[u] \ queue'[u]
        PROVE  a[2] \in reached'[u]
    <3>1. a[1] \in reached[u] \ queue[u] => a[2] \in reached[u]
      BY DEF SiInv, ArcsInv
    <3>2. CASE u = v
      BY <1>5, <1>7, <2>2, <3>1, <3>2
    <3>3. CASE u # v
      BY <1>7, <2>2, <3>1, <3>3
    <3>. QED
      BY <3>2, <3>3
  <2>3. /\ \A u \in Vars : arcs[u] \subseteq Domain(u) \X Domain(u)
        /\ \A x \in sas.axioms : Arcs(x.effect[1], -1, x.effect[2]) \subseteq arcs[x.effect[1]]
        /\ \A o \in sas.operators : \A u \in Vars : ArcsOf(o, u) \subseteq arcs[u]
    BY <1>1 DEF SiInv, ArcsInv
  <2>. QED
    BY <1>1, <1>2, <1>3, <1>4, <1>8, <2>1, <2>2, <2>3 DEF ArcsInv
<1>11. TranslationInv'
  BY <1>1 DEF SiInv, TranslationInv
<1>. QED
  BY <1>1, <1>9, <1>10, <1>11 DEF SiInv, RunInv

\* After the queues are empty nothing changes what is reached.
LEMMA ArcsStay ==
  ASSUME ArcsInv, phase # "graph", \A v \in Vars : queue[v] = {},
         UNCHANGED <<sas, arcs, reached, queue>>, phase' \notin {"graph", "reach"}
  PROVE  ArcsInv'
<1>1. Vars' = Vars /\ \A v : Domain(v)' = Domain(v)
  BY DEF Vars, Domain
<1>2. \A v, e, f : Arcs(v, e, f)' = Arcs(v, e, f)
  BY <1>1 DEF Arcs
<1>3. \A p, v : ArcsOf(p, v)' = ArcsOf(p, v)
  BY <1>2 DEF ArcsOf
<1>. QED
  BY <1>1, <1>2, <1>3 DEF ArcsInv

LEMMA ApplyGoalInv ==
  ASSUME SiInv, ApplyGoal
  PROVE  SiInv'
<1>1. /\ phase = "reach" /\ (\A v \in Vars : queue[v] = {})
      /\ phase' = IF CanHold(sas.goal) THEN "apply" ELSE "unsolvable"
      /\ unread' = sas.operators /\ UNCHANGED <<sas, arcs, reached, queue, result, values>>
  BY DEF ApplyGoal
<1>2. ReachedInv' /\ CanHold(sas.goal)' = CanHold(sas.goal)
  BY <1>1, RenamingFixed DEF SiInv
<1>3. ArcsInv'
  BY <1>1, ArcsStay DEF SiInv
<1>4. TranslationInv'
  BY <1>1, <1>2 DEF SiInv, TranslationInv
<1>. QED
  BY <1>1, <1>2, <1>3, <1>4 DEF SiInv, RunInv

\* Only an effect that asks for two values of its variable makes an assertion of
\* translate_pre_post fail: the value that any other effect sets is reached.
LEMMA ContradictionFails ==
  ASSUME ReachedInv, ArcsInv, phase = "apply", NEW o \in sas.operators, ~ Impossible(o),
         NEW e \in o.effects, AssertionFails(e)
  PROVE  Contradictory(e)
<1>. SUFFICES ASSUME ~ Contradictory(e) PROVE FALSE
  OBVIOUS
<1>1. e.var \in Vars /\ e.post \in Domain(e.var) /\ (e.pre = -1 \/ <<e.var, e.pre>> \in o.prevail)
  <2>1. <<e.var, e.post>> \in Atoms(sas)
    BY TaskFacts DEF ReachedInv
  <2>2. e.var \in Vars /\ e.post \in Domain(e.var)
    BY <2>1, AtomsOfTask DEF ReachedInv
  <2>. QED
    BY <2>2, TaskFacts DEF ReachedInv
<1>2. Arcs(e.var, e.pre, e.post) \subseteq arcs[e.var] /\ queue[e.var] = {}
  <2>1. ArcsOf(o, e.var) \subseteq arcs[e.var]
    BY <1>1 DEF ArcsInv
  <2>. QED
    BY <1>1, <2>1 DEF ArcsOf, ArcsInv
<1>3. \A n \in reached[e.var] : <<n, e.post>> \in Arcs(e.var, e.pre, e.post) => e.post \in reached[e.var]
  BY <1>1, <1>2 DEF ArcsInv
<1>4. e.post \in reached[e.var] /\ (e.pre = -1 \/ e.pre \in reached[e.var])
  <2>1. CASE e.pre = -1
    <3>1. sas.init[e.var] \in reached[e.var] /\ sas.init[e.var] \in Domain(e.var)
      BY <1>1 DEF ReachedInv
    <3>. QED
      BY <1>1, <1>3, <2>1, <3>1 DEF Arcs
  <2>2. CASE e.pre # -1
    <3>1. e.pre \in reached[e.var]
      BY <2>2 DEF Impossible, AlwaysFalse, Pre
    <3>. QED
      BY <1>3, <2>2, <3>1 DEF Arcs
  <2>. QED
    BY <2>1, <2>2
<1>. QED
  BY <1>4 DEF AssertionFails, AlwaysFalse, AlwaysTrue, Pre, Post

LEMMA ApplyOperatorInv ==
  ASSUME SiInv, NEW o \in unread, ApplyOperator(o)
  PROVE  SiInv'
<1>1. /\ phase = "apply" /\ unread' = unread \ {o} /\ UNCHANGED <<sas, arcs, reached, queue, values>>
      /\ o \in sas.operators /\ \A v \in Vars : queue[v] = {}
  BY DEF ApplyOperator, SiInv, ArcsInv
<1>2. /\ ReachedInv' /\ CanHold(sas.goal)' = CanHold(sas.goal)
      /\ \A p : Impossible(p)' = Impossible(p) /\ Translated(p)' = Translated(p) /\ NewOperator(p)' = NewOperator(p)
  BY <1>1, RenamingFixed DEF SiInv
<1>3. CASE ~ Impossible(o) /\ \E e \in o.effects : AssertionFails(e)
  <2>1. phase' = "failed" /\ result' = result
    BY <1>3 DEF ApplyOperator
  <2>2. \E e \in o.effects : Contradictory(e)
    BY <1>1, <1>3, ContradictionFails DEF SiInv
  <2>3. ArcsInv'
    BY <1>1, <2>1, ArcsStay DEF SiInv
  <2>4. \A e : Contradictory(e)' = Contradictory(e)
    BY DEF Contradictory
  <2>5. TranslationInv'
    BY <1>1, <1>2, <2>1, <2>2, <2>4 DEF SiInv, TranslationInv
  <2>. QED
    BY <1>1, <1>2, <2>1, <2>3, <2>5 DEF SiInv, RunInv
<1>4. CASE ~ (~ Impossible(o) /\ \E e \in o.effects : AssertionFails(e))
  <2>1. phase' = "apply" /\ result' = result \cup (IF Impossible(o) THEN {} ELSE {NewOperator(o)})
    BY <1>1, <1>4 DEF ApplyOperator
  <2>2. Impossible(o) \/ Translated(o)
    BY <1>4 DEF Translated
  <2>3. ArcsInv'
    BY <1>1, <2>1, ArcsStay DEF SiInv
  <2>4. TranslationInv'
    <3>1. /\ CanHold(sas.goal)
          /\ \A p \in sas.operators \ unread : Impossible(p) \/ (Translated(p) /\ NewOperator(p) \in result)
          /\ \A n \in result : \E p \in sas.operators : Translated(p) /\ n = NewOperator(p)
      BY <1>1 DEF SiInv, TranslationInv
    <3>2. \A p \in sas.operators \ unread' : Impossible(p) \/ (Translated(p) /\ NewOperator(p) \in result')
      BY <1>1, <2>1, <2>2, <3>1
    <3>3. \A n \in result' : \E p \in sas.operators : Translated(p) /\ n = NewOperator(p)
      <4>1. CASE Impossible(o)
        BY <2>1, <3>1, <4>1
      <4>2. CASE ~ Impossible(o)
        BY <1>1, <2>1, <2>2, <3>1, <4>2
      <4>. QED
        BY <4>1, <4>2
    <3>. QED
      BY <1>1, <1>2, <2>1, <3>1, <3>2, <3>3 DEF TranslationInv
  <2>. QED
    BY <1>1, <1>2, <2>1, <2>3, <2>4 DEF SiInv, RunInv
<1>. QED
  BY <1>3, <1>4

LEMMA ApplyAxiomsInv ==
  ASSUME SiInv, ApplyAxioms
  PROVE  SiInv'
<1>1. /\ phase = "apply" /\ unread = {} /\ UNCHANGED <<sas, unread, arcs, reached, queue, result>>
      /\ phase' = IF \E x \in sas.axioms : CanHold(x.condition) /\ AlwaysFalse(x.effect) THEN "failed" ELSE "run"
      /\ values' = IF phase' = "run" THEN NewInit ELSE values
      /\ \A v \in Vars : queue[v] = {}
  BY DEF ApplyAxioms, SiInv, ArcsInv
<1>2. /\ ReachedInv' /\ CanHold(sas.goal)' = CanHold(sas.goal) /\ NewInit' = NewInit /\ NewCount' = NewCount
      /\ Vars' = Vars /\ \A C : CanHold(C)' = CanHold(C) /\ \A p : AlwaysFalse(p)' = AlwaysFalse(p)
      /\ \A p : Impossible(p)' = Impossible(p) /\ Translated(p)' = Translated(p) /\ NewOperator(p)' = NewOperator(p)
      /\ \A w, u : Renamed(w, u)' = Renamed(w, u)
  BY <1>1, RenamingFixed DEF SiInv
<1>3. ArcsInv'
  BY <1>1, ArcsStay DEF SiInv
<1>4. \A x \in sas.axioms : CanHold(x.condition) => ~ AlwaysFalse(x.effect)
  <2>. SUFFICES ASSUME NEW x \in sas.axioms, AlwaysFalse(x.effect) PROVE FALSE
    OBVIOUS
  <2>. DEFINE v == x.effect[1]
  <2>1. v \in Vars /\ x.effect[2] \in Domain(v) /\ Arcs(v, -1, x.effect[2]) \subseteq arcs[v]
    BY ArcsOfTask DEF SiInv, ReachedInv, ArcsInv
  <2>2. sas.init[v] \in reached[v] /\ sas.init[v] \in Domain(v)
    BY <2>1 DEF SiInv, ReachedInv
  <2>3. <<sas.init[v], x.effect[2]>> \in Arcs(v, -1, x.effect[2]) \/ sas.init[v] = x.effect[2]
    BY <2>2 DEF Arcs
  <2>4. x.effect[2] \in reached[v]
    BY <1>1, <2>1, <2>2, <2>3 DEF SiInv, ArcsInv
  <2>. QED
    BY <2>4 DEF AlwaysFalse
<1>5. phase' = "run" /\ values' = NewInit
  BY <1>1, <1>4
<1>6. TranslationInv'
  BY <1>1, <1>2, <1>5 DEF SiInv, TranslationInv
<1>7. RunInv'
  <2>1. DOMAIN values' = 1..NewCount'
    BY <1>2, <1>5 DEF NewInit
  <2>2. Renamed([v \in Vars |-> sas.init[v]], NewInit)
    BY InitialRenamed DEF SiInv
  <2>3. \E x : Renamed(x, NewInit)'
    BY <1>2, <2>2
  <2>. QED
    BY <1>1, <1>2, <1>4, <1>5, <2>1, <2>3 DEF RunInv
<1>. QED
  BY <1>1, <1>2, <1>3, <1>5, <1>6, <1>7 DEF SiInv

\* The axioms of the new task.
LEMMA AxiomsThatStay ==
  ASSUME SiInv, phase = "run", NEW y \in NewAxioms
  PROVE  \E x \in sas.axioms : Stays(x) /\ y = NewAxiom(x)
BY DEF SiInv, RunInv, NewAxioms, NewAxiom, Stays, AlwaysTrue

\* A step of the simplified task is one of the old task.
LEMMA RunStep ==
  ASSUME SiInv, NEW w, Renamed(w, values),
         (\E o \in result : RunOperator(o)) \/ (\E x \in NewAxioms : RunAxiom(x))
  PROVE  /\ phase = "run" /\ DOMAIN values' = 1..NewCount
         /\ UNCHANGED <<sas, phase, unread, arcs, reached, queue, result>>
         /\ \E x : /\ Renamed(x, values')
                   /\ \/ \E o \in sas.operators : Old!Enabled(o, w) /\ x \in Old!Outcomes(o, w)
                      \/ \E a \in sas.axioms : x \in Old!Derived(a, w)
<1>1. /\ phase = "run" /\ DOMAIN values = 1..NewCount
      /\ UNCHANGED <<sas, phase, unread, arcs, reached, queue, result>>
  BY DEF SiInv, RunInv, RunOperator, RunAxiom
<1>2. ASSUME NEW n \in result, RunOperator(n)
      PROVE  DOMAIN values' = 1..NewCount /\ \E o \in sas.operators : Old!Enabled(o, w)
                                              /\ \E x \in Old!Outcomes(o, w) : Renamed(x, values')
  <2>1. New!Enabled(n, values) /\ values' \in New!Outcomes(n, values)
    BY <1>2 DEF RunOperator, New!Perform
  <2>2. PICK o \in sas.operators : Translated(o) /\ n = NewOperator(o)
    BY DEF SiInv, TranslationInv
  <2>3. Old!Enabled(o, w)
    BY <2>1, <2>2, SameEnabled DEF SiInv
  <2>. QED
    BY <1>1, <2>1, <2>2, <2>3, OutcomesRenamed DEF SiInv
<1>3. ASSUME NEW y \in NewAxioms, RunAxiom(y)
      PROVE  DOMAIN values' = 1..NewCount /\ \E a \in sas.axioms : \E x \in Old!Derived(a, w) : Renamed(x, values')
  <2>1. values' \in New!Derived(y, values)
    BY <1>3 DEF RunAxiom, New!Derive
  <2>2. PICK a \in sas.axioms : Stays(a) /\ y = NewAxiom(a)
    BY <1>1, AxiomsThatStay
  <2>. QED
    BY <1>1, <2>1, <2>2, DerivedRenamed DEF SiInv
<1>. QED
  BY <1>1, <1>2, <1>3

LEMMA RunInvKept ==
  ASSUME SiInv, (\E o \in result : RunOperator(o)) \/ (\E x \in NewAxioms : RunAxiom(x))
  PROVE  SiInv'
<1>1. phase = "run"
  BY DEF RunOperator, RunAxiom
<1>2. PICK w : Renamed(w, values)
  BY <1>1 DEF SiInv, RunInv
<1>3. /\ DOMAIN values' = 1..NewCount /\ UNCHANGED <<sas, phase, unread, arcs, reached, queue, result>>
      /\ \E x : Renamed(x, values')
  BY <1>2, RunStep
<1>4. /\ ReachedInv' /\ NewCount' = NewCount
      /\ Vars' = Vars /\ \A C : CanHold(C)' = CanHold(C) /\ \A p : AlwaysFalse(p)' = AlwaysFalse(p)
      /\ \A p : Impossible(p)' = Impossible(p) /\ Translated(p)' = Translated(p) /\ NewOperator(p)' = NewOperator(p)
  BY <1>3, RenamingFixed DEF SiInv
<1>5. ArcsInv'
  BY <1>1, <1>3, ArcsStay DEF SiInv, ArcsInv
<1>6. TranslationInv'
  BY <1>1, <1>3, <1>4 DEF SiInv, TranslationInv
<1>7. RunInv'
  <2>1. \A x, u : Renamed(x, u)' = Renamed(x, u)
    BY <1>3, RenamingFixed
  <2>2. PICK x : Renamed(x, values')
    BY <1>3
  <2>3. Renamed(x, values)'
    BY <2>1, <2>2
  <2>. QED
    BY <1>1, <1>3, <1>4, <2>3 DEF SiInv, RunInv
<1>. QED
  BY <1>1, <1>3, <1>4, <1>5, <1>6, <1>7 DEF SiInv

LEMMA StutterInv ==
  ASSUME SiInv, UNCHANGED siVars
  PROVE  SiInv'
<1>1. UNCHANGED <<sas, phase, unread, arcs, reached, queue, result, values>>
  BY DEF siVars
<1>2. ReachedInv' /\ NewCount' = NewCount /\ Vars' = Vars
  BY <1>1, RenamingFixed DEF SiInv
<1>3. /\ \A C : CanHold(C)' = CanHold(C) /\ \A p : AlwaysFalse(p)' = AlwaysFalse(p)
      /\ \A p : Impossible(p)' = Impossible(p) /\ Translated(p)' = Translated(p) /\ NewOperator(p)' = NewOperator(p)
      /\ \A w, u : Renamed(w, u)' = Renamed(w, u)
  BY <1>1, RenamingFixed
<1>4. ArcsInv'
  <2>1. \A v : Domain(v)' = Domain(v)
    BY <1>1 DEF Domain
  <2>2. \A v, e, f : Arcs(v, e, f)' = Arcs(v, e, f)
    BY <2>1 DEF Arcs
  <2>3. \A p, v : ArcsOf(p, v)' = ArcsOf(p, v)
    BY <2>2 DEF ArcsOf
  <2>. QED
    BY <1>1, <1>2, <2>1, <2>2, <2>3 DEF SiInv, ArcsInv
<1>5. TranslationInv'
  BY <1>1, <1>3 DEF SiInv, TranslationInv
<1>6. RunInv'
  BY <1>1, <1>2, <1>3 DEF SiInv, RunInv
<1>. QED
  BY <1>1, <1>2, <1>4, <1>5, <1>6 DEF SiInv

LEMMA SiInductive == SiInv /\ [SiNext]_siVars => SiInv'
<1>. SUFFICES ASSUME SiInv, [SiNext]_siVars PROVE SiInv'
  OBVIOUS
<1>1. CASE \E o \in unread : ReadOperator(o)
  BY <1>1, ReadOperatorInv
<1>2. CASE \E v \in Vars : \E n \in queue[v] : Expand(v, n)
  BY <1>2, ExpandInv
<1>3. CASE ApplyGoal
  BY <1>3, ApplyGoalInv
<1>4. CASE \E o \in unread : ApplyOperator(o)
  BY <1>4, ApplyOperatorInv
<1>5. CASE ApplyAxioms
  BY <1>5, ApplyAxiomsInv
<1>6. CASE (\E o \in result : RunOperator(o)) \/ (\E x \in NewAxioms : RunAxiom(x))
  BY <1>6, RunInvKept
<1>7. CASE UNCHANGED siVars
  BY <1>7, StutterInv
<1>. QED
  BY <1>1, <1>2, <1>3, <1>4, <1>5, <1>6, <1>7 DEF SiNext, SiEnded

\* The reached values are closed under the arcs of what has been read, the new
\* task is the translation of the operators that have been looked at, and its
\* state is a renamed state of the old task: the invariant behind the theorems
\* about filter_unreachable_propositions.
THEOREM SimplifyInv == SiSpec => []SiInv
<1>. QED
  BY SiInitInv, SiInductive, PTL DEF SiSpec

-----------------------------------------------------------------------------
(* The simplified task does only what the task does.                       *)

\* While the new task is executed the old one is in the state that is renamed to
\* its state; before, in its initial state.
LEMMA OldIsRenamed ==
  ASSUME ReachedInv, NEW x, phase = "run", Renamed(x, values)
  PROVE  OldValues = x
<1>1. ASSUME NEW v \in Vars PROVE OldValue(v) = x[v]
  <2>1. CASE Kept(v)
    <3>1. x[v] \in reached[v] /\ Rank(v, x[v]) = values[Index(v)]
      BY <2>1 DEF Renamed
    <3>2. \A n \in reached[v] : Rank(v, n) = values[Index(v)] => n = x[v]
      BY <3>1, RankIsInjective
    <3>. QED
      BY <2>1, <3>1, <3>2 DEF OldValue
  <2>2. CASE ~ Kept(v)
    BY <2>2, RemovedIsConstant DEF OldValue, Renamed
  <2>. QED
    BY <2>1, <2>2
<1>. QED
  BY <1>1 DEF OldValues, Renamed

LEMMA OldBeforeRun ==
  ASSUME phase # "run"
  PROVE  OldValues = [v \in Vars |-> sas.init[v]]
BY DEF OldValues, OldValue

\* The same in the state after a step that leaves the renaming alone.
LEMMA OldIsRenamedNext ==
  ASSUME ReachedInv, UNCHANGED <<sas, reached>>, NEW x, phase' = "run", Renamed(x, values')
  PROVE  OldValues' = x
<1>1. /\ \A v : Kept(v)' = Kept(v) /\ Index(v)' = Index(v)
      /\ \A v, n : Rank(v, n)' = Rank(v, n)
      /\ Vars' = Vars
  BY RenamingFixed
<1>2. ASSUME NEW v \in Vars PROVE OldValue(v)' = x[v]
  <2>1. CASE Kept(v)
    <3>1. x[v] \in reached[v] /\ Rank(v, x[v]) = values'[Index(v)]
      BY <2>1 DEF Renamed
    <3>2. \A n \in reached[v] : Rank(v, n) = values'[Index(v)] => n = x[v]
      BY <3>1, RankIsInjective
    <3>. QED
      BY <1>1, <2>1, <3>1, <3>2 DEF OldValue
  <2>2. CASE ~ Kept(v)
    BY <1>1, <2>2, RemovedIsConstant DEF OldValue, Renamed
  <2>. QED
    BY <2>1, <2>2
<1>. QED
  BY <1>1, <1>2 DEF OldValues, Renamed

LEMMA InitialIsInitial == SiInit => Old!SasInit
<1>. SUFFICES ASSUME SiInit PROVE Old!SasInit
  OBVIOUS
<1>1. sas \in SasTasks /\ phase # "run"
  BY DEF SiInit
<1>2. sas.init = [v \in Vars |-> sas.init[v]]
  BY <1>1, TasksAreTranslated DEF TasksAssumption, Vars
<1>. QED
  BY <1>1, <1>2, OldBeforeRun DEF Old!SasInit

\* Every step of the translation leaves the task in its initial state, and every
\* step of the new task is one of the old.
LEMMA StepIsStep ==
  ASSUME SiInv, [SiNext]_siVars
  PROVE  [Old!SasNext]_<<sas, OldValues>>
<1>1. CASE (\E o \in result : RunOperator(o)) \/ (\E x \in NewAxioms : RunAxiom(x))
  <2>1. phase = "run"
    BY <1>1 DEF RunOperator, RunAxiom
  <2>2. PICK w : Renamed(w, values)
    BY <2>1 DEF SiInv, RunInv
  <2>3. OldValues = w
    BY <2>1, <2>2, OldIsRenamed DEF SiInv
  <2>4. PICK x : /\ Renamed(x, values') /\ UNCHANGED <<sas, phase, reached>>
                 /\ \/ \E o \in sas.operators : Old!Enabled(o, w) /\ x \in Old!Outcomes(o, w)
                    \/ \E a \in sas.axioms : x \in Old!Derived(a, w)
    BY <1>1, <2>2, RunStep
  <2>5. OldValues' = x
    BY <2>1, <2>4, OldIsRenamedNext DEF SiInv
  <2>. QED
    BY <2>3, <2>4, <2>5 DEF Old!SasNext, Old!Perform, Old!Derive
<1>2. CASE ApplyAxioms
  <2>1. /\ phase = "apply" /\ phase' \in {"run", "failed"} /\ UNCHANGED <<sas, reached>>
        /\ phase' = "run" => values' = NewInit
    BY <1>2 DEF ApplyAxioms
  <2>2. OldValues = [v \in Vars |-> sas.init[v]]
    BY <2>1, OldBeforeRun
  <2>3. CASE phase' = "run"
    <3>1. Renamed([v \in Vars |-> sas.init[v]], values')
      BY <2>1, <2>3, InitialRenamed DEF SiInv
    <3>. QED
      BY <2>1, <2>2, <2>3, <3>1, OldIsRenamedNext DEF SiInv
  <2>4. CASE phase' = "failed"
    BY <2>1, <2>2, <2>4 DEF OldValues, OldValue, Vars
  <2>. QED
    BY <2>1, <2>3, <2>4
<1>3. CASE \/ \E o \in unread : ReadOperator(o)
           \/ \E v \in Vars : \E n \in queue[v] : Expand(v, n)
           \/ ApplyGoal
           \/ \E o \in unread : ApplyOperator(o)
  <2>1. phase # "run" /\ phase' # "run" /\ sas' = sas
    BY <1>3 DEF ReadOperator, Expand, ApplyGoal, ApplyOperator
  <2>. QED
    BY <2>1 DEF OldValues, OldValue, Vars
<1>4. CASE UNCHANGED siVars
  <2>1. UNCHANGED <<sas, reached, phase, values>>
    BY <1>4 DEF siVars
  <2>2. CASE phase = "run"
    <3>1. PICK w : Renamed(w, values)
      BY <2>2 DEF SiInv, RunInv
    <3>. QED
      BY <2>1, <2>2, <3>1, OldIsRenamed, OldIsRenamedNext DEF SiInv
  <2>3. CASE phase # "run"
    BY <2>1, <2>3 DEF OldValues, OldValue, Vars
  <2>. QED
    BY <2>2, <2>3
<1>. QED
  BY <1>1, <1>2, <1>3, <1>4 DEF SiNext, SiEnded

\* For every task: each execution of the simplified task is, value for value, an
\* execution of the task that was translated.
THEOREM SimplifiedImplementsTask == SiSpec => ImplementsTask
<1>1. SiInit => Old!SasInit
  BY InitialIsInitial
<1>2. SiInv /\ [SiNext]_siVars => [Old!SasNext]_<<sas, OldValues>>
  BY StepIsStep
<1>. QED
  BY <1>1, <1>2, SimplifyInv, PTL DEF SiSpec, ImplementsTask, Old!SasSpec

-----------------------------------------------------------------------------
(* The simplified task can do all that the task can do.                    *)

\* An operator that can be executed in a state whose values are reached was
\* translated.
LEMMA EnabledIsTranslated ==
  ASSUME SiInv, phase = "run", NEW w, NEW u, Renamed(w, u), NEW o \in sas.operators, Old!Enabled(o, w)
  PROVE  Translated(o) /\ NewOperator(o) \in result
<1>1. o.prevail \subseteq Atoms(sas) /\ \A e \in o.effects : e.pre = -1 \/ <<e.var, e.pre>> \in o.prevail
  BY TaskFacts DEF SiInv, ReachedInv
<1>2. CanHold(o.prevail)
  BY <1>1, SameTruth DEF SiInv, Old!Enabled
<1>3. ~ Impossible(o)
  BY <1>1, <1>2 DEF Impossible, CanHold, Pre
<1>. QED
  BY <1>3 DEF SiInv, TranslationInv, RunInv

\* Each of the three parts of NothingIsLost and GoalIsKept is a fact about one
\* state and the renaming of its values.
LEMMA InvLosesNothing == SiInv => NothingIsLost
<1>. SUFFICES ASSUME SiInv, phase = "run" PROVE NothingIsLost
  BY DEF NothingIsLost
<1>1. PICK w : Renamed(w, values)
  BY DEF SiInv, RunInv
<1>2. OldValues = w
  BY <1>1, OldIsRenamed DEF SiInv
<1>3. ASSUME NEW o \in sas.operators, Old!Enabled(o, w)
      PROVE  \E n \in result :
               /\ n.number = o.number /\ New!Enabled(n, values)
               /\ \A v \in Vars :
                    SameValues(v, Old!Posts(o, v, w), [k \in 1..NewCount |-> New!Posts(n, k, values)])
  <2>1. Translated(o) /\ NewOperator(o) \in result
    BY <1>1, <1>3, EnabledIsTranslated
  <2>2. NewOperator(o).number = o.number
    BY DEF NewOperator
  <2>3. New!Enabled(NewOperator(o), values)
    BY <1>1, <1>3, <2>1, SameEnabled DEF SiInv
  <2>4. ASSUME NEW v \in Vars
        PROVE  SameValues(v, Old!Posts(o, v, w), [k \in 1..NewCount |-> New!Posts(NewOperator(o), k, values)])
    <3>. DEFINE P == Old!Posts(o, v, w)
                N(k) == New!Posts(NewOperator(o), k, values)
    <3>1. P \subseteq reached[v] /\ (Kept(v) => N(Index(v)) = {Rank(v, n) : n \in P})
      BY <1>1, <2>1, SamePosts DEF SiInv
    <3>2. Kept(v) => Index(v) \in 1..NewCount
      BY IndexIsInjective DEF SiInv
    <3>3. ~ Kept(v) => reached[v] = {sas.init[v]}
      BY RemovedIsConstant DEF SiInv
    <3>. HIDE DEF P, N
    <3>4. SameValues(v, P, [k \in 1..NewCount |-> N(k)])
      BY <3>1, <3>2, <3>3 DEF SameValues
    <3>. QED
      BY <3>4 DEF P, N
  <2>. QED
    BY <2>1, <2>2, <2>3, <2>4
<1>4. ASSUME NEW x \in sas.axioms, Old!TrueIn(x.condition, w)
      PROVE  \/ ~ Kept(x.effect[1]) /\ x.effect[2] = sas.init[x.effect[1]]
             \/ \E y \in NewAxioms : New!TrueIn(y.condition, values) /\ y.effect = NewPair(x.effect)
  <2>1. CanHold(x.condition) /\ New!TrueIn(NewPairs(x.condition), values) /\ x.effect[1] \in Vars
    BY <1>1, <1>4, SameTruth, TaskFacts, AtomsOfTask DEF SiInv, ReachedInv
  <2>2. x.effect[2] \in reached[x.effect[1]]
    BY <2>1 DEF SiInv, RunInv, AlwaysFalse
  <2>3. CASE Kept(x.effect[1])
    <3>1. NewAxiom(x) \in NewAxioms
      BY <2>1, <2>3 DEF NewAxioms, NewAxiom, AlwaysTrue
    <3>. QED
      BY <2>1, <3>1 DEF NewAxiom
  <2>4. CASE ~ Kept(x.effect[1])
    BY <2>1, <2>2, <2>4, RemovedIsConstant DEF SiInv
  <2>. QED
    BY <2>3, <2>4
<1>. QED
  BY <1>2, <1>3, <1>4 DEF NothingIsLost

\* For every task: what an operator or an axiom does in the task, its translation
\* does in the simplified task, and none that can be executed has been removed.
THEOREM NothingIsEverLost == SiSpec => []NothingIsLost
<1>. QED
  BY SimplifyInv, InvLosesNothing, PTL

-----------------------------------------------------------------------------
(* Goals and mutex groups.                                                 *)

\* Of the atoms of a mutex group of the task at most one is true.
GroupsHold == \A m \in sas.mutexes : \A p, q \in m : p # q => ~ Old!TrueIn({p, q}, OldValues)

LEMMA InvKeepsGoal ==
  ASSUME SiInv, GroupsHold
  PROVE  GoalIsKept
<1>1. phase = "unsolvable" => \E p \in sas.goal : p[2] \notin reached[p[1]]
  BY DEF SiInv, TranslationInv, CanHold, AlwaysFalse
<1>. SUFFICES ASSUME phase = "run"
              PROVE  /\ New!TrueIn(NewGoal, values) <=> Old!TrueIn(sas.goal, OldValues)
                     /\ \A g \in NewMutexes : \A p, q \in g : p # q => ~ New!TrueIn({p, q}, values)
  BY <1>1 DEF GoalIsKept
<1>2. PICK w : Renamed(w, values)
  BY DEF SiInv, RunInv
<1>3. OldValues = w
  BY <1>2, OldIsRenamed DEF SiInv
<1>4. Old!TrueIn(sas.goal, w) <=> New!TrueIn(NewGoal, values)
  <2>1. CanHold(sas.goal)
    BY DEF SiInv, TranslationInv
  <2>2. sas.goal \subseteq Atoms(sas)
    BY TaskFacts DEF SiInv, ReachedInv
  <2>. QED
    BY <1>2, <2>1, <2>2, SameTruth DEF SiInv, NewGoal
<1>5. ASSUME NEW m \in sas.mutexes, NEW a \in m, ~ AlwaysFalse(a), ~ AlwaysTrue(a),
             values[NewPair(a)[1]] = NewPair(a)[2]
      PROVE  w[a[1]] = a[2]
  <2>1. a[1] \in Vars
    BY TaskFacts, AtomsOfTask DEF SiInv, ReachedInv
  <2>2. Kept(a[1]) /\ a[2] \in reached[a[1]] /\ values[Index(a[1])] = Rank(a[1], a[2])
    BY <1>5 DEF AlwaysTrue, AlwaysFalse, NewPair
  <2>. QED
    BY <1>2, <2>1, <2>2, RankIsInjective DEF SiInv, Renamed
<1>6. ASSUME NEW g \in NewMutexes, NEW p \in g, NEW q \in g, p # q, New!TrueIn({p, q}, values)
      PROVE  FALSE
  <2>1. PICK m \in sas.mutexes : g = NewPairs({a \in m : ~ AlwaysFalse(a)})
    BY DEF NewMutexes
  <2>2. PICK a \in m : p = NewPair(a) /\ ~ AlwaysFalse(a) /\ ~ AlwaysTrue(a)
    BY <2>1 DEF NewPairs
  <2>3. PICK b \in m : q = NewPair(b) /\ ~ AlwaysFalse(b) /\ ~ AlwaysTrue(b)
    BY <2>1 DEF NewPairs
  <2>4. w[a[1]] = a[2] /\ w[b[1]] = b[2] /\ a # b
    BY <1>5, <1>6, <2>2, <2>3 DEF New!TrueIn
  <2>. QED
    BY <1>3, <2>4 DEF GroupsHold, Old!TrueIn
<1>. QED
  BY <1>3, <1>4, <1>6

\* For every task: the new goal holds exactly when the old one does, a task is
\* given up only for a value that is not reached, and if the groups are mutexes
\* of the task, the new groups are mutexes of the simplified task.
THEOREM GoalIsAlwaysKept == SiSpec /\ (ImplementsTask => []GroupsHold) => []GoalIsKept
<1>1. SiInv /\ GroupsHold => GoalIsKept
  BY InvKeepsGoal
<1>. QED
  BY <1>1, SimplifyInv, SimplifiedImplementsTask, PTL

-----------------------------------------------------------------------------
(* Giving up.                                                              *)

\* The states whose values are all reached.
ReachedStates == {w \in [Vars -> Nat] : \A v \in Vars : w[v] \in reached[v]}

\* From a state of reached values an operator leads to one.
LEMMA ReachedIsClosed ==
  ASSUME SiInv, phase \notin {"graph", "reach"}, NEW w \in ReachedStates,
         NEW o \in sas.operators, Old!Enabled(o, w), NEW t \in Old!Outcomes(o, w)
  PROVE  t \in ReachedStates
<1>1. DOMAIN w = Vars /\ \A v \in Vars : w[v] \in reached[v] /\ reached[v] \subseteq Domain(v)
  BY DEF ReachedStates, SiInv, ReachedInv
<1>2. t \in [Vars -> UNION {0..(sas.ranges[v] - 1) : v \in Vars}]
  BY <1>1 DEF Old!Outcomes
<1>3. ASSUME NEW e \in o.effects, Old!TrueIn(e.condition, w)
      PROVE  e.post \in reached[e.var] /\ e.var \in Vars
  <2>1. e.var \in Vars /\ e.post \in Domain(e.var)
    <3>1. <<e.var, e.post>> \in Atoms(sas)
      BY TaskFacts DEF SiInv, ReachedInv
    <3>. QED
      BY <3>1, AtomsOfTask DEF SiInv, ReachedInv
  <2>2. ~ Contradictory(e)
    <3>. DEFINE asked == ({e.pre} \ {-1}) \cup {p[2] : p \in {q \in e.condition : q[1] = e.var}}
    <3>1. asked \subseteq {w[e.var]}
      BY <1>3 DEF Old!Enabled, Old!TrueIn
    <3>2. IsFiniteSet({w[e.var]}) /\ Cardinality({w[e.var]}) = 1
      BY FS_Singleton
    <3>3. Cardinality(asked) <= 1 /\ Cardinality(asked) \in Nat
      <4>. HIDE DEF asked
      <4>. QED
        BY <3>1, <3>2, FS_Subset, FS_CardinalityType
    <3>. QED
      BY <3>3 DEF Contradictory
  <2>3. Arcs(e.var, e.pre, e.post) \subseteq arcs[e.var] /\ queue[e.var] = {}
    <3>1. ArcsOf(o, e.var) \subseteq arcs[e.var] /\ queue[e.var] = {}
      BY <2>1 DEF SiInv, ArcsInv
    <3>. QED
      BY <2>2, <3>1 DEF ArcsOf
  <2>4. <<w[e.var], e.post>> \in Arcs(e.var, e.pre, e.post) \/ w[e.var] = e.post
    BY <1>1, <2>1 DEF Arcs, Old!Enabled
  <2>. QED
    BY <1>1, <2>1, <2>3, <2>4 DEF SiInv, ArcsInv
<1>4. \A v \in Vars : Old!Posts(o, v, w) \subseteq reached[v]
  BY <1>3 DEF Old!Posts
<1>5. \A v \in Vars : t[v] \in reached[v]
  BY <1>1, <1>4 DEF Old!Outcomes
<1>6. t \in [Vars -> Nat]
  <2>1. \A v \in Vars : Domain(v) \subseteq Nat
    BY TaskFacts DEF Domain, SiInv, ReachedInv
  <2>2. \A v \in Vars : t[v] \in Nat
    BY <1>1, <1>5, <2>1
  <2>. QED
    BY <1>2, <2>2
<1>. QED
  BY <1>5, <1>6 DEF ReachedStates

\* What apply_to_goals gives up cannot be solved: the task starts among states
\* that no operator and no axiom leaves, and in none of them the goal holds.
GivenUpRightly ==
  phase = "unsolvable" =>
    /\ sas.init \in ReachedStates
    /\ \A w \in ReachedStates :
         /\ \A o \in sas.operators : Old!Enabled(o, w) => Old!Outcomes(o, w) \subseteq ReachedStates
         /\ \A x \in sas.axioms : Old!Derived(x, w) \subseteq ReachedStates
         /\ ~ Old!TrueIn(sas.goal, w)

LEMMA InvGivesUpRightly == SiInv => GivenUpRightly
<1>. SUFFICES ASSUME SiInv, phase = "unsolvable" PROVE GivenUpRightly
  BY DEF GivenUpRightly
<1>1. sas.init \in ReachedStates
  <2>1. sas.init \in [Vars -> Nat]
    BY TasksAreTranslated DEF TasksAssumption, Vars, SiInv, ReachedInv
  <2>. QED
    BY <2>1 DEF ReachedStates, SiInv, ReachedInv
<1>2. ASSUME NEW w \in ReachedStates, NEW o \in sas.operators, Old!Enabled(o, w)
      PROVE  Old!Outcomes(o, w) \subseteq ReachedStates
  BY <1>2, ReachedIsClosed
<1>3. ASSUME NEW w \in ReachedStates, NEW x \in sas.axioms, NEW t \in Old!Derived(x, w)
      PROVE  t \in ReachedStates
  <2>. DEFINE v == x.effect[1]
  <2>1. v \in Vars /\ x.effect[2] \in Domain(v) /\ Arcs(v, -1, x.effect[2]) \subseteq arcs[v] /\ queue[v] = {}
    BY ArcsOfTask DEF SiInv, ReachedInv, ArcsInv
  <2>2. sas.init[v] \in reached[v] /\ sas.init[v] \in Domain(v) /\ sas.ranges[v] \in Nat
        /\ reached[v] \subseteq Domain(v)
    BY <2>1, TaskFacts DEF SiInv, ReachedInv
  <2>3. <<sas.init[v], x.effect[2]>> \in Arcs(v, -1, x.effect[2]) \/ sas.init[v] = x.effect[2]
    BY <2>2 DEF Arcs
  <2>4. x.effect[2] \in reached[v]
    BY <2>1, <2>2, <2>3 DEF SiInv, ArcsInv
  <2>5. PICK n \in {sas.init[v], x.effect[2]} : t = [w EXCEPT ![v] = n]
    BY DEF Old!Derived
  <2>6. n \in reached[v] /\ n \in Nat
    BY <2>2, <2>4, <2>5 DEF Domain
  <2>. HIDE DEF v
  <2>. QED
    BY <2>1, <2>5, <2>6 DEF ReachedStates
<1>4. ASSUME NEW w \in ReachedStates PROVE ~ Old!TrueIn(sas.goal, w)
  <2>1. PICK p \in sas.goal : p[2] \notin reached[p[1]]
    BY DEF SiInv, TranslationInv, CanHold, AlwaysFalse
  <2>2. p[1] \in Vars
    BY TaskFacts, AtomsOfTask DEF SiInv, ReachedInv
  <2>. QED
    BY <2>1, <2>2 DEF Old!TrueIn, ReachedStates
<1>. QED
  BY <1>1, <1>2, <1>3, <1>4 DEF GivenUpRightly

\* For every task that filter_unreachable_propositions gives up there is an
\* inductive reason why its goal never holds.
THEOREM UnsolvableIsRight == SiSpec => []GivenUpRightly
<1>. QED
  BY SimplifyInv, InvGivesUpRightly, PTL

\* Only an effect that asks for two values of its variable stops the translator.
OnlyContradictionsFail ==
  phase = "failed" => \E o \in sas.operators : \E e \in o.effects : Contradictory(e)

\* For every task: the assertions of apply_to_operator and apply_to_axiom hold
\* unless the task has an effect with contradictory conditions.
THEOREM AssertionsHold == SiSpec => []OnlyContradictionsFail
<1>1. SiInv => OnlyContradictionsFail
  BY DEF SiInv, TranslationInv, OnlyContradictionsFail
<1>. QED
  BY <1>1, SimplifyInv, PTL
=============================================================================
