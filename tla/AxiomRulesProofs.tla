-------------------------- MODULE AxiomRulesProofs --------------------------
(***************************************************************************)
(* Proofs about handle_axioms: simplification, on lists that shrink while  *)
(* they are read, and the expansion of negated literals keep the meaning   *)
(* of the axioms, for every set of axioms and every order of the loops.    *)
(***************************************************************************)
EXTENDS AxiomRules, WellFoundedInduction, TLAPS

-----------------------------------------------------------------------------
(* Numbers and recursion along a list.                                     *)

\* A set of naturals has a least element.
LEMMA LeastNumber ==
  ASSUME NEW T \in SUBSET Nat, T # {}
  PROVE  \E m \in T : \A k \in T : m <= k
<1>. DEFINE R == OpToRel(<, Nat)
<1>1. PICK m \in T : \A k \in T : <<k, m>> \notin R
  BY NatLessThanWellFounded, WFMin, Zenon
<1>2. ASSUME NEW k \in T, k < m PROVE FALSE
  <2>1. <<k, m>> \in Nat \X Nat /\ <<k, m>>[1] < <<k, m>>[2]
    BY <1>2
  <2>. QED
    BY <2>1, <1>1 DEF OpToRel
<1>. QED
  BY <1>2

\* Induction: a set with 0 and the successors of its elements has every number.
LEMMA Induction ==
  ASSUME NEW S, 0 \in S, \A n \in Nat : n \in S => n + 1 \in S
  PROVE  Nat \subseteq S
<1>. SUFFICES ASSUME Nat \ S # {} PROVE FALSE
  OBVIOUS
<1>1. PICK n \in Nat \ S : \A k \in Nat \ S : n <= k
  BY LeastNumber
<1>2. n # 0 /\ n - 1 \in Nat /\ n - 1 \in S /\ (n - 1) + 1 = n
  BY <1>1
<1>. QED
  BY <1>1, <1>2

\* A function that is defined along the numbers up to n, from its value at 0.
Recurs(f, n, b, G) == f = [k \in 0..n |-> IF k = 0 THEN b ELSE G[k][f[k - 1]]]

\* There is one, of the values that the steps keep within.
LEMMA Recursion ==
  ASSUME NEW N \in Nat, NEW T, NEW b \in T, NEW G, \A k \in 1..N : \A x \in T : G[k][x] \in T
  PROVE  \E f \in [0..N -> T] : Recurs(f, N, b, G)
<1>. DEFINE S == {n \in Nat : n <= N => \E f \in [0..n -> T] : Recurs(f, n, b, G)}
<1>1. 0 \in S
  <2>. DEFINE f == [k \in 0..0 |-> b]
  <2>1. f = [k \in 0..0 |-> IF k = 0 THEN b ELSE G[k][f[k - 1]]]
    OBVIOUS
  <2>2. f \in [0..0 -> T] /\ Recurs(f, 0, b, G)
    BY <2>1 DEF Recurs
  <2>. QED
    BY <2>2
<1>2. ASSUME NEW n \in Nat, n \in S PROVE n + 1 \in S
  <2>. SUFFICES ASSUME n + 1 <= N PROVE \E f \in [0..(n + 1) -> T] : Recurs(f, n + 1, b, G)
    OBVIOUS
  <2>1. PICK f \in [0..n -> T] : Recurs(f, n, b, G)
    BY <1>2
  <2>. DEFINE last == G[n + 1][f[n]]
              g == [k \in 0..(n + 1) |-> IF k = n + 1 THEN last ELSE f[k]]
              h(k) == IF k = 0 THEN b ELSE G[k][g[k - 1]]
  <2>2. ASSUME NEW k \in 0..(n + 1) PROVE g[k] = h(k)
    <3>1. CASE k = n + 1
      <4>1. k - 1 = n /\ g[k - 1] = f[n] /\ g[k] = last /\ k # 0
        BY <3>1
      <4>. HIDE DEF g
      <4>. QED
        BY <3>1, <4>1
    <3>2. CASE k # n + 1
      <4>1. k \in 0..n /\ g[k] = f[k] /\ (k # 0 => k - 1 \in 0..n /\ g[k - 1] = f[k - 1])
        BY <3>2
      <4>2. f[k] = IF k = 0 THEN b ELSE G[k][f[k - 1]]
        BY <2>1, <4>1 DEF Recurs
      <4>. HIDE DEF g
      <4>. QED
        BY <4>1, <4>2
    <3>. QED
      BY <3>1, <3>2
  <2>3. g = [k \in 0..(n + 1) |-> g[k]]
    OBVIOUS
  <2>4. g = [k \in 0..(n + 1) |-> h(k)]
    <3>. HIDE DEF g, h
    <3>. QED
      BY <2>2, <2>3
  <2>5. Recurs(g, n + 1, b, G)
    BY <2>4 DEF Recurs
  <2>6. g \in [0..(n + 1) -> T]
    <3>1. last \in T /\ \A k \in 0..(n + 1) : k # n + 1 => f[k] \in T
      BY <2>1
    <3>. HIDE DEF last
    <3>. QED
      BY <3>1
  <2>. QED
    BY <2>5, <2>6
<1>3. Nat \subseteq S
  <2>. HIDE DEF S
  <2>. QED
    BY <1>1, <1>2, Induction
<1>. QED
  BY <1>3

-----------------------------------------------------------------------------
(* Lists as sets.                                                          *)

\* What a list is made of.
LEMMA ListFacts ==
  ASSUME NEW T, NEW c \in Seq(T)
  PROVE  Len(c) \in Nat /\ DOMAIN c = 1..Len(c) /\ (\A i \in DOMAIN c : c[i] \in T)
         /\ (Len(c) = 0 <=> c = <<>>) /\ ToSet(c) = {c[i] : i \in 1..Len(c)} /\ ToSet(c) \subseteq T
  BY DEF ToSet

\* A function on the first numbers is a list.
LEMMA FunctionIsList ==
  ASSUME NEW T, NEW n \in Nat, NEW f \in [1..n -> T]
  PROVE  f \in Seq(T) /\ Len(f) = n /\ ToSet(f) = {f[i] : i \in 1..n}
BY DEF ToSet

\* The elements of a longer list.
LEMMA AppendSet ==
  ASSUME NEW T, NEW c \in Seq(T), NEW e \in T
  PROVE  Append(c, e) \in Seq(T) /\ ToSet(Append(c, e)) = ToSet(c) \cup {e}
<1>. DEFINE d == Append(c, e)
<1>1. d \in Seq(T) /\ Len(d) = Len(c) + 1 /\ d[Len(c) + 1] = e /\ \A i \in 1..Len(c) : d[i] = c[i]
  OBVIOUS
<1>2. Len(c) \in Nat
  OBVIOUS
<1>3. ToSet(c) = {c[i] : i \in 1..Len(c)} /\ ToSet(d) = {d[i] : i \in 1..Len(c) + 1}
  BY <1>1, ListFacts
<1>. HIDE DEF d
<1>4. 1..Len(c) + 1 = 1..Len(c) \cup {Len(c) + 1}
  BY <1>2
<1>5. ToSet(d) = ToSet(c) \cup {e}
  BY <1>1, <1>3, <1>4
<1>. QED
  BY <1>1, <1>5 DEF d

\* The elements of two lists, one after the other.
LEMMA ConcatSet ==
  ASSUME NEW T, NEW c \in Seq(T), NEW d \in Seq(T)
  PROVE  c \o d \in Seq(T) /\ ToSet(c \o d) = ToSet(c) \cup ToSet(d)
<1>. DEFINE e == c \o d
<1>1. e \in Seq(T) /\ Len(e) = Len(c) + Len(d)
  OBVIOUS
<1>2. (\A i \in 1..Len(c) : e[i] = c[i]) /\ (\A i \in 1..Len(d) : e[Len(c) + i] = d[i])
  OBVIOUS
<1>3. ToSet(c) = {c[i] : i \in 1..Len(c)} /\ ToSet(d) = {d[i] : i \in 1..Len(d)} /\ ToSet(e) = {e[i] : i \in 1..Len(e)}
  BY <1>1, ListFacts
<1>4. Len(c) \in Nat /\ Len(d) \in Nat
  OBVIOUS
<1>. HIDE DEF e
<1>5. ASSUME NEW i \in 1..Len(e) PROVE e[i] \in ToSet(c) \cup ToSet(d)
  <2>1. CASE i <= Len(c)
    BY <1>2, <1>3, <1>4, <2>1
  <2>2. CASE ~ (i <= Len(c))
    <3>1. i - Len(c) \in 1..Len(d) /\ Len(c) + (i - Len(c)) = i
      BY <1>1, <1>4, <2>2
    <3>. QED
      BY <1>2, <1>3, <3>1
  <2>. QED
    BY <2>1, <2>2
<1>6. ASSUME NEW i \in 1..Len(c) PROVE c[i] \in ToSet(e)
  BY <1>1, <1>2, <1>3, <1>4
<1>7. ASSUME NEW i \in 1..Len(d) PROVE d[i] \in ToSet(e)
  <2>1. Len(c) + i \in 1..Len(e)
    BY <1>1, <1>4
  <2>. QED
    BY <1>2, <1>3, <2>1
<1>8. ToSet(e) = ToSet(c) \cup ToSet(d)
  BY <1>3, <1>5, <1>6, <1>7
<1>. QED
  BY <1>1, <1>8 DEF e

\* What is picked of a list is what it has at the positions.
LEMMA PickedMeaning ==
  ASSUME NEW T, NEW c \in Seq(T), NEW P
  PROVE  Picked(c, P) \in Seq(T) /\ ToSet(Picked(c, P)) = {c[i] : i \in P \cap DOMAIN c}
<1>. DEFINE N == Len(c)
            Step(x, k) == IF k \in P THEN Append(x, c[k]) ELSE x
            G == [k \in 1..N |-> [x \in Seq(T) |-> Step(x, k)]]
            Ok(f) == f = [k \in 0..N |-> IF k = 0 THEN <<>> ELSE Step(f[k - 1], k)]
            upTo == CHOOSE f : Ok(f)
<1>1. N \in Nat /\ DOMAIN c = 1..N /\ \A i \in 1..N : c[i] \in T
  BY ListFacts
<1>2. Picked(c, P) = upTo[N]
  BY DEF Picked
<1>3. \A k \in 1..N : \A x \in Seq(T) : G[k][x] = Step(x, k) /\ Step(x, k) \in Seq(T)
  BY <1>1, AppendSet
<1>4. \E f : Ok(f)
  <2>1. PICK f \in [0..N -> Seq(T)] : Recurs(f, N, <<>>, G)
    <3>1. <<>> \in Seq(T)
      OBVIOUS
    <3>2. \A k \in 1..N : \A x \in Seq(T) : G[k][x] \in Seq(T)
      BY <1>3
    <3>. HIDE DEF G, Step, N
    <3>. QED
      BY <1>1, <3>1, <3>2, Recursion
  <2>. HIDE DEF G, Step, N
  <2>2. \A k \in 0..N : k # 0 => f[k - 1] \in Seq(T) /\ k \in 1..N
    BY <1>1, <2>1
  <2>3. Ok(f)
    BY <1>3, <2>1, <2>2 DEF Recurs
  <2>. QED
    BY <2>3
<1>5. Ok(upTo)
  <2>. HIDE DEF Ok
  <2>. QED
    BY <1>4, Zenon
<1>. HIDE DEF upTo
<1>. DEFINE S == {n \in Nat : n <= N => upTo[n] \in Seq(T) /\ ToSet(upTo[n]) = {c[i] : i \in P \cap (1..n)}}
<1>6. 0 \in S
  <2>1. upTo[0] = <<>> /\ <<>> \in Seq(T)
    BY <1>1, <1>5
  <2>2. ToSet(<<>>) = {} /\ P \cap (1..0) = {}
    BY DEF ToSet
  <2>. QED
    BY <2>1, <2>2
<1>7. ASSUME NEW n \in Nat, n \in S PROVE n + 1 \in S
  <2>. SUFFICES ASSUME n + 1 <= N
                PROVE  upTo[n + 1] \in Seq(T) /\ ToSet(upTo[n + 1]) = {c[i] : i \in P \cap (1..n + 1)}
    OBVIOUS
  <2>1. upTo[n] \in Seq(T) /\ ToSet(upTo[n]) = {c[i] : i \in P \cap (1..n)}
    BY <1>1, <1>7
  <2>2. n + 1 \in 0..N /\ n + 1 \in 1..N /\ n + 1 # 0 /\ (n + 1) - 1 = n
    BY <1>1
  <2>3. upTo[n + 1] = Step(upTo[n], n + 1)
    <3>. HIDE DEF Step, N
    <3>. QED
      BY <1>5, <2>2
  <2>4. P \cap (1..n + 1) = (P \cap (1..n)) \cup (P \cap {n + 1})
    OBVIOUS
  <2>5. c[n + 1] \in T
    BY <1>1, <2>2
  <2>. HIDE DEF N
  <2>6. CASE n + 1 \in P
    <3>1. upTo[n + 1] = Append(upTo[n], c[n + 1]) /\ P \cap {n + 1} = {n + 1}
      BY <2>3, <2>6
    <3>. QED
      BY <2>1, <2>4, <2>5, <3>1, AppendSet
  <2>7. CASE n + 1 \notin P
    BY <2>1, <2>3, <2>4, <2>7
  <2>. QED
    BY <2>6, <2>7
<1>8. Nat \subseteq S
  <2>. HIDE DEF S
  <2>. QED
    BY <1>6, <1>7, Induction
<1>9. N \in S
  BY <1>1, <1>8
<1>. QED
  BY <1>1, <1>2, <1>9

\* Joined lists have the elements of the lists.
LEMMA JoinedMeaning ==
  ASSUME NEW T, NEW c \in Seq(Seq(T))
  PROVE  Joined(c) \in Seq(T) /\ ToSet(Joined(c)) = UNION {ToSet(c[i]) : i \in DOMAIN c}
<1>. DEFINE N == Len(c)
            G == [k \in 1..N |-> [x \in Seq(T) |-> x \o c[k]]]
            Ok(f) == f = [k \in 0..N |-> IF k = 0 THEN <<>> ELSE f[k - 1] \o c[k]]
            upTo == CHOOSE f : Ok(f)
<1>1. N \in Nat /\ DOMAIN c = 1..N /\ \A i \in 1..N : c[i] \in Seq(T)
  BY ListFacts
<1>2. Joined(c) = upTo[N]
  BY DEF Joined
<1>3. \A k \in 1..N : \A x \in Seq(T) : G[k][x] = x \o c[k] /\ x \o c[k] \in Seq(T)
  BY <1>1, ConcatSet
<1>4. \E f : Ok(f)
  <2>1. PICK f \in [0..N -> Seq(T)] : Recurs(f, N, <<>>, G)
    <3>1. <<>> \in Seq(T)
      OBVIOUS
    <3>. HIDE DEF G, N
    <3>. QED
      BY <1>1, <1>3, <3>1, Recursion
  <2>. HIDE DEF G, N
  <2>2. \A k \in 0..N : k # 0 => f[k - 1] \in Seq(T) /\ k \in 1..N
    BY <1>1, <2>1
  <2>3. Ok(f)
    BY <1>3, <2>1, <2>2 DEF Recurs
  <2>. QED
    BY <2>3
<1>5. Ok(upTo)
  <2>. HIDE DEF Ok
  <2>. QED
    BY <1>4, Zenon
<1>. HIDE DEF upTo
<1>. DEFINE S == {n \in Nat : n <= N => upTo[n] \in Seq(T) /\ ToSet(upTo[n]) = UNION {ToSet(c[i]) : i \in 1..n}}
<1>6. 0 \in S
  <2>1. upTo[0] = <<>> /\ <<>> \in Seq(T)
    BY <1>1, <1>5
  <2>2. ToSet(<<>>) = {} /\ 1..0 = {}
    BY DEF ToSet
  <2>. QED
    BY <2>1, <2>2
<1>7. ASSUME NEW n \in Nat, n \in S PROVE n + 1 \in S
  <2>. SUFFICES ASSUME n + 1 <= N
                PROVE  upTo[n + 1] \in Seq(T) /\ ToSet(upTo[n + 1]) = UNION {ToSet(c[i]) : i \in 1..n + 1}
    OBVIOUS
  <2>1. upTo[n] \in Seq(T) /\ ToSet(upTo[n]) = UNION {ToSet(c[i]) : i \in 1..n}
    BY <1>1, <1>7
  <2>2. n + 1 \in 0..N /\ n + 1 \in 1..N /\ n + 1 # 0 /\ (n + 1) - 1 = n
    BY <1>1
  <2>3. upTo[n + 1] = upTo[n] \o c[n + 1]
    <3>. HIDE DEF N
    <3>. QED
      BY <1>5, <2>2
  <2>4. 1..n + 1 = (1..n) \cup {n + 1}
    OBVIOUS
  <2>5. c[n + 1] \in Seq(T)
    BY <1>1, <2>2
  <2>. HIDE DEF N
  <2>6. upTo[n + 1] \in Seq(T) /\ ToSet(upTo[n + 1]) = ToSet(upTo[n]) \cup ToSet(c[n + 1])
    BY <2>1, <2>3, <2>5, ConcatSet
  <2>7. UNION {ToSet(c[i]) : i \in 1..n + 1} = (UNION {ToSet(c[i]) : i \in 1..n}) \cup ToSet(c[n + 1])
    BY <2>4
  <2>. QED
    BY <2>1, <2>6, <2>7
<1>8. Nat \subseteq S
  <2>. HIDE DEF S
  <2>. QED
    BY <1>6, <1>7, Induction
<1>9. N \in S
  BY <1>1, <1>8
<1>. QED
  BY <1>1, <1>2, <1>9

-----------------------------------------------------------------------------
(* simplify.                                                               *)

\* Sorting keeps the literals of a condition.
LEMMA SortedMeaning ==
  ASSUME NEW c \in Seq(Literals)
  PROVE  Sorted(c) \in Seq(Literals) /\ Body(Sorted(c)) = Body(c)
<1>. DEFINE P(k) == {i \in DOMAIN c : c[i].atom = SortedAtoms[k]}
            L == [k \in DOMAIN SortedAtoms |-> Picked(c, P(k))]
<1>1. \A k : Picked(c, P(k)) \in Seq(Literals) /\ ToSet(Picked(c, P(k))) = {c[i] : i \in P(k)}
  <2>1. \A k : P(k) \cap DOMAIN c = P(k)
    OBVIOUS
  <2>. HIDE DEF P
  <2>. QED
    BY <2>1, PickedMeaning
<1>2. DOMAIN SortedAtoms = 1..Len(SortedAtoms) /\ Len(SortedAtoms) \in Nat
  BY AtomsAssumption, ListFacts
<1>3. L \in Seq(Seq(Literals)) /\ DOMAIN L = DOMAIN SortedAtoms
  <2>. HIDE DEF P
  <2>. QED
    BY <1>1, <1>2
<1>4. Sorted(c) = Joined(L)
  BY DEF Sorted
<1>5. Joined(L) \in Seq(Literals) /\ ToSet(Joined(L)) = UNION {ToSet(L[k]) : k \in DOMAIN L}
  <2>. HIDE DEF L
  <2>. QED
    BY <1>3, JoinedMeaning
<1>6. \A k \in DOMAIN SortedAtoms : ToSet(L[k]) = {c[i] : i \in P(k)}
  <2>. HIDE DEF P
  <2>. QED
    BY <1>1
<1>7. \A i \in DOMAIN c : \E k \in DOMAIN SortedAtoms : i \in P(k)
  <2>. SUFFICES ASSUME NEW i \in DOMAIN c PROVE \E k \in DOMAIN SortedAtoms : c[i].atom = SortedAtoms[k]
    OBVIOUS
  <2>1. c[i] \in Literals
    BY ListFacts
  <2>. QED
    BY <2>1 DEF Literals, ToSet
<1>8. ToSet(c) = {c[i] : i \in DOMAIN c} /\ \A k : P(k) \subseteq DOMAIN c
  BY DEF ToSet
<1>9. UNION {ToSet(L[k]) : k \in DOMAIN L} = ToSet(c)
  <2>. HIDE DEF P, L
  <2>. QED
    BY <1>3, <1>6, <1>7, <1>8
<1>. QED
  BY <1>4, <1>5, <1>9 DEF Body

\* So does dropping repetitions.
LEMMA RepeatsMeaning ==
  ASSUME NEW c \in Seq(Literals)
  PROVE  WithoutRepeats(c) \in Seq(Literals) /\ Body(WithoutRepeats(c)) = Body(c)
<1>. DEFINE P == {i \in DOMAIN c : i = 1 \/ c[i] # c[i - 1]}
            S == {n \in Nat : n \in DOMAIN c => \E i \in P : c[i] = c[n]}
<1>1. DOMAIN c = 1..Len(c) /\ Len(c) \in Nat
  BY ListFacts
<1>2. 0 \in S
  BY <1>1
<1>3. ASSUME NEW n \in Nat, n \in S PROVE n + 1 \in S
  <2>. SUFFICES ASSUME n + 1 \in DOMAIN c, n + 1 \notin P PROVE \E i \in P : c[i] = c[n + 1]
    OBVIOUS
  <2>1. n + 1 # 1 /\ (n + 1) - 1 = n /\ c[n + 1] = c[n] /\ n \in DOMAIN c
    BY <1>1
  <2>. QED
    BY <1>3, <2>1
<1>4. Nat \subseteq S
  <2>. HIDE DEF S
  <2>. QED
    BY <1>2, <1>3, Induction
<1>5. ToSet(c) = {c[i] : i \in P}
  <2>1. \A n \in DOMAIN c : \E i \in P : c[i] = c[n]
    BY <1>1, <1>4
  <2>2. P \subseteq DOMAIN c
    OBVIOUS
  <2>. HIDE DEF P, S
  <2>. QED
    BY <2>1, <2>2 DEF ToSet
<1>6. WithoutRepeats(c) = Picked(c, P) /\ P \cap DOMAIN c = P
  BY DEF WithoutRepeats
<1>. HIDE DEF P, S
<1>. QED
  BY <1>5, <1>6, PickedMeaning DEF Body

\* The loop over the axioms.  byLiteral never says that a literal is in a body
\* where it is not, so whatever is skipped has a body above that of an axiom which
\* stays, if need be the one that had let skip it.
Kept(sorted, s) == {i \in DOMAIN sorted : i \notin s.skip}

LoopInv(sorted, s) ==
  LET all == UNION {Body(sorted[i]) : i \in DOMAIN sorted}
  IN  /\ s \in [byLiteral : [all -> SUBSET DOMAIN sorted], skip : SUBSET DOMAIN sorted, stop : {0} \cup DOMAIN sorted]
      /\ \A l \in all : \A i \in s.byLiteral[l] : l \in Body(sorted[i])
      /\ \A j \in s.skip : \E i \in Kept(sorted, s) : Body(sorted[i]) \subseteq Body(sorted[j])
      /\ s.stop # 0 => sorted[s.stop] = <<>>

\* A turn of the loop keeps this.
LEMMA VisitedInv ==
  ASSUME NEW sorted \in Seq(Seq(Literals)), NEW s, LoopInv(sorted, s), NEW i \in DOMAIN sorted
  PROVE  LoopInv(sorted, Visited(s, i, sorted))
<1>. DEFINE all == UNION {Body(sorted[j]) : j \in DOMAIN sorted}
            below == Dominates(sorted[i], DOMAIN sorted, s.byLiteral)
            next == [s EXCEPT !.byLiteral[sorted[i][1]] = below, !.skip = @ \cup (below \ {i})]
<1>1. /\ s \in [byLiteral : [all -> SUBSET DOMAIN sorted], skip : SUBSET DOMAIN sorted, stop : {0} \cup DOMAIN sorted]
      /\ \A l \in all : \A j \in s.byLiteral[l] : l \in Body(sorted[j])
      /\ \A j \in s.skip : \E k \in Kept(sorted, s) : Body(sorted[k]) \subseteq Body(sorted[j])
      /\ s.stop # 0 => sorted[s.stop] = <<>>
  BY DEF LoopInv
<1>2. CASE s.stop # 0 \/ i \in s.skip
  BY <1>2 DEF Visited
<1>3. CASE ~ (s.stop # 0 \/ i \in s.skip) /\ sorted[i] = <<>>
  <2>. DEFINE end == [s EXCEPT !.stop = i]
  <2>1. /\ end \in [byLiteral : [all -> SUBSET DOMAIN sorted], skip : SUBSET DOMAIN sorted, stop : {0} \cup DOMAIN sorted]
        /\ end.byLiteral = s.byLiteral /\ end.skip = s.skip /\ end.stop = i
    <3>. HIDE DEF all
    <3>. QED
      BY <1>1
  <2>2. Visited(s, i, sorted) = end
    BY <1>3 DEF Visited
  <2>. HIDE DEF end
  <2>3. Kept(sorted, end) = Kept(sorted, s)
    BY <2>1 DEF Kept
  <2>4. /\ \A l \in all : \A j \in end.byLiteral[l] : l \in Body(sorted[j])
        /\ \A j \in end.skip : \E k \in Kept(sorted, end) : Body(sorted[k]) \subseteq Body(sorted[j])
        /\ end.stop # 0 => sorted[end.stop] = <<>>
    BY <1>1, <1>3, <2>1, <2>3
  <2>5. LoopInv(sorted, end)
    BY <2>1, <2>4 DEF LoopInv
  <2>. QED
    BY <2>2, <2>5
<1>4. CASE ~ (s.stop # 0 \/ i \in s.skip) /\ sorted[i] # <<>>
  <2>1. sorted[i] \in Seq(Literals) /\ Body(sorted[i]) \subseteq all /\ sorted[i][1] \in Body(sorted[i])
    <3>1. sorted[i] \in Seq(Literals)
      BY ListFacts
    <3>2. 1 \in DOMAIN sorted[i]
      BY <1>4, <3>1, ListFacts
    <3>. QED
      BY <3>1, <3>2 DEF Body, ToSet
  <2>2. below \subseteq DOMAIN sorted /\ \A j \in below : Body(sorted[i]) \subseteq Body(sorted[j])
    <3>. HIDE DEF all
    <3>. QED
      BY <1>1, <2>1 DEF Dominates
  <2>3. Visited(s, i, sorted) = next
    BY <1>4 DEF Visited
  <2>. HIDE DEF all, below
  <2>4. /\ next \in [byLiteral : [all -> SUBSET DOMAIN sorted], skip : SUBSET DOMAIN sorted, stop : {0} \cup DOMAIN sorted]
        /\ next.byLiteral = [s.byLiteral EXCEPT ![sorted[i][1]] = below]
        /\ next.skip = s.skip \cup (below \ {i}) /\ next.stop = s.stop
    BY <1>1, <2>1, <2>2
  <2>. HIDE DEF next
  <2>5. ASSUME NEW l \in all, NEW j \in next.byLiteral[l] PROVE l \in Body(sorted[j])
    <3>1. CASE l = sorted[i][1]
      BY <1>1, <2>1, <2>2, <2>4, <2>5, <3>1
    <3>2. CASE l # sorted[i][1]
      BY <1>1, <2>4, <2>5, <3>2
    <3>. QED
      BY <3>1, <3>2
  <2>6. i \in Kept(sorted, next)
    BY <1>4, <2>4 DEF Kept
  <2>7. ASSUME NEW j \in next.skip PROVE \E k \in Kept(sorted, next) : Body(sorted[k]) \subseteq Body(sorted[j])
    <3>1. CASE j \in below
      BY <2>2, <2>6, <3>1
    <3>2. CASE j \in s.skip
      <4>1. PICK k \in Kept(sorted, s) : Body(sorted[k]) \subseteq Body(sorted[j])
        BY <1>1, <3>2
      <4>2. CASE k \in below
        BY <2>2, <2>6, <4>1, <4>2
      <4>3. CASE k \notin below
        BY <2>4, <4>1, <4>3 DEF Kept
      <4>. QED
        BY <4>2, <4>3
    <3>. QED
      BY <2>4, <2>7, <3>1, <3>2
  <2>. QED
    BY <1>1, <2>3, <2>4, <2>5, <2>7 DEF LoopInv, all
<1>. QED
  BY <1>2, <1>3, <1>4

\* It holds before the first turn.
LEMMA UnreadInv ==
  ASSUME NEW sorted \in Seq(Seq(Literals))
  PROVE  LoopInv(sorted, AllUnread(sorted))
<1>. DEFINE all == UNION {Body(sorted[i]) : i \in DOMAIN sorted}
            s == [byLiteral |-> [l \in all |-> {i \in DOMAIN sorted : l \in Body(sorted[i])}], skip |-> {}, stop |-> 0]
<1>1. AllUnread(sorted) = s
  BY DEF AllUnread
<1>2. /\ s \in [byLiteral : [all -> SUBSET DOMAIN sorted], skip : SUBSET DOMAIN sorted, stop : {0} \cup DOMAIN sorted]
      /\ \A l \in all : s.byLiteral[l] = {i \in DOMAIN sorted : l \in Body(sorted[i])}
      /\ s.skip = {} /\ s.stop = 0
  <2>. HIDE DEF all
  <2>. QED
    OBVIOUS
<1>. HIDE DEF s
<1>. QED
  BY <1>1, <1>2 DEF LoopInv

\* What is left of the axioms means what they all mean.
LEMMA UndominatedMeaning ==
  ASSUME NEW sorted \in Seq(Seq(Literals))
  PROVE  /\ Undominated(sorted) \in Seq(Seq(Literals))
         /\ \A state : Follows(Undominated(sorted), state) <=> Follows(sorted, state)
<1>. DEFINE N == Len(sorted)
            all == UNION {Body(sorted[i]) : i \in DOMAIN sorted}
            T == {s \in [byLiteral : [all -> SUBSET DOMAIN sorted], skip : SUBSET DOMAIN sorted, stop : {0} \cup DOMAIN sorted] :
                    LoopInv(sorted, s)}
            G == [k \in 1..N |-> [s \in T |-> Visited(s, k, sorted)]]
            Ok(f) == f = [k \in 0..N |-> IF k = 0 THEN AllUnread(sorted) ELSE Visited(f[k - 1], k, sorted)]
            after == CHOOSE f : Ok(f)
            end == after[N]
<1>1. N \in Nat /\ DOMAIN sorted = 1..N /\ \A i \in 1..N : sorted[i] \in Seq(Literals)
  BY ListFacts
<1>2. Undominated(sorted) = IF end.stop # 0 THEN <<sorted[end.stop]>> ELSE Picked(sorted, DOMAIN sorted \ end.skip)
  BY DEF Undominated
<1>3. \A s : s \in T <=> LoopInv(sorted, s)
  BY DEF LoopInv
<1>4. AllUnread(sorted) \in T /\ \A k \in 1..N : \A s \in T : G[k][s] = Visited(s, k, sorted) /\ G[k][s] \in T
  <2>. HIDE DEF T
  <2>. QED
    BY <1>1, <1>3, UnreadInv, VisitedInv
<1>5. \E f \in [0..N -> T] : Ok(f)
  <2>. HIDE DEF T, G, N
  <2>1. PICK f \in [0..N -> T] : Recurs(f, N, AllUnread(sorted), G)
    BY <1>1, <1>4, Recursion
  <2>2. \A k \in 0..N : k # 0 => f[k - 1] \in T /\ k \in 1..N
    BY <1>1, <2>1
  <2>3. Ok(f)
    BY <1>4, <2>1, <2>2 DEF Recurs
  <2>. QED
    BY <2>3
<1>6. Ok(after)
  <2>. HIDE DEF Ok
  <2>. QED
    BY <1>5, Zenon
<1>. HIDE DEF after
<1>. DEFINE S == {n \in Nat : n <= N => LoopInv(sorted, after[n])}
<1>7. 0 \in S
  <2>. HIDE DEF N
  <2>1. after[0] = AllUnread(sorted)
    BY <1>1, <1>6
  <2>. QED
    BY <2>1, UnreadInv
<1>8. ASSUME NEW n \in Nat, n \in S PROVE n + 1 \in S
  <2>. HIDE DEF N
  <2>. SUFFICES ASSUME n + 1 <= N PROVE LoopInv(sorted, after[n + 1])
    OBVIOUS
  <2>1. n + 1 \in 0..N /\ n + 1 \in DOMAIN sorted /\ n + 1 # 0 /\ (n + 1) - 1 = n /\ n <= N
    BY <1>1
  <2>2. after[n + 1] = Visited(after[n], n + 1, sorted)
    BY <1>6, <2>1
  <2>. QED
    BY <1>8, <2>1, <2>2, VisitedInv
<1>9. LoopInv(sorted, end)
  <2>1. Nat \subseteq S
    <3>. HIDE DEF S
    <3>. QED
      BY <1>7, <1>8, Induction
  <2>. HIDE DEF N
  <2>. QED
    BY <1>1, <2>1
<1>. HIDE DEF N, T, G, Ok, S, end
<1>10. CASE end.stop # 0
  <2>1. sorted[end.stop] = <<>> /\ end.stop \in DOMAIN sorted
    BY <1>9, <1>10 DEF LoopInv
  <2>2. Undominated(sorted) = << <<>> >> /\ <<>> \in Seq(Literals) /\ << <<>> >> \in Seq(Seq(Literals))
    BY <1>2, <1>10, <2>1
  <2>3. <<>> \in ToSet(sorted) /\ <<>> \in ToSet(<< <<>> >>) /\ Body(<<>>) = {}
    BY <2>1 DEF ToSet, Body
  <2>. QED
    BY <2>2, <2>3 DEF Follows, AllHold
<1>11. CASE end.stop = 0
  <2>. DEFINE P == DOMAIN sorted \ end.skip
  <2>1. Undominated(sorted) = Picked(sorted, P)
    BY <1>2, <1>11
  <2>2. Picked(sorted, P) \in Seq(Seq(Literals)) /\ ToSet(Picked(sorted, P)) = {sorted[i] : i \in P \cap DOMAIN sorted}
    BY PickedMeaning
  <2>3. ToSet(Undominated(sorted)) = {sorted[i] : i \in Kept(sorted, end)}
    BY <2>1, <2>2 DEF Kept
  <2>4. ToSet(sorted) = {sorted[i] : i \in DOMAIN sorted}
    BY DEF ToSet
  <2>5. \A j \in DOMAIN sorted : \E i \in Kept(sorted, end) : Body(sorted[i]) \subseteq Body(sorted[j])
    BY <1>9 DEF LoopInv, Kept
  <2>6. Kept(sorted, end) \subseteq DOMAIN sorted
    BY DEF Kept
  <2>7. ASSUME NEW state PROVE Follows(Undominated(sorted), state) <=> Follows(sorted, state)
    <3>. HIDE DEF P
    <3>1. ASSUME NEW j \in DOMAIN sorted, AllHold(Body(sorted[j]), state) PROVE Follows(Undominated(sorted), state)
      <4>1. PICK i \in Kept(sorted, end) : Body(sorted[i]) \subseteq Body(sorted[j])
        BY <2>5
      <4>2. AllHold(Body(sorted[i]), state)
        BY <3>1, <4>1 DEF AllHold
      <4>. QED
        BY <2>3, <4>2 DEF Follows
    <3>2. ASSUME NEW i \in Kept(sorted, end), AllHold(Body(sorted[i]), state) PROVE Follows(sorted, state)
      BY <2>4, <2>6, <3>2 DEF Follows
    <3>3. Follows(sorted, state) <=> \E j \in DOMAIN sorted : AllHold(Body(sorted[j]), state)
      BY <2>4 DEF Follows
    <3>4. Follows(Undominated(sorted), state) <=> \E i \in Kept(sorted, end) : AllHold(Body(sorted[i]), state)
      BY <2>3 DEF Follows
    <3>. QED
      BY <3>1, <3>2, <3>3, <3>4
  <2>. QED
    BY <2>1, <2>2, <2>7
<1>. QED
  BY <1>10, <1>11

\* Simplification keeps the meaning of a list of bodies.
LEMMA SimplifiedMeaning ==
  ASSUME NEW bodies \in Seq(Seq(Literals))
  PROVE  /\ Simplified(bodies) \in Seq(Seq(Literals))
         /\ \A state : Follows(Simplified(bodies), state) <=> Follows(bodies, state)
<1>. DEFINE sorted == [i \in DOMAIN bodies |-> WithoutRepeats(Sorted(bodies[i]))]
<1>1. \A i \in DOMAIN bodies : bodies[i] \in Seq(Literals)
  BY ListFacts
<1>2. \A i \in DOMAIN bodies :
        /\ WithoutRepeats(Sorted(bodies[i])) \in Seq(Literals)
        /\ Body(WithoutRepeats(Sorted(bodies[i]))) = Body(bodies[i])
  BY <1>1, SortedMeaning, RepeatsMeaning
<1>3. DOMAIN bodies = 1..Len(bodies) /\ Len(bodies) \in Nat
  BY ListFacts
<1>4. sorted \in Seq(Seq(Literals)) /\ DOMAIN sorted = DOMAIN bodies
  BY <1>2, <1>3
<1>5. \A i \in DOMAIN bodies : Body(sorted[i]) = Body(bodies[i])
  BY <1>2
<1>6. Simplified(bodies) = Undominated(sorted)
  BY DEF Simplified
<1>. HIDE DEF sorted
<1>7. ToSet(sorted) = {sorted[i] : i \in DOMAIN bodies} /\ ToSet(bodies) = {bodies[i] : i \in DOMAIN bodies}
  BY <1>4 DEF ToSet
<1>8. \A state : Follows(sorted, state) <=> Follows(bodies, state)
  BY <1>5, <1>7 DEF Follows
<1>. QED
  BY <1>4, <1>6, <1>8, UndominatedMeaning

-----------------------------------------------------------------------------
(* negate.                                                                 *)

\* A negated literal is one, and holds where the literal does not.
LEMMA NegateMeaning ==
  ASSUME NEW l \in Literals
  PROVE  /\ Negate(l) \in Literals /\ Negate(l).atom = l.atom
         /\ \A state : Holds(Negate(l), state) <=> ~ Holds(l, state)
<1>. DEFINE n == [l EXCEPT !.negated = ~@]
<1>1. l.negated \in BOOLEAN
  BY DEF Literals
<1>2. n \in Literals /\ n.atom = l.atom /\ (n.negated <=> ~ l.negated)
  BY <1>1 DEF Literals
<1>3. Negate(l) = n
  BY DEF Negate
<1>. HIDE DEF n
<1>4. n.negated \in BOOLEAN
  BY <1>2 DEF Literals
<1>5. ASSUME NEW state PROVE Holds(n, state) <=> ~ Holds(l, state)
  BY <1>1, <1>2, <1>4 DEF Holds
<1>. QED
  BY <1>2, <1>3, <1>5

\* One more body is multiplied in.
LEMMA TimesMeaning ==
  ASSUME NEW R \in Seq(Seq(Literals)), NEW c \in Seq(Literals)
  PROVE  /\ Times(R, c) \in Seq(Seq(Literals))
         /\ \A state : Follows(Times(R, c), state) <=> Follows(R, state) /\ ~ AllHold(Body(c), state)
<1>. DEFINE longer(k) == [i \in DOMAIN R |-> Append(R[i], Negate(c[k]))]
            L == [k \in DOMAIN c |-> longer(k)]
<1>1. /\ DOMAIN R = 1..Len(R) /\ Len(R) \in Nat /\ \A i \in DOMAIN R : R[i] \in Seq(Literals)
      /\ DOMAIN c = 1..Len(c) /\ Len(c) \in Nat /\ \A k \in DOMAIN c : c[k] \in Literals
  BY ListFacts
<1>2. \A k \in DOMAIN c : Negate(c[k]) \in Literals /\ \A state : Holds(Negate(c[k]), state) <=> ~ Holds(c[k], state)
  BY <1>1, NegateMeaning
<1>3. \A k \in DOMAIN c : \A i \in DOMAIN R :
        /\ Append(R[i], Negate(c[k])) \in Seq(Literals)
        /\ Body(Append(R[i], Negate(c[k]))) = Body(R[i]) \cup {Negate(c[k])}
  BY <1>1, <1>2, AppendSet DEF Body
<1>4. \A k \in DOMAIN c : longer(k) \in Seq(Seq(Literals)) /\ ToSet(longer(k)) = {Append(R[i], Negate(c[k])) : i \in DOMAIN R}
  <2>. SUFFICES ASSUME NEW k \in DOMAIN c
                PROVE  longer(k) \in Seq(Seq(Literals)) /\ ToSet(longer(k)) = {Append(R[i], Negate(c[k])) : i \in DOMAIN R}
    OBVIOUS
  <2>1. longer(k) \in [1..Len(R) -> Seq(Literals)]
    BY <1>1, <1>3
  <2>2. longer(k) \in Seq(Seq(Literals)) /\ ToSet(longer(k)) = {longer(k)[i] : i \in 1..Len(R)}
    <3>. DEFINE bodies == Seq(Literals)
                f == longer(k)
                n == Len(R)
    <3>1. f \in [1..n -> bodies] /\ n \in Nat
      BY <1>1, <2>1
    <3>. HIDE DEF f, bodies, n
    <3>2. f \in Seq(bodies) /\ ToSet(f) = {f[i] : i \in 1..n}
      BY <3>1, FunctionIsList
    <3>. QED
      BY <3>2, Zenon DEF f, bodies, n
  <2>. QED
    BY <1>1, <2>2
<1>5. L \in Seq(Seq(Seq(Literals))) /\ DOMAIN L = DOMAIN c /\ \A k \in DOMAIN c : L[k] = longer(k)
  <2>. HIDE DEF longer
  <2>. QED
    BY <1>1, <1>4
<1>6. Times(R, c) = Joined(L)
  BY DEF Times
<1>. HIDE DEF longer, L
<1>7. Times(R, c) \in Seq(Seq(Literals)) /\ ToSet(Times(R, c)) = UNION {ToSet(L[k]) : k \in DOMAIN c}
  BY <1>5, <1>6, JoinedMeaning
<1>8. \A x : x \in ToSet(Times(R, c)) <=> \E i \in DOMAIN R, k \in DOMAIN c : x = Append(R[i], Negate(c[k]))
  <2>1. ASSUME NEW k \in DOMAIN c, NEW x
        PROVE  x \in ToSet(L[k]) <=> \E i \in DOMAIN R : x = Append(R[i], Negate(c[k]))
    <3>1. ToSet(L[k]) = {Append(R[i], Negate(c[k])) : i \in DOMAIN R}
      BY <1>4, <1>5
    <3>. QED
      BY <3>1, Zenon
  <2>2. \A x : x \in ToSet(Times(R, c)) <=> \E k \in DOMAIN c : x \in ToSet(L[k])
    BY <1>7
  <2>3. ASSUME NEW x, x \in ToSet(Times(R, c))
        PROVE  \E i \in DOMAIN R, k \in DOMAIN c : x = Append(R[i], Negate(c[k]))
    <3>1. PICK k \in DOMAIN c : x \in ToSet(L[k])
      BY <2>2, <2>3
    <3>2. PICK i \in DOMAIN R : x = Append(R[i], Negate(c[k]))
      BY <2>1, <3>1
    <3>. QED
      BY <3>2
  <2>4. ASSUME NEW i \in DOMAIN R, NEW k \in DOMAIN c
        PROVE  Append(R[i], Negate(c[k])) \in ToSet(Times(R, c))
    <3>. DEFINE x == Append(R[i], Negate(c[k]))
    <3>1. x \in ToSet(L[k])
      BY <2>1
    <3>. HIDE DEF x
    <3>2. x \in ToSet(Times(R, c))
      BY <2>2, <3>1
    <3>. QED
      BY <3>2 DEF x
  <2>. QED
    BY <2>3, <2>4
<1>9. ASSUME NEW state PROVE Follows(Times(R, c), state) <=> Follows(R, state) /\ ~ AllHold(Body(c), state)
  <2>1. \A k \in DOMAIN c : \A i \in DOMAIN R :
          AllHold(Body(Append(R[i], Negate(c[k]))), state) <=> AllHold(Body(R[i]), state) /\ ~ Holds(c[k], state)
    BY <1>2, <1>3 DEF AllHold
  <2>2. Follows(Times(R, c), state)
          <=> \E i \in DOMAIN R, k \in DOMAIN c : AllHold(Body(Append(R[i], Negate(c[k]))), state)
    BY <1>8 DEF Follows
  <2>3. Follows(R, state) <=> \E i \in DOMAIN R : AllHold(Body(R[i]), state)
    BY DEF Follows, ToSet
  <2>4. ~ AllHold(Body(c), state) <=> \E k \in DOMAIN c : ~ Holds(c[k], state)
    BY DEF AllHold, Body, ToSet
  <2>. QED
    BY <2>1, <2>2, <2>3, <2>4
<1>. QED
  BY <1>7, <1>9

\* The axioms for a negated literal apply exactly where those of the atom do not.
LEMMA NegatedMeaning ==
  ASSUME NEW bodies \in Seq(Seq(Literals))
  PROVE  \A state : Follows(Negated(bodies), state) <=> ~ Follows(bodies, state)
<1>. DEFINE N == Len(bodies)
            T == Seq(Seq(Literals))
            G == [k \in 1..N |-> [x \in T |-> Times(x, bodies[k])]]
            Ok(f) == f = [k \in 0..N |-> IF k = 0 THEN << <<>> >> ELSE Times(f[k - 1], bodies[k])]
            upTo == CHOOSE f : Ok(f)
<1>1. N \in Nat /\ DOMAIN bodies = 1..N /\ \A i \in 1..N : bodies[i] \in Seq(Literals)
  BY ListFacts
<1>2. Negated(bodies) = Simplified(upTo[N])
  BY DEF Negated
<1>3. \A k \in 1..N : \A x \in T : G[k][x] = Times(x, bodies[k]) /\ G[k][x] \in T
  BY <1>1, TimesMeaning
<1>4. << <<>> >> \in T
  OBVIOUS
<1>5. \E f \in [0..N -> T] : Ok(f)
  <2>. HIDE DEF T, G, N
  <2>1. PICK f \in [0..N -> T] : Recurs(f, N, << <<>> >>, G)
    BY <1>1, <1>3, <1>4, Recursion
  <2>2. \A k \in 0..N : k # 0 => f[k - 1] \in T /\ k \in 1..N
    BY <1>1, <2>1
  <2>3. Ok(f)
    BY <1>3, <2>1, <2>2 DEF Recurs
  <2>. QED
    BY <2>3
<1>6. Ok(upTo)
  <2>. HIDE DEF Ok
  <2>. QED
    BY <1>5, Zenon
<1>. HIDE DEF upTo
<1>. DEFINE Right(n) == /\ upTo[n] \in T
                        /\ \A state : Follows(upTo[n], state) <=> \A i \in 1..n : ~ AllHold(Body(bodies[i]), state)
            S == {n \in Nat : n <= N => Right(n)}
<1>7. 0 \in S
  <2>1. upTo[0] = << <<>> >> /\ 1..0 = {}
    BY <1>1, <1>6
  <2>2. ToSet(<< <<>> >>) = {<<>>} /\ Body(<<>>) = {}
    BY DEF ToSet, Body
  <2>3. \A state : Follows(<< <<>> >>, state)
    BY <2>2 DEF Follows, AllHold
  <2>. QED
    BY <1>4, <2>1, <2>3
<1>8. ASSUME NEW n \in Nat, n \in S PROVE n + 1 \in S
  <2>. HIDE DEF N, T
  <2>. SUFFICES ASSUME n + 1 <= N PROVE Right(n + 1)
    OBVIOUS
  <2>1. n + 1 \in 0..N /\ n + 1 \in 1..N /\ n + 1 # 0 /\ (n + 1) - 1 = n /\ n <= N
    BY <1>1
  <2>2. Right(n)
    BY <1>8, <2>1
  <2>3. upTo[n + 1] = Times(upTo[n], bodies[n + 1])
    BY <1>6, <2>1
  <2>4. /\ Times(upTo[n], bodies[n + 1]) \in T
        /\ \A state : Follows(Times(upTo[n], bodies[n + 1]), state)
                        <=> Follows(upTo[n], state) /\ ~ AllHold(Body(bodies[n + 1]), state)
    BY <1>1, <2>1, <2>2, TimesMeaning DEF T
  <2>5. 1..n + 1 = (1..n) \cup {n + 1}
    OBVIOUS
  <2>. QED
    BY <2>2, <2>3, <2>4, <2>5
<1>9. Right(N)
  <2>1. Nat \subseteq S
    <3>. HIDE DEF S
    <3>. QED
      BY <1>7, <1>8, Induction
  <2>. HIDE DEF N, Right
  <2>. QED
    BY <1>1, <2>1
<1>10. \A state : Follows(bodies, state) <=> \E i \in 1..N : AllHold(Body(bodies[i]), state)
  BY <1>1 DEF Follows, ToSet
<1>. HIDE DEF N
<1>. QED
  BY <1>2, <1>9, <1>10, SimplifiedMeaning

-----------------------------------------------------------------------------
(* handle_axioms.                                                          *)

DerivedOnes == {l \in Literals : l.atom \in Derived}

\* The rules mean what the program means, and the axioms of a literal that has been
\* handled are those that its rules or their negation give.
AxInv ==
  /\ program \in Programs /\ uses \in Uses
  /\ rules \in [Derived -> Seq(Seq(Literals))]
  /\ \A a \in Derived : \A state : Follows(rules[a], state) <=> Follows(program[a], state)
  /\ needed \subseteq DerivedOnes /\ queue \subseteq needed
  /\ phase \in {"collect", "simplify"} => axioms = {}
  /\ phase = "simplify" => todo \subseteq Derived
  /\ phase = "negate" => todo \subseteq needed /\ \A x \in axioms : x.head \notin todo
  /\ \A l \in Handled : {x \in axioms : x.head = l} = AxiomsFor(l)

\* What is registered are literals over derived atoms.
LEMMA RegisteredOnes ==
  ASSUME NEW C \in SUBSET Literals, NEW negated
  PROVE  Registered(C, negated) \subseteq DerivedOnes
<1>1. \A l \in DerivedLiterals(C) : l \in DerivedOnes /\ Negate(l) \in DerivedOnes
  BY NegateMeaning DEF DerivedLiterals, DerivedOnes
<1>. QED
  BY <1>1 DEF Registered

\* A program gives every derived atom its bodies.
LEMMA ProgramFacts ==
  ASSUME NEW p \in Programs
  PROVE  p \in [DOMAIN p -> Seq(Seq(Literals))]
BY ProgramsAssumption

\* The invariant holds at first.
LEMMA AxInitInv == AxInit => AxInv
<1>. SUFFICES ASSUME AxInit PROVE AxInv
  OBVIOUS
<1>1. /\ program \in Programs /\ uses \in Uses /\ phase = "collect" /\ rules = program /\ axioms = {} /\ queue = needed
      /\ needed = Registered(uses.conditions, FALSE) \cup Registered(uses.deletes, TRUE)
  BY DEF AxInit
<1>2. uses.conditions \in SUBSET Literals /\ uses.deletes \in SUBSET Literals
  BY <1>1, UsesAssumption
<1>3. needed \subseteq DerivedOnes
  BY <1>1, <1>2, RegisteredOnes
<1>4. rules \in [Derived -> Seq(Seq(Literals))]
  BY <1>1, ProgramFacts DEF Derived
<1>. QED
  BY <1>1, <1>3, <1>4 DEF AxInv, Handled

\* Looking for the literals that are needed finds derived ones.
LEMMA CollectInv ==
  ASSUME AxInv, NEW l \in queue, Collect(l)
  PROVE  AxInv'
<1>. DEFINE read == UNION {Registered(Body(c), l.negated) : c \in ToSet(rules[l.atom])}
<1>1. /\ needed' = needed \cup read /\ queue' = (queue \ {l}) \cup (read \ needed) /\ phase = "collect"
      /\ UNCHANGED <<program, uses, phase, rules, axioms>>
  BY DEF Collect
<1>2. l.atom \in Derived
  BY DEF AxInv, DerivedOnes
<1>3. rules[l.atom] \in Seq(Seq(Literals))
  BY <1>2 DEF AxInv
<1>4. ASSUME NEW c \in ToSet(rules[l.atom]) PROVE Body(c) \in SUBSET Literals
  <2>1. c \in Seq(Literals)
    BY <1>3, ListFacts
  <2>. QED
    BY <2>1, ListFacts DEF Body
<1>5. read \subseteq DerivedOnes
  BY <1>4, RegisteredOnes
<1>. HIDE DEF read
<1>6. DerivedOnes' = DerivedOnes /\ Derived' = Derived
  BY <1>1 DEF DerivedOnes, Derived
<1>. QED
  BY <1>1, <1>5, <1>6 DEF AxInv, Handled

\* ... and when all are found, their atoms are derived.
LEMMA CollectEndInv ==
  ASSUME AxInv, CollectEnd
  PROVE  AxInv'
<1>1. phase = "collect" /\ phase' = "simplify" /\ todo' = {l.atom : l \in needed}
      /\ UNCHANGED <<program, uses, rules, needed, queue, axioms>>
  BY DEF CollectEnd
<1>2. DerivedOnes' = DerivedOnes /\ Derived' = Derived
  BY <1>1 DEF DerivedOnes, Derived
<1>3. todo' \subseteq Derived
  BY <1>1 DEF AxInv, DerivedOnes
<1>. QED
  BY <1>1, <1>2, <1>3 DEF AxInv, Handled

\* Simplification keeps what the rules mean.
LEMMA SimplifyInv ==
  ASSUME AxInv, NEW a \in todo, Simplify(a)
  PROVE  AxInv'
<1>1. phase = "simplify" /\ rules' = [rules EXCEPT ![a] = Simplified(@)] /\ todo' = todo \ {a}
      /\ UNCHANGED <<program, uses, phase, needed, queue, axioms>>
  BY DEF Simplify
<1>2. DerivedOnes' = DerivedOnes /\ Derived' = Derived
  BY <1>1 DEF DerivedOnes, Derived
<1>3. a \in Derived /\ rules \in [Derived -> Seq(Seq(Literals))]
  BY <1>1 DEF AxInv
<1>4. Simplified(rules[a]) \in Seq(Seq(Literals)) /\ \A state : Follows(Simplified(rules[a]), state) <=> Follows(rules[a], state)
  BY <1>3, SimplifiedMeaning
<1>5. rules' \in [Derived -> Seq(Seq(Literals))] /\ rules'[a] = Simplified(rules[a])
      /\ \A b \in Derived : b # a => rules'[b] = rules[b]
  BY <1>1, <1>3, <1>4
<1>6. ASSUME NEW b \in Derived, NEW state PROVE Follows(rules'[b], state) <=> Follows(program[b], state)
  <2>1. Follows(rules[b], state) <=> Follows(program[b], state)
    BY DEF AxInv
  <2>. QED
    BY <1>4, <1>5, <2>1
<1>7. \A b \in Derived' : \A state : Follows(rules[b], state)' <=> Follows(program[b], state)'
  BY <1>1, <1>2, <1>6 DEF Follows
<1>. QED
  BY <1>1, <1>2, <1>5, <1>7 DEF AxInv, Handled

\* ... and no literal is handled when the negation starts.
LEMMA SimplifyEndInv ==
  ASSUME AxInv, SimplifyEnd
  PROVE  AxInv'
<1>1. phase = "simplify" /\ phase' = "negate" /\ todo' = needed
      /\ UNCHANGED <<program, uses, rules, needed, queue, axioms>>
  BY DEF SimplifyEnd
<1>2. DerivedOnes' = DerivedOnes /\ Derived' = Derived
  BY <1>1 DEF DerivedOnes, Derived
<1>. QED
  BY <1>1, <1>2 DEF AxInv, Handled

\* The axioms of one more literal are those of its rules or of their negation.
LEMMA AddAxiomsInv ==
  ASSUME AxInv, NEW l \in todo, AddAxioms(l)
  PROVE  AxInv'
<1>1. phase = "negate" /\ axioms' = axioms \cup AxiomsFor(l) /\ todo' = todo \ {l}
      /\ UNCHANGED <<program, uses, phase, rules, needed, queue>>
  BY DEF AddAxioms
<1>2. DerivedOnes' = DerivedOnes /\ Derived' = Derived /\ \A m : AxiomsFor(m)' = AxiomsFor(m)
  BY <1>1 DEF DerivedOnes, Derived, AxiomsFor
<1>3. \A x \in AxiomsFor(l) : x.head = l
  BY DEF AxiomsFor
<1>4. \A x \in axioms : x.head \notin todo
  BY <1>1 DEF AxInv
<1>5. ASSUME NEW m \in Handled' PROVE {x \in axioms' : x.head = m} = AxiomsFor(m)
  <2>1. CASE m = l
    BY <1>1, <1>3, <1>4, <2>1
  <2>2. CASE m # l
    <3>1. m \in Handled
      BY <1>1, <1>5, <2>2 DEF Handled
    <3>. QED
      BY <1>1, <1>3, <2>2, <3>1 DEF AxInv
  <2>. QED
    BY <2>1, <2>2
<1>6. \A x \in axioms' : x.head \notin todo'
  BY <1>1, <1>3, <1>4
<1>. QED
  BY <1>1, <1>2, <1>5, <1>6 DEF AxInv

\* The rest does not touch rules or axioms.
LEMMA LaterInv ==
  ASSUME AxInv, UNCHANGED <<program, uses, rules, needed, queue, axioms>>,
         \/ UNCHANGED <<phase, todo>>
         \/ phase' = "failed"
         \/ phase = "negate" /\ todo = {} /\ phase' = "layers"
         \/ phase = "layers" /\ phase' \in {"layers", "done"}
  PROVE  AxInv'
<1>1. DerivedOnes' = DerivedOnes /\ Derived' = Derived /\ \A m : AxiomsFor(m)' = AxiomsFor(m)
  BY DEF DerivedOnes, Derived, AxiomsFor
<1>2. Handled' \subseteq Handled
  BY DEF Handled
<1>. QED
  BY <1>1, <1>2 DEF AxInv

\* So the invariant is inductive.
LEMMA AxInductive == AxInv /\ [AxNext]_axVars => AxInv'
<1>. SUFFICES ASSUME AxInv, [AxNext]_axVars PROVE AxInv'
  OBVIOUS
<1>1. ASSUME NEW l \in queue, Collect(l) PROVE AxInv'
  BY <1>1, CollectInv
<1>2. CASE CollectEnd
  BY <1>2, CollectEndInv
<1>3. ASSUME NEW a \in todo, Simplify(a) PROVE AxInv'
  BY <1>3, SimplifyInv
<1>4. CASE SimplifyEnd
  BY <1>4, SimplifyEndInv
<1>5. ASSUME NEW l \in todo, AddAxioms(l) PROVE AxInv'
  BY <1>5, AddAxiomsInv
<1>6. ASSUME NEW l \in todo, NegationFails(l) PROVE AxInv'
  BY <1>6, LaterInv DEF NegationFails
<1>7. CASE NegateEnd
  BY <1>7, LaterInv DEF NegateEnd
<1>8. ASSUME NEW a \in todo, FindRoot(a) PROVE AxInv'
  BY <1>8, LaterInv DEF FindRoot
<1>9. ASSUME NEW d, FindLevel(d) PROVE AxInv'
  BY <1>9, LaterInv DEF FindLevel
<1>10. CASE ReturnLevel
  BY <1>10, LaterInv DEF ReturnLevel
<1>11. CASE LayersEnd
  BY <1>11, LaterInv DEF LayersEnd
<1>12. CASE Ended \/ UNCHANGED axVars
  BY <1>12, LaterInv DEF Ended, axVars
<1>. QED
  BY <1>1, <1>2, <1>3, <1>4, <1>5, <1>6, <1>7, <1>8, <1>9, <1>10, <1>11, <1>12 DEF AxNext

\* It says what is promised.
LEMMA InvGivesMeaning == AxInv => AxiomsKeepMeaning
<1>. SUFFICES ASSUME AxInv, NEW state \in SUBSET ToSet(SortedAtoms), NEW l \in Handled
              PROVE  (\E x \in axioms : x.head = l /\ AllHold(x.body, state)) <=> (Follows(program[l.atom], state) <=> ~ l.negated)
  BY DEF AxiomsKeepMeaning, AxInv
<1>1. l \in Literals /\ l.atom \in Derived /\ l.negated \in BOOLEAN
  BY DEF AxInv, Handled, DerivedOnes, Literals
<1>2. rules[l.atom] \in Seq(Seq(Literals)) /\ (Follows(rules[l.atom], state) <=> Follows(program[l.atom], state))
  BY <1>1 DEF AxInv
<1>. DEFINE bodies == IF l.negated THEN Negated(rules[l.atom]) ELSE rules[l.atom]
<1>3. Follows(bodies, state) <=> (Follows(rules[l.atom], state) <=> ~ l.negated)
  BY <1>1, <1>2, NegatedMeaning
<1>4. {x \in axioms : x.head = l} = {[head |-> l, body |-> Body(c)] : c \in ToSet(bodies)}
  BY DEF AxInv, AxiomsFor
<1>. HIDE DEF bodies
<1>5. (\E x \in axioms : x.head = l /\ AllHold(x.body, state)) <=> \E c \in ToSet(bodies) : AllHold(Body(c), state)
  <2>1. ASSUME NEW x \in axioms, x.head = l, AllHold(x.body, state) PROVE \E c \in ToSet(bodies) : AllHold(Body(c), state)
    BY <1>4, <2>1
  <2>2. ASSUME NEW c \in ToSet(bodies), AllHold(Body(c), state) PROVE \E x \in axioms : x.head = l /\ AllHold(x.body, state)
    <3>. DEFINE x == [head |-> l, body |-> Body(c)]
    <3>1. x \in {y \in axioms : y.head = l} /\ x.head = l /\ x.body = Body(c)
      BY <1>4
    <3>. QED
      BY <2>2, <3>1
  <2>. QED
    BY <2>1, <2>2
<1>. QED
  BY <1>2, <1>3, <1>5 DEF Follows

\* Simplification and negation keep what the axioms of the task mean, for every
\* task and every order of the loops over sets.
THEOREM AxiomsAlwaysKeepMeaning == AxSpec => []AxiomsKeepMeaning
<1>. QED
  BY AxInitInv, AxInductive, InvGivesMeaning, PTL DEF AxSpec
=============================================================================
