-------------------------- MODULE FactGroupsProofs --------------------------
(***************************************************************************)
(* Proofs about choose_groups: whatever groups invariant synthesis finds,   *)
(* every reachable atom gets its variable, with the partial encoding only   *)
(* one, and every variable is part of a mutex group.                        *)
(***************************************************************************)
EXTENDS FactGroups, FiniteSetTheorems, WellFoundedInduction, TLAPS

-----------------------------------------------------------------------------
(* Numbers and lists.                                                      *)

\* A set of naturals has a least element.
LEMMA LeastNumber ==
  ASSUME NEW T \in SUBSET Nat, T # {}
  PROVE  \E m \in T : \A k \in T : m <= k
<1>. DEFINE R == OpToRel(<, Nat)
<1>1. PICK m \in T : \A k \in T : <<k, m>> \notin R
  BY NatLessThanWellFounded, WFMin, Zenon
<1>2. ASSUME NEW k \in T, k < m PROVE FALSE
  <2>1. <<k, m>> \in Nat \X Nat /\ <<k, m>>[1] < <<k, m>>[2]
    BY <1>2
  <2>. QED
    BY <2>1, <1>1 DEF OpToRel
<1>. QED
  BY <1>2

\* Induction: a set with 0 and the successors of its elements has every number.
LEMMA Induction ==
  ASSUME NEW S, 0 \in S, \A n \in Nat : n \in S => n + 1 \in S
  PROVE  Nat \subseteq S
<1>. SUFFICES ASSUME Nat \ S # {} PROVE FALSE
  OBVIOUS
<1>1. PICK n \in Nat \ S : \A k \in Nat \ S : n <= k
  BY LeastNumber
<1>2. n # 0 /\ n - 1 \in Nat /\ n - 1 \in S /\ (n - 1) + 1 = n
  BY <1>1
<1>. QED
  BY <1>1, <1>2

\* A bounded set of sizes has a largest.
LEMMA LargestNumber ==
  ASSUME NEW S \in SUBSET Nat, S # {}, NEW b \in Nat, \A n \in S : n <= b
  PROVE  Largest(S) \in S /\ \A n \in S : n <= Largest(S)
<1>. DEFINE T == {b - n : n \in S}
<1>1. ASSUME NEW n \in S PROVE n \in Nat /\ b - n \in Nat /\ b - n \in T
  OBVIOUS
<1>2. T \in SUBSET Nat /\ T # {}
  BY <1>1
<1>3. PICK m \in T : \A k \in T : m <= k
  <2>. HIDE DEF T
  <2>. QED
    BY <1>2, LeastNumber
<1>4. PICK n \in S : m = b - n
  BY <1>3
<1>5. ASSUME NEW k \in S PROVE k <= n
  <2>1. b - n <= b - k
    BY <1>1, <1>3, <1>4
  <2>. QED
    BY <1>1, <2>1
<1>. QED
  BY <1>4, <1>5 DEF Largest

\* What a list is made of.
LEMMA ListFacts ==
  ASSUME NEW T, NEW c \in Seq(T)
  PROVE  /\ Len(c) \in Nat /\ DOMAIN c = 1..Len(c) /\ \A i \in DOMAIN c : c[i] \in T
         /\ ToSet(c) = {c[i] : i \in DOMAIN c} /\ ToSet(c) \subseteq T
  BY DEF ToSet

\* The last element of a list, and the others.
LEMMA LastAndFront ==
  ASSUME NEW T, NEW c \in Seq(T), c # <<>>
  PROVE  Last(c) \in T /\ Front(c) \in Seq(T)
<1>1. Len(c) \in Nat /\ Len(c) # 0 /\ DOMAIN c = 1..Len(c)
  OBVIOUS
<1>2. Last(c) \in T
  BY <1>1 DEF Last
<1>3. Len(c) - 1 \in Nat /\ \A i \in 1..Len(c) - 1 : c[i] \in T
  BY <1>1
<1>4. Front(c) = [i \in 1..Len(c) - 1 |-> c[i]]
  BY <1>1, <1>3 DEF Front
<1>5. Front(c) \in Seq(T)
  BY <1>3, <1>4
<1>. QED
  BY <1>2, <1>5

\* A list that is one element longer.
LEMMA AppendFacts ==
  ASSUME NEW T, NEW c \in Seq(T), NEW e \in T
  PROVE  /\ Append(c, e) \in Seq(T)
         /\ DOMAIN Append(c, e) = 1..Len(c) + 1
         /\ Append(c, e)[Len(c) + 1] = e
         /\ \A i \in 1..Len(c) : Append(c, e)[i] = c[i]
OBVIOUS

\* Two lists, one after the other.
LEMMA ConcatFacts ==
  ASSUME NEW T, NEW c \in Seq(T), NEW d \in Seq(T)
  PROVE  /\ c \o d \in Seq(T)
         /\ DOMAIN (c \o d) = 1..Len(c) + Len(d)
         /\ \A i \in 1..Len(c) : (c \o d)[i] = c[i]
         /\ \A i \in 1..Len(d) : (c \o d)[Len(c) + i] = d[i]
OBVIOUS

\* A finite set as a list, in which nothing occurs twice.
LEMMA ListOfSet ==
  ASSUME NEW S, IsFiniteSet(S)
  PROVE  /\ SetToSeq(S) \in Seq(S) /\ ToSet(SetToSeq(S)) = S
         /\ \A i, k \in DOMAIN SetToSeq(S) : SetToSeq(S)[i] = SetToSeq(S)[k] => i = k
<1>. DEFINE n == Cardinality(S)
            f == SetToSeq(S)
<1>1. n \in Nat /\ Bijection(1..n, S) # {}
  BY FS_CardinalityType DEF ExistsBijection
<1>2. \E g \in [1..n -> S] : IsInjective(g)
  BY <1>1 DEF Bijection, Injection
<1>3. f \in [1..n -> S] /\ IsInjective(f)
  BY <1>2 DEF SetToSeq
<1>4. f \in Injection(1..n, S) /\ Cardinality(1..n) = n
  BY <1>1, <1>3, FS_Interval DEF Injection
<1>5. f \in Surjection(1..n, S)
  BY <1>4, FS_Injection
<1>6. f \in Seq(S)
  BY <1>1, <1>3
<1>. HIDE DEF f
<1>7. DOMAIN f = 1..n /\ \A x \in S : \E i \in 1..n : f[i] = x
  BY <1>3, <1>5 DEF Surjection
<1>8. ToSet(f) = S
  BY <1>3, <1>7 DEF ToSet
<1>9. \A i, k \in DOMAIN f : f[i] = f[k] => i = k
  BY <1>3 DEF IsInjective
<1>. QED
  BY <1>6, <1>8, <1>9 DEF f

\* The image of a finite set is finite.
LEMMA ImageIsFinite ==
  ASSUME NEW f, IsFiniteSet(DOMAIN f)
  PROVE  IsFiniteSet({f[x] : x \in DOMAIN f})
<1>. DEFINE T == {f[x] : x \in DOMAIN f}
            g == [x \in DOMAIN f |-> f[x]]
<1>1. g \in Surjection(DOMAIN f, T)
  BY DEF Surjection
<1>. QED
  BY <1>1, FS_Surjection

-----------------------------------------------------------------------------
(* The queue.                                                              *)

\* One group is looked at.
Filing(sizes, n, x, k) == IF sizes[k] = n THEN Append(x, k) ELSE x

\* Numbers of groups stay numbers of groups.
LEMMA FilingType ==
  ASSUME NEW sizes, NEW T, NEW n, NEW x \in Seq(T), NEW k \in T
  PROVE  Filing(sizes, n, x, k) \in Seq(T)
<1>1. Append(x, k) \in Seq(T)
  BY AppendFacts
<1>. QED
  BY <1>1 DEF Filing

\* What Filed collects, up to the m-th group.
Files(sizes, n, f, m) == f = [k \in 0..m |-> IF k = 0 THEN <<>> ELSE Filing(sizes, n, f[k - 1], k)]

\* It can be collected, group by group.
LEMMA FilesExist ==
  ASSUME NEW sizes, Len(sizes) \in Nat, NEW n
  PROVE  \E f \in [0..Len(sizes) -> Seq(1..Len(sizes))] : Files(sizes, n, f, Len(sizes))
<1>. DEFINE N == Len(sizes)
            T == Seq(1..N)
            S == {m \in Nat : m <= N => \E f \in [0..m -> T] : Files(sizes, n, f, m)}
<1>1. N \in Nat /\ <<>> \in T
  OBVIOUS
<1>2. ASSUME NEW x \in T, NEW k \in 1..N PROVE Filing(sizes, n, x, k) \in T
  BY FilingType
<1>. HIDE DEF T, N
<1>3. 0 \in S
  <2>. DEFINE f == [k \in 0..0 |-> <<>>]
  <2>1. f = [k \in 0..0 |-> IF k = 0 THEN <<>> ELSE Filing(sizes, n, f[k - 1], k)]
    OBVIOUS
  <2>2. f \in [0..0 -> T] /\ Files(sizes, n, f, 0)
    BY <1>1, <2>1 DEF Files
  <2>. QED
    BY <2>2
<1>4. ASSUME NEW m \in Nat, m \in S PROVE m + 1 \in S
  <2>. SUFFICES ASSUME m + 1 <= N PROVE \E f \in [0..m + 1 -> T] : Files(sizes, n, f, m + 1)
    OBVIOUS
  <2>0. m + 1 \in 1..N /\ m <= N
    BY <1>1
  <2>1. PICK f \in [0..m -> T] : Files(sizes, n, f, m)
    BY <1>4, <2>0
  <2>. DEFINE last == Filing(sizes, n, f[m], m + 1)
              g == [k \in 0..m + 1 |-> IF k = m + 1 THEN last ELSE f[k]]
              h(k) == IF k = 0 THEN <<>> ELSE Filing(sizes, n, g[k - 1], k)
  <2>. HIDE DEF S
  <2>2. ASSUME NEW k \in 0..m + 1 PROVE g[k] = h(k)
    <3>1. CASE k = m + 1
      <4>1. k - 1 = m /\ g[k - 1] = f[m] /\ g[k] = last /\ k # 0
        BY <3>1
      <4>. HIDE DEF g
      <4>. QED
        BY <3>1, <4>1
    <3>2. CASE k # m + 1
      <4>1. k \in 0..m /\ g[k] = f[k] /\ (k # 0 => k - 1 \in 0..m /\ g[k - 1] = f[k - 1])
        BY <3>2
      <4>2. f[k] = IF k = 0 THEN <<>> ELSE Filing(sizes, n, f[k - 1], k)
        BY <2>1, <4>1 DEF Files
      <4>. HIDE DEF g
      <4>. QED
        BY <4>1, <4>2
    <3>. QED
      BY <3>1, <3>2
  <2>3. g = [k \in 0..m + 1 |-> g[k]]
    OBVIOUS
  <2>4. g = [k \in 0..m + 1 |-> h(k)]
    <3>. HIDE DEF g, h
    <3>. QED
      BY <2>2, <2>3
  <2>5. Files(sizes, n, g, m + 1)
    BY <2>4 DEF Files
  <2>6. g \in [0..m + 1 -> T]
    <3>1. last \in T
      BY <1>2, <2>0, <2>1
    <3>2. \A k \in 0..m + 1 : k # m + 1 => f[k] \in T
      BY <2>1
    <3>. HIDE DEF last
    <3>. QED
      BY <3>1, <3>2
  <2>. QED
    BY <2>5, <2>6
<1>5. N \in S
  <2>. HIDE DEF S
  <2>. QED
    BY <1>1, <1>3, <1>4, Induction
<1>6. \E f \in [0..N -> T] : Files(sizes, n, f, N)
  BY <1>1, <1>5
<1>. QED
  BY <1>6 DEF N, T

\* What is filed under a size are numbers of groups.
LEMMA FiledType ==
  ASSUME NEW sizes, Len(sizes) \in Nat, NEW n
  PROVE  Filed(sizes, n) \in Seq(1..Len(sizes))
<1>. DEFINE N == Len(sizes)
            T == Seq(1..N)
            Ok(f) == Files(sizes, n, f, N)
            upTo == CHOOSE f : Ok(f)
            S == {k \in Nat : k <= N => upTo[k] \in T}
<1>1. Filed(sizes, n) = upTo[N]
  BY DEF Filed, Files, Filing
<1>2. PICK g \in [0..N -> T] : Ok(g)
  BY FilesExist
<1>3. Ok(upTo)
  <2>. HIDE DEF Ok
  <2>. QED
    BY <1>2, Zenon
<1>. HIDE DEF upTo
<1>4. ASSUME NEW x \in T, NEW k \in 1..N PROVE Filing(sizes, n, x, k) \in T
  BY FilingType
<1>5. <<>> \in T /\ N \in Nat
  OBVIOUS
<1>. HIDE DEF T, N
<1>6. 0 \in S
  BY <1>3, <1>5 DEF Files
<1>7. ASSUME NEW k \in Nat, k \in S PROVE k + 1 \in S
  <2>. SUFFICES ASSUME k + 1 <= N PROVE upTo[k + 1] \in T
    OBVIOUS
  <2>1. upTo[k] \in T /\ k + 1 \in 0..N /\ k + 1 \in 1..N /\ (k + 1) - 1 = k /\ k + 1 # 0
    BY <1>5, <1>7
  <2>2. upTo[k + 1] = Filing(sizes, n, upTo[k], k + 1)
    BY <1>3, <2>1 DEF Files
  <2>. QED
    BY <1>4, <2>1, <2>2
<1>8. N \in S
  <2>. HIDE DEF S
  <2>. QED
    BY <1>5, <1>6, <1>7, Induction
<1>9. Filed(sizes, n) \in T
  BY <1>1, <1>5, <1>8
<1>. QED
  BY <1>9 DEF T, N

-----------------------------------------------------------------------------
(* The invariant.                                                          *)

\* All atoms there are.
Known == reachable \cup UNION ToSet(Groups)

\* The queue: what is filed are numbers of groups, and the search stays inside.
QueueInv ==
  /\ remaining \in [DOMAIN lifted -> SUBSET Known]
  /\ \A i \in DOMAIN remaining : remaining[i] \subseteq Groups[i]
  /\ maxSize \in DOMAIN bySize
  /\ \E m \in Nat : DOMAIN bySize = 0..m
  /\ \A n \in DOMAIN bySize : bySize[n] \in Seq(DOMAIN remaining)
  /\ phase = "search" => maxSize > 1
  /\ phase = "pop" /\ maxSize > 1 => \E i \in DOMAIN remaining : top = remaining[i]

\* Two groups of a list share no atom.
Apart(list) == \A i, k \in DOMAIN list : i # k => list[i] \cap list[k] = {}

\* What was chosen: parts of groups, without the atoms that are left; with the
\* partial encoding no two of them share an atom, and no group of the queue has one
\* of theirs.
ChosenInv ==
  /\ chosen \in Seq(SUBSET Known)
  /\ \A g \in ToSet(chosen) : \E i \in DOMAIN Groups : g \subseteq Groups[i]
  /\ uncovered = reachable \ UNION ToSet(chosen)
  /\ partial => /\ Apart(chosen)
                /\ \A i \in DOMAIN remaining : remaining[i] \cap UNION ToSet(chosen) = {}

FGInv ==
  /\ partial \in BOOLEAN
  /\ phase \in {"find", "search", "pop", "done"}
  /\ phase = "find" => chosen = <<>>
  /\ phase # "find" => IsFiniteSet(reachable)
  /\ phase \in {"search", "pop"} => QueueInv /\ ChosenInv
  /\ EveryAtomOnce /\ WithinGroups

\* Before groups are found nothing is chosen.
LEMMA InitInv == FGInit => FGInv
BY EncodingsAssumption DEF FGInit, FGInv, EveryAtomOnce, WithinGroups

\* A finite group has finitely many instances.
LEMMA ExpandedFinite ==
  ASSUME NEW atoms, NEW group, IsFiniteSet(atoms), IsFiniteSet(group), \A t \in group : IsFiniteSet(t.instances)
  PROVE  IsFiniteSet(UNION {IF t.counted THEN t.instances \cap atoms ELSE t.instances : t \in group})
<1>. DEFINE of(t) == IF t.counted THEN t.instances \cap atoms ELSE t.instances
            f == [t \in group |-> of(t)]
<1>1. ASSUME NEW t \in group PROVE IsFiniteSet(of(t))
  <2>1. IsFiniteSet(t.instances) /\ t.instances \cap atoms \subseteq t.instances
    OBVIOUS
  <2>2. IsFiniteSet(t.instances \cap atoms)
    BY <2>1, FS_Subset
  <2>. QED
    BY <2>1, <2>2
<1>2. {f[t] : t \in DOMAIN f} = {of(t) : t \in group} /\ DOMAIN f = group
  <2>. HIDE DEF of
  <2>. QED
    OBVIOUS
<1>3. IsFiniteSet({of(t) : t \in group})
  <2>. HIDE DEF f
  <2>. QED
    BY <1>2, ImageIsFinite
<1>4. IsFiniteSet(UNION {of(t) : t \in group})
  <2>. HIDE DEF of
  <2>. QED
    BY <1>1, <1>3, FS_UNION
<1>. QED
  BY <1>4

\* Groups of finitely many atoms have a largest size.
LEMMA LargestGroup ==
  ASSUME NEW G, NEW n \in Nat \ {0}, DOMAIN G = 1..n, \A i \in 1..n : IsFiniteSet(G[i])
  PROVE  Largest(Sizes(G)) \in Nat
<1>. DEFINE all == UNION {G[i] : i \in DOMAIN G}
            S == Sizes(G)
<1>0. IsFiniteSet(DOMAIN G)
  BY FS_Interval
<1>1. IsFiniteSet({G[i] : i \in DOMAIN G})
  BY <1>0, ImageIsFinite
<1>2. IsFiniteSet(all)
  BY <1>1, FS_UNION
<1>3. ASSUME NEW i \in DOMAIN G PROVE Cardinality(G[i]) \in Nat /\ Cardinality(G[i]) <= Cardinality(all)
  <2>1. G[i] \subseteq all
    OBVIOUS
  <2>. QED
    BY <1>2, <2>1, FS_Subset, FS_CardinalityType
<1>4. S \subseteq Nat /\ S # {} /\ \A k \in S : k <= Cardinality(all)
  <2>1. S = {Cardinality(G[i]) : i \in DOMAIN G} /\ 1 \in DOMAIN G
    BY DEF Sizes
  <2>. HIDE DEF S, all
  <2>. QED
    BY <1>3, <2>1
<1>5. Cardinality(all) \in Nat
  BY <1>2, FS_CardinalityType
<1>6. Largest(S) \in S
  <2>. HIDE DEF S, all
  <2>. QED
    BY <1>4, <1>5, LargestNumber
<1>. QED
  BY <1>4, <1>6
\* Steps after which the groups are the same.
LEMMA SameGroups ==
  ASSUME UNCHANGED <<reachable, lifted>>
  PROVE  Groups' = Groups /\ Known' = Known /\ MutexGroups' = MutexGroups
BY DEF Groups, Expanded, Known, MutexGroups

\* A queue is built: nothing has been chosen.
LEMMA InstantiateInv ==
  ASSUME FGInv, NEW groups, NEW atoms, AreGroups(groups), IsFiniteSet(atoms), Instantiate(groups, atoms)
  PROVE  FGInv'
<1>. DEFINE n == Len(groups)
            sizes == [i \in DOMAIN groups |-> Cardinality(remaining'[i])]
<1>1. /\ reachable' = atoms /\ lifted' = groups /\ remaining' = Groups' /\ uncovered' = atoms
      /\ partial' = partial /\ chosen' = chosen /\ chosen = <<>> /\ partial \in BOOLEAN
      /\ maxSize' = IF groups = <<>> THEN 0 ELSE Largest(Sizes(remaining'))
      /\ bySize' = [k \in 0..maxSize' |-> Filed(sizes, k)]
      /\ phase' = IF maxSize' > 1 THEN "search" ELSE "pop"
  BY DEF Instantiate, FGInv
<1>2. n \in Nat /\ DOMAIN groups = 1..n /\ (n = 0 => groups = <<>>) /\ \A i \in DOMAIN groups : groups[i] \in ToSet(groups)
  BY DEF AreGroups, ToSet
<1>3. DOMAIN remaining' = 1..n /\ \A i \in 1..n : IsFiniteSet(remaining'[i])
  <2>. SUFFICES ASSUME NEW i \in 1..n PROVE IsFiniteSet(Groups'[i])
    BY <1>1, <1>2 DEF Groups
  <2>1. Groups'[i] = UNION {IF t.counted THEN t.instances \cap atoms ELSE t.instances : t \in groups[i]}
    BY <1>1, <1>2 DEF Groups, Expanded
  <2>2. IsFiniteSet(groups[i]) /\ \A t \in groups[i] : IsFiniteSet(t.instances)
    BY <1>2 DEF AreGroups
  <2>. QED
    BY <2>1, <2>2, ExpandedFinite
<1>4. maxSize' \in Nat
  <2>1. CASE groups = <<>>
    BY <1>1, <2>1
  <2>2. CASE groups # <<>>
    BY <1>1, <1>2, <1>3, <2>2, LargestGroup
  <2>. QED
    BY <2>1, <2>2
<1>5. Len(sizes) = n
  BY <1>2
<1>6. \A k \in 0..maxSize' : Filed(sizes, k) \in Seq(1..n)
  <2>. HIDE DEF sizes
  <2>. QED
    BY <1>2, <1>5, FiledType
<1>. HIDE DEF sizes
<1>7. QueueInv'
  <2>1. remaining' \in [DOMAIN lifted' -> SUBSET Known']
    <3>1. Groups' = [i \in DOMAIN lifted' |-> Groups'[i]]
      BY DEF Groups
    <3>2. \A i \in DOMAIN lifted' : Groups'[i] \subseteq Known'
      BY <3>1 DEF Known, ToSet
    <3>. QED
      BY <1>1, <3>1, <3>2
  <2>2. DOMAIN bySize' = 0..maxSize' /\ maxSize' \in DOMAIN bySize'
    BY <1>1, <1>4
  <2>3. \A k \in DOMAIN bySize' : bySize'[k] \in Seq(DOMAIN remaining')
    BY <1>1, <1>3, <1>6
  <2>4. (phase' = "search" => maxSize' > 1) /\ ~ (phase' = "pop" /\ maxSize' > 1)
    BY <1>1
  <2>. QED
    BY <1>1, <1>4, <2>1, <2>2, <2>3, <2>4 DEF QueueInv
<1>8. ChosenInv'
  <2>1. ToSet(<<>>) = {} /\ <<>> \in Seq(SUBSET Known') /\ DOMAIN <<>> = {}
    BY DEF ToSet
  <2>. QED
    BY <1>1, <2>1 DEF ChosenInv, Apart
<1>. QED
  BY <1>1, <1>7, <1>8 DEF FGInv, EveryAtomOnce, WithinGroups

\* The group on top is one of the queue, however it was filed.
LEMMA TakeInv ==
  ASSUME FGInv, Take
  PROVE  FGInv'
<1>1. /\ QueueInv /\ ChosenInv /\ phase = "search" /\ phase' = "pop" /\ bySize[maxSize] # <<>>
      /\ top' = remaining[Candidate] /\ bySize' = [bySize EXCEPT ![maxSize] = Front(@)]
      /\ UNCHANGED <<reachable, lifted, partial, remaining, maxSize, uncovered, chosen>>
  BY DEF Take, FGInv
<1>2. Groups' = Groups /\ Known' = Known
  BY <1>1, SameGroups
<1>3. Candidate \in DOMAIN remaining /\ Front(bySize[maxSize]) \in Seq(DOMAIN remaining)
  BY <1>1, LastAndFront DEF QueueInv, Candidate
<1>4. QueueInv'
  <2>1. DOMAIN bySize' = DOMAIN bySize /\ \A k \in DOMAIN bySize : bySize'[k] \in Seq(DOMAIN remaining)
    BY <1>1, <1>3 DEF QueueInv
  <2>. QED
    BY <1>1, <1>2, <1>3, <2>1 DEF QueueInv
<1>5. ChosenInv'
  BY <1>1, <1>2 DEF ChosenInv, Apart
<1>. QED
  BY <1>1, <1>4, <1>5 DEF FGInv, EveryAtomOnce, WithinGroups

\* A group is filed again, or lost if there is no place for its size.
LEMMA RefileInv ==
  ASSUME FGInv, Refile
  PROVE  FGInv'
<1>. DEFINE k == SizeNow(Candidate)
            less == [bySize EXCEPT ![maxSize] = Front(@)]
<1>1. /\ QueueInv /\ ChosenInv /\ phase = "search" /\ phase' = "search" /\ bySize[maxSize] # <<>>
      /\ bySize' = [bySize EXCEPT ![maxSize] = Front(@), ![k] = Append(@, Candidate)]
      /\ UNCHANGED <<reachable, lifted, partial, remaining, maxSize, top, uncovered, chosen>>
  BY DEF Refile, FGInv
<1>2. Groups' = Groups /\ Known' = Known
  BY <1>1, SameGroups
<1>3. Candidate \in DOMAIN remaining /\ Front(bySize[maxSize]) \in Seq(DOMAIN remaining)
  BY <1>1, LastAndFront DEF QueueInv, Candidate
<1>4. DOMAIN less = DOMAIN bySize /\ \A n \in DOMAIN bySize : less[n] \in Seq(DOMAIN remaining)
  BY <1>1, <1>3 DEF QueueInv
<1>5. k # maxSize
  BY DEF Refile, IsLargest, SizeNow
<1>6. DOMAIN bySize' = DOMAIN bySize /\ \A n \in DOMAIN bySize : bySize'[n] \in Seq(DOMAIN remaining)
  <2>1. DOMAIN bySize' = DOMAIN bySize
    BY <1>1
  <2>2. \A n \in DOMAIN bySize : bySize'[n] = IF n = k THEN Append(bySize[n], Candidate) ELSE less[n]
    <3>. HIDE DEF k
    <3>. QED
      BY <1>1, <1>5
  <2>3. \A n \in DOMAIN bySize : Append(bySize[n], Candidate) \in Seq(DOMAIN remaining)
    BY <1>1, <1>3, AppendFacts DEF QueueInv
  <2>. HIDE DEF less, k
  <2>. QED
    BY <1>4, <2>1, <2>2, <2>3
<1>. HIDE DEF less, k
<1>7. QueueInv'
  BY <1>1, <1>2, <1>6 DEF QueueInv
<1>8. ChosenInv'
  BY <1>1, <1>2 DEF ChosenInv, Apart
<1>. QED
  BY <1>1, <1>7, <1>8 DEF FGInv, EveryAtomOnce, WithinGroups

\* The next smaller size.
LEMMA DescendInv ==
  ASSUME FGInv, Descend
  PROVE  FGInv'
<1>1. /\ QueueInv /\ ChosenInv /\ phase = "search" /\ maxSize' = maxSize - 1
      /\ phase' = IF maxSize' > 1 THEN "search" ELSE "pop"
      /\ UNCHANGED <<reachable, lifted, partial, remaining, bySize, top, uncovered, chosen>>
  BY DEF Descend, FGInv
<1>2. Groups' = Groups /\ Known' = Known
  BY <1>1, SameGroups
<1>3. maxSize' \in DOMAIN bySize
  BY <1>1 DEF QueueInv
<1>4. QueueInv'
  BY <1>1, <1>2, <1>3 DEF QueueInv
<1>5. ChosenInv'
  BY <1>1, <1>2 DEF ChosenInv, Apart
<1>. QED
  BY <1>1, <1>4, <1>5 DEF FGInv, EveryAtomOnce, WithinGroups
\* One more group is chosen, and with the partial encoding the others lose its
\* atoms.
LEMMA PopInv ==
  ASSUME FGInv, Pop
  PROVE  FGInv'
<1>1. /\ QueueInv /\ ChosenInv /\ phase = "pop" /\ maxSize > 1 /\ phase' = "search" /\ partial \in BOOLEAN
      /\ chosen' = Append(chosen, top) /\ uncovered' = uncovered \ top
      /\ remaining' = [i \in DOMAIN remaining |-> Shrunk(remaining[i])]
      /\ UNCHANGED <<reachable, lifted, partial, bySize, maxSize, top>>
  BY DEF Pop, FGInv
<1>2. Groups' = Groups /\ Known' = Known
  BY <1>1, SameGroups
<1>3. PICK j \in DOMAIN remaining : top = remaining[j]
  BY <1>1 DEF QueueInv
<1>4. /\ DOMAIN remaining = DOMAIN lifted /\ DOMAIN remaining' = DOMAIN remaining
      /\ DOMAIN Groups = DOMAIN lifted
      /\ top \in SUBSET Known /\ top \subseteq Groups[j]
  BY <1>1, <1>3 DEF QueueInv, Groups
<1>5. \A i \in DOMAIN remaining : remaining'[i] \subseteq remaining[i] /\ (partial => remaining'[i] = remaining[i] \ top)
  BY <1>1 DEF Shrunk
<1>6. QueueInv'
  <2>1. remaining' \in [DOMAIN lifted -> SUBSET Known]
    <3>1. \A i \in DOMAIN remaining : remaining[i] \subseteq Known
      BY <1>1 DEF QueueInv
    <3>2. remaining' = [i \in DOMAIN lifted |-> remaining'[i]]
      BY <1>1, <1>4
    <3>. QED
      BY <1>4, <1>5, <3>1, <3>2
  <2>. QED
    BY <1>1, <1>2, <1>4, <1>5, <2>1 DEF QueueInv
<1>7. /\ chosen' \in Seq(SUBSET Known) /\ DOMAIN chosen' = 1..Len(chosen) + 1 /\ chosen'[Len(chosen) + 1] = top
      /\ \A i \in 1..Len(chosen) : chosen'[i] = chosen[i]
      /\ Len(chosen) \in Nat /\ DOMAIN chosen = 1..Len(chosen) /\ \A i \in DOMAIN chosen : chosen[i] \in ToSet(chosen)
  BY <1>1, <1>4, AppendFacts, ListFacts DEF ChosenInv
<1>8. ToSet(chosen') = ToSet(chosen) \cup {top}
  <2>1. ToSet(chosen') = {chosen'[i] : i \in 1..Len(chosen) + 1} /\ ToSet(chosen) = {chosen[i] : i \in 1..Len(chosen)}
    BY <1>7 DEF ToSet
  <2>2. 1..Len(chosen) + 1 = (1..Len(chosen)) \cup {Len(chosen) + 1}
    BY <1>7
  <2>. QED
    BY <1>7, <2>1, <2>2
<1>9. ChosenInv'
  <2>1. \A g \in ToSet(chosen') : \E i \in DOMAIN Groups : g \subseteq Groups[i]
    BY <1>1, <1>3, <1>4, <1>8 DEF ChosenInv
  <2>2. uncovered' = reachable \ UNION ToSet(chosen')
    BY <1>1, <1>8 DEF ChosenInv
  <2>3. ASSUME partial PROVE Apart(chosen')
    <3>1. ASSUME NEW i \in 1..Len(chosen) PROVE chosen[i] \cap top = {}
      BY <1>1, <1>3, <1>7, <2>3 DEF ChosenInv
    <3>2. \A i, k \in 1..Len(chosen) : i # k => chosen[i] \cap chosen[k] = {}
      BY <1>1, <1>7, <2>3 DEF ChosenInv, Apart
    <3>. SUFFICES ASSUME NEW i \in DOMAIN chosen', NEW k \in DOMAIN chosen', i # k
                  PROVE  chosen'[i] \cap chosen'[k] = {}
      BY DEF Apart
    <3>3. CASE i = Len(chosen) + 1
      <4>1. k \in 1..Len(chosen) /\ chosen'[k] = chosen[k] /\ chosen'[i] = top
        BY <1>7, <3>3
      <4>. QED
        BY <3>1, <4>1
    <3>4. CASE k = Len(chosen) + 1
      <4>1. i \in 1..Len(chosen) /\ chosen'[i] = chosen[i] /\ chosen'[k] = top
        BY <1>7, <3>4
      <4>. QED
        BY <3>1, <4>1
    <3>5. CASE i # Len(chosen) + 1 /\ k # Len(chosen) + 1
      <4>1. i \in 1..Len(chosen) /\ k \in 1..Len(chosen) /\ chosen'[i] = chosen[i] /\ chosen'[k] = chosen[k]
        BY <1>7, <3>5
      <4>. QED
        BY <3>2, <4>1
    <3>. QED
      BY <3>3, <3>4, <3>5
  <2>4. ASSUME partial, NEW i \in DOMAIN remaining' PROVE remaining'[i] \cap UNION ToSet(chosen') = {}
    <3>1. remaining'[i] = remaining[i] \ top /\ remaining[i] \cap UNION ToSet(chosen) = {}
      BY <1>1, <1>4, <1>5, <2>4 DEF ChosenInv
    <3>. QED
      BY <1>8, <3>1
  <2>. QED
    BY <1>1, <1>2, <1>7, <2>1, <2>2, <2>3, <2>4 DEF ChosenInv
<1>. QED
  BY <1>1, <1>6, <1>9 DEF FGInv, EveryAtomOnce, WithinGroups

\* The places of an atom in a list of chosen groups and the singletons of the atoms
\* that are in none of them.
LEMMA Homes ==
  ASSUME NEW K, NEW c \in Seq(SUBSET K), NEW d \in Seq(SUBSET K), NEW a, NEW rest,
         NEW all, a \in all, rest = all \ UNION ToSet(c), ToSet(d) = {{x} : x \in rest},
         \A i, k \in DOMAIN d : d[i] = d[k] => i = k
  PROVE  \E k \in DOMAIN (c \o d) :
           a \in (c \o d)[k] /\ (Apart(c) => \A j \in DOMAIN (c \o d) : a \in (c \o d)[j] => j = k)
<1>. DEFINE e == c \o d
            n == Len(c)
            m == Len(d)
<1>1. /\ DOMAIN e = 1..n + m /\ n \in Nat /\ m \in Nat /\ DOMAIN c = 1..n /\ DOMAIN d = 1..m
      /\ (\A i \in 1..n : e[i] = c[i]) /\ (\A i \in 1..m : e[n + i] = d[i])
      /\ ToSet(c) = {c[i] : i \in 1..n} /\ ToSet(d) = {d[i] : i \in 1..m}
  <2>. DEFINE T == SUBSET K
  <2>1. c \in Seq(T) /\ d \in Seq(T)
    OBVIOUS
  <2>. HIDE DEF T
  <2>2. DOMAIN e = 1..n + m /\ (\A i \in 1..n : e[i] = c[i]) /\ (\A i \in 1..m : e[n + i] = d[i])
    BY <2>1, ConcatFacts
  <2>3. n \in Nat /\ DOMAIN c = 1..n /\ ToSet(c) = {c[i] : i \in 1..n}
    BY <2>1, ListFacts
  <2>4. m \in Nat /\ DOMAIN d = 1..m /\ ToSet(d) = {d[i] : i \in 1..m}
    BY <2>1, ListFacts
  <2>. HIDE DEF e, n, m
  <2>. QED
    BY <2>2, <2>3, <2>4
<1>. HIDE DEF e, n, m
<1>2. ASSUME NEW j \in DOMAIN e
      PROVE  \/ j \in 1..n /\ e[j] = c[j]
             \/ j - n \in 1..m /\ n + (j - n) = j /\ e[j] = d[j - n] /\ d[j - n] \in ToSet(d)
  <2>1. CASE j <= n
    BY <1>1, <2>1
  <2>2. CASE ~ (j <= n)
    <3>1. j - n \in 1..m /\ n + (j - n) = j
      BY <1>1, <2>2
    <3>. QED
      BY <1>1, <3>1
  <2>. QED
    BY <2>1, <2>2
<1>3. CASE a \in rest
  <2>0. {a} \in ToSet(d)
    BY <1>3
  <2>1. PICK i \in 1..m : d[i] = {a}
    <3>1. \A x : x \in ToSet(d) => \E i \in 1..m : d[i] = x
      BY <1>1
    <3>. QED
      BY <2>0, <3>1, Zenon
  <2>2. n + i \in DOMAIN e /\ e[n + i] = {a}
    BY <1>1, <2>1
  <2>3. ASSUME NEW j \in DOMAIN e, a \in e[j] PROVE j = n + i
    <3>1. ~ (j \in 1..n /\ e[j] = c[j])
      BY <1>1, <1>3, <2>3
    <3>2. j - n \in 1..m /\ n + (j - n) = j /\ e[j] = d[j - n] /\ d[j - n] \in ToSet(d)
      BY <1>2, <3>1
    <3>3. d[j - n] = {a}
      BY <2>3, <3>2
    <3>4. j - n = i
      BY <1>1, <2>1, <3>2, <3>3
    <3>. QED
      BY <3>2, <3>4
  <2>. QED
    BY <2>2, <2>3 DEF e
<1>4. CASE a \notin rest
  <2>1. PICK i \in 1..n : a \in c[i]
    BY <1>1, <1>4
  <2>2. i \in DOMAIN e /\ e[i] = c[i]
    BY <1>1
  <2>3. ASSUME Apart(c), NEW j \in DOMAIN e, a \in e[j] PROVE j = i
    <3>1. ~ (j - n \in 1..m /\ n + (j - n) = j /\ e[j] = d[j - n] /\ d[j - n] \in ToSet(d))
      BY <1>4, <2>3
    <3>2. j \in 1..n /\ a \in c[j]
      BY <1>2, <2>3, <3>1
    <3>. QED
      BY <1>1, <2>1, <2>3, <3>2 DEF Apart
  <2>. QED
    BY <2>1, <2>2, <2>3 DEF e
<1>. QED
  BY <1>3, <1>4

\* The atoms that are left get groups of their own: now every atom has its place.
LEMMA AddUncoveredInv ==
  ASSUME FGInv, AddUncovered
  PROVE  FGInv'
<1>. DEFINE singles == {{a} : a \in uncovered}
            d == SetToSeq(singles)
<1>1. /\ ChosenInv /\ phase = "pop" /\ phase' = "done" /\ chosen' = chosen \o d
      /\ IsFiniteSet(reachable) /\ partial \in BOOLEAN
      /\ UNCHANGED <<reachable, lifted, partial, remaining, bySize, maxSize, top, uncovered>>
  BY DEF AddUncovered, FGInv
<1>2. Groups' = Groups /\ MutexGroups' = MutexGroups
  BY <1>1, SameGroups
<1>3. IsFiniteSet(singles)
  <2>1. IsFiniteSet(uncovered)
    BY <1>1, FS_Subset DEF ChosenInv
  <2>. DEFINE f == [a \in uncovered |-> {a}]
  <2>2. singles = {f[a] : a \in DOMAIN f} /\ DOMAIN f = uncovered
    OBVIOUS
  <2>. HIDE DEF f, singles
  <2>. QED
    BY <2>1, <2>2, ImageIsFinite
<1>4. singles \in SUBSET (SUBSET Known) /\ uncovered \subseteq reachable
  BY <1>1 DEF ChosenInv, Known
<1>5. d \in Seq(singles) /\ ToSet(d) = singles /\ \A i, k \in DOMAIN d : d[i] = d[k] => i = k
  <2>. HIDE DEF singles
  <2>. QED
    BY <1>3, ListOfSet
<1>6. d \in Seq(SUBSET Known) /\ chosen \in Seq(SUBSET Known)
  <2>. HIDE DEF d, singles
  <2>. QED
    BY <1>1, <1>4, <1>5 DEF ChosenInv
<1>. HIDE DEF d
<1>7. EveryAtomOnce'
  <2>. SUFFICES ASSUME NEW a \in reachable
                PROVE  LET homes == {k \in DOMAIN chosen' : a \in chosen'[k]}
                       IN  IF partial THEN Cardinality(homes) = 1 ELSE homes # {}
    BY <1>1 DEF EveryAtomOnce
  <2>. DEFINE homes == {k \in DOMAIN chosen' : a \in chosen'[k]}
  <2>1. PICK k \in DOMAIN chosen' : a \in chosen'[k] /\ (Apart(chosen) => \A j \in DOMAIN chosen' : a \in chosen'[j] => j = k)
    <3>1. uncovered = reachable \ UNION ToSet(chosen)
      BY <1>1 DEF ChosenInv
    <3>2. \E k \in DOMAIN (chosen \o d) :
            a \in (chosen \o d)[k] /\ (Apart(chosen) => \A j \in DOMAIN (chosen \o d) : a \in (chosen \o d)[j] => j = k)
      BY <1>5, <1>6, <3>1, Homes
    <3>. QED
      BY <1>1, <3>2
  <2>2. CASE partial
    <3>1. homes = {k}
      BY <1>1, <2>1, <2>2 DEF ChosenInv
    <3>. QED
      BY <2>2, <3>1, FS_Singleton
  <2>3. CASE ~ partial
    BY <2>1, <2>3
  <2>. QED
    BY <2>2, <2>3
<1>8. WithinGroups'
  <2>. SUFFICES ASSUME NEW g \in ToSet(chosen') PROVE \E m \in MutexGroups : g \subseteq m
    BY <1>1, <1>2 DEF WithinGroups
  <2>1. g \in ToSet(chosen) \/ g \in singles
    <3>1. PICK k \in DOMAIN (chosen \o d) : g = (chosen \o d)[k]
      BY <1>1 DEF ToSet
    <3>2. /\ DOMAIN (chosen \o d) = 1..Len(chosen) + Len(d) /\ Len(chosen) \in Nat /\ Len(d) \in Nat
          /\ \A i \in 1..Len(chosen) : (chosen \o d)[i] = chosen[i] /\ chosen[i] \in ToSet(chosen)
          /\ \A i \in 1..Len(d) : (chosen \o d)[Len(chosen) + i] = d[i] /\ d[i] \in ToSet(d)
      BY <1>6, ConcatFacts, ListFacts
    <3>3. CASE k <= Len(chosen)
      BY <3>1, <3>2, <3>3
    <3>4. CASE ~ (k <= Len(chosen))
      <4>1. k - Len(chosen) \in 1..Len(d) /\ Len(chosen) + (k - Len(chosen)) = k
        BY <3>2, <3>4
      <4>. QED
        BY <1>5, <3>1, <3>2, <4>1
    <3>. QED
      BY <3>3, <3>4
  <2>2. \A i \in DOMAIN Groups : Groups[i] \in ToSet(Groups)
    BY DEF ToSet
  <2>3. CASE g \in ToSet(chosen)
    BY <1>1, <2>2, <2>3 DEF ChosenInv, MutexGroups
  <2>4. CASE g \in singles
    <3>1. PICK a \in reachable : g = {a}
      BY <1>4, <2>4
    <3>. QED
      BY <3>1 DEF MutexGroups
  <2>. QED
    BY <2>1, <2>3, <2>4
<1>. QED
  BY <1>1, <1>7, <1>8 DEF FGInv

-----------------------------------------------------------------------------
(* The theorems.                                                           *)

\* The invariant is inductive.
LEMMA FGInductive ==
  ASSUME FGInv, [AnyGroups \/ FGNext]_fgVars
  PROVE  FGInv'
<1>1. CASE FGNext
  BY <1>1, TakeInv, RefileInv, DescendInv, PopInv, AddUncoveredInv DEF FGNext
<1>2. CASE AnyGroups
  <2>1. PICK groups, atoms : AreGroups(groups) /\ IsFiniteSet(atoms) /\ Instantiate(groups, atoms)
    BY <1>2 DEF AnyGroups
  <2>. QED
    BY <2>1, InstantiateInv
<1>3. CASE UNCHANGED fgVars
  <2>1. Groups' = Groups /\ Known' = Known /\ MutexGroups' = MutexGroups
    BY <1>3, SameGroups DEF fgVars
  <2>. QED
    BY <1>3, <2>1 DEF fgVars, FGInv, QueueInv, ChosenInv, EveryAtomOnce, WithinGroups
<1>. QED
  BY <1>1, <1>2, <1>3

\* The invariant of the queue and of what is chosen, for all groups and atoms.
LEMMA FGInvariant == FGSpec => []FGInv
<1>1. FGInv /\ [AnyGroups \/ FGNext]_fgVars => FGInv'
  BY FGInductive
<1>. QED
  BY InitInv, <1>1, PTL DEF FGSpec

\* choose_groups: whatever groups invariant synthesis finds, with the partial encoding
\* every reachable atom becomes a value of exactly one variable, without it of at
\* least one; the assertion of strips_to_sas_dictionary cannot fail.
THEOREM EveryAtomAlwaysOnce == FGSpec => []EveryAtomOnce
<1>1. FGInv => EveryAtomOnce
  BY DEF FGInv
<1>. QED
  BY <1>1, FGInvariant, PTL

\* choose_groups and collect_all_mutex_groups: every variable is part of a mutex group,
\* so that a state with one true atom in each group has one in each variable.
THEOREM AlwaysWithinGroups == FGSpec => []WithinGroups
<1>1. FGInv => WithinGroups
  BY DEF FGInv
<1>. QED
  BY <1>1, FGInvariant, PTL
-----------------------------------------------------------------------------
(* compute_groups.                                                         *)

\* Every invariant that is accepted has finitely many parts.
FiniteInvariants == \A inv \in accepted : IsFiniteSet(inv)

\* What is known of the search for invariants: it is about one task, and accepts one
\* candidate at a time.
FindInv ==
  /\ task \in InvTasks
  /\ IsFiniteSet(accepted)
  /\ candidate = <<>> \/ \E c : candidate = <<c>>

\* The search starts with nothing accepted.
LEMMA FindStarts == CGInit => FindInv
BY FS_EmptySet DEF CGInit, InvInit, FindInv

\* Every step accepts at most one candidate.
LEMMA FindSteps ==
  ASSUME FindInv, [CGNext]_cgVars
  PROVE  FindInv'
<1>1. CASE NextCandidate
  BY <1>1 DEF NextCandidate, FindInv
<1>2. CASE FindingEnds
  BY <1>2 DEF FindingEnds, FindInv
<1>3. CASE \E i \in unchecked : CheckAction(i)
  <2>1. task' = task /\ accepted' = accepted /\ (candidate' = <<>> \/ candidate' = candidate)
    BY <1>3 DEF CheckAction
  <2>. QED
    BY <2>1 DEF FindInv
<1>4. CASE Accept
  <2>1. PICK c : candidate = <<c>>
    BY <1>4 DEF Accept, FindInv
  <2>2. ToSet(candidate) = {c}
    BY <2>1 DEF ToSet
  <2>3. accepted' = accepted \cup {c} /\ task' = task /\ candidate' = <<>>
    BY <1>4, <2>2 DEF Accept
  <2>. QED
    BY <2>3, FS_AddElement DEF FindInv
<1>5. CASE UNCHANGED invVars
  BY <1>5 DEF invVars, FindInv
<1>. QED
  BY <1>1, <1>2, <1>3, <1>4, <1>5
  DEF CGNext, Find, InvNext, InstantiateGroups, ChooseGroups, CGEnded, cgVars

\* The instances of an invariant's parts are finite sets of atoms.
LEMMA TemplateFinite ==
  ASSUME FindInv, NEW part, NEW values
  PROVE  IsFiniteSet(Template(part, values).instances)
<1>1. CASE part.omitted = -1
  <2>. DEFINE a == [pred |-> part.pred,
                    args |-> [i \in DOMAIN part.order |-> values[CHOOSE k \in DOMAIN part.order : part.order[k] = i]]]
  <2>1. Template(part, values).instances = {a}
    BY <1>1 DEF Template
  <2>. HIDE DEF a
  <2>. QED
    BY <2>1, FS_Singleton
<1>2. CASE part.omitted # -1
  <2>1. Template(part, values).instances = Instances(part, values)
    BY <1>2 DEF Template
  <2>2. Instances(part, values) \subseteq task.atoms /\ IsFiniteSet(task.atoms)
    BY InvTasksAssumption DEF Instances, FindInv
  <2>. QED
    BY <2>1, <2>2, FS_Subset
<1>. QED
  BY <1>1, <1>2

\* There are finitely many useful instances, each of an accepted invariant.
LEMMA UsefulFinite ==
  ASSUME FindInv
  PROVE  IsFiniteSet(UsefulGroups) /\ \A g \in UsefulGroups : g[1] \in accepted
<1>. DEFINE key(inv, a) == <<inv, Parameters(PartOf(inv, a), a)>>
            keys(a) == {key(inv, a) : inv \in {i \in accepted : Covers(i, a)}}
            all == UNION {keys(a) : a \in ToSet(task.init)}
<1>1. UsefulGroups \subseteq all
  BY DEF UsefulGroups
<1>2. \A g \in all : g[1] \in accepted
  OBVIOUS
<1>3. ASSUME NEW a PROVE IsFiniteSet(keys(a))
  <2>. DEFINE C == {i \in accepted : Covers(i, a)}
              f == [inv \in C |-> key(inv, a)]
  <2>1. IsFiniteSet(C)
    BY FS_Subset DEF FindInv
  <2>2. keys(a) = {f[inv] : inv \in DOMAIN f} /\ DOMAIN f = C
    <3>. HIDE DEF key
    <3>. QED
      OBVIOUS
  <2>. HIDE DEF f, keys, C
  <2>. QED
    BY <2>1, <2>2, ImageIsFinite
<1>4. IsFiniteSet(ToSet(task.init))
  BY InvTasksAssumption, ImageIsFinite DEF FindInv, ToSet
<1>5. IsFiniteSet(all)
  <2>. DEFINE T == ToSet(task.init)
              f == [a \in T |-> keys(a)]
              sets == {keys(a) : a \in T}
  <2>1. sets = {f[a] : a \in DOMAIN f} /\ DOMAIN f = T
    <3>. HIDE DEF keys, T
    <3>. QED
      OBVIOUS
  <2>2. IsFiniteSet(sets)
    <3>. HIDE DEF f, sets
    <3>. QED
      BY <1>4, <2>1, ImageIsFinite
  <2>3. \A S \in sets : IsFiniteSet(S)
    <3>. HIDE DEF keys
    <3>. QED
      BY <1>3
  <2>4. IsFiniteSet(UNION sets)
    <3>. HIDE DEF sets
    <3>. QED
      BY <2>2, <2>3, FS_UNION
  <2>. QED
    BY <2>4
<1>. HIDE DEF all
<1>. QED
  BY <1>1, <1>2, <1>5, FS_Subset

\* What get_groups hands over are lists of finite groups.
LEMMA HandedOver ==
  ASSUME FindInv, FiniteInvariants
  PROVE  AreGroups(SetToSeq({{Template(part, g[2]) : part \in g[1]} : g \in UsefulGroups}))
<1>. DEFINE group(g) == {Template(part, g[2]) : part \in g[1]}
            S == {group(g) : g \in UsefulGroups}
            list == SetToSeq(S)
<1>1. ASSUME NEW g \in UsefulGroups
      PROVE  IsFiniteSet(group(g)) /\ \A t \in group(g) : IsFiniteSet(t.instances)
  <2>. DEFINE f == [part \in g[1] |-> Template(part, g[2])]
  <2>1. IsFiniteSet(g[1])
    BY UsefulFinite DEF FiniteInvariants
  <2>2. group(g) = {f[part] : part \in DOMAIN f} /\ DOMAIN f = g[1]
    OBVIOUS
  <2>3. IsFiniteSet({f[part] : part \in DOMAIN f})
    <3>. HIDE DEF f
    <3>. QED
      BY <2>1, <2>2, ImageIsFinite
  <2>4. \A t \in group(g) : IsFiniteSet(t.instances)
    BY TemplateFinite
  <2>. QED
    BY <2>2, <2>3, <2>4
<1>2. IsFiniteSet(S)
  <2>. DEFINE f == [g \in UsefulGroups |-> group(g)]
  <2>1. S = {f[g] : g \in DOMAIN f} /\ DOMAIN f = UsefulGroups
    <3>. HIDE DEF group
    <3>. QED
      OBVIOUS
  <2>. HIDE DEF f, S
  <2>. QED
    BY <2>1, UsefulFinite, ImageIsFinite
<1>3. \A x \in S : IsFiniteSet(x) /\ \A t \in x : IsFiniteSet(t.instances)
  <2>. HIDE DEF group
  <2>. QED
    BY <1>1
<1>. HIDE DEF S
<1>4. list \in Seq(S) /\ ToSet(list) = S
  BY <1>2, ListOfSet
<1>5. AreGroups(list)
  <2>. HIDE DEF list
  <2>. QED
    BY <1>3, <1>4 DEF AreGroups
<1>. QED
  BY <1>5 DEF list, S

\* compute_groups makes its choice as choose_groups does: what it hands over are
\* groups, and the search for invariants disturbs nothing.
THEOREM ComputeGroupsChooses == CGSpec /\ []FiniteInvariants => FGSpec
<1>1. CGInit => FGInit
  BY DEF CGInit
<1>2. FindInv /\ FiniteInvariants /\ [CGNext]_cgVars => [AnyGroups \/ FGNext]_fgVars
  <2>. SUFFICES ASSUME FindInv, FiniteInvariants, [CGNext]_cgVars
                PROVE  [AnyGroups \/ FGNext]_fgVars
    OBVIOUS
  <2>1. CASE InstantiateGroups
    <3>. DEFINE list == SetToSeq({{Template(part, g[2]) : part \in g[1]} : g \in UsefulGroups})
    <3>1. AreGroups(list)
      BY HandedOver
    <3>2. IsFiniteSet(task.atoms)
      BY InvTasksAssumption DEF FindInv
    <3>3. Instantiate(list, task.atoms)
      BY <2>1 DEF InstantiateGroups
    <3>. HIDE DEF list
    <3>. QED
      BY <3>1, <3>2, <3>3 DEF AnyGroups
  <2>2. CASE ~ InstantiateGroups
    BY <2>2 DEF CGNext, Find, ChooseGroups, CGEnded, cgVars
  <2>. QED
    BY <2>1, <2>2
<1>3. FindInv /\ [CGNext]_cgVars => FindInv'
  BY FindSteps
<1>. QED
  BY <1>1, <1>2, <1>3, FindStarts, PTL DEF CGSpec, FGSpec
=============================================================================
