------------------------- MODULE ProgramGraphProofs -------------------------
(***************************************************************************)
(* Proofs about the program graph: for every program, in whatever order    *)
(* sets are enumerated, no value is missing when the graph is built from   *)
(* T, F and C, and the encoded automaton of a deterministic program runs   *)
(* the program, as its syntax says.                                        *)
(***************************************************************************)
EXTENDS TFCProofs, WellFoundedInduction, Integers

-----------------------------------------------------------------------------
(* Induction over the naturals, for sets.                                  *)

LEMMA SetInduction ==
  ASSUME NEW S, 0 \in S, \A n \in Nat : n \in S => n + 1 \in S
  PROVE  Nat \subseteq S
<1>. SUFFICES ASSUME NEW x \in Nat \ S PROVE FALSE
  OBVIOUS
<1>. DEFINE T == Nat \ S
            R == OpToRel(<, Nat)
<1>1. \E m \in T : \A k \in T : <<k, m>> \notin R
  <2>1. T \subseteq Nat /\ T # {}
    OBVIOUS
  <2>. HIDE DEF T
  <2>. QED
    BY <2>1, NatLessThanWellFounded, WFMin, Zenon
<1>2. PICK m \in T : \A k \in T : <<k, m>> \notin R
  BY <1>1
<1>3. m # 0 /\ m - 1 \in Nat
  OBVIOUS
<1>4. m - 1 \in T
  OBVIOUS
<1>5. <<m - 1, m>> \in R
  <2>1. m - 1 < m /\ <<m - 1, m>> \in Nat \X Nat
    BY <1>3
  <2>. QED
    BY <2>1 DEF OpToRel
<1>. QED
  BY <1>2, <1>4, <1>5

\* The depths of the programs have a bound.
LEMMA DepthBound == \E b \in Nat : \A p \in Programs : Depth[p] < b
<1>1. PICK n \in Nat : ExistsSurjection(1 .. n, Programs)
  BY FS_NatSurjection, SpaceAssumption
<1>2. PICK e \in Surjection(1 .. n, Programs) : TRUE
  BY <1>1 DEF ExistsSurjection
<1>. DEFINE Below(k, b) == \A i \in 1 .. n : i <= k => Depth[e[i]] < b
            S == {k \in Nat : \E b \in Nat : Below(k, b)}
<1>3. 0 \in S
  OBVIOUS
<1>4. \A i \in 1 .. n : e[i] \in Programs /\ Depth[e[i]] \in Nat
  BY <1>2, DepthAssumption DEF Surjection
<1>5. ASSUME NEW k \in Nat, k \in S PROVE k + 1 \in S
  <2>1. PICK b \in Nat : Below(k, b)
    BY <1>5
  <2>2. ASSUME k + 1 \in 1 .. n PROVE \E c \in Nat : Below(k + 1, c)
    <3>1. PICK d \in Nat : Depth[e[k + 1]] = d
      BY <1>4, <2>2
    <3>2. b + d + 1 \in Nat
      OBVIOUS
    <3>3. \A i \in 1 .. n : i <= k + 1 => i <= k \/ i = k + 1
      OBVIOUS
    <3>4. Below(k + 1, b + d + 1)
      BY <1>4, <2>1, <3>1, <3>3
    <3>. HIDE DEF Below
    <3>. QED
      BY <3>2, <3>4
  <2>3. ASSUME k + 1 \notin 1 .. n PROVE \E c \in Nat : Below(k + 1, c)
    <3>1. \A i \in 1 .. n : i <= k + 1 => i <= k
      BY <2>3
    <3>2. Below(k + 1, b)
      BY <2>1, <3>1
    <3>. HIDE DEF Below
    <3>. QED
      BY <3>2
  <2>. HIDE DEF Below
  <2>. QED
    BY <2>2, <2>3
<1>6. Nat \subseteq S
  <2>. HIDE DEF S
  <2>. QED
    BY <1>3, <1>5, SetInduction
<1>7. PICK b \in Nat : Below(n, b)
  BY <1>6
<1>8. ASSUME NEW p \in Programs PROVE Depth[p] < b
  <2>1. PICK i \in 1 .. n : e[i] = p
    BY <1>2 DEF Surjection
  <2>. QED
    BY <1>7, <2>1
<1>. QED
  BY <1>8

\* Induction over the syntax, for sets.
LEMMA SyntaxInduction ==
  ASSUME NEW S, \A p \in Programs : Args(p) \subseteq S => p \in S
  PROVE  Programs \subseteq S
<1>. DEFINE N == {n \in Nat : \A p \in Programs : Depth[p] < n => p \in S}
<1>1. 0 \in N
  BY DepthAssumption
<1>2. ASSUME NEW n \in Nat, n \in N PROVE n + 1 \in N
  <2>1. ASSUME NEW p \in Programs, Depth[p] < n + 1 PROVE p \in S
    <3>1. \A q \in Args(p) : q \in Programs /\ Depth[q] < n
      <4>. TAKE q \in Args(p)
      <4>. QED
        BY <2>1, ArgsSmaller
    <3>. QED
      BY <1>2, <3>1
  <2>. QED
    BY <2>1
<1>3. Nat \subseteq N
  <2>. HIDE DEF N
  <2>. QED
    BY <1>1, <1>2, SetInduction
<1>4. PICK b \in Nat : \A p \in Programs : Depth[p] < b
  BY DepthBound
<1>. QED
  BY <1>3, <1>4

-----------------------------------------------------------------------------
(* Functions that are defined by recursion over the syntax.                *)

\* The functions that give each program one of its own values.
Families(V) == {f \in [Programs -> UNION {V[p] : p \in Programs}] : \A p \in Programs : f[p] \in V[p]}

\* G says what a program's value is, given the values of its arguments.
Recursion(V, G) ==
  /\ \A p \in Programs : V[p] # {}
  /\ \A p \in Programs, f \in Families(V) : G[p][f] \in V[p]
  /\ \A p \in Programs, f, g \in Families(V) : (\A q \in Args(p) : f[q] = g[q]) => G[p][f] = G[p][g]

HasSolution(V, G) == \E f \in Families(V) : \A p \in Programs : f[p] = G[p][f]

LEMMA SyntaxRecursion ==
  ASSUME NEW V, NEW G, Recursion(V, G)
  PROVE  HasSolution(V, G)
<1>. DEFINE Ok(f, n) == \A p \in Programs : Depth[p] < n => f[p] = G[p][f]
            S == {n \in Nat : \E f \in Families(V) : Ok(f, n)}
<1>. USE DEF Recursion, HasSolution
<1>1. 0 \in S
  <2>. DEFINE f == [p \in Programs |-> CHOOSE x : x \in V[p]]
  <2>1. \A p \in Programs : f[p] \in V[p]
    OBVIOUS
  <2>2. f \in Families(V)
    <3>1. f = [p \in Programs |-> f[p]]
      OBVIOUS
    <3>. HIDE DEF f
    <3>. QED
      BY <2>1, <3>1 DEF Families
  <2>3. Ok(f, 0)
    BY DepthAssumption
  <2>. QED
    BY <2>2, <2>3
<1>2. ASSUME NEW n \in Nat, n \in S PROVE n + 1 \in S
  <2>1. PICK f \in Families(V) : Ok(f, n)
    BY <1>2
  <2>. DEFINE g == [p \in Programs |-> IF Depth[p] < n THEN f[p] ELSE G[p][f]]
  <2>2. \A p \in Programs : g[p] = G[p][f]
    BY <2>1
  <2>3. g \in Families(V)
    <3>1. \A p \in Programs : g[p] \in V[p]
      BY <2>2
    <3>2. g = [p \in Programs |-> g[p]]
      OBVIOUS
    <3>. HIDE DEF g
    <3>. QED
      BY <3>1, <3>2 DEF Families
  <2>4. ASSUME NEW p \in Programs, Depth[p] < n + 1 PROVE g[p] = G[p][g]
    <3>1. \A q \in Args(p) : g[q] = f[q]
      <4>. TAKE q \in Args(p)
      <4>1. q \in Programs /\ Depth[q] < n
        BY <2>4, ArgsSmaller
      <4>. QED
        BY <4>1
    <3>2. G[p][g] = G[p][f]
      <4>. HIDE DEF g
      <4>. QED
        BY <2>3, <3>1
    <3>. QED
      BY <2>2, <3>2
  <2>5. Ok(g, n + 1)
    <3>. HIDE DEF g
    <3>. QED
      BY <2>4
  <2>. QED
    BY <2>3, <2>5
<1>3. Nat \subseteq S
  <2>. HIDE DEF S
  <2>. QED
    BY <1>1, <1>2, SetInduction
<1>4. PICK b \in Nat : \A p \in Programs : Depth[p] < b
  BY DepthBound
<1>5. PICK f \in Families(V) : Ok(f, b)
  BY <1>3
<1>. QED
  BY <1>4, <1>5

-----------------------------------------------------------------------------
(* The semantics on the syntax has the values that its equations say.       *)

LEMMA FinalEquationType ==
  ASSUME NEW f \in [Programs -> SUBSET States], NEW p \in Programs
  PROVE  FinalEquation(f, p) \in SUBSET States
<1>1. Kind(p) = "test" => Sat[p[2]] \subseteq States
  BY SyntaxAssumption, GuardsAreStateSets
<1>2. IsChoice(p) => \A q \in p[2] : f[q] \subseteq States
  BY SyntaxAssumption
<1>. QED
  BY <1>1, <1>2, SyntaxAssumption DEF FinalEquation, IsSequence, IsChoice

\* The states in which a program may end are a solution of the equations of F.
LEMMA EndingEquation ==
  /\ Golog!Ending \in [Programs -> SUBSET States]
  /\ \A p \in Programs : Golog!Ending[p] = FinalEquation(Golog!Ending, p)
<1>. DEFINE V == [p \in Programs |-> SUBSET States]
            G == [p \in Programs |-> [f \in Families(V) |-> FinalEquation(f, p)]]
            Is(f) == f = [p \in Programs |-> Golog!EndingOf(f, p)]
<1>1. Families(V) = [Programs -> SUBSET States]
  BY DEF Families
<1>2. \A p \in Programs : V[p] # {}
  OBVIOUS
<1>3. \A p \in Programs, f \in Families(V) : G[p][f] \in V[p]
  BY <1>1, FinalEquationType
<1>4. \A p \in Programs, f, g \in Families(V) : (\A q \in Args(p) : f[q] = g[q]) => G[p][f] = G[p][g]
  <2>. TAKE p \in Programs, f \in Families(V), g \in Families(V)
  <2>. HAVE \A q \in Args(p) : f[q] = g[q]
  <2>1. FinalEquation(f, p) = FinalEquation(g, p)
    BY SyntaxAssumption DEF FinalEquation, Args, IsSequence, IsChoice
  <2>. QED
    BY <2>1
<1>5. PICK f \in Families(V) : \A p \in Programs : f[p] = G[p][f]
  <2>1. Recursion(V, G)
    <3>. HIDE DEF V, G
    <3>. QED
      BY <1>2, <1>3, <1>4 DEF Recursion
  <2>2. HasSolution(V, G)
    <3>. HIDE DEF V, G
    <3>. QED
      BY <2>1, SyntaxRecursion
  <2>. QED
    BY <2>2 DEF HasSolution
<1>6. ASSUME NEW g \in [Programs -> SUBSET States], NEW p \in Programs
      PROVE  Golog!EndingOf(g, p) = FinalEquation(g, p)
  BY SyntaxAssumption DEF FinalEquation, Args, Kind, IsSequence, IsChoice, IsIteration,
     Golog!EndingOf, Golog!Args, Golog!Kind, Golog!IsSequence, Golog!IsChoice, Golog!IsIteration
<1>7. Is(f)
  <2>1. \A p \in Programs : f[p] = Golog!EndingOf(f, p)
    BY <1>1, <1>5, <1>6
  <2>2. f = [p \in Programs |-> f[p]]
    BY <1>1
  <2>. QED
    BY <2>1, <2>2
<1>8. Golog!Ending = CHOOSE g : Is(g)
  BY DEF Golog!Ending
<1>9. Is(Golog!Ending)
  <2>. HIDE DEF Is
  <2>. QED
    BY <1>7, <1>8, Zenon
<1>. DEFINE E == Golog!Ending
<1>10. E = [p \in Programs |-> Golog!EndingOf(E, p)]
  BY <1>9
<1>. HIDE DEF E
<1>11. E \in [Programs -> SUBSET States]
  <2>. DEFINE S == {p \in Programs : E[p] \subseteq States}
  <2>1. ASSUME NEW p \in Programs, Args(p) \subseteq S PROVE p \in S
    <3>1. E[p] = Golog!EndingOf(E, p)
      BY <1>10
    <3>2. Kind(p) = "test" => Sat[p[2]] \subseteq States
      BY SyntaxAssumption, GuardsAreStateSets
    <3>3. Golog!EndingOf(E, p) \subseteq States
      BY <2>1, <3>2, SyntaxAssumption DEF Args, Kind, IsSequence, IsChoice, IsIteration,
         Golog!EndingOf, Golog!Args, Golog!Kind, Golog!IsSequence, Golog!IsChoice, Golog!IsIteration
    <3>. QED
      BY <3>1, <3>3
  <2>2. Programs \subseteq S
    <3>. HIDE DEF S
    <3>. QED
      BY <2>1, SyntaxInduction
  <2>3. E = [p \in Programs |-> E[p]]
    BY <1>10
  <2>. QED
    BY <2>2, <2>3
<1>. QED
  BY <1>6, <1>10, <1>11 DEF E

\* The moves that can remain of p at all.
MoveType(p) == {Golog!Move(a, s, q) : a \in ActionNames, s \in States, q \in Succs[p]}

\* The reference speaks of the same programs.
LEMMA SameSyntax ==
  /\ Golog!Nil = Nil
  /\ \A args : Golog!Sequence(args) = Sequence(args)
  /\ \A args, i, q : Golog!Rest(args, i, q) = Rest(args, i, q)
  /\ \A p : Golog!Kind(p) = Kind(p) /\ Golog!Args(p) = Args(p)
  /\ \A p : (Golog!IsSequence(p) <=> IsSequence(p)) /\ (Golog!IsChoice(p) <=> IsChoice(p))
            /\ (Golog!IsIteration(p) <=> IsIteration(p))
BY DEF Nil, Sequence, Rest, Kind, Args, IsSequence, IsChoice, IsIteration, Golog!Nil, Golog!Sequence, Golog!Rest,
   Golog!Kind, Golog!Args, Golog!IsSequence, Golog!IsChoice, Golog!IsIteration

SequenceMoves(T, p, i) ==
  {Golog!Move(m.act, m.state, Rest(p[2], i, m.rest)) :
     m \in {n \in T[p[2][i]] : \A k \in 1 .. i - 1 : Golog!MayEnd(p[2][k], n.state)}}

IterationMoves(T, p) == {Golog!Move(m.act, m.state, Sequence(<<m.rest, p>>)) : m \in T[p[2]]}

LEMMA MovesOfCases ==
  ASSUME NEW T, NEW p \in Programs
  PROVE  /\ Kind(p) = "action" => Golog!MovesOf(T, p) = {Golog!Move(p[2], s, Nil) : s \in Pre[p[2]]}
         /\ IsSequence(p) => Golog!MovesOf(T, p) = UNION {SequenceMoves(T, p, i) : i \in DOMAIN p[2]}
         /\ IsChoice(p) => Golog!MovesOf(T, p) = UNION {T[q] : q \in p[2]}
         /\ IsIteration(p) => Golog!MovesOf(T, p) = IterationMoves(T, p)
         /\ Kind(p) \in {"nil", "test"} => Golog!MovesOf(T, p) = {}
<1>. USE SameSyntax DEF Golog!MovesOf
<1>1. CASE Kind(p) = "action"
  BY <1>1 DEF IsSequence, IsChoice, IsIteration
<1>2. CASE IsSequence(p)
  BY <1>2 DEF IsSequence, IsChoice, IsIteration, SequenceMoves
<1>3. CASE IsChoice(p)
  BY <1>3 DEF IsSequence, IsChoice, IsIteration, Args
<1>4. CASE IsIteration(p)
  BY <1>4 DEF IsSequence, IsChoice, IsIteration, IterationMoves
<1>5. CASE Kind(p) \in {"nil", "test"}
  BY <1>5 DEF IsSequence, IsChoice, IsIteration
<1>. QED
  BY <1>1, <1>2, <1>3, <1>4, <1>5, SyntaxAssumption DEF IsSequence, IsChoice, IsIteration

LEMMA ArgsOf ==
  ASSUME NEW p
  PROVE  /\ IsSequence(p) => Args(p) = {p[2][i] : i \in DOMAIN p[2]}
         /\ IsChoice(p) => Args(p) = p[2]
         /\ IsIteration(p) => Args(p) = {p[2]}
BY DEF Args, IsSequence, IsChoice, IsIteration

LEMMA MoveFields ==
  \A a, s, q : LET m == Golog!Move(a, s, q) IN m.act = a /\ m.state = s /\ m.rest = q
BY DEF Golog!Move

LEMMA ElementOfMoveType ==
  ASSUME NEW p, NEW m
  PROVE  m \in MoveType(p) <=> /\ m.act \in ActionNames /\ m.state \in States /\ m.rest \in Succs[p]
                               /\ m = Golog!Move(m.act, m.state, m.rest)
<1>1. ASSUME m \in MoveType(p)
      PROVE  /\ m.act \in ActionNames /\ m.state \in States /\ m.rest \in Succs[p]
             /\ m = Golog!Move(m.act, m.state, m.rest)
  <2>1. PICK a \in ActionNames, s \in States, q \in Succs[p] : m = Golog!Move(a, s, q)
    BY <1>1 DEF MoveType
  <2>. QED
    BY <2>1, MoveFields
<1>. QED
  BY <1>1 DEF MoveType

LEMMA MovesOfType ==
  ASSUME NEW T, NEW p \in Programs, \A q \in Args(p) : T[q] \subseteq MoveType(q)
  PROVE  Golog!MovesOf(T, p) \subseteq MoveType(p)
<1>. SUFFICES ASSUME NEW m \in Golog!MovesOf(T, p) PROVE m \in MoveType(p)
  OBVIOUS
<1>1. CASE Kind(p) = "action"
  <2>1. PICK s \in Pre[p[2]] : m = Golog!Move(p[2], s, Nil)
    BY <1>1, MovesOfCases
  <2>2. p[2] \in ActionNames /\ s \in States /\ Nil \in Succs[p]
    BY <1>1, SyntaxAssumption, SuccsAssumption, GuardsAreStateSets
  <2>. QED
    BY <2>1, <2>2 DEF MoveType
<1>2. CASE IsSequence(p)
  <2>1. PICK i \in DOMAIN p[2] : m \in SequenceMoves(T, p, i)
    BY <1>2, MovesOfCases
  <2>2. PICK n \in T[p[2][i]] : m = Golog!Move(n.act, n.state, Rest(p[2], i, n.rest))
    BY <2>1 DEF SequenceMoves
  <2>3. p[2][i] \in Args(p)
    BY <1>2, ArgsOf
  <2>4. n.act \in ActionNames /\ n.state \in States /\ n.rest \in Succs[p[2][i]]
    BY <2>2, <2>3, ElementOfMoveType
  <2>5. Rest(p[2], i, n.rest) \in Succs[p]
    BY <1>2, <2>4, SuccsAssumption
  <2>. QED
    BY <2>2, <2>4, <2>5 DEF MoveType
<1>3. CASE IsChoice(p)
  <2>1. PICK q \in p[2] : m \in T[q]
    BY <1>3, MovesOfCases
  <2>2. q \in Args(p) /\ Succs[q] \subseteq Succs[p]
    BY <1>3, SuccsAssumption, ArgsOf
  <2>. QED
    BY <2>1, <2>2, ElementOfMoveType
<1>4. CASE IsIteration(p)
  <2>1. PICK n \in T[p[2]] : m = Golog!Move(n.act, n.state, Sequence(<<n.rest, p>>))
    BY <1>4, MovesOfCases DEF IterationMoves
  <2>2. p[2] \in Args(p)
    BY <1>4, ArgsOf
  <2>3. n.act \in ActionNames /\ n.state \in States /\ n.rest \in Succs[p[2]]
    BY <2>1, <2>2, ElementOfMoveType
  <2>4. Sequence(<<n.rest, p>>) \in Succs[p]
    BY <1>4, <2>3, SuccsAssumption
  <2>. QED
    BY <2>1, <2>3, <2>4 DEF MoveType
<1>5. CASE Kind(p) \in {"nil", "test"}
  BY <1>5, MovesOfCases
<1>. QED
  BY <1>1, <1>2, <1>3, <1>4, <1>5, SyntaxAssumption DEF IsSequence, IsChoice, IsIteration

LEMMA MovesOfLocal ==
  ASSUME NEW T, NEW U, NEW p \in Programs, \A q \in Args(p) : T[q] = U[q]
  PROVE  Golog!MovesOf(T, p) = Golog!MovesOf(U, p)
<1>1. CASE Kind(p) = "action"
  BY <1>1, MovesOfCases
<1>2. CASE IsSequence(p)
  <2>1. \A i \in DOMAIN p[2] : T[p[2][i]] = U[p[2][i]]
    BY <1>2, ArgsOf
  <2>2. \A i \in DOMAIN p[2] : SequenceMoves(T, p, i) = SequenceMoves(U, p, i)
    BY <2>1 DEF SequenceMoves
  <2>3. UNION {SequenceMoves(T, p, i) : i \in DOMAIN p[2]} = UNION {SequenceMoves(U, p, i) : i \in DOMAIN p[2]}
    BY <2>2
  <2>4. /\ Golog!MovesOf(T, p) = UNION {SequenceMoves(T, p, i) : i \in DOMAIN p[2]}
        /\ Golog!MovesOf(U, p) = UNION {SequenceMoves(U, p, i) : i \in DOMAIN p[2]}
    BY <1>2, MovesOfCases
  <2>. QED
    BY <2>3, <2>4
<1>3. CASE IsChoice(p)
  <2>1. Args(p) = p[2]
    BY <1>3, ArgsOf
  <2>2. UNION {T[q] : q \in p[2]} = UNION {U[q] : q \in p[2]}
    BY <2>1
  <2>3. Golog!MovesOf(T, p) = UNION {T[q] : q \in p[2]} /\ Golog!MovesOf(U, p) = UNION {U[q] : q \in p[2]}
    BY <1>3, MovesOfCases
  <2>. QED
    BY <2>2, <2>3
<1>4. CASE IsIteration(p)
  <2>1. T[p[2]] = U[p[2]]
    BY <1>4, ArgsOf
  <2>. QED
    BY <1>4, <2>1, MovesOfCases DEF IterationMoves
<1>5. CASE Kind(p) \in {"nil", "test"}
  BY <1>5, MovesOfCases
<1>. QED
  BY <1>1, <1>2, <1>3, <1>4, <1>5, SyntaxAssumption DEF IsSequence, IsChoice, IsIteration

\* The moves of a program are the solution of their equations.
LEMMA MovesEquation ==
  \A p \in Programs : Golog!Moves[p] = Golog!MovesOf(Golog!Moves, p)
<1>. DEFINE V == [p \in Programs |-> SUBSET MoveType(p)]
            G == [p \in Programs |-> [f \in Families(V) |-> Golog!MovesOf(f, p)]]
            Is(f) == f = [p \in Programs |-> Golog!MovesOf(f, p)]
<1>1. \A f \in Families(V), q \in Programs : f[q] \subseteq MoveType(q)
  BY DEF Families
<1>2. \A p \in Programs : V[p] # {}
  OBVIOUS
<1>3. \A p \in Programs, f \in Families(V) : G[p][f] \in V[p]
  <2>. TAKE p \in Programs, f \in Families(V)
  <2>1. \A q \in Args(p) : f[q] \subseteq MoveType(q)
    BY <1>1, ArgsSmaller
  <2>2. Golog!MovesOf(f, p) \subseteq MoveType(p)
    BY <2>1, MovesOfType
  <2>. QED
    BY <2>2
<1>4. \A p \in Programs, f, g \in Families(V) : (\A q \in Args(p) : f[q] = g[q]) => G[p][f] = G[p][g]
  <2>. TAKE p \in Programs, f \in Families(V), g \in Families(V)
  <2>. HAVE \A q \in Args(p) : f[q] = g[q]
  <2>1. Golog!MovesOf(f, p) = Golog!MovesOf(g, p)
    BY MovesOfLocal
  <2>. QED
    BY <2>1
<1>5. PICK f \in Families(V) : \A p \in Programs : f[p] = G[p][f]
  <2>1. Recursion(V, G)
    <3>. HIDE DEF V, G
    <3>. QED
      BY <1>2, <1>3, <1>4 DEF Recursion
  <2>2. HasSolution(V, G)
    <3>. HIDE DEF V, G
    <3>. QED
      BY <2>1, SyntaxRecursion
  <2>. QED
    BY <2>2 DEF HasSolution
<1>6. Is(f)
  <2>1. \A p \in Programs : f[p] = Golog!MovesOf(f, p)
    BY <1>5
  <2>2. f = [p \in Programs |-> f[p]]
    BY DEF Families
  <2>. QED
    BY <2>1, <2>2
<1>7. Golog!Moves = CHOOSE g : Is(g)
  BY DEF Golog!Moves
<1>8. Is(Golog!Moves)
  <2>. HIDE DEF Is
  <2>. QED
    BY <1>6, <1>7, Zenon
<1>. DEFINE M == Golog!Moves
<1>9. M = [p \in Programs |-> Golog!MovesOf(M, p)]
  BY <1>8
<1>10. \A p \in Programs : M[p] = Golog!MovesOf(M, p)
  <2>. HIDE DEF M
  <2>. QED
    BY <1>9
<1>. QED
  BY <1>10

-----------------------------------------------------------------------------
(* T and F are the semantics of the programs that have their values.       *)

\* The moves that T has for p.
MovesIn(p) == UNION {{Golog!Move(t.act, s, t.succ) : s \in t.guard} : t \in TransOf(trans, p)}

LEMMA ElementOfMovesIn ==
  ASSUME NEW p, NEW m
  PROVE  m \in MovesIn(p) <=> \E t \in TransOf(trans, p) : \E s \in t.guard : m = Golog!Move(t.act, s, t.succ)
BY DEF MovesIn

\* What holds of p when T and F are the semantics of p.
Meant(p) == final[p] = Golog!Ending[p] /\ Golog!Moves[p] = MovesIn(p)

LEMMA SolvedActionMeant ==
  ASSUME NEW p \in Programs, Solved(p), Kind(p) = "action"
  PROVE  Golog!Moves[p] = MovesIn(p)
<1>1. TransOf(trans, p) = {[prog |-> p, act |-> p[2], guard |-> Pre[p[2]], succ |-> Nil]}
  BY DEF Solved, TransEquation, IsSequence, IsChoice, IsIteration
<1>2. MovesIn(p) = {Golog!Move(p[2], s, Nil) : s \in Pre[p[2]]}
  BY <1>1 DEF MovesIn
<1>. QED
  BY <1>2, MovesEquation, MovesOfCases

LEMMA SolvedSequenceMeant ==
  ASSUME TypeOK, NEW p \in Programs, Solved(p), IsSequence(p), \A q \in Args(p) : Meant(q)
  PROVE  Golog!Moves[p] = MovesIn(p)
<1>1. TransOf(trans, p) = UNION {SequenceEntries(trans, final, p, p[2], i) : i \in DOMAIN p[2]}
  BY DEF Solved, TransEquation, IsSequence, IsChoice, IsIteration
<1>2. Golog!Moves[p] = UNION {SequenceMoves(Golog!Moves, p, i) : i \in DOMAIN p[2]}
  BY MovesEquation, MovesOfCases
<1>3. p[2] \in Seq(Programs)
  BY SyntaxAssumption
<1>4. \A i \in DOMAIN p[2] : Meant(p[2][i])
  BY ArgsOf
<1>5. ASSUME NEW i \in DOMAIN p[2], NEW s \in States
      PROVE  s \in SkippedBefore(final, p[2], i) <=> \A k \in 1 .. i - 1 : Golog!MayEnd(p[2][k], s)
  <2>1. \A k \in 1 .. i - 1 : k \in DOMAIN p[2]
    BY <1>3
  <2>. QED
    BY <1>4, <2>1 DEF SkippedBefore, Meant, Golog!MayEnd
<1>6. ASSUME NEW m \in Golog!Moves[p] PROVE m \in MovesIn(p)
  <2>1. PICK i \in DOMAIN p[2] : m \in SequenceMoves(Golog!Moves, p, i)
    BY <1>2, <1>6
  <2>2. PICK n \in Golog!Moves[p[2][i]] : /\ \A k \in 1 .. i - 1 : Golog!MayEnd(p[2][k], n.state)
                                         /\ m = Golog!Move(n.act, n.state, Rest(p[2], i, n.rest))
    BY <2>1 DEF SequenceMoves
  <2>3. PICK t, s : t \in TransOf(trans, p[2][i]) /\ s \in t.guard /\ n = Golog!Move(t.act, s, t.succ)
    <3>1. n \in MovesIn(p[2][i])
      BY <1>4, <2>2 DEF Meant
    <3>2. \E t \in TransOf(trans, p[2][i]) : \E s \in t.guard : n = Golog!Move(t.act, s, t.succ)
      BY <3>1, ElementOfMovesIn
    <3>. QED
      BY <3>2
  <2>4. n.act = t.act /\ n.state = s /\ n.rest = t.succ
    BY <2>3, MoveFields
  <2>5. s \in States
    BY <2>3 DEF TransOf, TypeOK, Entry
  <2>6. s \in SkippedBefore(final, p[2], i) \cap t.guard
    BY <1>5, <2>2, <2>3, <2>4, <2>5
  <2>. DEFINE u == [prog |-> p, act |-> t.act, guard |-> SkippedBefore(final, p[2], i) \cap t.guard,
                    succ |-> Rest(p[2], i, t.succ)]
  <2>7. u \in SequenceEntries(trans, final, p, p[2], i)
    BY <2>3, <2>6 DEF SequenceEntries
  <2>8. u \in TransOf(trans, p)
    BY <1>1, <2>7
  <2>9. m = Golog!Move(u.act, s, u.succ) /\ s \in u.guard
    BY <2>2, <2>4, <2>6
  <2>. HIDE DEF u
  <2>. QED
    BY <2>8, <2>9, ElementOfMovesIn
<1>7. ASSUME NEW m \in MovesIn(p) PROVE m \in Golog!Moves[p]
  <2>1. PICK u, s : u \in TransOf(trans, p) /\ s \in u.guard /\ m = Golog!Move(u.act, s, u.succ)
    <3>1. \E u \in TransOf(trans, p) : \E s \in u.guard : m = Golog!Move(u.act, s, u.succ)
      BY <1>7, ElementOfMovesIn
    <3>. QED
      BY <3>1
  <2>2. PICK i \in DOMAIN p[2] : u \in SequenceEntries(trans, final, p, p[2], i)
    BY <1>1, <2>1
  <2>3. PICK t \in TransOf(trans, p[2][i]) :
          u = [prog |-> p, act |-> t.act, guard |-> SkippedBefore(final, p[2], i) \cap t.guard,
               succ |-> Rest(p[2], i, t.succ)]
    BY <2>2 DEF SequenceEntries
  <2>4. s \in SkippedBefore(final, p[2], i) /\ s \in t.guard /\ u.act = t.act /\ u.succ = Rest(p[2], i, t.succ)
    BY <2>1, <2>3
  <2>5. s \in States
    BY <2>4 DEF SkippedBefore
  <2>. DEFINE n == Golog!Move(t.act, s, t.succ)
  <2>6. n \in Golog!Moves[p[2][i]]
    <3>1. n \in MovesIn(p[2][i])
      BY <2>3, <2>4, ElementOfMovesIn
    <3>. QED
      BY <1>4, <3>1 DEF Meant
  <2>7. n.act = t.act /\ n.state = s /\ n.rest = t.succ
    BY MoveFields
  <2>. HIDE DEF n
  <2>8. \A k \in 1 .. i - 1 : Golog!MayEnd(p[2][k], n.state)
    BY <1>5, <2>4, <2>5, <2>7
  <2>9. m = Golog!Move(n.act, n.state, Rest(p[2], i, n.rest))
    BY <2>1, <2>4, <2>7
  <2>10. m \in SequenceMoves(Golog!Moves, p, i)
    BY <2>6, <2>8, <2>9 DEF SequenceMoves
  <2>. QED
    BY <1>2, <2>10
<1>. QED
  BY <1>6, <1>7

LEMMA SolvedChoiceMeant ==
  ASSUME TypeOK, NEW p \in Programs, Solved(p), IsChoice(p), \A q \in Args(p) : Meant(q)
  PROVE  Golog!Moves[p] = MovesIn(p)
<1>1. TransOf(trans, p) = UNION {ChoiceEntries(trans, p, q) : q \in p[2]}
  BY DEF Solved, TransEquation, IsSequence, IsChoice, IsIteration
<1>2. Golog!Moves[p] = UNION {Golog!Moves[q] : q \in p[2]}
  BY MovesEquation, MovesOfCases
<1>3. \A q \in p[2] : Golog!Moves[q] = MovesIn(q)
  BY ArgsOf DEF Meant
<1>4. ASSUME NEW m \in Golog!Moves[p] PROVE m \in MovesIn(p)
  <2>1. PICK q \in p[2] : m \in MovesIn(q)
    BY <1>2, <1>3, <1>4
  <2>2. PICK t, s : t \in TransOf(trans, q) /\ s \in t.guard /\ m = Golog!Move(t.act, s, t.succ)
    <3>1. \E t \in TransOf(trans, q) : \E s \in t.guard : m = Golog!Move(t.act, s, t.succ)
      BY <2>1, ElementOfMovesIn
    <3>. QED
      BY <3>1
  <2>. DEFINE u == [t EXCEPT !.prog = p]
  <2>3. u \in TransOf(trans, p)
    BY <1>1, <2>2 DEF ChoiceEntries
  <2>4. u.act = t.act /\ u.guard = t.guard /\ u.succ = t.succ
    BY <2>2 DEF TransOf, TypeOK, Entry
  <2>. HIDE DEF u
  <2>. QED
    BY <2>2, <2>3, <2>4, ElementOfMovesIn
<1>5. ASSUME NEW m \in MovesIn(p) PROVE m \in Golog!Moves[p]
  <2>1. PICK u, s : u \in TransOf(trans, p) /\ s \in u.guard /\ m = Golog!Move(u.act, s, u.succ)
    <3>1. \E u \in TransOf(trans, p) : \E s \in u.guard : m = Golog!Move(u.act, s, u.succ)
      BY <1>5, ElementOfMovesIn
    <3>. QED
      BY <3>1
  <2>2. PICK q \in p[2] : u \in ChoiceEntries(trans, p, q)
    BY <1>1, <2>1
  <2>3. PICK t \in TransOf(trans, q) : u = [t EXCEPT !.prog = p]
    BY <2>2 DEF ChoiceEntries
  <2>4. u.act = t.act /\ u.guard = t.guard /\ u.succ = t.succ
    BY <2>3 DEF TransOf, TypeOK, Entry
  <2>5. m \in MovesIn(q)
    BY <2>1, <2>3, <2>4, ElementOfMovesIn
  <2>. QED
    BY <1>2, <1>3, <2>5
<1>. QED
  BY <1>4, <1>5

LEMMA SolvedIterationMeant ==
  ASSUME TypeOK, NEW p \in Programs, Solved(p), IsIteration(p), \A q \in Args(p) : Meant(q)
  PROVE  Golog!Moves[p] = MovesIn(p)
<1>1. TransOf(trans, p) = IterationEntries(trans, p)
  BY DEF Solved, TransEquation, IsSequence, IsChoice, IsIteration
<1>2. Golog!Moves[p] = IterationMoves(Golog!Moves, p)
  BY MovesEquation, MovesOfCases
<1>3. Golog!Moves[p[2]] = MovesIn(p[2])
  BY ArgsOf DEF Meant
<1>4. ASSUME NEW m \in Golog!Moves[p] PROVE m \in MovesIn(p)
  <2>1. PICK n \in MovesIn(p[2]) : m = Golog!Move(n.act, n.state, Sequence(<<n.rest, p>>))
    BY <1>2, <1>3, <1>4 DEF IterationMoves
  <2>2. PICK t, s : t \in TransOf(trans, p[2]) /\ s \in t.guard /\ n = Golog!Move(t.act, s, t.succ)
    <3>1. \E t \in TransOf(trans, p[2]) : \E s \in t.guard : n = Golog!Move(t.act, s, t.succ)
      BY <2>1, ElementOfMovesIn
    <3>. QED
      BY <3>1
  <2>3. n.act = t.act /\ n.state = s /\ n.rest = t.succ
    BY <2>2, MoveFields
  <2>. DEFINE u == [prog |-> p, act |-> t.act, guard |-> t.guard, succ |-> Sequence(<<t.succ, p>>)]
  <2>4. u \in TransOf(trans, p)
    BY <1>1, <2>2 DEF IterationEntries
  <2>5. m = Golog!Move(u.act, s, u.succ) /\ s \in u.guard
    BY <2>1, <2>2, <2>3
  <2>. HIDE DEF u
  <2>. QED
    BY <2>4, <2>5, ElementOfMovesIn
<1>5. ASSUME NEW m \in MovesIn(p) PROVE m \in Golog!Moves[p]
  <2>1. PICK u, s : u \in TransOf(trans, p) /\ s \in u.guard /\ m = Golog!Move(u.act, s, u.succ)
    <3>1. \E u \in TransOf(trans, p) : \E s \in u.guard : m = Golog!Move(u.act, s, u.succ)
      BY <1>5, ElementOfMovesIn
    <3>. QED
      BY <3>1
  <2>2. PICK t \in TransOf(trans, p[2]) :
          u = [prog |-> p, act |-> t.act, guard |-> t.guard, succ |-> Sequence(<<t.succ, p>>)]
    BY <1>1, <2>1 DEF IterationEntries
  <2>3. s \in t.guard /\ u.act = t.act /\ u.succ = Sequence(<<t.succ, p>>)
    BY <2>1, <2>2
  <2>. DEFINE n == Golog!Move(t.act, s, t.succ)
  <2>4. n \in MovesIn(p[2])
    BY <2>2, <2>3, ElementOfMovesIn
  <2>5. n.act = t.act /\ n.state = s /\ n.rest = t.succ
    BY MoveFields
  <2>. HIDE DEF n
  <2>6. m = Golog!Move(n.act, n.state, Sequence(<<n.rest, p>>))
    BY <2>1, <2>3, <2>5
  <2>. QED
    BY <1>2, <1>3, <2>4, <2>6 DEF IterationMoves
<1>. QED
  BY <1>4, <1>5

\* T and F of a program with values are its moves and the states it may end in.
LEMMA TablesAreMeant ==
  ASSUME TypeOK, DoneIsSolved
  PROVE  \A p \in DOMAIN final : Meant(p)
<1>. DEFINE S == {p \in Programs : p \in DOMAIN final => Meant(p)}
<1>1. ASSUME NEW p \in Programs, Args(p) \subseteq S PROVE p \in S
  <2>. SUFFICES ASSUME p \in DOMAIN final PROVE Meant(p)
    OBVIOUS
  <2>1. Solved(p)
    BY DEF DoneIsSolved
  <2>2. \A q \in Args(p) : Meant(q)
    BY <1>1, <2>1 DEF Solved
  <2>3. final[p] = Golog!Ending[p]
    <3>1. final[p] = FinalEquation(final, p)
      BY <2>1 DEF Solved
    <3>2. FinalEquation(final, p) = FinalEquation(Golog!Ending, p)
      <4>1. \A q \in Args(p) : final[q] = Golog!Ending[q]
        BY <2>2 DEF Meant
      <4>. HIDE DEF S
      <4>. QED
        BY <4>1, ArgsOf, SyntaxAssumption DEF FinalEquation
    <3>. QED
      BY <3>1, <3>2, EndingEquation
  <2>4. Golog!Moves[p] = MovesIn(p)
    <3>1. CASE Kind(p) \in {"nil", "test"}
      <4>1. TransOf(trans, p) = {}
        BY <2>1, <3>1 DEF Solved, TransEquation, IsSequence, IsChoice, IsIteration
      <4>2. MovesIn(p) = {}
        BY <4>1 DEF MovesIn
      <4>. QED
        BY <3>1, <4>2, MovesEquation, MovesOfCases
    <3>. QED
      BY <2>1, <2>2, <3>1, SolvedActionMeant, SolvedSequenceMeant, SolvedChoiceMeant, SolvedIterationMeant, SyntaxAssumption
         DEF IsSequence, IsChoice, IsIteration
  <2>. QED
    BY <2>3, <2>4 DEF Meant
<1>2. Programs \subseteq S
  <2>. HIDE DEF S
  <2>. QED
    BY <1>1, SyntaxInduction
<1>. QED
  BY <1>2 DEF TypeOK

-----------------------------------------------------------------------------
(* The inductive invariant of the graph, beside that of T, F and C.        *)

\* The search has passed no program by: what it has met is expanded or waits,
\* and what it has expanded leads to programs that it has met.
SearchCovers ==
  /\ stage = "tfc" => explored = {}
  /\ stage = "reach" =>
       /\ root \in reachable
       /\ frontier \in Seq(reachable)
       /\ \A p \in reachable : p \in explored \/ \E i \in DOMAIN frontier : frontier[i] = p
       /\ \A t \in trans : t.prog \in explored => t.succ \in reachable

Numbered == stage \in {"sum", "encode", "play"}

\* The reachable programs are closed under T and have numbers of their own; every
\* other program that has a number has that of the sink.
NumbersFit ==
  Numbered =>
    /\ root \in reachable
    /\ \A t \in trans : t.prog \in reachable => t.succ \in reachable
    /\ reachable \subseteq DOMAIN programId
    /\ \A p \in DOMAIN programId \ reachable : programId[p] = 0
    /\ \A p \in reachable : programId[p] \in 1 .. Cardinality(reachable)
    /\ \A p, q \in reachable : programId[p] = programId[q] => p = q

\* The entries that the sum has met and that apply to p under input v.
Met(p, v) == {t \in trans \ pending : t.prog = p /\ t.act = v[2] /\ v[1] \in t.guard}

\* What has been added up for a program is the number of the successor if one
\* entry applies, and that of the sink if none does; nothing leaves the sink.
SumsAreSuccessors ==
  Numbered =>
    /\ pending \subseteq trans
    /\ stage # "sum" => pending = {}
    /\ delta \in [0 .. Cardinality(reachable) -> [Inputs -> Nat]]
    /\ \A v \in Inputs : delta[0][v] = 0
    /\ \A p \in reachable, v \in Inputs :
         /\ Met(p, v) = {} => delta[programId[p]][v] = 0
         /\ Deterministic => \A t \in Met(p, v) : delta[programId[p]][v] = programId[t.succ]

\* The bits counted so far and those to come are enough for every number.
CodesSuffice ==
  /\ maxState \in Nat /\ codes \in Nat \ {0}
  /\ stage \in {"tfc", "reach", "sum"} => codes = 1
  /\ stage = "encode" => Cardinality(reachable) < codes * (maxState + 1)
  /\ stage = "play" => Cardinality(reachable) < codes

\* The automaton is in the state of a program or in the sink.
CodeIsProgram ==
  stage = "play" /\ Deterministic => code = 0 \/ \E p \in reachable : programId[p] = code

GraphInv ==
  /\ stage \in {"tfc", "reach", "sum", "encode", "play"}
  /\ stage # "tfc" => outcome = "done" /\ reachable \subseteq DOMAIN final
  /\ fluents \in States
  /\ SearchCovers
  /\ NumbersFit
  /\ SumsAreSuccessors
  /\ CodesSuffice
  /\ CodeIsProgram

-----------------------------------------------------------------------------
(* Every step keeps the invariant.                                         *)

\* While the graph is built and played, T, F and C are those of the construction.
LEMMA TablesStep ==
  ASSUME IInv, [PGNext]_<<tfcVars, pgVars>>
  PROVE  IInv' /\ root' = root /\ (stage # "tfc" => UNCHANGED tfcVars)
<1>1. ComputeTFC \/ UNCHANGED tfcVars
  BY DEF PGNext, Construct, StartReach, Expand, AssignIds, Number, SumEntry, StartEncoding, AddBit, StartPlay, Play,
     tfcVars
<1>2. IInv'
  BY <1>1, InductiveStep DEF ComputeTFC
<1>3. Next => root' = root
  BY DEF Next, Pop, Finish, VisitLeaf, VisitNil, VisitUnd, VisitAction, VisitUnknownAction, VisitTest, ReturnLeaf,
     VisitArg, UseMissingFinal, CombineArg, SequenceArg, ChoiceArg, IterationArg, Return
<1>. QED
  BY <1>1, <1>2, <1>3 DEF ComputeTFC, tfcVars

LEMMA GraphInit == PGInit => GraphInv
BY DEF PGInit, GraphInv, SearchCovers, NumbersFit, Numbered, SumsAreSuccessors, CodesSuffice, CodeIsProgram

LEMMA ComputeTFCStep == GraphInv /\ ComputeTFC => GraphInv'
<1>. SUFFICES ASSUME GraphInv, ComputeTFC PROVE GraphInv'
  OBVIOUS
<1>1. stage = "tfc" /\ UNCHANGED pgVars
  BY DEF ComputeTFC
<1>. QED
  BY <1>1 DEF GraphInv, SearchCovers, NumbersFit, Numbered, SumsAreSuccessors, CodesSuffice, CodeIsProgram,
     pgVars, graphVars, playVars

LEMMA StartReachStep == IInv /\ GraphInv /\ StartReach => GraphInv'
<1>. SUFFICES ASSUME IInv, GraphInv, StartReach PROVE GraphInv'
  OBVIOUS
<1>1. /\ stage = "tfc" /\ stage' = "reach" /\ outcome = "done" /\ frontier' = <<root>> /\ reachable' = {root}
      /\ UNCHANGED <<explored, programId, pending, delta, maxState, codes, code, fluents>>
      /\ UNCHANGED <<root, trans, final, outcome>>
  BY DEF StartReach, tfcVars, playVars
<1>2. root \in DOMAIN final
  BY <1>1, DoneIsComplete DEF ResultIsComplete
<1>3. SearchCovers'
  <2>1. <<root>> \in Seq({root}) /\ DOMAIN <<root>> = {1} /\ <<root>>[1] = root
    OBVIOUS
  <2>2. explored' = {}
    BY <1>1 DEF GraphInv, SearchCovers
  <2>. QED
    BY <1>1, <2>1, <2>2 DEF SearchCovers
<1>. QED
  BY <1>1, <1>2, <1>3 DEF GraphInv, NumbersFit, Numbered, SumsAreSuccessors, CodesSuffice, CodeIsProgram

\* T is finite.
LEMMA EntriesFinite == TypeOK => IsFiniteSet(trans)
<1>. SUFFICES ASSUME TypeOK PROVE IsFiniteSet(trans)
  OBVIOUS
<1>. DEFINE X == Programs \X ActionNames
            Y == (SUBSET States) \X Programs
            f == [z \in X \X Y |-> [prog |-> z[1][1], act |-> z[1][2], guard |-> z[2][1], succ |-> z[2][2]]]
<1>1. IsFiniteSet(X) /\ IsFiniteSet(Y)
  BY FS_Product, FS_SUBSET, SpaceAssumption, FiniteAssumption
<1>2. IsFiniteSet(X \X Y)
  <2>. HIDE DEF X, Y
  <2>. QED
    BY <1>1, FS_Product
<1>3. f \in Surjection(X \X Y, Entry)
  <2>1. \A z \in X \X Y : f[z] \in Entry
    BY DEF Entry
  <2>2. ASSUME NEW t \in Entry PROVE \E z \in X \X Y : f[z] = t
    <3>. DEFINE z == <<<<t.prog, t.act>>, <<t.guard, t.succ>>>>
    <3>1. z \in X \X Y /\ f[z] = t
      BY DEF Entry
    <3>. QED
      BY <3>1
  <2>3. f = [z \in X \X Y |-> f[z]]
    OBVIOUS
  <2>. HIDE DEF f
  <2>. QED
    BY <2>1, <2>2, <2>3 DEF Surjection
<1>4. IsFiniteSet(Entry)
  <2>. HIDE DEF f, X, Y
  <2>. QED
    BY <1>2, <1>3, FS_Surjection
<1>. QED
  BY <1>4, FS_Subset DEF TypeOK

\* The programs that an expansion puts at the end of the frontier.
LEMMA OrderedSuccessors ==
  ASSUME TypeOK, NEW S \in SUBSET trans, NEW order \in Orders(S)
  PROVE  LET succs == [i \in DOMAIN order |-> order[i].succ]
         IN  /\ succs \in Seq({t.succ : t \in S})
             /\ \A t \in S : \E i \in DOMAIN succs : succs[i] = t.succ
<1>1. Cardinality(S) \in Nat
  BY EntriesFinite, FS_Subset, FS_CardinalityType
<1>2. order \in [1 .. Cardinality(S) -> S] /\ \A t \in S : \E i \in DOMAIN order : order[i] = t
  BY DEF Orders
<1>. DEFINE succs == [i \in DOMAIN order |-> order[i].succ]
<1>3. succs \in Seq({t.succ : t \in S})
  BY <1>1, <1>2
<1>4. \A t \in S : \E i \in DOMAIN succs : succs[i] = t.succ
  BY <1>2
<1>. QED
  BY <1>3, <1>4

LEMMA ExpandStep == IInv /\ GraphInv /\ Expand => GraphInv'
<1>. SUFFICES ASSUME IInv, GraphInv, Expand PROVE GraphInv'
  OBVIOUS
<1>. DEFINE curr == Head(frontier)
            S == Unexplored(curr)
<1>1. /\ stage = "reach" /\ frontier # <<>> /\ stage' = "reach"
      /\ explored' = explored \cup {curr}
      /\ reachable' = reachable \cup {t.succ : t \in TransOf(trans, curr)}
      /\ UNCHANGED <<programId, pending, delta, maxState, codes, code, fluents>>
      /\ UNCHANGED <<root, trans, final, outcome>>
  BY DEF Expand, tfcVars, playVars
<1>2. PICK order \in Orders(S) : frontier' = Tail(frontier) \o [i \in DOMAIN order |-> order[i].succ]
  BY DEF Expand
<1>. DEFINE succs == [i \in DOMAIN order |-> order[i].succ]
<1>3. /\ frontier \in Seq(reachable)
      /\ \A p \in reachable : p \in explored \/ \E i \in DOMAIN frontier : frontier[i] = p
      /\ \A t \in trans : t.prog \in explored => t.succ \in reachable
  BY <1>1 DEF GraphInv, SearchCovers
<1>4. S \subseteq trans /\ \A t \in S : t.succ \in reachable'
  BY <1>1 DEF Unexplored, TransOf
<1>5. succs \in Seq({t.succ : t \in S}) /\ \A t \in S : \E i \in DOMAIN succs : succs[i] = t.succ
  <2>1. TypeOK
    BY DEF IInv
  <2>. HIDE DEF S
  <2>. QED
    BY <1>4, <2>1, OrderedSuccessors
<1>6. reachable' \subseteq DOMAIN final
  BY <1>1, DoneIsComplete DEF GraphInv, ResultIsComplete, TransOf
<1>. HIDE DEF succs, S
<1>7. succs \in Seq(reachable')
  BY <1>4, <1>5
<1>8. Tail(frontier) \in Seq(reachable')
  BY <1>1, <1>3, TailProperties
<1>9. /\ frontier' \in Seq(reachable')
      /\ Len(frontier') = Len(frontier) - 1 + Len(succs)
      /\ \A i \in 1 .. Len(frontier) - 1 : frontier'[i] = frontier[i + 1]
      /\ \A i \in 1 .. Len(succs) : frontier'[i + (Len(frontier) - 1)] = succs[i]
  <2>1. Len(Tail(frontier)) = Len(frontier) - 1 /\ \A i \in 1 .. Len(frontier) - 1 : Tail(frontier)[i] = frontier[i + 1]
    BY <1>1, <1>3, TailProperties
  <2>2. frontier' = Tail(frontier) \o succs
    BY <1>2 DEF succs
  <2>3. \A i \in 1 .. Len(Tail(frontier)) : frontier'[i] = Tail(frontier)[i]
    BY <1>7, <1>8, <2>2, AppendedElements
  <2>. QED
    BY <1>7, <1>8, <2>1, <2>2, <2>3, AppendedElements
<1>10. ASSUME NEW p \in reachable' PROVE p \in explored' \/ \E i \in DOMAIN frontier' : frontier'[i] = p
  <2>1. CASE p \in reachable /\ p \notin explored'
    <3>1. PICK i \in DOMAIN frontier : frontier[i] = p
      BY <1>1, <1>3, <2>1
    <3>2. i # 1
      BY <1>1, <1>3, <2>1, <3>1, TailProperties
    <3>3. i - 1 \in 1 .. Len(frontier) - 1 /\ i = (i - 1) + 1
      BY <1>3, <3>2
    <3>4. i - 1 \in DOMAIN frontier'
      BY <1>3, <1>7, <1>9, <3>3
    <3>. QED
      BY <1>9, <3>1, <3>3, <3>4
  <2>2. CASE p \notin reachable /\ p \notin explored'
    <3>1. PICK t \in TransOf(trans, curr) : p = t.succ
      BY <1>1, <2>2
    <3>2. t \in S
      BY <1>1, <2>2, <3>1 DEF S, Unexplored
    <3>3. PICK i \in DOMAIN succs : succs[i] = p
      BY <1>5, <3>1, <3>2
    <3>4. i \in 1 .. Len(succs) /\ i + (Len(frontier) - 1) \in DOMAIN frontier'
      BY <1>1, <1>3, <1>7, <1>9, <3>3, TailProperties
    <3>. QED
      BY <1>9, <3>3, <3>4
  <2>. QED
    BY <2>1, <2>2
<1>11. \A t \in trans' : t.prog \in explored' => t.succ \in reachable'
  BY <1>1, <1>3 DEF TransOf
<1>12. SearchCovers'
  BY <1>1, <1>9, <1>10, <1>11 DEF SearchCovers, GraphInv
<1>. QED
  BY <1>1, <1>6, <1>12 DEF GraphInv, NumbersFit, Numbered, SumsAreSuccessors, CodesSuffice, CodeIsProgram

LEMMA AssignIdsStep == IInv /\ GraphInv /\ AssignIds => GraphInv'
<1>. SUFFICES ASSUME IInv, GraphInv, AssignIds PROVE GraphInv'
  OBVIOUS
<1>1. /\ stage = "reach" /\ frontier = <<>>
      /\ UNCHANGED <<frontier, explored, reachable, maxState, codes, code, fluents>>
      /\ UNCHANGED <<root, trans, final, outcome>>
  BY DEF AssignIds, tfcVars, playVars
<1>2. reachable \subseteq DOMAIN final
  BY <1>1 DEF GraphInv
<1>3. Number
  BY <1>2 DEF AssignIds, MissingValue
<1>. DEFINE N == Cardinality(reachable)
<1>4. N \in Nat
  BY <1>2, FS_Subset, FS_CardinalityType, SpaceAssumption DEF IInv, TypeOK
<1>5. PICK order \in Orders(reachable) : programId' = [p \in reachable |-> CHOOSE i \in DOMAIN order : order[i] = p]
  BY <1>3 DEF Number
<1>6. DOMAIN order = 1 .. N /\ \A p \in reachable : \E i \in DOMAIN order : order[i] = p
  BY DEF Orders
<1>7. \A p \in reachable : programId'[p] \in 1 .. N /\ order[programId'[p]] = p
  BY <1>5, <1>6
<1>8. \A t \in trans : t.prog \in reachable => t.succ \in reachable
  BY <1>1 DEF GraphInv, SearchCovers
<1>9. DOMAIN programId' = reachable
  BY <1>5
<1>10. stage' = "sum" /\ pending' = trans /\ delta' = [i \in 0 .. StateCount - 1 |-> [v \in Inputs |-> 0]]
  BY <1>3 DEF Number
<1>11. NumbersFit'
  <2>1. root \in reachable
    BY <1>1 DEF GraphInv, SearchCovers
  <2>2. \A p, q \in reachable : programId'[p] = programId'[q] => p = q
    BY <1>7
  <2>. QED
    BY <1>1, <1>7, <1>8, <1>9, <2>1, <2>2 DEF NumbersFit
<1>12. SumsAreSuccessors'
  <2>1. 0 .. StateCount - 1 = 0 .. N
    BY <1>4 DEF StateCount
  <2>2. delta' = [i \in 0 .. N |-> [v \in Inputs |-> 0]]
    BY <1>10, <2>1
  <2>3. \A p, v : Met(p, v)' = {}
    BY <1>1, <1>10 DEF Met
  <2>4. delta' \in [0 .. N -> [Inputs -> Nat]] /\ 0 \in 0 .. N
    BY <1>4, <2>2
  <2>5. \A i \in 0 .. N, v \in Inputs : delta'[i][v] = 0
    BY <2>2
  <2>6. \A p \in reachable : programId'[p] \in 0 .. N
    BY <1>4, <1>7
  <2>. QED
    BY <1>1, <1>10, <2>3, <2>4, <2>5, <2>6 DEF SumsAreSuccessors
<1>. QED
  BY <1>1, <1>2, <1>10, <1>11, <1>12 DEF GraphInv, SearchCovers, CodesSuffice, CodeIsProgram

\* The number of a program, when it is read without a check.
LEMMA IdOf ==
  ASSUME NumbersFit, Numbered
  PROVE  /\ \A p \in reachable : Id(p) = programId[p]
         /\ \A p : p \notin reachable => Id(p) = 0
BY DEF NumbersFit, Id

\* Where an entry applies, the program may continue.
LEMMA GuardsContinue ==
  ASSUME IInv, NEW t \in trans, t.prog \in reachable, reachable \subseteq DOMAIN final
  PROVE  t.guard \cap ContinuationOf(t.prog) = t.guard
<1>1. cont[t.prog] = Continuation(trans, t.prog, final[t.prog])
  BY DEF IInv, DoneIsSolved, Solved
<1>2. t.guard \subseteq cont[t.prog]
  BY <1>1 DEF Continuation, TransOf
<1>. QED
  BY <1>2 DEF ContinuationOf

\* What one entry adds.
LEMMA ContributionIs ==
  ASSUME IInv, NumbersFit, Numbered, reachable \subseteq DOMAIN final, NEW t \in trans, NEW v \in Inputs
  PROVE  Contribution(t)[v] = IF t.prog \in reachable /\ t.act = v[2] /\ v[1] \in t.guard THEN programId[t.succ] ELSE 0
<1>1. Contribution(t)[v] = IF v[2] = t.act /\ v[1] \in t.guard \cap ContinuationOf(t.prog) THEN Id(t.succ) ELSE 0
  BY DEF Contribution
<1>2. CASE t.prog \in reachable
  <2>1. t.succ \in reachable
    BY <1>2 DEF NumbersFit
  <2>. QED
    BY <1>1, <1>2, <2>1, GuardsContinue, IdOf
<1>3. CASE t.prog \notin reachable
  BY <1>1, <1>3 DEF ContinuationOf
<1>. QED
  BY <1>2, <1>3

LEMMA SumEntryStep == IInv /\ GraphInv /\ SumEntry => GraphInv'
<1>. SUFFICES ASSUME IInv, GraphInv, SumEntry PROVE GraphInv'
  OBVIOUS
<1>. DEFINE u == CHOOSE t \in pending : TRUE
            N == Cardinality(reachable)
<1>1. PICK t \in pending : t = u
  BY DEF SumEntry
<1>. DEFINE i == Id(t.prog)
<1>2. /\ stage = "sum" /\ stage' = "sum"
      /\ delta' = [delta EXCEPT ![i] = Plus(@, Contribution(t))]
      /\ programId' = [p \in DOMAIN programId \cup {t.prog, t.succ} |-> Id(p)]
      /\ pending' = pending \ {t}
      /\ UNCHANGED <<frontier, explored, reachable, maxState, codes, code, fluents>>
      /\ UNCHANGED <<root, trans, final, outcome>>
  BY <1>1 DEF SumEntry, tfcVars, playVars
<1>3. /\ NumbersFit /\ SumsAreSuccessors /\ Numbered /\ Numbered'
      /\ reachable \subseteq DOMAIN final /\ t \in trans /\ t \notin trans \ pending
  BY <1>1, <1>2 DEF GraphInv, Numbered, SumsAreSuccessors
<1>4. N \in Nat
  BY <1>3, FS_Subset, FS_CardinalityType, SpaceAssumption DEF IInv, TypeOK
<1>5. NumbersFit'
  <2>1. \A p \in reachable : p \in DOMAIN programId' /\ programId'[p] = programId[p]
    BY <1>2, <1>3, IdOf DEF NumbersFit
  <2>2. \A p \in DOMAIN programId' \ reachable : programId'[p] = 0
    BY <1>2, <1>3, IdOf
  <2>3. root \in reachable /\ \A s \in trans : s.prog \in reachable => s.succ \in reachable
    BY <1>3 DEF NumbersFit
  <2>4. /\ \A p \in reachable : programId[p] \in 1 .. N
        /\ \A p, q \in reachable : programId[p] = programId[q] => p = q
    BY <1>3 DEF NumbersFit
  <2>5. \A p, q \in reachable : programId'[p] = programId'[q] => p = q
    BY <2>1, <2>4
  <2>6. \A p \in reachable : programId'[p] \in 1 .. N
    BY <2>1, <2>4
  <2>. QED
    BY <1>2, <2>1, <2>2, <2>3, <2>5, <2>6 DEF NumbersFit
<1>6. \A p \in reachable : programId'[p] = programId[p] /\ programId[p] \in 1 .. N
  BY <1>2, <1>3, IdOf DEF NumbersFit
<1>7. i \in 0 .. N
  BY <1>3, <1>4, <1>6, IdOf
<1>8. delta \in [0 .. N -> [Inputs -> Nat]]
  BY <1>3 DEF SumsAreSuccessors
<1>9. ASSUME NEW k \in 0 .. N, NEW v \in Inputs
      PROVE  delta'[k][v] = IF k = i THEN delta[k][v] + Contribution(t)[v] ELSE delta[k][v]
  BY <1>2, <1>7, <1>8, <1>9 DEF Plus
<1>10. \A v \in Inputs : Contribution(t)[v] \in Nat
  <2>1. t.prog \in reachable => programId[t.succ] \in Nat
    BY <1>3, <1>4, <1>6 DEF NumbersFit
  <2>. QED
    BY <1>3, <2>1, ContributionIs
<1>11. delta' \in [0 .. N -> [Inputs -> Nat]]
  <2>1. Plus(delta[i], Contribution(t)) \in [Inputs -> Nat]
    BY <1>7, <1>8, <1>10 DEF Plus
  <2>. HIDE DEF i
  <2>. QED
    BY <1>2, <1>7, <1>8, <2>1
<1>12. \A v \in Inputs : delta'[0][v] = 0
  <2>. TAKE v \in Inputs
  <2>1. delta[0][v] = 0 /\ 0 \in 0 .. N
    BY <1>3, <1>4 DEF SumsAreSuccessors
  <2>2. i = 0 => t.prog \notin reachable
    BY <1>3, <1>4, <1>6, IdOf
  <2>3. i = 0 => Contribution(t)[v] = 0
    BY <1>3, <2>2, ContributionIs
  <2>. HIDE DEF i
  <2>. QED
    BY <1>9, <2>1, <2>3
<1>13. ASSUME NEW p \in reachable, NEW v \in Inputs
       PROVE  /\ Met(p, v)' = {} => delta'[programId'[p]][v] = 0
              /\ Deterministic' => \A s \in Met(p, v)' : delta'[programId'[p]][v] = programId'[s.succ]
  <2>. DEFINE k == programId[p]
  <2>1. k \in 0 .. N /\ programId'[p] = k
    BY <1>4, <1>6
  <2>2. /\ Met(p, v) = {} => delta[k][v] = 0
        /\ Deterministic => \A s \in Met(p, v) : delta[k][v] = programId[s.succ]
    BY <1>3 DEF SumsAreSuccessors
  <2>3. Deterministic' <=> Deterministic
    BY <1>2 DEF Deterministic
  <2>4. \A s \in Met(p, v)' : s \in trans /\ s.prog = p /\ s.succ \in reachable /\ programId'[s.succ] = programId[s.succ]
    BY <1>2, <1>3, <1>6 DEF Met, NumbersFit
  <2>5. delta[k][v] \in Nat
    BY <1>8, <2>1
  <2>. DEFINE applies == t.prog = p /\ t.act = v[2] /\ v[1] \in t.guard
  <2>6. ASSUME applies
        PROVE  /\ i = k /\ Contribution(t)[v] = programId[t.succ]
               /\ Met(p, v)' = Met(p, v) \cup {t}
               /\ Deterministic => Met(p, v) = {}
    <3>1. i = k
      BY <1>3, <2>6, IdOf
    <3>2. Contribution(t)[v] = programId[t.succ]
      BY <1>3, <2>6, ContributionIs
    <3>3. Met(p, v)' = Met(p, v) \cup {t}
      BY <1>2, <1>3, <2>6 DEF Met
    <3>4. ASSUME Deterministic, NEW s \in Met(p, v) PROVE FALSE
      <4>1. s.prog = t.prog /\ s.act = t.act /\ s.guard \cap t.guard # {} /\ s \in trans /\ s # t
        BY <1>3, <2>6, <3>4 DEF Met
      <4>. QED
        BY <1>3, <3>4, <4>1 DEF Deterministic
    <3>. QED
      BY <3>1, <3>2, <3>3, <3>4
  <2>7. ASSUME ~ applies
        PROVE  (i = k => Contribution(t)[v] = 0) /\ Met(p, v)' = Met(p, v)
    <3>1. i = k => t.prog = p
      <4>1. i = k => t.prog \in reachable
        BY <1>3, <1>6, IdOf
      <4>2. t.prog \in reachable => i = programId[t.prog]
        BY <1>3, IdOf
      <4>. QED
        BY <1>3, <4>1, <4>2 DEF NumbersFit
    <3>2. i = k => Contribution(t)[v] = 0
      BY <1>3, <2>7, <3>1, ContributionIs
    <3>3. Met(p, v)' = Met(p, v)
      BY <1>2, <1>3, <2>7 DEF Met
    <3>. QED
      BY <3>2, <3>3
  <2>8. CASE applies
    <3>1. t \in Met(p, v)'
      BY <2>6, <2>8
    <3>2. Deterministic => delta'[k][v] = programId[t.succ]
      <4>1. programId[t.succ] \in Nat
        BY <1>4, <1>6, <2>4, <3>1
      <4>. HIDE DEF applies, i, k
      <4>. QED
        BY <1>9, <2>1, <2>2, <2>6, <2>8, <4>1
    <3>3. Deterministic => \A s \in Met(p, v)' : s = t
      BY <2>6, <2>8
    <3>. QED
      BY <2>1, <2>3, <2>4, <3>1, <3>2, <3>3
  <2>9. CASE ~ applies
    <3>1. delta'[k][v] = delta[k][v]
      <4>. HIDE DEF applies, i, k
      <4>. QED
        BY <1>9, <2>1, <2>5, <2>7, <2>9
    <3>. QED
      BY <2>1, <2>2, <2>3, <2>4, <2>7, <2>9, <3>1
  <2>. QED
    BY <2>8, <2>9
<1>14. SumsAreSuccessors'
  <2>1. pending' \subseteq trans
    BY <1>2, <1>3 DEF SumsAreSuccessors
  <2>. QED
    BY <1>2, <1>11, <1>12, <1>13, <2>1 DEF SumsAreSuccessors
<1>. QED
  BY <1>2, <1>5, <1>14 DEF GraphInv, SearchCovers, CodesSuffice, CodeIsProgram

LEMMA StartEncodingStep == IInv /\ GraphInv /\ StartEncoding => GraphInv'
<1>. SUFFICES ASSUME IInv, GraphInv, StartEncoding PROVE GraphInv'
  OBVIOUS
<1>1. /\ stage = "sum" /\ pending = {} /\ stage' = "encode" /\ maxState' = StateCount - 1
      /\ UNCHANGED <<frontier, explored, reachable, programId, pending, delta, codes, code, fluents>>
      /\ UNCHANGED <<root, trans, final, outcome>>
  BY DEF StartEncoding, tfcVars, playVars
<1>2. reachable \subseteq DOMAIN final /\ NumbersFit /\ SumsAreSuccessors /\ Numbered /\ Numbered'
  BY <1>1 DEF GraphInv, Numbered
<1>3. Cardinality(reachable) \in Nat
  BY <1>2, FS_Subset, FS_CardinalityType, SpaceAssumption DEF IInv, TypeOK
<1>4. maxState' = Cardinality(reachable) /\ codes' = 1
  BY <1>1, <1>3 DEF StateCount, GraphInv, CodesSuffice
<1>5. CodesSuffice'
  BY <1>1, <1>3, <1>4 DEF CodesSuffice
<1>6. NumbersFit'
  BY <1>1, <1>2 DEF NumbersFit
<1>7. SumsAreSuccessors'
  <2>1. \A p, v : Met(p, v)' = Met(p, v)
    BY <1>1 DEF Met
  <2>2. Deterministic' <=> Deterministic
    BY <1>1 DEF Deterministic
  <2>. QED
    BY <1>1, <1>2, <2>1, <2>2 DEF SumsAreSuccessors
<1>. QED
  BY <1>1, <1>5, <1>6, <1>7 DEF GraphInv, SearchCovers, CodeIsProgram

\* Each bit halves what is left of the largest number.
LEMMA OneMoreBit ==
  ASSUME NEW n \in Nat, NEW m \in Nat, NEW c \in Nat, n < c * (m + 1)
  PROVE  m \div 2 \in Nat /\ n < 2 * c * (m \div 2 + 1)
<1>1. PICK k \in Nat : k = m \div 2 /\ m <= 2 * k + 1
  OBVIOUS
<1>2. m + 1 <= 2 * k + 2
  BY <1>1
<1>3. c * (m + 1) <= c * (2 * k + 2)
  <2>1. PICK d \in Nat : m + 1 + d = 2 * k + 2
    <3>1. (2 * k + 2) - (m + 1) \in Nat
      BY <1>2
    <3>. QED
      BY <3>1
  <2>2. c * (2 * k + 2) = c * (m + 1) + c * d
    BY <2>1
  <2>3. c * d \in Nat
    BY <2>1
  <2>. QED
    BY <2>1, <2>2, <2>3
<1>4. c * (2 * k + 2) = 2 * c * (k + 1)
  BY <1>1
<1>. QED
  BY <1>1, <1>3, <1>4

LEMMA AddBitStep == IInv /\ GraphInv /\ AddBit => GraphInv'
<1>. SUFFICES ASSUME IInv, GraphInv, AddBit PROVE GraphInv'
  OBVIOUS
<1>1. /\ stage = "encode" /\ stage' = "encode" /\ maxState' = maxState \div 2 /\ codes' = 2 * codes
      /\ UNCHANGED <<frontier, explored, reachable, programId, pending, delta, code, fluents>>
      /\ UNCHANGED <<root, trans, final, outcome>>
  BY DEF AddBit, tfcVars, playVars
<1>2. reachable \subseteq DOMAIN final /\ NumbersFit /\ SumsAreSuccessors /\ Numbered /\ Numbered' /\ CodesSuffice
  BY <1>1 DEF GraphInv, Numbered
<1>3. Cardinality(reachable) \in Nat
  BY <1>2, FS_Subset, FS_CardinalityType, SpaceAssumption DEF IInv, TypeOK
<1>4. CodesSuffice'
  <2>1. maxState \in Nat /\ codes \in Nat \ {0} /\ Cardinality(reachable) < codes * (maxState + 1)
    BY <1>1, <1>2 DEF CodesSuffice
  <2>2. maxState' \in Nat /\ Cardinality(reachable) < codes' * (maxState' + 1)
    BY <1>1, <1>3, <2>1, OneMoreBit
  <2>3. codes' \in Nat \ {0}
    BY <1>1, <2>1
  <2>. QED
    BY <1>1, <2>2, <2>3 DEF CodesSuffice
<1>5. NumbersFit'
  BY <1>1, <1>2 DEF NumbersFit
<1>6. SumsAreSuccessors'
  <2>1. \A p, v : Met(p, v)' = Met(p, v)
    BY <1>1 DEF Met
  <2>2. Deterministic' <=> Deterministic
    BY <1>1 DEF Deterministic
  <2>. QED
    BY <1>1, <1>2, <2>1, <2>2 DEF SumsAreSuccessors
<1>. QED
  BY <1>1, <1>4, <1>5, <1>6 DEF GraphInv, SearchCovers, CodeIsProgram

\* Numbers that fit into the bits are their own codes.
LEMMA EncodeIsIdentity ==
  ASSUME NEW n \in Nat, codes \in Nat, n < codes
  PROVE  Encode(n) = n
BY DEF Encode

LEMMA StartPlayStep == IInv /\ GraphInv /\ StartPlay => GraphInv' /\ code' = programId[root]
<1>. SUFFICES ASSUME IInv, GraphInv, StartPlay PROVE GraphInv' /\ code' = programId[root]
  OBVIOUS
<1>1. /\ stage = "encode" /\ maxState = 0 /\ stage' = "play" /\ code' = Encode(programId[root])
      /\ UNCHANGED <<frontier, explored, reachable, programId, pending, delta, maxState, codes, fluents>>
      /\ UNCHANGED <<root, trans, final, outcome>>
  BY DEF StartPlay, tfcVars
<1>2. reachable \subseteq DOMAIN final /\ NumbersFit /\ SumsAreSuccessors /\ Numbered /\ Numbered' /\ CodesSuffice
  BY <1>1 DEF GraphInv, Numbered
<1>3. Cardinality(reachable) \in Nat
  BY <1>2, FS_Subset, FS_CardinalityType, SpaceAssumption DEF IInv, TypeOK
<1>4. Cardinality(reachable) < codes /\ codes \in Nat
  BY <1>1, <1>2, <1>3 DEF CodesSuffice
<1>5. root \in reachable /\ programId[root] \in 1 .. Cardinality(reachable)
  BY <1>2 DEF NumbersFit
<1>6. code' = programId[root]
  BY <1>1, <1>3, <1>4, <1>5, EncodeIsIdentity
<1>7. CodesSuffice'
  BY <1>1, <1>2, <1>4 DEF CodesSuffice
<1>8. NumbersFit'
  BY <1>1, <1>2 DEF NumbersFit
<1>9. SumsAreSuccessors'
  <2>1. \A p, v : Met(p, v)' = Met(p, v)
    BY <1>1 DEF Met
  <2>2. Deterministic' <=> Deterministic
    BY <1>1 DEF Deterministic
  <2>. QED
    BY <1>1, <1>2, <2>1, <2>2 DEF SumsAreSuccessors
<1>10. CodeIsProgram'
  BY <1>1, <1>5, <1>6 DEF CodeIsProgram
<1>. QED
  BY <1>1, <1>6, <1>7, <1>8, <1>9, <1>10 DEF GraphInv, SearchCovers

\* The entries of p that apply to an action in a state.
Applying(p, a, s) == {t \in TransOf(trans, p) : t.act = a /\ s \in t.guard}

\* The automaton of a deterministic program moves to the number of the one
\* successor, or to the sink.
LEMMA NextCodeIs ==
  ASSUME IInv, GraphInv, stage = "play", Deterministic, NEW s \in States,
         NEW p \in reachable, NEW a \in ActionNames \cup {NoAction}
  PROVE  /\ Applying(p, a, s) = {} => NextCode(programId[p], s, a) = 0
         /\ \A t \in Applying(p, a, s) :
              t.succ \in reachable /\ NextCode(programId[p], s, a) = programId[t.succ]
<1>1. reachable \subseteq DOMAIN final /\ NumbersFit /\ SumsAreSuccessors /\ Numbered /\ CodesSuffice
  BY DEF GraphInv, Numbered
<1>2. Cardinality(reachable) \in Nat
  BY <1>1, FS_Subset, FS_CardinalityType, SpaceAssumption DEF IInv, TypeOK
<1>3. Cardinality(reachable) < codes /\ codes \in Nat
  BY <1>1, <1>2 DEF CodesSuffice
<1>4. \A q \in reachable : programId[q] \in 1 .. Cardinality(reachable) /\ Encode(programId[q]) = programId[q]
  <2>1. \A q \in reachable : programId[q] \in 1 .. Cardinality(reachable)
    BY <1>1 DEF NumbersFit
  <2>. QED
    BY <1>2, <1>3, <2>1, EncodeIsIdentity
<1>5. CASE a \in ActionNames
  <2>. DEFINE v == <<s, a>>
  <2>1. v \in Inputs /\ v[1] = s /\ v[2] = a
    BY <1>1, <1>5 DEF Inputs
  <2>2. Met(p, v) = Applying(p, a, s)
    BY <1>1, <2>1 DEF Met, Applying, TransOf, SumsAreSuccessors
  <2>3. NextCode(programId[p], s, a) = Encode(delta[programId[p]][v])
    <3>1. programId[p] \in DOMAIN delta
      BY <1>1, <1>2, <1>4 DEF SumsAreSuccessors
    <3>. QED
      BY <1>5, <3>1 DEF NextCode
  <2>4. Encode(0) = 0
    BY <1>2, <1>3, EncodeIsIdentity
  <2>5. \A t \in Met(p, v) : t.succ \in reachable
    BY <1>1 DEF Met, NumbersFit
  <2>6. /\ Met(p, v) = {} => delta[programId[p]][v] = 0
        /\ \A t \in Met(p, v) : delta[programId[p]][v] = programId[t.succ]
    BY <1>1, <2>1 DEF SumsAreSuccessors
  <2>. QED
    BY <1>4, <2>2, <2>3, <2>4, <2>5, <2>6
<1>6. CASE a \notin ActionNames
  <2>1. Applying(p, a, s) = {}
    BY <1>6 DEF Applying, TransOf, IInv, TypeOK, Entry
  <2>. QED
    BY <1>6, <2>1 DEF NextCode
<1>. QED
  BY <1>5, <1>6

\* Nothing leads out of the sink.
LEMMA SinkStays ==
  ASSUME IInv, GraphInv, stage = "play", NEW s \in States, NEW a
  PROVE  NextCode(0, s, a) = 0
<1>1. reachable \subseteq DOMAIN final /\ NumbersFit /\ SumsAreSuccessors /\ Numbered /\ CodesSuffice
  BY DEF GraphInv, Numbered
<1>2. Cardinality(reachable) \in Nat
  BY <1>1, FS_Subset, FS_CardinalityType, SpaceAssumption DEF IInv, TypeOK
<1>3. Encode(0) = 0
  BY <1>1, <1>2, EncodeIsIdentity DEF CodesSuffice
<1>4. a \in ActionNames => delta[0][<<s, a>>] = 0
  BY <1>1 DEF SumsAreSuccessors, Inputs
<1>. QED
  BY <1>3, <1>4 DEF NextCode

LEMMA PlayStep == IInv /\ GraphInv /\ Play => GraphInv'
<1>. SUFFICES ASSUME IInv, GraphInv, Play PROVE GraphInv'
  OBVIOUS
<1>1. /\ stage = "play" /\ stage' = "play" /\ fluents \in States /\ fluents' \in States
      /\ UNCHANGED <<frontier, explored, reachable, programId, pending, delta, maxState, codes>>
      /\ UNCHANGED <<root, trans, final, outcome>>
  BY DEF Play, tfcVars, graphVars, GraphInv
<1>2. PICK a \in ActionNames \cup {NoAction} : code' = NextCode(code, fluents, a)
  BY DEF Play
<1>3. Deterministic' <=> Deterministic
  BY <1>1 DEF Deterministic
<1>4. CodeIsProgram'
  <2>. SUFFICES ASSUME Deterministic PROVE code' = 0 \/ \E p \in reachable : programId[p] = code'
    BY <1>1, <1>3 DEF CodeIsProgram
  <2>1. CASE code = 0
    BY <1>1, <1>2, <2>1, SinkStays
  <2>2. CASE code # 0
    <3>1. PICK p \in reachable : programId[p] = code
      BY <1>1, <2>2 DEF GraphInv, CodeIsProgram
    <3>. QED
      BY <1>1, <1>2, <3>1, NextCodeIs
  <2>. QED
    BY <2>1, <2>2
<1>5. NumbersFit'
  BY <1>1 DEF GraphInv, NumbersFit, Numbered
<1>6. SumsAreSuccessors'
  <2>1. \A p, v : Met(p, v)' = Met(p, v)
    BY <1>1 DEF Met
  <2>2. SumsAreSuccessors
    BY DEF GraphInv
  <2>. QED
    BY <1>1, <1>3, <2>1, <2>2 DEF SumsAreSuccessors, Numbered
<1>. QED
  BY <1>1, <1>4, <1>5, <1>6 DEF GraphInv, SearchCovers, CodesSuffice

LEMMA GraphStep == IInv /\ GraphInv /\ [PGNext]_<<tfcVars, pgVars>> => IInv' /\ GraphInv'
<1>. SUFFICES ASSUME IInv, GraphInv, [PGNext]_<<tfcVars, pgVars>> PROVE IInv' /\ GraphInv'
  OBVIOUS
<1>1. IInv'
  BY TablesStep
<1>2. CASE UNCHANGED <<tfcVars, pgVars>>
  <2>1. \A p, v : Met(p, v)' = Met(p, v)
    BY <1>2 DEF Met, tfcVars, pgVars, graphVars, playVars
  <2>2. Deterministic' <=> Deterministic
    BY <1>2 DEF Deterministic, tfcVars
  <2>. QED
    BY <1>1, <1>2, <2>1, <2>2 DEF GraphInv, SearchCovers, NumbersFit, Numbered, SumsAreSuccessors, CodesSuffice, CodeIsProgram,
       tfcVars, pgVars, graphVars, playVars
<1>. QED
  BY <1>1, <1>2, ComputeTFCStep, StartReachStep, ExpandStep, AssignIdsStep, SumEntryStep, StartEncodingStep, AddBitStep,
     StartPlayStep, PlayStep DEF PGNext, Construct

-----------------------------------------------------------------------------
(* The theorems.                                                           *)

\* The whole construction keeps its invariant: the search covers what is
\* reachable, numbers and bits suffice, the sums are the successors.
THEOREM GraphInvariant == PGSpec => [](IInv /\ GraphInv)
<1>1. PGInit => IInv /\ GraphInv
  BY InitStep, GraphInit DEF PGInit
<1>. QED
  BY <1>1, GraphStep, PTL DEF PGSpec

\* No value of F or C is missing when a continuation function is built, and the
\* construction never ends with an exception.
THEOREM NoValueMissing == PGSpec => []~ Stopped
<1>1. IInv /\ GraphInv => ~ Stopped
  BY DEF IInv, GraphInv, Stopped
<1>. QED
  BY <1>1, GraphInvariant, PTL

-----------------------------------------------------------------------------
(* The encoded graph runs the program.                                     *)

LEMMA AfterIs ==
  ASSUME IInv, NEW p \in DOMAIN final, NEW a, NEW s
  PROVE  Golog!After(p, a, s) = {t.succ : t \in Applying(p, a, s)}
<1>1. Golog!Moves[p] = MovesIn(p)
  BY TablesAreMeant DEF IInv, Meant
<1>2. ASSUME NEW q \in Golog!After(p, a, s) PROVE q \in {t.succ : t \in Applying(p, a, s)}
  <2>1. PICK m \in MovesIn(p) : m.act = a /\ m.state = s /\ q = m.rest
    BY <1>1, <1>2 DEF Golog!After
  <2>2. PICK t, r : t \in TransOf(trans, p) /\ r \in t.guard /\ m = Golog!Move(t.act, r, t.succ)
    BY <2>1, ElementOfMovesIn
  <2>. QED
    BY <2>1, <2>2, MoveFields DEF Applying
<1>3. ASSUME NEW t \in Applying(p, a, s) PROVE t.succ \in Golog!After(p, a, s)
  <2>. DEFINE m == Golog!Move(t.act, s, t.succ)
  <2>1. m \in MovesIn(p)
    BY ElementOfMovesIn DEF Applying
  <2>2. m.act = a /\ m.state = s /\ m.rest = t.succ
    BY MoveFields DEF Applying
  <2>. HIDE DEF m
  <2>. QED
    BY <1>1, <2>1, <2>2 DEF Golog!After
<1>. QED
  BY <1>2, <1>3

\* The code that the automaton moves to is that of what remains of the program.
LEMMA NextCodeRemains ==
  ASSUME IInv, GraphInv, stage = "play", Deterministic, NEW s \in States,
         NEW p \in reachable, NEW a \in ActionNames \cup {NoAction}
  PROVE  /\ \A q \in Golog!After(p, a, s) : q \in reachable /\ NextCode(programId[p], s, a) = programId[q]
         /\ NextCode(programId[p], s, a) # 0 =>
              \E q \in Golog!After(p, a, s) : NextCode(programId[p], s, a) = programId[q]
<1>1. reachable \subseteq DOMAIN final
  BY DEF GraphInv, Numbered
<1>2. Golog!After(p, a, s) = {t.succ : t \in Applying(p, a, s)}
  BY <1>1, AfterIs
<1>. QED
  BY <1>2, NextCodeIs

\* Every number of a program is a value of the bits.
LEMMA CodesAreValues ==
  ASSUME IInv, GraphInv, stage = "play"
  PROVE  0 \in 0 .. codes - 1 /\ root \in reachable /\ \A p \in reachable : programId[p] \in 1 .. codes - 1
<1>1. reachable \subseteq DOMAIN final /\ NumbersFit /\ CodesSuffice /\ Numbered
  BY DEF GraphInv, Numbered
<1>2. Cardinality(reachable) \in Nat
  BY <1>1, FS_Subset, FS_CardinalityType, SpaceAssumption DEF IInv, TypeOK
<1>. QED
  BY <1>1, <1>2 DEF NumbersFit, CodesSuffice

\* A code is accepted where its program may end; that of the sink never is.
LEMMA AcceptingCodeIs ==
  ASSUME IInv, GraphInv, Numbered, NEW s
  PROVE  /\ ~ AcceptingCode(0, s)
         /\ \A p \in reachable : p # Stuck /\ (AcceptingCode(programId[p], s) <=> Golog!Ends(p, s))
<1>1. NumbersFit /\ reachable \subseteq DOMAIN final /\ DOMAIN final \subseteq Programs
  BY DEF GraphInv, Numbered, IInv, TypeOK
<1>2. Cardinality(reachable) \in Nat
  BY <1>1, FS_Subset, FS_CardinalityType, SpaceAssumption
<1>3. \A p \in reachable : programId[p] # 0
  BY <1>1, <1>2 DEF NumbersFit
<1>4. ASSUME NEW p \in reachable PROVE p # Stuck /\ (AcceptingCode(programId[p], s) <=> Golog!Ends(p, s))
  <2>1. p # Stuck
    BY <1>1, NamesAssumption
  <2>2. final[p] = Golog!Ending[p]
    BY <1>1, TablesAreMeant DEF IInv, Meant
  <2>3. AcceptingCode(programId[p], s) <=> s \in final[p]
    BY <1>1 DEF AcceptingCode, NumbersFit
  <2>. QED
    BY <2>1, <2>2, <2>3 DEF Golog!Ends, Golog!MayEnd
<1>. QED
  BY <1>3, <1>4 DEF AcceptingCode

\* The program that a code stands for.
ProgramOf(z) == IF z = 0 THEN Stuck ELSE CHOOSE p \in reachable : programId[p] = z

LEMMA ProgramOfCode ==
  ASSUME IInv, GraphInv, Numbered
  PROVE  ProgramOf(0) = Stuck /\ \A p \in reachable : programId[p] # 0 /\ ProgramOf(programId[p]) = p
<1>1. NumbersFit /\ reachable \subseteq DOMAIN final
  BY DEF GraphInv, Numbered
<1>2. Cardinality(reachable) \in Nat
  BY <1>1, FS_Subset, FS_CardinalityType, SpaceAssumption DEF IInv, TypeOK
<1>3. ASSUME NEW p \in reachable PROVE programId[p] # 0 /\ ProgramOf(programId[p]) = p
  <2>1. programId[p] # 0
    BY <1>1, <1>2 DEF NumbersFit
  <2>2. \A q \in reachable : programId[q] = programId[p] => q = p
    BY <1>1 DEF NumbersFit
  <2>. QED
    BY <2>1, <2>2 DEF ProgramOf
<1>. QED
  BY <1>3 DEF ProgramOf

LEMMA StartPlayReady == IInv /\ GraphInv /\ StartPlay => Golog!Ready
<1>. SUFFICES ASSUME IInv, GraphInv, StartPlay PROVE Golog!Ready
  OBVIOUS
<1>1. /\ stage = "encode" /\ stage' = "play"
      /\ UNCHANGED <<root, reachable, programId, final, fluents>>
  BY DEF StartPlay, tfcVars
<1>2. code' = programId[root]
  BY StartPlayStep
<1>3. Numbered /\ root \in reachable
  BY <1>1 DEF GraphInv, NumbersFit, Numbered
<1>4. Remaining = root
  BY <1>1 DEF Remaining
<1>5. Remaining' = root
  <2>1. Remaining' = ProgramOf(code')
    BY <1>1 DEF Remaining, ProgramOf
  <2>. QED
    BY <1>2, <1>3, <2>1, ProgramOfCode
<1>6. Accepting' <=> AcceptingCode(programId[root], fluents)
  BY <1>1, <1>2 DEF Accepting, AcceptingCode
<1>7. Accepting' <=> Golog!Ends(Remaining, fluents)
  BY <1>3, <1>4, <1>6, AcceptingCodeIs
<1>. QED
  BY <1>1, <1>4, <1>5, <1>7 DEF Golog!Ready

LEMMA PlayStepsBy ==
  ASSUME IInv, GraphInv, Play, Deterministic, NEW a \in ActionNames \cup {NoAction}, code' = NextCode(code, fluents, a)
  PROVE  Golog!StepBy(a)
<1>1. /\ stage = "play" /\ stage' = "play" /\ fluents \in States /\ fluents' \in States
      /\ UNCHANGED <<root, reachable, programId, final>>
  BY DEF Play, tfcVars, graphVars, GraphInv
<1>2. Numbered /\ reachable \subseteq DOMAIN final
  BY <1>1 DEF Numbered, GraphInv
<1>3. Remaining = ProgramOf(code) /\ Remaining' = ProgramOf(code')
  BY <1>1 DEF Remaining, ProgramOf
<1>4. Accepting' <=> AcceptingCode(code', fluents')
  BY <1>1 DEF Accepting, AcceptingCode
<1>5. ASSUME NEW q \in reachable, code' = programId[q] PROVE Remaining' = q /\ (Accepting' <=> Golog!Ends(q, fluents'))
  BY <1>2, <1>3, <1>4, <1>5, ProgramOfCode, AcceptingCodeIs
<1>6. ASSUME code' = 0 PROVE Remaining' = Stuck /\ (Accepting' <=> Golog!Ends(Stuck, fluents'))
  BY <1>2, <1>3, <1>4, <1>6, ProgramOfCode, AcceptingCodeIs DEF Golog!Ends
<1>. DEFINE next == IF Remaining = Stuck THEN {} ELSE Golog!After(Remaining, a, fluents)
<1>7. /\ Remaining' \in next \/ (next = {} /\ Remaining' = Stuck)
      /\ Accepting' <=> Golog!Ends(Remaining', fluents')
  <2>1. CASE code = 0
    <3>1. Remaining = Stuck /\ code' = 0
      BY <1>1, <1>2, <1>3, <2>1, ProgramOfCode, SinkStays
    <3>. QED
      BY <1>6, <3>1
  <2>2. CASE code # 0
    <3>1. PICK p \in reachable : programId[p] = code
      BY <1>1, <2>2 DEF GraphInv, CodeIsProgram
    <3>2. Remaining = p /\ p # Stuck
      BY <1>2, <1>3, <3>1, ProgramOfCode, AcceptingCodeIs
    <3>3. next = {t.succ : t \in Applying(p, a, fluents)}
      BY <1>2, <3>2, AfterIs
    <3>4. CASE Applying(p, a, fluents) = {}
      <4>1. code' = 0
        BY <1>1, <3>1, <3>4, NextCodeIs
      <4>2. next = {}
        BY <3>3, <3>4
      <4>. HIDE DEF next
      <4>. QED
        BY <1>6, <4>1, <4>2
    <3>5. CASE Applying(p, a, fluents) # {}
      <4>1. PICK t \in Applying(p, a, fluents) : TRUE
        BY <3>5
      <4>2. t.succ \in reachable /\ code' = programId[t.succ]
        BY <1>1, <3>1, NextCodeIs
      <4>3. t.succ \in next
        BY <3>3
      <4>. HIDE DEF next
      <4>. QED
        BY <1>5, <4>2, <4>3
    <3>. QED
      BY <3>4, <3>5
  <2>. QED
    BY <2>1, <2>2
<1>. HIDE DEF next
<1>8. (Accepting' <=> Golog!Ends(Remaining', fluents')) /\ fluents' \in States
  BY <1>1, <1>7
<1>. QED
  BY <1>7, <1>8 DEF Golog!StepBy, next

\* While the graph is built nothing is executed.
LEMMA ConstructStutters ==
  ASSUME IInv, GraphInv, Construct
  PROVE  Remaining' = Remaining /\ fluents' = fluents /\ (StartPlay \/ Accepting' = Accepting)
<1>1. CASE StartPlay
  BY <1>1, StartPlayReady DEF Golog!Ready
<1>2. CASE ~ StartPlay
  <2>1. stage # "play" /\ stage' # "play" /\ UNCHANGED fluents
    BY <1>2 DEF Construct, ComputeTFC, StartReach, Expand, AssignIds, Number, SumEntry, StartEncoding, AddBit,
       pgVars, graphVars, playVars
  <2>2. root' = root
    BY TablesStep DEF PGNext
  <2>3. Remaining' = Remaining
    BY <2>1, <2>2 DEF Remaining
  <2>4. Accepting' = Accepting
    BY <2>1 DEF Accepting
  <2>. QED
    BY <2>1, <2>3, <2>4
<1>. QED
  BY <1>1, <1>2

\* Whatever the program, and in whatever order its sets are enumerated, the encoded
\* automaton of a deterministic program steps and accepts as the program does.
THEOREM GraphImplementsGolog == PGSpec => ImplementsGolog
<1>1. PGInit => Golog!Init
  <2>. SUFFICES ASSUME PGInit PROVE Golog!Init
    OBVIOUS
  <2>1. Remaining \in Roots /\ fluents \in States
    BY DEF PGInit, Init, Remaining
  <2>2. Accepting \in BOOLEAN
    BY DEF PGInit, Accepting
  <2>. QED
    BY <2>1, <2>2 DEF Golog!Init
<1>. DEFINE Implements ==
       Deterministic' =>
         \/ Golog!Ready
         \/ /\ stage = "play"
            /\ \A a \in ActionNames \cup {NoAction} : code' = NextCode(code, fluents, a) => Golog!StepBy(a)
<1>2. IInv /\ GraphInv /\ [PGNext]_<<tfcVars, pgVars>> => [Implements]_<<Remaining, fluents, Accepting>>
  <2>. SUFFICES ASSUME IInv, GraphInv, [PGNext]_<<tfcVars, pgVars>>
                PROVE  Implements \/ UNCHANGED <<Remaining, fluents, Accepting>>
    OBVIOUS
  <2>1. CASE StartPlay
    BY <2>1, StartPlayReady
  <2>2. CASE Play
    <3>1. stage = "play" /\ (Deterministic' <=> Deterministic)
      BY <2>2 DEF Play, tfcVars, Deterministic
    <3>. QED
      BY <2>2, <3>1, PlayStepsBy
  <2>3. CASE UNCHANGED <<tfcVars, pgVars>>
    BY <2>3 DEF Remaining, Accepting, AcceptingCode, tfcVars, pgVars, graphVars, playVars
  <2>4. CASE Construct
    BY <2>1, <2>4, ConstructStutters
  <2>. QED
    BY <2>1, <2>2, <2>3, <2>4 DEF PGNext
<1>. QED
  BY <1>1, <1>2, GraphInvariant, PTL DEF PGSpec, ImplementsGolog
=============================================================================
