----------------------------- MODULE AxiomRules -----------------------------
(***************************************************************************)
(* handle_axioms (src/submodules/axiom_rules.py): of the ground axioms,     *)
(* which define a derived atom by the disjunction of the bodies of its      *)
(* axioms, the translator keeps those that the goal or an operator needs,   *)
(* simplifies them, adds axioms for the literals that are needed negated,   *)
(* and orders the derived atoms in layers for the planner that evaluates    *)
(* them.                                                                    *)
(***************************************************************************)
EXTENDS Literals, Integers, FiniteSets, SequencesExt

CONSTANTS
  SortedAtoms,  \* all atoms, in the order that Literal.__lt__ gives them
  Programs,     \* axioms: functions from derived atoms to sequences of bodies
  Uses          \* [conditions, deletes]: literals of the goal, the preconditions and
                \* the conditions of add effects; those of delete effects

Literals == [atom : ToSet(SortedAtoms), negated : BOOLEAN]

ASSUME AtomsAssumption == SortedAtoms \in Seq(ToSet(SortedAtoms))

ASSUME ProgramsAssumption ==
  \A p \in Programs :
    /\ DOMAIN p \subseteq ToSet(SortedAtoms)
    /\ p \in [DOMAIN p -> Seq(Seq(Literals)) \ {<<>>}]

ASSUME UsesAssumption == Uses \subseteq [conditions : SUBSET Literals, deletes : SUBSET Literals]

VARIABLES
  program,    \* the axioms of the task
  uses,       \* the literals that the task reads
  phase,      \* "collect", "simplify", "negate", "layers", "done" or "failed"
  rules,      \* axioms_by_atom, as bodies: sequences of literals
  needed,     \* necessary_literals
  queue,      \* the literals whose axioms have not been looked at
  todo,       \* the elements that the loop of the phase has not reached
  axioms,     \* the axioms of the result, as [head, body]
  layers,     \* layers, with the markers of the atoms on the stack
  stack       \* the calls of find_level

axVars == <<program, uses, phase, rules, needed, queue, todo, axioms, layers, stack>>

Derived == DOMAIN program

Body(c) == ToSet(c)

-----------------------------------------------------------------------------
(* compute_necessary_axiom_literals.                                       *)

DerivedLiterals(C) == {l \in C : l.atom \in Derived}

\* register_literals: what is needed of the atoms of a condition that is
\* needed itself, or whose negation is.
Registered(C, negated) ==
  IF negated THEN {Negate(l) : l \in DerivedLiterals(C)} ELSE DerivedLiterals(C)

AxInit ==
  /\ program \in Programs
  /\ uses \in Uses
  /\ phase = "collect"
  /\ rules = program
  /\ needed = Registered(uses.conditions, FALSE) \cup Registered(uses.deletes, TRUE)
  /\ queue = needed
  /\ todo = {}
  /\ axioms = {}
  /\ layers = [a \in {} |-> 0]
  /\ stack = <<>>

\* A turn of the loop over the queue, whose order is that of sets.
Collect(l) ==
  /\ phase = "collect" /\ l \in queue
  /\ LET read == UNION {Registered(Body(c), l.negated) : c \in ToSet(rules[l.atom])}
     IN  /\ needed' = needed \cup read
         /\ queue' = (queue \ {l}) \cup (read \ needed)
  /\ UNCHANGED <<program, uses, phase, rules, todo, axioms, layers, stack>>

\* get_axiom_init: the atoms that are true before an axiom has been applied,
\* because only their negation is needed.
axiomInit == {l.atom : l \in {k \in needed : k.negated /\ Negate(k) \notin needed}}

CollectEnd ==
  /\ phase = "collect" /\ queue = {}
  /\ phase' = "simplify"
  /\ todo' = {l.atom : l \in needed}
  /\ UNCHANGED <<program, uses, rules, needed, queue, axioms, layers, stack>>

-----------------------------------------------------------------------------
(* simplify: the sets of axioms that contain a literal are intersected in  *)
(* place, in byLiteral, so that later axioms find them smaller.            *)

\* The elements of a list at some of its positions.
Picked(c, positions) ==
  LET upTo[n \in 0..Len(c)] ==
        IF n = 0 THEN <<>> ELSE IF n \in positions THEN Append(upTo[n - 1], c[n]) ELSE upTo[n - 1]
  IN  upTo[Len(c)]

Joined(lists) ==
  LET upTo[n \in 0..Len(lists)] == IF n = 0 THEN <<>> ELSE upTo[n - 1] \o lists[n]
  IN  upTo[Len(lists)]

\* list.sort is stable and the order ignores the sign.
Sorted(c) ==
  Joined([k \in DOMAIN SortedAtoms |-> Picked(c, {i \in DOMAIN c : c[i].atom = SortedAtoms[k]})])

\* remove_duplicates: of equal neighbours the first.
WithoutRepeats(c) == Picked(c, {i \in DOMAIN c : i = 1 \/ c[i] # c[i - 1]})

\* Mutant of Dominates: an axiom is dominated by one that shares its first literal.
DominatesFirst(c, indices, byLiteral) == byLiteral[c[1]]

\* The axioms that contain every literal of c.
Dominates(c, indices, byLiteral) == {i \in indices : \A l \in Body(c) : i \in byLiteral[l]}

\* A turn of the loop over the axioms, whose index is i.
Visited(s, i, sorted) ==
  IF s.stop # 0 \/ i \in s.skip THEN s
  ELSE IF sorted[i] = <<>> THEN [s EXCEPT !.stop = i]
  ELSE LET below == Dominates(sorted[i], DOMAIN sorted, s.byLiteral)
       IN  [s EXCEPT !.byLiteral[sorted[i][1]] = below, !.skip = @ \cup (below \ {i})]

AllUnread(sorted) ==
  LET all == UNION {Body(sorted[i]) : i \in DOMAIN sorted}
  IN  [byLiteral |-> [l \in all |-> {i \in DOMAIN sorted : l \in Body(sorted[i])}], skip |-> {}, stop |-> 0]

Undominated(sorted) ==
  LET after[n \in 0..Len(sorted)] == IF n = 0 THEN AllUnread(sorted) ELSE Visited(after[n - 1], n, sorted)
      end == after[Len(sorted)]
  IN  IF end.stop # 0 THEN <<sorted[end.stop]>> ELSE Picked(sorted, DOMAIN sorted \ end.skip)

Simplified(bodies) == Undominated([i \in DOMAIN bodies |-> WithoutRepeats(Sorted(bodies[i]))])

\* simplify_axioms, one atom of the set at a time.
Simplify(a) ==
  /\ phase = "simplify" /\ a \in todo
  /\ rules' = [rules EXCEPT ![a] = Simplified(@)]
  /\ todo' = todo \ {a}
  /\ UNCHANGED <<program, uses, phase, needed, queue, axioms, layers, stack>>

SimplifyEnd ==
  /\ phase = "simplify" /\ todo = {}
  /\ phase' = "negate"
  /\ todo' = needed
  /\ UNCHANGED <<program, uses, rules, needed, queue, axioms, layers, stack>>

-----------------------------------------------------------------------------
(* compute_negative_axioms.                                                *)

\* The conditions so far, each with each literal of a body, negated.
Times(result, c) ==
  Joined([k \in DOMAIN c |-> [i \in DOMAIN result |-> Append(result[i], Negate(c[k]))]])

\* negate: a literal of every body, negated, in all combinations.
Negated(bodies) ==
  LET upTo[n \in 0..Len(bodies)] == IF n = 0 THEN << <<>> >> ELSE Times(upTo[n - 1], bodies[n])
  IN  Simplified(upTo[Len(bodies)])

\* The axioms whose effect a literal is.
AxiomsFor(l) ==
  {[head |-> l, body |-> Body(c)] : c \in ToSet(IF l.negated THEN Negated(rules[l.atom]) ELSE rules[l.atom])}

Impossible(l) == l.negated /\ \E c \in ToSet(rules[l.atom]) : c = <<>>

AddAxioms(l) ==
  /\ phase = "negate" /\ l \in todo /\ ~Impossible(l)
  /\ axioms' = axioms \cup AxiomsFor(l)
  /\ todo' = todo \ {l}
  /\ UNCHANGED <<program, uses, phase, rules, needed, queue, layers, stack>>

\* "Negated axiom impossible; cannot deal with that"
NegationFails(l) ==
  /\ phase = "negate" /\ l \in todo /\ Impossible(l)
  /\ phase' = "failed"
  /\ UNCHANGED <<program, uses, rules, needed, queue, todo, axioms, layers, stack>>

-----------------------------------------------------------------------------
(* compute_axiom_layers.                                                   *)

UnknownLayer == -2

FirstMarker == -3

InitValue(a) == a \in axiomInit

\* The axioms that change the initial value of their atom.
Active == {x \in axioms : x.head.negated = InitValue(x.head.atom)}

\* Mutant of Bonus: a condition that is false at first needs a higher layer.
BonusOfFalse(l) == IF InitValue(l.atom) # l.negated THEN 0 ELSE 1

\* A condition that holds at first must be evaluated before.
Bonus(l) == IF InitValue(l.atom) # l.negated THEN 1 ELSE 0

DependsOn(a) ==
  {<<l.atom, Bonus(l)>> : l \in UNION {x.body : x \in {y \in Active : y.head.atom = a}}}

NegateEnd ==
  /\ phase = "negate" /\ todo = {}
  /\ phase' = "layers"
  /\ todo' = {x.head.atom : x \in Active}
  /\ layers' = [a \in {x.head.atom : x \in Active} |-> UnknownLayer]
  /\ UNCHANGED <<program, uses, rules, needed, queue, axioms, stack>>

Frame(a, marker, bonus) ==
  [atom |-> a, marker |-> marker, bonus |-> bonus, rest |-> DependsOn(a), layer |-> 0]

Greatest(m, n) == IF m >= n THEN m ELSE n

\* The loop over the keys of depends_on.
FindRoot(a) ==
  /\ phase = "layers" /\ stack = <<>> /\ a \in todo
  /\ todo' = todo \ {a}
  /\ IF layers[a] = UnknownLayer
     THEN /\ stack' = <<Frame(a, FirstMarker, 0)>>
          /\ layers' = [layers EXCEPT ![a] = FirstMarker]
     ELSE UNCHANGED <<stack, layers>>
  /\ UNCHANGED <<program, uses, phase, rules, needed, queue, axioms>>

\* Mutant of KnownLevel: a positive cycle is no exception.
KnownLevelStrict(a, marker) == IF a \in DOMAIN layers THEN layers[a] ELSE 0

\* What find_level knows without a recursive call: an atom without axioms and
\* a positive cycle count as layer 0.
KnownLevel(a, marker) ==
  IF a \in DOMAIN layers /\ layers[a] # marker THEN layers[a] ELSE 0

\* find_level(d[1], marker - d[2]) for a dependency of the atom on top.
FindLevel(d) ==
  LET top == Head(stack)
      marker == top.marker - d[2]
      level == KnownLevel(d[1], marker)
  IN  /\ phase = "layers" /\ stack # <<>> /\ d \in top.rest
      /\ IF level >= 0
         THEN /\ stack' = <<[top EXCEPT !.rest = @ \ {d}, !.layer = Greatest(@, level + d[2])]>> \o Tail(stack)
              /\ UNCHANGED <<layers, phase>>
         ELSE IF level = UnknownLayer
         THEN /\ stack' = <<Frame(d[1], marker, d[2]), [top EXCEPT !.rest = @ \ {d}]>> \o Tail(stack)
              /\ layers' = [layers EXCEPT ![d[1]] = marker]
              /\ UNCHANGED phase
         ELSE /\ phase' = "failed"      \* "Cyclic dependencies in axioms; cannot stratify."
              /\ UNCHANGED <<stack, layers>>
      /\ UNCHANGED <<program, uses, rules, needed, queue, todo, axioms>>

ReturnLevel ==
  LET top == Head(stack)
      rest == Tail(stack)
  IN  /\ phase = "layers" /\ stack # <<>> /\ top.rest = {}
      /\ layers' = [layers EXCEPT ![top.atom] = top.layer]
      /\ stack' = IF rest = <<>> THEN rest
                  ELSE <<[rest[1] EXCEPT !.layer = Greatest(@, top.layer + top.bonus)]>> \o Tail(rest)
      /\ UNCHANGED <<program, uses, phase, rules, needed, queue, todo, axioms>>

LayersEnd ==
  /\ phase = "layers" /\ stack = <<>> /\ todo = {}
  /\ phase' = "done"
  /\ UNCHANGED <<program, uses, rules, needed, queue, todo, axioms, layers, stack>>

Ended == phase \in {"done", "failed"} /\ UNCHANGED axVars

AxNext ==
  \/ \E l \in queue : Collect(l)
  \/ CollectEnd
  \/ \E a \in todo : Simplify(a)
  \/ SimplifyEnd
  \/ \E l \in todo : AddAxioms(l)
  \/ \E l \in todo : NegationFails(l)
  \/ NegateEnd
  \/ \E a \in todo : FindRoot(a)
  \/ stack # <<>> /\ \E d \in Head(stack).rest : FindLevel(d)
  \/ ReturnLevel
  \/ LayersEnd
  \/ Ended

AxSpec == AxInit /\ [][AxNext]_axVars

-----------------------------------------------------------------------------
(* What the axioms of a task mean, and what a planner makes of the result. *)

Basic == ToSet(SortedAtoms) \ Derived

\* Some body of an atom holds.
Follows(bodies, state) == \E c \in ToSet(bodies) : AllHold(Body(c), state)

\* The literals whose axioms are complete.
Handled ==
  IF phase \in {"collect", "simplify", "failed"} THEN {} ELSE IF phase = "negate" THEN needed \ todo ELSE needed

\* The pairs of an atom and an atom that a body of the first contains.
Mentions == {e \in Derived \X Derived : \E c \in ToSet(program[e[1]]) : \E l \in Body(c) : l.atom = e[2]}

Acyclic == \E rank \in [Derived -> 1..Cardinality(Derived)] : \A e \in Mentions : rank[e[2]] < rank[e[1]]

\* The derived atoms that a program without cycles makes true in a state.
Truth(state) ==
  LET after[n \in 0..Cardinality(Derived)] ==
        IF n = 0 THEN {} ELSE {a \in Derived : Follows(program[a], state \cup after[n - 1])}
  IN  after[Cardinality(Derived)]

\* The planner: layer by layer, the axioms that change an initial value are
\* applied until nothing changes.
Evaluated(state) ==
  LET fires(n, S) == {a \in DOMAIN layers : /\ layers[a] = n
                                            /\ \E x \in Active : x.head.atom = a /\ AllHold(x.body, state \cup S)}
      step(n, S) == (S \ (fires(n, S) \cap axiomInit)) \cup (fires(n, S) \ axiomInit)
      rounds == Cardinality(Derived)
      after[n \in 0..rounds, k \in 0..rounds] ==
        IF k > 0 THEN step(n, after[n, k - 1])
        ELSE IF n = 0 THEN axiomInit ELSE after[n - 1, rounds]
  IN  after[rounds, rounds]

\* The dependencies among the atoms with a layer, with their bonus.
Edges == {<<a, d[1], d[2]>> : a \in DOMAIN layers, d \in UNION {DependsOn(b) : b \in DOMAIN layers}}

Dependencies == {e \in Edges : e[2] \in DOMAIN layers /\ <<e[2], e[3]>> \in DependsOn(e[1])}

Below(a) ==
  LET reach[n \in 0..Cardinality(DOMAIN layers)] ==
        IF n = 0 THEN {a} ELSE reach[n - 1] \cup {e[2] : e \in {f \in Dependencies : f[1] \in reach[n - 1]}}
  IN  reach[Cardinality(DOMAIN layers)]

NegativeCycle == \E e \in Dependencies : e[3] = 1 /\ e[1] \in Below(e[2])

-----------------------------------------------------------------------------
(* Properties.                                                             *)

\* simplify, run on lists that shrink while it reads them, never changes when an
\* atom follows, whatever the other derived atoms are; and the axioms that are
\* written for a literal, the expanded ones for negated literals too, apply
\* exactly when the axioms of the task make it true.
AxiomsKeepMeaning ==
  \A state \in SUBSET ToSet(SortedAtoms) :
    /\ \A a \in Derived : Follows(rules[a], state) <=> Follows(program[a], state)
    /\ \A l \in Handled :
         (\E x \in axioms : x.head = l /\ AllHold(x.body, state))
           <=> (Follows(program[l.atom], state) <=> ~ l.negated)

\* handle_axioms as a whole: the planner gives every literal that the task
\* reads, and every one it needs for these, the value that the axioms of the
\* task give it, in every state.
EvaluationIsRight ==
  phase = "done" /\ Acyclic =>
    \A state \in SUBSET Basic, l \in needed \cup uses.conditions \cup {Negate(k) : k \in uses.deletes} :
      Holds(l, state \cup Evaluated(state)) = Holds(l, state \cup Truth(state))

\* An assertion stops the translator only for a reason: a body without literals
\* that had to be negated, or a cycle through a condition that holds at first.
OnlyRealCyclesFail ==
  phase = "failed" =>
    \/ \E l \in needed : l.negated /\ \E c \in ToSet(rules[l.atom]) : c = <<>>
    \/ NegativeCycle
=============================================================================
