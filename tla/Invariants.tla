----------------------------- MODULE Invariants -----------------------------
(***************************************************************************)
(* Mutex groups are found by guessing and checking                          *)
(* (src/submodules/invariant_finder.py, invariants.py, constraints.py).  A  *)
(* candidate says that, for all values of its variables, at most one of the *)
(* atoms that its parts cover is true.  Whether an action keeps it is       *)
(* decided on the action's symbolic literals.                               *)
(***************************************************************************)
EXTENDS Datalog, FiniteSets

CONSTANTS
  InvTasks,       \* [predicates, actions, init, atoms]
  MaxCandidates   \* MAX_CANDIDATES

ASSUME InvTasksAssumption == \A t \in InvTasks : IsFiniteSet(t.atoms) /\ IsFiniteSet(DOMAIN t.init)

VARIABLES
  task,        \* the task
  candidates,  \* a queue
  seen,        \* seen_candidates
  candidate,   \* the candidate that is being checked, <<>> or <<candidate>>
  unchecked,   \* the actions that threaten it and have not been checked
  accepted,    \* the candidates that were yielded
  finding      \* whether find_invariants is at work

invVars == <<task, candidates, seen, candidate, unchecked, accepted, finding>>

Literal(p, args, negated) == [pred |-> p, args |-> args, negated |-> negated]

Not(l) == [l EXCEPT !.negated = ~@]

-----------------------------------------------------------------------------
(* constraints.py.  A system is a set of disjunctions of assignments, each  *)
(* a set of pairs to be equal, and a set of clauses, of whose pairs one     *)
(* must differ.                                                            *)

\* _compute_equivalence_classes.
Classes(E) ==
  FoldSet(LAMBDA e, made : LET met == {c \in made : c \cap {e[1], e[2]} # {}}
                           IN  (made \ met) \cup {UNION met \cup {e[1], e[2]}},
          {}, E)

Joined(E, p) == p[1] = p[2] \/ \E c \in Classes(E) : {p[1], p[2]} \subseteq c

\* Assignment._compute_mapping: no two constants are to be equal.
IsConsistent(E) == \A c \in Classes(E) : Cardinality({t \in c : ~IsVariable(t)}) <= 1

System(assignments, clauses) == [assignments |-> assignments, clauses |-> clauses]

Combined(s, t) == System(s.assignments \cup t.assignments, s.clauses \cup t.clauses)

\* _combine_assignments, for every choice of one assignment of each disjunction.
Combinations(s) == FoldSet(LAMBDA d, made : {E \cup e : E \in made, e \in d}, {{}}, s.assignments)

\* ConstraintSystem.is_solvable.
IsSolvable(s) ==
  \E E \in Combinations(s) : IsConsistent(E) /\ \A c \in s.clauses : \E p \in c : ~Joined(E, p)

Pairwise(s, t) == {<<s[i], t[i]>> : i \in DOMAIN s}

\* ensure_conjunction_sat.
ConjunctionSat(literals) ==
  LET equations == {l \in literals : l.pred = "="}
      atoms == literals \ equations
      clash == {p \in atoms \X atoms : p[1].pred = p[2].pred /\ p[1].negated /\ ~p[2].negated /\ p[1].args # <<>>}
  IN  System({{{<<l.args[1], l.args[2]>>}} : l \in {m \in equations : ~m.negated}},
             {{<<l.args[1], l.args[2]>>} : l \in {m \in equations : m.negated}} \cup {Pairwise(p[1].args, p[2].args) : p \in clash})

\* ensure_inequality: the parts of a literal are always empty, so no clause is added.
Inequality(l1, l2) == System({}, {})

-----------------------------------------------------------------------------
(* InvariantPart and Invariant.  A part is [pred, order, omitted]: the      *)
(* places of the atom where the variables stand, and the place, or -1, that *)
(* is counted.  An invariant is a set of parts over different predicates.   *)

Part(p, order, omitted) == [pred |-> p, order |-> order, omitted |-> omitted]

Covers(inv, l) == \E part \in inv : part.pred = l.pred

PartOf(inv, l) == CHOOSE part \in inv : part.pred = l.pred

\* find_unique_variables.
InvariantVariable(k) == <<"?", "v", k>>

\* ensure_cover, get_covering_assignments.
Cover(inv, l) ==
  LET order == PartOf(inv, l).order
  IN  System({{{<<InvariantVariable(k), l.args[order[k]]>> : k \in DOMAIN order}}}, {})

\* possible_matches: the orders in which an atom of an other predicate has the
\* same arguments, one of which may be counted.
PossibleMatches(part, own, other) ==
  LET n == Len(part.order)
      places == DOMAIN other.args
      orders == {f \in [1..n -> places] : IsInjective(f) /\ \A k \in 1..n : other.args[f[k]] = own.args[part.order[k]]}
      rest(f) == places \ ToSet(f)
  IN  IF Cardinality(places) - n \notin {0, 1} THEN {}
      ELSE {Part(other.pred, f, IF rest(f) = {} THEN -1 ELSE CHOOSE i \in rest(f) : TRUE) : f \in orders}

-----------------------------------------------------------------------------
(* BalanceChecker.                                                         *)

\* add_inequality_preconds: parameters that differ in every reachable instance.
UnequalParameters(a) ==
  {p \in (DOMAIN a.params) \X (DOMAIN a.params) :
     p[1] < p[2] /\ \A t \in a.reachable : t[p[1]] # t[p[2]]}

Precondition(a) ==
  a.pre \cup {Literal("=", <<a.params[p[1]], a.params[p[2]]>>, TRUE) : p \in UnequalParameters(a)}

\* The effects of the heavy action: universal effects twice, with new variables.
HeavyEffects(a) ==
  LET new(e) == [v \in ToSet(e.params) |-> <<"?", v[2], 1>>]
      copy(e, i) == [literal |-> Substituted(e.literal, new(e)),
                     condition |-> {Substituted(l, new(e)) : l \in e.condition}, copy |-> <<i, 1>>]
  IN  {[literal |-> a.effects[i].literal, condition |-> a.effects[i].condition, copy |-> <<i, 0>>] : i \in DOMAIN a.effects}
        \cup {copy(a.effects[i], i) : i \in {j \in DOMAIN a.effects : a.effects[j].params # <<>>}}

\* get_threats.
Threats(inv) ==
  {i \in DOMAIN task.actions : \E k \in DOMAIN task.actions[i].effects :
     LET l == task.actions[i].effects[k].literal IN ~l.negated /\ Covers(inv, l)}

\* operator_too_heavy: two different effects may add atoms of one instance.
TooHeavy(a, inv) ==
  \E e1, e2 \in {e \in HeavyEffects(a) : ~e.literal.negated /\ Covers(inv, e.literal)} :
    /\ e1.copy # e2.copy
    /\ IsSolvable(Combined(Combined(Inequality(e1.literal, e2.literal), Combined(Cover(inv, e1.literal), Cover(inv, e2.literal))),
                           ConjunctionSat(Precondition(a) \cup e1.condition \cup e2.condition
                                            \cup {Not(e1.literal), Not(e2.literal)})))

\* minimal_covering_renamings: parameters are equal only if the cover says so.
Renaming(a, e, inv) ==
  LET cover == Cover(inv, e.literal)
      E == UNION (UNION cover.assignments)
  IN  Combined(cover, System({}, {{q} : q \in
        {n \in ToSet(a.params) \X ToSet(a.params) : ~Joined(E, n)}}))

LeftHandSide(a, e) == Precondition(a) \cup e.condition \cup {Not(e.literal)}

\* Mutant of ImpliedBy: that the deleted atom is true need not follow.
ImpliedByConditions(d, lhs) ==
  {{Pairwise(l.args, m.args) : m \in {n \in lhs : n.pred = l.pred /\ n.negated = l.negated}} : l \in d.condition}

\* imply_del_effect: ways in which the left hand side implies the condition of
\* the delete effect, and that its atom is true; a disjunction without a member
\* has no way.
ImpliedBy(d, lhs) ==
  {{Pairwise(l.args, m.args) : m \in {n \in lhs : n.pred = l.pred /\ n.negated = l.negated}} :
     l \in d.condition \cup {Not(d.literal)}}

\* unbalanced_renamings, for the one renaming there is.
Balances(d, a, e, inv) ==
  LET renaming == Renaming(a, e, inv)
      lhs == LeftHandSide(a, e)
      system == Combined(Combined(Inequality(e.literal, d.literal), Cover(inv, d.literal)), renaming)
  IN  IF IsSolvable(Combined(renaming, ConjunctionSat(lhs)))
      THEN IsSolvable(Combined(system, System(ImpliedBy(d, lhs), {})))
      ELSE IsSolvable(system)

\* add_effect_unbalanced.
AddUnbalanced(a, e, inv) ==
  ~\E d \in ToSet(a.effects) : d.literal.negated /\ Covers(inv, d.literal) /\ Balances(d, a, e, inv)

\* operator_unbalanced: the add effects that are not balanced.
UnbalancedEffects(a, inv) ==
  {i \in DOMAIN a.effects :
     LET e == a.effects[i] IN ~e.literal.negated /\ Covers(inv, e.literal) /\ AddUnbalanced(a, e, inv)}

\* refine_candidate.
Refinements(a, e, inv) ==
  UNION {{inv \cup {match} : match \in PossibleMatches(PartOf(inv, e.literal), e.literal, d.literal)} :
           d \in {f \in ToSet(a.effects) : f.literal.negated /\ ~Covers(inv, f.literal)}}

-----------------------------------------------------------------------------
(* find_invariants.                                                        *)

Fluents == SelectSeq(task.predicates, LAMBDA p :
             \E i \in DOMAIN task.actions : \E k \in DOMAIN task.actions[i].effects :
               task.actions[i].effects[k].literal.pred = p.name)

\* get_initial_invariants: a predicate with one of its arguments, or none, counted.
InitialInvariants ==
  LET all(p) == [i \in 1..p.arity |-> i]
      one(p, omitted) == {Part(p.name, SelectSeq(all(p), LAMBDA i : i # omitted), omitted)}
      of(p) == [k \in 1..(p.arity + 1) |-> one(p, IF k = 1 THEN -1 ELSE k - 1)]
  IN  FoldLeft(LAMBDA made, p : made \o of(p), <<>>, Fluents)

InvInit ==
  /\ task \in InvTasks
  /\ candidates = InitialInvariants
  /\ seen = ToSet(candidates)
  /\ candidate = <<>> /\ unchecked = {}
  /\ accepted = {}
  /\ finding = TRUE

NextCandidate ==
  /\ finding /\ candidate = <<>> /\ candidates # <<>>
  /\ candidate' = <<Head(candidates)>>
  /\ unchecked' = Threats(Head(candidates))
  /\ candidates' = Tail(candidates)
  /\ UNCHANGED <<task, seen, accepted, finding>>

\* INVARIANT_TIME_LIMIT, or no candidate is left.
FindingEnds ==
  /\ finding /\ candidate = <<>>
  /\ finding' = FALSE
  /\ candidates' = IF candidates = <<>> THEN <<>> ELSE Tail(candidates)
  /\ UNCHANGED <<task, seen, candidate, unchecked, accepted>>

\* enqueue_func.
Enqueue(q, inv) ==
  IF Cardinality(q.seen) < MaxCandidates /\ inv \notin q.seen
  THEN [seen |-> q.seen \cup {inv}, candidates |-> Append(q.candidates, inv)] ELSE q

\* The actions are a set: any of them may be the one that refutes the candidate,
\* and it alone says how the candidate is refined.
CheckAction(i) ==
  /\ candidate # <<>> /\ i \in unchecked
  /\ LET a == task.actions[i]
         inv == candidate[1]
         unbalanced == UnbalancedEffects(a, inv)
         first == CHOOSE k \in unbalanced : \A j \in unbalanced : k <= j
         refined == FoldLeft(Enqueue, [seen |-> seen, candidates |-> candidates],
                             SetToSeq(Refinements(a, a.effects[first], inv)))
     IN  IF TooHeavy(a, inv)
         THEN candidate' = <<>> /\ unchecked' = {} /\ UNCHANGED <<candidates, seen>>
         ELSE IF unbalanced # {}
         THEN candidate' = <<>> /\ unchecked' = {} /\ candidates' = refined.candidates /\ seen' = refined.seen
         ELSE unchecked' = unchecked \ {i} /\ UNCHANGED <<candidate, candidates, seen>>
  /\ UNCHANGED <<task, accepted, finding>>

Accept ==
  /\ candidate # <<>> /\ unchecked = {}
  /\ accepted' = accepted \cup ToSet(candidate)
  /\ candidate' = <<>>
  /\ UNCHANGED <<task, candidates, seen, unchecked, finding>>

-----------------------------------------------------------------------------
(* useful_groups.                                                          *)

Parameters(part, atom) == [k \in DOMAIN part.order |-> atom.args[part.order[k]]]

\* Mutant of UsefulGroups: groups with several true atoms stay.
NonemptyGroups ==
  UNION {{<<inv, Parameters(PartOf(inv, a), a)>> : inv \in {i \in accepted : Covers(i, a)}} : a \in ToSet(task.init)}

\* The instances of invariants that one entry of the initial state falls into.
UsefulGroups ==
  LET keys(a) == {<<inv, Parameters(PartOf(inv, a), a)>> : inv \in {i \in accepted : Covers(i, a)}}
      all == UNION {keys(a) : a \in ToSet(task.init)}
  IN  {g \in all : Cardinality({k \in DOMAIN task.init : g \in keys(task.init[k])}) = 1}

InvNext ==
  \/ NextCandidate
  \/ FindingEnds
  \/ \E i \in unchecked : CheckAction(i)
  \/ Accept
=============================================================================
