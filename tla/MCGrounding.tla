----------------------------- MODULE MCGrounding ----------------------------
(***************************************************************************)
(* Tasks over two blocks, some with a table.  Blocks and tables are things, *)
(* and things are objects.                                                  *)
(***************************************************************************)
EXTENDS Grounding

X == Variable("x")
Y == Variable("y")
Z == Variable("z")
A == Object("a")
B == Object("b")
Desk == Object("t")

Atom(p, args) == LiteralOf("atom", p, args)

Not(c) == Condition("not", <<>>, <<c>>)

And(parts) == Condition("and", <<>>, parts)

Or(c, d) == Condition("or", <<>>, <<c, d>>)

Imply(c, d) == Condition("imply", <<>>, <<c, d>>)

AllOf(params, c) == Condition("forall", params, <<c>>)

SomeOf(params, c) == Condition("exists", params, <<c>>)

All(v, type, c) == AllOf(<<Typed(v, type)>>, c)

Some(v, type, c) == SomeOf(<<Typed(v, type)>>, c)

P(x) == Atom("p", <<x>>)
R(x, y) == Atom("r", <<x, y>>)
Q == Atom("q", <<>>)
Big(x) == Atom("big", <<x>>)
Clear(x) == Atom("clear", <<x>>)

Add(l) == SimpleEffect(l)

Del(l) == SimpleEffect([l EXCEPT !.kind = "negated"])

Both(parts) == RawEffect("and", <<>>, Truth, parts)

OneOf(parts) == RawEffect("oneof", <<>>, Truth, parts)

When(c, e) == RawEffect("when", <<>>, c, <<e>>)

Each(v, type, e) == RawEffect("forall", <<Typed(v, type)>>, Truth, <<e>>)

Pre(n) ==
  <<P(X),
    Imply(P(X), Some(Y, "block", R(X, Y))),
    All(Y, "block", Or(P(Y), R(X, Y))),
    Not(All(Y, "thing", Imply(R(X, Y), P(Y)))),
    And(<<Or(P(X), Big(X)), Some(Y, "block", Or(R(X, Y), And(<<Q, R(Y, X)>>)))>>),
    And(<<Some(Y, "block", R(X, Y)), Some(Y, "thing", P(Y)), Not(Q)>>),
    Not(And(<<P(X), Atom("=", <<X, A>>)>>)),
    And(<<Clear(X), Not(Big(X))>>)>>[n]

Effect(n) ==
  <<OneOf(<<Add(P(X)), Both(<<Del(P(X)), Add(Q)>>)>>),
    Both(<<OneOf(<<Add(Q), Del(Q)>>), OneOf(<<Add(P(X)), Del(P(X))>>)>>),
    Both(<<CostEffect(1), Each(Y, "block", When(R(X, Y), Del(R(X, Y)))), OneOf(<<Add(P(A)), OneOf(<<Add(P(B)), Add(Q)>>)>>)>>),
    When(Some(Y, "block", And(<<P(Y), R(Y, X)>>)), Both(<<Add(Q), Del(P(X))>>)),
    Both(<<Del(P(X)), Add(P(X)), When(Q, Add(R(X, A))), When(Q, Del(R(X, A)))>>),
    When(Or(P(X), Q), Both(<<Add(R(X, X)), When(Big(X), Del(Q))>>)),
    When(Not(Big(X)), Each(Y, "thing", When(P(Y), Add(R(X, Y))))),
    Both(<<Add(P(X)), Del(P(A)), When(Clear(X), Add(R(A, X)))>>)>>[n]

Goal(n) ==
  <<And(<<P(A), Not(Q)>>), Or(Q, Some(Y, "block", R(Y, Y))), Not(And(<<Q, Not(All(Y, "block", P(Y)))>>)), Clear(A)>>[n]

Block(o) == [name |-> o, type |-> "block"]

TaskOf(pre, effect, goalCondition, derived, init) ==
  [types |-> {<<"block", "thing">>, <<"thing", "object">>}, objects |-> <<Block(A), Block(B)>>,
   actions |-> <<[name |-> "act", params |-> <<Typed(X, "object")>>, pre |-> pre, effect |-> effect]>>,
   axioms |-> <<[name |-> derived, params |-> <<Typed(X, "thing")>>, cond |-> Not(Some(Y, "block", R(Y, X)))]>>,
   fluents |-> {P(A), P(B), Q, R(A, A), R(A, B), R(B, A)},
   init |-> init, goal |-> goalCondition]

Plainly == {Big(A), P(A), R(B, A)}

\* A conjunction within a conjunction, as a goal.
GoalTasks == {TaskOf(P(X), Effect(1), And(<<And(<<P(A), P(B)>>), Q>>), "clear", Plainly)}

\* A universal effect in a conjunction below a condition.
EffectTasks == {TaskOf(P(X), When(Q, Both(<<Each(Y, "block", Add(P(Y))), Del(Q)>>)), Goal(1), "clear", Plainly)}

\* Conditions over two variables: of one type, of one type each, and in the end
\* universal ones over two types in one quantifier.
Paired(n) ==
  LET blocks == <<Typed(Y, "block"), Typed(Z, "block")>>
      tables == <<Typed(Y, "table"), Typed(Z, "table")>>
      mixed == <<Typed(Y, "block"), Typed(Z, "table")>>
  IN  <<AllOf(blocks, Or(R(Y, Z), P(Y))),
        Not(SomeOf(tables, And(<<P(Y), Not(R(Y, Z))>>))),
        All(Y, "block", All(Z, "table", Or(R(Y, Z), P(Y)))),
        SomeOf(mixed, And(<<P(Y), R(Y, Z)>>)),
        AllOf(mixed, Or(R(Y, Z), P(Y))),
        Not(SomeOf(mixed, R(Y, Z)))>>[n]

WithTable(task) ==
  [task EXCEPT !.types = @ \cup {<<"table", "thing">>}, !.objects = Append(@, [name |-> Desk, type |-> "table"]),
               !.fluents = {P(A), P(B), P(Desk), R(A, A), R(A, B), R(A, Desk), R(Desk, Desk)}, !.init = {P(A), P(B), R(A, Desk)}]

\* Each of them as a precondition or below an effect, as a goal, and as an axiom.
PairedTasks ==
  {WithTable(TaskOf(Paired(i), Effect(1), Paired(1 + (i % 6)), "clear", {})) : i \in 1..6}
    \cup {WithTable([TaskOf(P(X), When(Paired(i), Add(R(X, Desk))), Goal(4), "clear", {}) EXCEPT
                       !.axioms[1].cond = Paired(1 + ((i + 2) % 6))]) : i \in 1..6}

\* Every precondition with every effect, the goals in turn.
MCTasks ==
  {TaskOf(Pre(i), Effect(j), Goal(1 + ((i + j) % 4)), "clear", IF (i + j) % 3 = 0 THEN {Big(A), P(A), R(B, A)} ELSE {Big(A), P(B), Q, R(A, A)}) :
     i, j \in 1..8}
    \cup {TaskOf(Pre(i), Effect(j), Goal(1), d, {Big(A), P(A)}) : i \in {2, 5}, j \in {1, 4}, d \in {"q", "big"}}
    \cup GoalTasks \cup EffectTasks \cup PairedTasks

-----------------------------------------------------------------------------
\* Whether an object of the type is also one of the other.
RECURSIVE IsA(_, _)
IsA(type, other) == type = other \/ \E p \in source.types : p[1] = type /\ IsA(p[2], other)

Values(params) ==
  {f \in [{p.name : p \in ToSet(params)} -> {o.name : o \in ToSet(source.objects)}] :
     \A p \in ToSet(params) : \E o \in ToSet(source.objects) : o.name = f[p.name] /\ IsA(o.type, p.type)}

RECURSIVE Holds(_, _, _)
Holds(c, f, s) ==
  CASE c.kind = "true" -> TRUE
    [] c.kind = "false" -> FALSE
    [] c.kind = "atom" -> Substituted(Plain(c), f) \in s
    [] c.kind = "negated" -> Substituted(Plain(c), f) \notin s
    [] c.kind = "not" -> ~Holds(c.parts[1], f, s)
    [] c.kind = "imply" -> Holds(c.parts[1], f, s) => Holds(c.parts[2], f, s)
    [] c.kind = "and" -> \A i \in DOMAIN c.parts : Holds(c.parts[i], f, s)
    [] c.kind = "or" -> \E i \in DOMAIN c.parts : Holds(c.parts[i], f, s)
    [] c.kind = "forall" -> \A g \in Values(c.params) : Holds(c.parts[1], g @@ f, s)
    [] c.kind = "exists" -> \E g \in Values(c.params) : Holds(c.parts[1], g @@ f, s)

\* The outcomes of an effect as it is written: sets of literals.
RECURSIVE Changes(_, _, _)
Changes(e, f, s) ==
  LET both(S, T) == {x \cup y : x \in S, y \in T}
  IN  CASE e.kind = "literal" -> {{Instance(e.literal, f)}}
        [] e.kind = "increase" -> {{}}
        [] e.kind = "and" -> FoldLeft(LAMBDA made, part : both(made, Changes(part, f, s)), {{}}, e.parts)
        [] e.kind = "oneof" -> UNION {Changes(e.parts[i], f, s) : i \in DOMAIN e.parts}
        [] e.kind = "when" -> IF Holds(e.cond, f, s) THEN Changes(e.parts[1], f, s) ELSE {{}}
        [] e.kind = "forall" -> FoldSet(LAMBDA g, made : both(made, Changes(e.parts[1], g @@ f, s)), {{}}, Values(e.params))

\* Adds win over deletes.
After(s, literals) ==
  (s \ {l.atom : l \in {m \in literals : m.kind = "negated"}}) \cup {l.atom : l \in {m \in literals : m.kind = "atom"}}

External(params, n, f) == [k \in 1..n |-> f[params[k].name]]

\* A state with the atoms that the axioms derive.
RECURSIVE WithDerived(_, _)
WithDerived(list, s) ==
  LET derived == UNION {LET a == list[i] IN
                   {[pred |-> <<a.name, 0>>, args |-> External(a.params, a.external, f)] :
                      f \in {g \in Values(a.params) : Holds(a.cond, g, s)}} : i \in DOMAIN list}
  IN  IF derived \subseteq s THEN s ELSE WithDerived(list, s \cup derived)

SourceAxioms == [i \in DOMAIN source.axioms |-> [name |-> source.axioms[i].name, params |-> source.axioms[i].params,
                                               external |-> Len(source.axioms[i].params), cond |-> source.axioms[i].cond]]

\* The steps from a state: the name of the action, its arguments, the next state.
SourceSteps(s) ==
  LET all == WithDerived(SourceAxioms, s)
  IN  UNION {LET a == source.actions[i]
             IN  UNION {{<<a.name, External(a.params, Len(a.params), f), After(s, ch)>> : ch \in Changes(a.effect, f, all)} :
                          f \in {g \in Values(a.params) : Holds(a.pre, g, all)}} : i \in DOMAIN source.actions}

\* What the effects of an action of the normal form change.
Fired(n, f, s) ==
  UNION {{Instance(e.literal, g @@ f) : g \in {h \in Values(e.params) : Holds(e.cond, h @@ f, s)}} : e \in ToSet(effects[n])}

NormalSteps(s) ==
  LET all == WithDerived(axioms, s)
  IN  UNION {LET a == actions[i]
             IN  {<<a.name[1], External(a.params, a.external, f), After(s, Fired(a.name, f, all))>> :
                    f \in {g \in Values(a.params) : Holds(a.pre, g, all)}} : i \in DOMAIN actions}

TrueInstances(list, s) == \A k \in DOMAIN list : (list[k].atom \in s) = (list[k].kind = "atom")

RECURSIVE WithGroundDerived(_)
WithGroundDerived(s) ==
  LET derived == {a.effect : a \in {b \in groundAxioms : TrueInstances(b.body, s)}}
  IN  IF derived \subseteq s THEN s ELSE WithGroundDerived(s \cup derived)

GroundSteps(s) ==
  LET all == WithGroundDerived(s)
      chosen(S) == {p[2] : p \in {q \in S : TrueInstances(q[1], all)}}
  IN  {<<a.name[1], a.args, (s \ chosen(a.del)) \cup chosen(a.add)>> : a \in {b \in ground : TrueInstances(b.pre, all)}}

Static == {a \in InitFacts : a.pred[1] \notin {p.pred : p \in source.fluents}}

States == {Static \cup {Plain(a) : a \in S} : S \in SUBSET source.fluents}

RECURSIVE ReachableFrom(_)
ReachableFrom(S) ==
  LET more == S \cup UNION {{t[3] : t \in SourceSteps(s)} : s \in S} IN IF more = S THEN S ELSE ReachableFrom(more)

-----------------------------------------------------------------------------
(* Properties.                                                             *)

Stages == <<"parse", "universal", "goal", "dnf", "split", "move", "axioms", "preconditions", "effects", "verify", "rules",
            "done", "explored", "ground">>

\* Whether a pass has been made.
Past(s) == \E i, j \in DOMAIN Stages : Stages[i] = s /\ Stages[j] = stage /\ i < j

Final == {"ground", "error", "assertion"}

RECURSIVE OfOneType(_)
OfOneType(c) ==
  /\ c.kind = "forall" => \A p, q \in ToSet(c.params) : p.type = q.type
  /\ \A part \in ToSet(c.parts) : OfOneType(part)

\* No quantifier that is universal once it is parsed has parameters of two types.
AllOfOneType(conditions) == \A c \in conditions : OfOneType(Parsed(c, FALSE))

RECURSIVE ConditionsOf(_)
ConditionsOf(effect) == {effect.cond} \cup UNION {ConditionsOf(part) : part \in ToSet(effect.parts)}

AxiomConditions == {a.cond : a \in ToSet(source.axioms)}

ActionConditions == UNION {{a.pre} \cup ConditionsOf(a.effect) : a \in ToSet(source.actions)}

\* Every pass keeps what the actions do: in each state the same actions can be
\* taken, with the same arguments, to the same states.  A universal quantifier
\* over two types is expanded over the last of them only (normalize.py:193).
StepsAreKept ==
  Past("parse") /\ stage # "error" /\ AllOfOneType(ActionConditions \cup AxiomConditions) =>
    \A s \in States : NormalSteps(s) = SourceSteps(s)

\* Every pass keeps the goal and the derived predicates that were there.
GoalIsKept ==
  Past("parse") /\ stage # "error" /\ AllOfOneType(AxiomConditions \cup {source.goal}) =>
    \A s \in States :
      LET all == WithDerived(SourceAxioms, s)
          now == WithDerived(axioms, s)
      IN  /\ Holds(goal, <<>>, now) = Holds(source.goal, <<>>, all)
          /\ {a \in now : a.pred # <<GoalAxiom, 0>>} = all

\* No two parameters of an action, an effect or an axiom have one name, through
\* the renaming at the start and the quantifiers that become parameters.
ParametersAreDistinct ==
  LET distinct(params) == \A i, j \in DOMAIN params : params[i].name = params[j].name => i = j
  IN  /\ \A i \in DOMAIN actions : /\ distinct(actions[i].params)
                                   /\ \A e \in ToSet(effects[actions[i].name]) : distinct(actions[i].params \o e.params)
      /\ \A i \in DOMAIN axioms : distinct(axioms[i].params)

\* The ground task takes the same steps as the task that was written, in every
\* state that can be reached, and finds the goal reachable if some state fulfils it.
GroundingIsExact ==
  stage = "ground" /\ AllOfOneType(ActionConditions \cup AxiomConditions \cup {source.goal}) =>
    \A s \in ReachableFrom({InitFacts}) :
      /\ GroundSteps(s) = SourceSteps(s)
      /\ Holds(source.goal, <<>>, WithDerived(SourceAxioms, s)) => GoalReachable \in model
=============================================================================
