---------------------------- MODULE MCTranslate -----------------------------
(***************************************************************************)
(* Tasks over the atoms x1 and x2, of which at most one is true, and y,     *)
(* which excludes x2.                                                       *)
(***************************************************************************)
EXTENDS Translate

Yes(a) == Atom(a)

No(a) == NegatedAtom(a)

Effect(c, a) == [condition |-> c, atom |-> a]

Groups == << <<"x1", "x2">>, <<"y">> >>

Mutexes == << <<"x1", "x2">>, <<"x2", "y">> >>

Legal0 == {{}, {"x1"}, {"x2"}, {"y"}, {"x1", "y"}}

Preconditions == {<<>>, <<No("x1")>>, <<No("x1"), No("x2")>>, <<Yes("x2"), No("y")>>, <<No("y"), Yes("x1")>>}

Whens == {<<>>, <<Yes("x1")>>, <<No("x2")>>, <<No("y"), No("x1")>>, <<Yes("y")>>}

Maybe(a) == {{}} \cup {{Effect(c, a)} : c \in Whens}

MCOperators ==
  {[precondition |-> p, add |-> a1 \cup a2, del |-> d1 \cup d2] :
     p \in Preconditions, a1 \in Maybe("x1") \cup Maybe("x2"), a2 \in Maybe("y"), d1 \in Maybe("x1"), d2 \in Maybe("y")}

\* An atom with a variable of its own that is both deleted and, under a
\* condition, added: prune_stupid_effect_conditions may then leave two effects
\* that set its variable to both values at once.
Undecided(op) == \E d \in op.del : d.atom = "y" /\ \E a \in op.add : a.atom = "y" /\ a.condition # <<>>

\* The operators that keep the groups: what invariant synthesis promises.
Safe(op) ==
  LET f(effects, s) == {e.atom : e \in {g \in effects : AllHold(ToSet(g.condition), s)}}
      r(s) == (s \ f(op.del, s)) \cup f(op.add, s)
  IN  /\ op.add # {}
      /\ ~Undecided(op)
      /\ \A s \in Legal0 : AllHold(ToSet(op.precondition), s) => r(s) \in Legal0

Task(g, m, i, want, ops, ax) ==
  [groups |-> g, mutex |-> m, init |-> i, goal |-> want, operators |-> ops, axioms |-> ax]

Shift == [precondition |-> <<>>, add |-> {Effect(<<Yes("x1")>>, "x2"), Effect(<<Yes("x2")>>, "x1")},
          del |-> {Effect(<<Yes("x1")>>, "x1"), Effect(<<>>, "x2"), Effect(<<>>, "y")}]

Put == [precondition |-> <<No("x1"), No("x2"), No("y")>>, add |-> {Effect(<<>>, "x1")}, del |-> {}]

SmallTasks == {Task(Groups, Mutexes, i, <<Yes("x1")>>, <<op, Shift, Put>>, <<>>) :
                 op \in {o \in MCOperators : Safe(o)}, i \in {{}}}

Goals == {<<Yes("x1"), Yes("x2")>>, <<Yes("x2"), Yes("y")>>, <<No("y"), Yes("s")>>, <<No("x1")>>, <<No("x1"), Yes("x2")>>, <<Yes("y"), No("x2")>>}

Axiom(a, sign, c) == [head |-> [atom |-> a, negated |-> sign], condition |-> c]

AxiomTasks ==
  {Task(Append(Groups, <<"d">>), Mutexes, i, g, <<Shift>>,
        <<Axiom("d", FALSE, <<No("x1"), No("x2")>>), Axiom("d", FALSE, <<No("x2"), Yes("y")>>),
          Axiom("d", TRUE, <<No("x1"), Yes("y")>>), Axiom("d", TRUE, <<Yes("y"), Yes("x2")>>)>>) :
     i \in {{"x1", "s"}, {"y", "s"}, {"x1", "x2", "s"}}, g \in Goals}

MCTasks == SmallTasks \cup AxiomTasks
=============================================================================
