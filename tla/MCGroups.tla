----------------------------- MODULE MCGroups -----------------------------
(***************************************************************************)
(* The ground states of a task, in which the groups have to keep what they  *)
(* promise; tasks of a small transport domain: things x are at places l or  *)
(* held.                                                                    *)
(***************************************************************************)
EXTENDS FactGroups

-----------------------------------------------------------------------------
(* The ground states of the task.                                          *)

Objects == UNION {ToSet(t) : t \in UNION {task.actions[i].reachable : i \in DOMAIN task.actions}}
             \cup UNION {ToSet(task.init[k].args) : k \in DOMAIN task.init}

GroundAtoms ==
  UNION {{[pred |-> task.predicates[i].name, args |-> args] : args \in [1..task.predicates[i].arity -> Objects]} :
           i \in DOMAIN task.predicates}

AtomOf(l) == [pred |-> l.pred, args |-> l.args]

TrueLiteral(l, s) == IF l.pred = "=" THEN (l.args[1] = l.args[2]) # l.negated ELSE (AtomOf(l) \in s) # l.negated

AllTrue(C, f, s) == \A l \in C : TrueLiteral(Substituted(l, f), s)

Bind(a, t) == [v \in ToSet(a.params) |-> t[CHOOSE i \in DOMAIN a.params : a.params[i] = v]]

\* What an instance of an action makes of a state: adds win over deletes.
Changed(a, t, s) ==
  LET f == Bind(a, t)
      fired == UNION {{Substituted(e.literal, g @@ f) :
                         g \in {h \in [ToSet(e.params) -> Objects] : AllTrue(e.condition, h @@ f, s)}} : e \in ToSet(a.effects)}
  IN  (s \ {AtomOf(l) : l \in {m \in fired : m.negated}}) \cup {AtomOf(l) : l \in {m \in fired : ~m.negated}}

Successors(s) ==
  UNION {{Changed(task.actions[i], t, s) :
            t \in {u \in task.actions[i].reachable : AllTrue(task.actions[i].pre, Bind(task.actions[i], u), s)}} :
         i \in DOMAIN task.actions}

RECURSIVE ReachableFrom(_)
ReachableFrom(S) == LET more == S \cup UNION {Successors(s) : s \in S} IN IF more = S THEN S ELSE ReachableFrom(more)

\* The atoms of a state that an instance of an invariant covers.
Covered(inv, values, s) == {a \in s : \E part \in inv : part.pred = a.pred /\ Parameters(part, a) = values}

Arity(inv) == Len((CHOOSE part \in inv : TRUE).order)

\* No action leads from a state with at most one true atom of an instance of an
\* accepted invariant to one with two: the symbolic check is sound
\* (where no effect names an object).
AcceptedArePreserved ==
  phase = "find" /\ ~finding =>
    \A inv \in accepted : \A values \in [1..Arity(inv) -> Objects] : \A s \in SUBSET GroundAtoms :
      Cardinality(Covered(inv, values, s)) <= 1
        => \A u \in Successors(s) : Cardinality(Covered(inv, values, u)) <= 1

\* At most one atom of a variable, and of a mutex group, is true in any state that
\* can be reached: the invariants, their instances and what is left of them after
\* others were chosen; and a variable keeps to one of the mutex groups.
VariablesAreExclusive ==
  /\ phase = "done" =>
       \A s \in ReachableFrom({{AtomOf(task.init[k]) : k \in DOMAIN task.init}}) :
         \A g \in ToSet(chosen) \cup MutexGroups : Cardinality(g \cap s) <= 1
  /\ WithinGroups

-----------------------------------------------------------------------------
(* Instances.                                                              *)

X == Variable("x")
Y == Variable("y")
L == Variable("l")
M == Variable("m")
A == Object("a")
B == Object("b")

Is(p, args) == Literal(p, args, FALSE)

No(p, args) == Literal(p, args, TRUE)

Effect(l) == [params |-> <<>>, condition |-> {}, literal |-> l]

When(c, l) == [params |-> <<>>, condition |-> c, literal |-> l]

ForAll(v, c, l) == [params |-> <<v>>, condition |-> c, literal |-> l]

Tuples(n) == [1..n -> {A, B}]

Action(params, instances, pre, effects) == [params |-> params, reachable |-> instances, pre |-> pre, effects |-> effects]

Different == {t \in Tuples(2) : t[1] # t[2]}

ActionSet ==
  {Action(<<X, L>>, Tuples(2), {Is("at", <<X, L>>), Is("free", <<>>)},
          <<Effect(No("at", <<X, L>>)), Effect(Is("held", <<X>>)), Effect(No("free", <<>>))>>),
   Action(<<X, L>>, Tuples(2), {Is("held", <<X>>)},
          <<Effect(Is("at", <<X, L>>)), Effect(Is("free", <<>>)), Effect(No("held", <<X>>))>>),
   Action(<<X, L, M>>, Tuples(3), {Is("at", <<X, L>>)}, <<Effect(No("at", <<X, L>>)), Effect(Is("at", <<X, M>>))>>),
   Action(<<L, M>>, Different, {}, <<ForAll(X, {Is("at", <<X, L>>)}, Is("at", <<X, M>>)),
                                     ForAll(Y, {Is("at", <<Y, L>>)}, No("at", <<Y, L>>))>>),
   Action(<<X, Y>>, Different \cup {<<A, A>>}, {Is("held", <<X>>)},
          <<Effect(No("held", <<X>>)), When({No("free", <<>>)}, Is("held", <<Y>>))>>),
   Action(<<X, Y>>, Different, {Is("at", <<X, X>>), Is("at", <<X, Y>>)},
          <<Effect(No("at", <<X, X>>)), Effect(Is("at", <<X, Y>>)), Effect(Is("at", <<Y, Y>>)), Effect(No("at", <<Y, Y>>))>>),
   Action(<<X>>, Tuples(1), {Is("held", <<X>>)}, <<ForAll(L, {}, Is("at", <<X, L>>)), Effect(No("held", <<X>>))>>),
   Action(<<X, L, M>>, Tuples(3), {Is("at", <<X, L>>), Is("=", <<M, A>>)},
          <<Effect(No("at", <<X, L>>)), When({Is("free", <<>>)}, Is("at", <<X, M>>))>>)}

Predicates == <<[name |-> "at", arity |-> 2], [name |-> "held", arity |-> 1], [name |-> "free", arity |-> 0]>>

Fact0(p, args) == [pred |-> p, args |-> args]

Inits == {<<Fact0("at", <<A, A>>), Fact0("at", <<B, A>>), Fact0("free", <<>>)>>, <<Fact0("held", <<A>>), Fact0("at", <<B, B>>), Fact0("at", <<B, A>>)>>}

\* The atoms that relaxed exploration reaches: nothing is ever deleted.
PositiveHold(C, f, s) ==
  \A l \in C : LET g == Substituted(l, f) IN
    IF l.pred = "=" THEN (g.args[1] = g.args[2]) # l.negated ELSE l.negated \/ AtomOf(g) \in s

Added(a, t, s) ==
  LET f == Bind(a, t)
  IN  IF ~PositiveHold(a.pre, f, s) THEN {}
      ELSE UNION {{AtomOf(Substituted(e.literal, g @@ f)) :
                     g \in {h \in [ToSet(e.params) -> {A, B}] : PositiveHold(e.condition, h @@ f, s)}} :
                  e \in {x \in ToSet(a.effects) : ~x.literal.negated}}

RECURSIVE Explored(_, _)
Explored(acts, s) ==
  LET more == s \cup UNION {UNION {Added(a, t, s) : t \in a.reachable} : a \in acts}
  IN  IF more = s THEN s ELSE Explored(acts, more)

FluentNames(acts) == {e.literal.pred : e \in UNION {ToSet(a.effects) : a \in acts}}

Task(acts, init) ==
  [predicates |-> Predicates, actions |-> acts, init |-> init,
   atoms |-> {a \in Explored(ToSet(acts), ToSet(init)) : a.pred \in FluentNames(ToSet(acts))}]

MCInvTasks == {Task(SetToSeq({a, b}), i) : a, b \in ActionSet, i \in Inits}

\* A delete effect speaks of a constant: x leaves a for l.
ConstantTasks ==
  {Task(<<Action(<<X, L>>, Tuples(2), {Is("at", <<X, A>>), No("=", <<L, A>>)},
                 <<Effect(No("at", <<X, A>>)), Effect(Is("at", <<X, L>>))>>)>>,
        <<Fact0("at", <<A, A>>), Fact0("at", <<B, B>>)>>)}
=============================================================================
