----------------------------- MODULE MCSimplify -----------------------------
(***************************************************************************)
(* Tasks with a variable of three values, one of two and a derived one.     *)
(***************************************************************************)
EXTENDS Simplify

Effect(v, n, c) == [var |-> v, post |-> n, condition |-> c]

\* The first value of an effect is the operator's prevail condition on it.
Operator(i, C, E) ==
  LET pre(v) == IF \E p \in C : p[1] = v THEN (CHOOSE p \in C : p[1] = v)[2] ELSE -1
  IN  [number |-> i, prevail |-> C,
       effects |-> {[var |-> e.var, pre |-> pre(e.var), post |-> e.post, condition |-> e.condition] :
                      e \in {f \in E : f.post # pre(f.var)}}]

Prevails == {{}, {<<1, 0>>}, {<<2, 1>>}, {<<1, 1>>, <<3, 0>>}}

EffectSets ==
  {{Effect(1, 1, {})}, {Effect(1, 2, {<<2, 0>>}), Effect(2, 0, {<<1, 2>>})}, {Effect(2, 0, {})}, {},
   {Effect(1, 2, {})}, {Effect(1, 2, {<<3, 0>>}), Effect(2, 0, {})}, {Effect(1, 1, {}), Effect(2, 0, {<<1, 2>>})},
   {Effect(1, 0, {<<1, 1>>}), Effect(1, 2, {<<3, 0>>})}, {Effect(2, 1, {<<1, 2>>}), Effect(1, 0, {})}}

\* No effect has a condition that contradicts the operator's prevail conditions.
Coherent(o) == \A e \in o.effects : ~Contradictory(e)

Operators(i) == {o \in {Operator(i, C, E) : C \in Prevails, E \in EffectSets} : Coherent(o)}

Wants == {{<<1, 2>>, <<2, 1>>}}

Axioms == {[condition |-> {<<1, 1>>, <<2, 1>>}, effect |-> <<3, 0>>], [condition |-> {<<1, 2>>}, effect |-> <<3, 0>>]}

Task(ops, ax, want) ==
  [ranges |-> <<3, 2, 2>>, init |-> <<0, 1, 1>>, goal |-> want, operators |-> ops, axioms |-> ax,
   mutexes |-> {{<<1, 0>>, <<1, 1>>, <<1, 2>>}, {<<1, 1>>, <<1, 2>>}}]

\* At 0 go to 1; and, under the contradictory condition 1, to 2: an assertion of
\* translate_pre_post stops the translator.
AbsurdTask == {Task({Operator(1, {<<1, 0>>}, {Effect(1, 1, {}), Effect(1, 2, {<<1, 1>>})})}, {}, {<<1, 1>>})}

MCTasks ==
  {Task({a, b}, ax, g) : a \in Operators(1), b \in Operators(2), ax \in SUBSET Axioms, g \in Wants} \cup AbsurdTask
=============================================================================
