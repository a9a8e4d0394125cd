------------------------------ MODULE Datalog -------------------------------
(***************************************************************************)
(* Rules over symbolic atoms: terms, variables and substitutions.           *)
(***************************************************************************)
EXTENDS Integers, SequencesExt

\* A term is a variable or an object; the number tells renamed variables apart.
Variable(x) == <<"?", x, 0>>

Object(o) == <<"o", o, 0>>

IsVariable(t) == t[1] = "?"

\* The predicate p$n is <<"p$", n>>.
Fact(p, args) == [pred |-> <<p, 0>>, args |-> args]

Rule(conditions, effect) == [conditions |-> conditions, effect |-> effect, kind |-> "none"]

\* get_variables.
Variables(atoms) == {t \in UNION {ToSet(a.args) : a \in atoms} : IsVariable(t)}

ConditionVariables(r) == Variables(ToSet(r.conditions))

AllVariables(r) == Variables({r.effect} \cup ToSet(r.conditions))

Substituted(a, f) == [a EXCEPT !.args = [i \in DOMAIN a.args |-> IF a.args[i] \in DOMAIN f THEN f[a.args[i]] ELSE a.args[i]]]

\* The occurrences of a term in an atom, of which the code may use the first or
\* the last one.
Places(a, t) == {i \in DOMAIN a.args : a.args[i] = t}

FirstPlace(a, t) == CHOOSE i \in Places(a, t) : \A j \in Places(a, t) : i <= j

LastPlace(a, t) == CHOOSE i \in Places(a, t) : \A j \in Places(a, t) : i >= j

\* An atom is an instance of a condition when its constants agree.
Unifies(condition, a) ==
  /\ condition.pred = a.pred
  /\ \A i \in DOMAIN a.args : IsVariable(condition.args[i]) \/ condition.args[i] = a.args[i]
=============================================================================
