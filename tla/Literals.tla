------------------------------ MODULE Literals ------------------------------
(***************************************************************************)
(* The ground literals of the translator (src/submodules/pddl/conditions.py):*)
(* an atom is a value, a literal an atom and a sign, a state the set of its  *)
(* true atoms.                                                               *)
(***************************************************************************)

Atom(a) == [atom |-> a, negated |-> FALSE]

NegatedAtom(a) == [atom |-> a, negated |-> TRUE]

Negate(l) == [l EXCEPT !.negated = ~@]

Holds(l, state) == (l.atom \in state) # l.negated

AllHold(C, state) == \A l \in C : Holds(l, state)
=============================================================================
