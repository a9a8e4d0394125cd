---------------------------- MODULE MCAxiomRules ----------------------------
(***************************************************************************)
(* Axioms over the derived atoms a and b and the basic atoms p and q.       *)
(***************************************************************************)
EXTENDS AxiomRules

MCAtoms == <<"a", "b", "c", "p", "q">>

\* One body for b and two for a, with repeated literals, repeated, dominated
\* and contradictory bodies, and empty ones.
BodiesOfB == {<<>>, <<Atom("p")>>, <<NegatedAtom("p"), Atom("p")>>, <<Atom("q"), NegatedAtom("p")>>}

BodiesOfA ==
  {<<>>, <<Atom("b")>>, <<Atom("p"), Atom("b"), Atom("p")>>, <<NegatedAtom("b"), Atom("q")>>, <<NegatedAtom("q")>>,
   <<NegatedAtom("p"), Atom("p"), NegatedAtom("p")>>}

Small == {[x \in {"a", "b"} |-> IF x = "a" THEN <<c1, c2>> ELSE <<d>>] :
            c1 \in BodiesOfA, c2 \in BodiesOfA, d \in BodiesOfB}

Three(first, second, third) == [x \in {"a", "b", "c"} |-> IF x = "a" THEN first ELSE IF x = "b" THEN second ELSE third]

\* Chains, cycles through two atoms, with and without a negation, and three
\* bodies of which the first dominates the others.
Shaped ==
  {Three(<< <<Atom("b"), Atom("c")>> >>, << <<NegatedAtom("c")>> >>, << <<Atom("p")>>, <<Atom("q")>> >>),
   Three(<< <<Atom("b")>> >>, << <<Atom("a")>>, <<NegatedAtom("c")>> >>, << <<Atom("p")>> >>),
   Three(<< <<Atom("b")>> >>, << <<Atom("a")>>, <<NegatedAtom("a"), Atom("p")>> >>, << <<Atom("b"), Atom("q")>> >>),
   Three(<< <<Atom("p"), Atom("q")>>, <<Atom("p")>>, <<Atom("c"), Atom("p")>> >>, << <<Atom("p")>> >>, << <<Atom("q")>> >>),
   Three(<< <<NegatedAtom("b")>> >>, << <<NegatedAtom("c")>> >>, << <<NegatedAtom("a"), Atom("q")>> >>)}

MCPrograms == Small \cup Shaped

Use(C, D) == [conditions |-> C, deletes |-> D]

MCUses == {Use({Atom("a")}, {}), Use({NegatedAtom("a")}, {}), Use({Atom("p")}, {Atom("a")}),
           Use({Atom("a"), NegatedAtom("b")}, {Atom("b")})}
=============================================================================
