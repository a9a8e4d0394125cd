---------------------------- MODULE GologProgram ----------------------------
(***************************************************************************)
(* The abstract syntax of Golog programs (src/src/golog_program.hpp).      *)
(* A program is a tagged tuple; two programs are equal exactly when        *)
(* GologProgramNode::equals says so, because the arguments of a choice are *)
(* a set (golog_set) and those of a sequence a vector (golog_vec).  The    *)
(* formula of a test is a value of the model: two formulas are equal when  *)
(* the values are.                                                         *)
(***************************************************************************)
EXTENDS Naturals, Sequences, FiniteSets

Nil             == <<"nil">>
Und             == <<"und">>
Action(a)       == <<"action", a>>
Test(phi)       == <<"test", phi>>
Sequence(args)  == <<"sequence", args>>
Choice(args)    == <<"choice", args>>
Iteration(arg)  == <<"iteration", arg>>

\* The parser builds p ; q and p | q for two programs at a time, grouping p ; q ; r
\* to the right and p | q | r to the left, so that no sequence has more than two
\* arguments, and p | p is a choice of one.
Then(p, q) == Sequence(<<p, q>>)
Or(p, q)   == Choice({p, q})

Kind(p) == p[1]

IsLeaf(p)      == Kind(p) \in {"nil", "und", "action", "test"}
IsSequence(p)  == Kind(p) = "sequence"
IsChoice(p)    == Kind(p) = "choice"
IsIteration(p) == Kind(p) = "iteration"

\* The enumerations of a finite set: the orders in which a loop over an
\* unordered container may meet its elements.
Orders(S) ==
  {o \in [1 .. Cardinality(S) -> S] : \A x \in S : \E i \in DOMAIN o : o[i] = x}

\* The argument lists over which the visitor of a program may loop: the
\* vector of a sequence, any order of the unordered set of a choice, the one
\* argument of an iteration, nothing for a leaf.
ArgLists(p) ==
  CASE IsSequence(p)  -> {p[2]}
    [] IsChoice(p)    -> Orders(p[2])
    [] IsIteration(p) -> {<<p[2]>>}
    [] OTHER          -> {<<>>}

\* The direct subprograms of p.
Args(p) ==
  CASE IsSequence(p)  -> {p[2][i] : i \in DOMAIN p[2]}
    [] IsChoice(p)    -> p[2]
    [] IsIteration(p) -> {p[2]}
    [] OTHER          -> {}

\* What remains of a sequence after its i-th argument made a step to succ:
\* succ followed by the later arguments, or succ itself when there is none
\* (no sequence of one element is built).
Rest(args, i, succ) ==
  IF i = Len(args) THEN succ
  ELSE Sequence(<<succ>> \o SubSeq(args, i + 1, Len(args)))
=============================================================================
