----------------------------- MODULE MCBottomUp -----------------------------
(***************************************************************************)
(* Programs in which nothing occurs twice, programs in which an argument   *)
(* does, and programs whose compilation fails.                             *)
(***************************************************************************)
EXTENDS BottomUp

CONSTANTS act_a, act_b, act_c, unknown

MCActionNames == {act_a, act_b, act_c}
MCStates == {1, 2}
MCSat == [phi \in {"one", "false"} |-> IF phi = "one" THEN {1} ELSE {}]
MCPre == [x \in MCActionNames |-> IF x = act_a THEN MCStates ELSE {2}]

A == Action(act_a)
B == Action(act_b)
C == Action(act_c)
Unknown == Action(unknown)
One == Test("one")

LinearRoots ==
  {Nil,
   Then(A, Then(One, Then(B, C))),
   Then(Then(Then(One, A), B), C),
   Then(Then(A, B), Iteration(C)),
   Iteration(Or(Then(A, One), B)),
   Then(Iteration(Iteration(A)), Then(Or(Nil, B), C)),
   Or(Or(Then(A, B), One), Iteration(Then(Nil, C)))}

SharingRoots ==
  {Then(A, Then(A, B)),
   Or(Then(A, B), Then(A, C)),
   Then(Iteration(A), Then(Or(A, B), C))}

\* Programs without und whose visit meets an unknown action early, late, behind
\* a test that never holds, and below an iteration.
UnknownRoots ==
  {Unknown,
   Then(A, Then(Iteration(B), Unknown)),
   Then(Test("false"), Unknown),
   Or(A, Iteration(Unknown)),
   Or(Or(A, Iteration(Then(One, Unknown))), B)}

\* und alone, below an iteration, as an argument of a sequence or a choice, and
\* next to an unknown action.
UndRoots ==
  {Und,
   Iteration(Und),
   Or(A, Iteration(Iteration(Und))),
   Then(A, Und),
   Iteration(Or(B, Und)),
   Or(Then(Und, A), Unknown)}

MCRoots == LinearRoots \cup SharingRoots \cup UnknownRoots \cup UndRoots

-----------------------------------------------------------------------------

HasUnknownAction == \E p \in Subprograms(root) : Kind(p) = "action" /\ p[2] \notin ActionNames

HasUndArgument ==
  \E p \in Subprograms(root) : (IsSequence(p) \/ IsChoice(p)) /\ Und \in Args(p)

\* A program with an action the domain does not know is never compiled, even
\* when the action cannot be reached, and a failure has a cause in the program:
\* the exception an unknown action, the null dereference an und that a
\* sequence or a choice combines.  The comment in the visit of und, "we
\* implement TFCResult as a partial function", holds only outside of these.
OutcomeIsExplained ==
  /\ outcome = "done" => ~ HasUnknownAction /\ ~ HasUndArgument
  /\ outcome = "threw" => HasUnknownAction
  /\ outcome = "crashed" => HasUndArgument
=============================================================================
