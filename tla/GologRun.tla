------------------------------ MODULE GologRun ------------------------------
(***************************************************************************)
(* What a program graph promises: it runs the Golog program, as its syntax *)
(* says.  A program that cannot make the step it is asked for is stuck for *)
(* good.                                                                   *)
(***************************************************************************)
EXTENDS GologSemantics

CONSTANTS Roots, ActionNames, NoAction, Stuck

VARIABLES
  program,    \* what remains of the program, or Stuck
  fluents,    \* the domain state
  accepting   \* the program may terminate here

Ends(p, s) == p # Stuck /\ MayEnd(p, s)

Init ==
  /\ program \in Roots
  /\ fluents \in States
  /\ accepting \in BOOLEAN

\* The construction of the automaton reports whether the program may terminate
\* before its first step.
Ready ==
  /\ accepting' <=> Ends(program, fluents)
  /\ UNCHANGED <<program, fluents>>

\* An action is asked for, which may be none of the domain's.
StepBy(a) ==
  /\ LET next == IF program = Stuck THEN {} ELSE After(program, a, fluents)
     IN  \/ program' \in next
         \/ next = {} /\ program' = Stuck
  /\ fluents' \in States
  /\ accepting' <=> Ends(program', fluents')

Spec == Init /\ [][Ready \/ \E a \in ActionNames \cup {NoAction} : StepBy(a)]_<<program, fluents, accepting>>
=============================================================================
