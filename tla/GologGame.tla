------------------------------ MODULE GologGame ------------------------------
(***************************************************************************)
(* What synthesis is about: a Golog program executed in a nondeterministic *)
(* domain.  The agent chooses an action that the domain allows and the     *)
(* program offers, the environment one of the action's outcomes, and the   *)
(* agent may stop where the program may terminate.  Programs, facts and    *)
(* names stand for themselves; nothing is encoded and nobody errs.         *)
(***************************************************************************)
EXTENDS GologSemantics, Integers

CONSTANTS
  Roots,          \* the programs
  SASOperators,   \* the operators of the translated task
  InitFacts,      \* the facts of the initial state
  NopName, FirstReaction, NoName

VARIABLES
  program,   \* what remains of the program
  facts,     \* the facts that hold
  over       \* the agent stopped

Fond == INSTANCE FondDomain WITH
          move <- <<NoName, NoName>>, agentFault <- FALSE, envFault <- FALSE

Names == {NopName} \cup {SASOperators[i].act : i \in DOMAIN SASOperators}

\* The facts that an action may lead to.
Outcomes(a, s) ==
  {s1 \in {s} : a = NopName}
    \cup {Fond!Result(SASOperators[i], s) : i \in {j \in DOMAIN SASOperators : SASOperators[j].act = a}}

Init == program \in Roots /\ facts = InitFacts /\ over = FALSE

Act ==
  /\ ~ over
  /\ \E a \in Names :
       /\ Fond!Legal(a, facts)
       /\ program' \in After(program, a, facts)
       /\ facts' \in Outcomes(a, facts)
  /\ UNCHANGED over

Stop == MayEnd(program, facts) /\ over' = TRUE /\ UNCHANGED <<program, facts>>

Spec == Init /\ [][Act \/ Stop]_<<program, facts, over>>

\* The agent can stop, or has an action all of whose outcomes lead into W.
Forced(p, s, W) ==
  \/ MayEnd(p, s)
  \/ \E a \in Names :
       /\ Fond!Legal(a, s)
       /\ \E q \in After(p, a, s) : \A s1 \in Outcomes(a, s) : <<q, s1>> \in W

\* The positions in which the agent can stop after fewer than n actions, whatever
\* the outcomes are.
Won[n \in Nat] ==
  IF n = 0 THEN {} ELSE {x \in Programs \X States : Forced(x[1], x[2], Won[n - 1])}
=============================================================================
