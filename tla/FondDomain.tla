----------------------------- MODULE FondDomain -----------------------------
(***************************************************************************)
(* A nondeterministic domain as its operators describe it: the agent       *)
(* chooses an action whose precondition holds, the environment one of its  *)
(* outcomes, and the operator of the two changes the facts.  Who breaks a  *)
(* rule first is at fault, for good.  Moves are names here, not bits.      *)
(***************************************************************************)
EXTENDS Integers, Sequences

CONSTANTS
  SASOperators,   \* the operators of the translated task
  InitFacts,      \* the facts of the initial state
  NopName, FirstReaction, NoName

VARIABLES
  move,        \* the last move: names of an action and of a reaction, or NoName
  facts,       \* the facts that hold
  agentFault, envFault

\* What is asked of an action is asked by each of its operators.
Legal(a, s) ==
  \/ a = NopName
  \/ /\ \E i \in DOMAIN SASOperators : SASOperators[i].act = a
     /\ \A i \in DOMAIN SASOperators : SASOperators[i].act = a =>
          \A c \in SASOperators[i].prevail : (c[1] \in s) = (c[2] = 0)

\* The reactions the environment has to an action.
Reactions(a) ==
  IF a = NopName THEN {FirstReaction}
  ELSE {SASOperators[i].react : i \in {j \in DOMAIN SASOperators : SASOperators[j].act = a}}

\* An effect happens when its variable has the old value and its condition holds.
Triggered(e, s) ==
  /\ e.pre # -1 => (e.var \in s) = (e.pre = 0)
  /\ \A c \in e.cond : (c[1] \in s) = (c[2] = 0)

Result(op, s) ==
  LET now(val) == {e.var : e \in {d \in op.prepost : d.post = val /\ Triggered(d, s)}}
  IN  (s \ now(1)) \cup now(0)

Init ==
  /\ move = <<NoName, NoName>>
  /\ facts = InitFacts
  /\ agentFault = FALSE
  /\ envFault = FALSE

Step ==
  /\ agentFault' = (agentFault \/ ~ Legal(move'[1], facts))
  /\ envFault' = (envFault \/ move'[2] \notin Reactions(move'[1]))
  /\ ~ agentFault' /\ ~ envFault' =>
       \/ move'[1] = NopName /\ facts' = facts
       \/ \E i \in DOMAIN SASOperators :
            /\ move' = <<SASOperators[i].act, SASOperators[i].react>>
            /\ facts' = Result(SASOperators[i], facts)

Spec == Init /\ [][Step]_<<move, facts, agentFault, envFault>>
=============================================================================
