----------------------------- MODULE StripsTask -----------------------------
(***************************************************************************)
(* A ground PDDL task, the input of the translation to finite-domain        *)
(* variables: operators have a precondition and conditional add and delete  *)
(* effects, and an atom that is added and deleted is true afterwards.       *)
(***************************************************************************)
EXTENDS Literals, Sequences, SequencesExt

CONSTANT Tasks  \* [groups, mutex, init, goal, operators, axioms]

VARIABLES
  task,   \* the task
  state   \* its true atoms

Conditions(op) == ToSet(op.precondition)

Fires(effects, s) == {e.atom : e \in {f \in effects : AllHold(ToSet(f.condition), s)}}

Result(op, s) == (s \ Fires(op.del, s)) \cup Fires(op.add, s)

Applicable(op, s) == AllHold(Conditions(op), s)

StripsInit == task \in Tasks /\ state = task.init

Execute(op) ==
  /\ Applicable(op, state)
  /\ state' = Result(op, state)
  /\ UNCHANGED task

StripsNext == \E op \in ToSet(task.operators) : Execute(op)

StripsSpec == StripsInit /\ [][StripsNext]_<<task, state>>

-----------------------------------------------------------------------------
(* What a state has at most once.                                          *)

Exclusive(groups, s) == \A v \in DOMAIN groups : \A a, b \in ToSet(groups[v]) \cap s : a = b
=============================================================================
