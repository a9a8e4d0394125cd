----------------------------- MODULE Translate ------------------------------
(***************************************************************************)
(* translate_task (src/submodules/translate.py): atoms become values of     *)
(* finite-domain variables, one variable per chosen group of atoms of which *)
(* at most one is true, with a last value for none of them.  The task that  *)
(* is written to output.sas is then executed.                               *)
(***************************************************************************)
EXTENDS Literals, Integers, FiniteSets, SequencesExt

CONSTANTS
  Tasks,       \* ground tasks: [groups, mutex, init, goal, operators, axioms]
  Switches     \* the values of ADD_IMPLIED_PRECONDITIONS

VARIABLES
  task,
  addImplied,  \* ADD_IMPLIED_PRECONDITIONS
  phase,       \* "init", "goal", "operators", "axioms", "run", "unsolvable" or "failed"
  position,    \* the number of operators or axioms translated
  value,       \* the value of each variable: SASInit, then the execution's
  goal,        \* SASGoal, a set of pairs
  operators,   \* the SASOperators, each with the number of its ground action
  axioms       \* the SASAxioms

trVars == <<task, addImplied, phase, position, value, goal, operators, axioms>>

-----------------------------------------------------------------------------
(* A condition on variables is a set of pairs of a variable and a value, a  *)
(* disjunction a set of conditions.  None, "this cannot hold", is {}.       *)

\* strips_to_sas_dictionary: the pairs that stand for an atom.  Values count
\* from 0.
Pairs(groups, a) ==
  UNION {{<<v, k - 1>> : k \in {j \in DOMAIN groups[v] : groups[v][j] = a}} : v \in DOMAIN groups}

AtomsOf(groups) == UNION {ToSet(groups[v]) : v \in DOMAIN groups}

NoneOfThose(groups, v) == Len(groups[v])

Values(groups, v) == 0..NoneOfThose(groups, v)

Consistent(C) == \A p, q \in C : p[1] = q[1] => p = q

Atoms(C) == {C[i].atom : i \in {j \in DOMAIN C : ~C[j].negated}}

\* Mutant of PositiveValues: of two conditions on a variable one is kept.
PositiveLast(C, groups) ==
  LET pairs == UNION {Pairs(groups, a) : a \in Atoms(C)}
  IN  [v \in {p[1] : p \in pairs} |-> {(CHOOSE p \in pairs : p[1] = v)[2]}]

\* The values that the positive literals leave to the variables they mention.
PositiveValues(C, groups) ==
  LET pairs == UNION {Pairs(groups, a) : a \in Atoms(C)}
  IN  [v \in {p[1] : p \in pairs} |-> {n \in Values(groups, v) : \A p \in pairs : p[1] = v => p[2] = n}]

\* The pair of the smallest variable, the first of those.
Smallest(pairs, groups) ==
  CHOOSE p \in pairs : \A q \in pairs :
    \/ NoneOfThose(groups, p[1]) < NoneOfThose(groups, q[1])
    \/ NoneOfThose(groups, p[1]) = NoneOfThose(groups, q[1]) /\ p[1] <= q[1]

\* Mutant of Excluded: a variable that is constrained already is left as it is.
ExcludedFree(allowed, a, groups) ==
  LET pairs == Pairs(groups, a)
      free == Smallest(pairs, groups)
  IN  IF pairs = {} \/ \E p \in pairs : p[1] \in DOMAIN allowed THEN allowed
      ELSE [v \in DOMAIN allowed \cup {free[1]} |->
              IF v = free[1] THEN Values(groups, v) \ {free[2]} ELSE allowed[v]]

\* A negative literal: constrain the variables that have a condition; if there
\* is none, the smallest variable of the atom gets one.
Excluded(allowed, a, groups) ==
  LET pairs == Pairs(groups, a)
      free == Smallest(pairs, groups)
  IN  IF pairs = {} THEN allowed
      ELSE IF \E p \in pairs : p[1] \in DOMAIN allowed
      THEN [v \in DOMAIN allowed |-> {n \in allowed[v] : <<v, n>> \notin pairs}]
      ELSE [v \in DOMAIN allowed \cup {free[1]} |->
              IF v = free[1] THEN Values(groups, v) \ {free[2]} ELSE allowed[v]]

\* The values that are left when the negative literals up to the k-th have been
\* looked at, in their order.
Allowed(C, groups) ==
  LET allowed[k \in 0..Len(C)] ==
        IF k = 0 THEN PositiveValues(C, groups)
        ELSE IF C[k].negated THEN Excluded(allowed[k - 1], C[k].atom, groups)
        ELSE allowed[k - 1]
  IN  allowed

\* Mutant of MultipliedOut: only one condition.
MultipliedOnce(allowed) ==
  IF \E v \in DOMAIN allowed : allowed[v] = {} THEN {}
  ELSE {{<<v, CHOOSE n \in allowed[v] : TRUE>> : v \in DOMAIN allowed}}

\* multiply_out: one condition for every choice of the allowed values.
MultipliedOut(allowed) ==
  {{<<v, f[v]>> : v \in DOMAIN f} :
     f \in {g \in [DOMAIN allowed -> UNION {allowed[v] : v \in DOMAIN allowed}] :
              \A v \in DOMAIN g : g[v] \in allowed[v]}}

\* translate_strips_conditions_aux.
ConditionsAux(C, groups) == MultipliedOut(Allowed(C, groups)[Len(C)])

\* translate_strips_conditions: nothing if a mutex group refutes the condition.
Conditions(C) ==
  IF C = <<>> THEN {{}}
  ELSE IF ConditionsAux(C, task.mutex) = {} THEN {}
  ELSE ConditionsAux(C, task.groups)

-----------------------------------------------------------------------------
(* Operators.                                                              *)

\* add_conds_by_variable: the conditions of the effects that set a variable.
AddConditions(op, v) ==
  {e.condition : e \in {f \in op.add : Conditions(f.condition) # {} /\ \E p \in Pairs(task.groups, f.atom) : p[1] = v}}

\* Mutant of NoAddEffect: add effects with a condition are not counted.
NoAddAlways(op, v) == IF <<>> \in AddConditions(op, v) THEN {} ELSE {{}}

\* negate_and_translate_condition: no add effect on v triggers.
NoAddEffect(op, v) ==
  LET conds == AddConditions(op, v)
      picks == {f \in [conds -> UNION {ToSet(c) : c \in conds}] : \A c \in conds : f[c] \in ToSet(c)}
  IN  IF <<>> \in conds THEN {}
      ELSE UNION {Conditions(SetToSeq({Negate(f[c]) : c \in conds})) : f \in picks}

\* effects_by_variable of the add effects, as [var, post, condition].
AddEffects(op) ==
  UNION {{[var |-> p[1], post |-> p[2], condition |-> c] :
            p \in Pairs(task.groups, e.atom), c \in Conditions(e.condition)} : e \in op.add}

\* A deleted value becomes none of those, if it is there and nothing is added.
DeleteEffects(op) ==
  {e \in UNION {UNION {{[var |-> p[1], post |-> NoneOfThose(task.groups, p[1]), condition |-> c \cup {p} \cup n] :
                          c \in Conditions(d.condition), n \in NoAddEffect(op, p[1])} :
                         p \in Pairs(task.groups, d.atom)} : d \in op.del} :
     Consistent(e.condition)}

\* prune_stupid_effect_conditions, for a binary variable: a condition on the
\* other value can be dropped, because without it the effect changes nothing.
Pruned(v, post, disjuncts) ==
  LET rest == {c \ {<<v, 1 - post>>} : c \in disjuncts}
  IN  IF {} \in rest THEN {{}} ELSE rest

\* build_implied_facts: an atom of a mutex group implies that an other one of
\* it, which has a variable of its own, is false.
ImpliedBy(p) ==
  LET lonely(a) == {v \in DOMAIN task.groups : task.groups[v] = <<a>>}
      fact(a) == p \in Pairs(task.groups, a)
  IN  UNION {UNION {{<<v, 1>> : v \in lonely(a)} :
                      a \in {b \in ToSet(g) : \E other \in ToSet(g) \ {b} : fact(other)}} : g \in ToSet(task.mutex)}

Implied(condition) == IF addImplied THEN UNION {ImpliedBy(p) : p \in condition} ELSE {}

\* The value that an effect asks its variable for: -1 for any.
FirstValue(condition, v, post) ==
  IF \E p \in condition : p[1] = v THEN (CHOOSE p \in condition : p[1] = v)[2]
  ELSE IF NoneOfThose(task.groups, v) = 1 /\ <<v, 1 - post>> \in Implied(condition) THEN 1 - post
  ELSE -1

\* The conditions under which effects set a variable to a value.
Disjuncts(effects, v, post) == {e.condition : e \in {f \in effects : f.var = v /\ f.post = post}}

Lines(condition, effects, v, post) ==
  LET pre == FirstValue(condition, v, post)
      all == Disjuncts(effects, v, post)
  IN  {[var |-> v, pre |-> pre, post |-> post, condition |-> c \ {<<v, pre>>}] :
         c \in IF NoneOfThose(task.groups, v) = 1 THEN Pruned(v, post, all) ELSE all}

\* build_sas_operator.  Every precondition stays a prevail condition, and an
\* operator without effects is kept.
SASOperator(i, condition, effects) ==
  [action |-> i, prevail |-> condition,
   effects |-> UNION {Lines(condition, effects, e.var, e.post) :
                        e \in {f \in effects : <<f.var, f.post>> \notin condition}}]

\* translate_strips_operator: a variant for every disjunct of the precondition.
SASOperators(i) ==
  LET op == task.operators[i]
  IN  {SASOperator(i, c, AddEffects(op) \cup DeleteEffects(op)) : c \in Conditions(op.precondition)}

\* translate_strips_axiom.
SASAxioms(x) ==
  LET p == CHOOSE q \in Pairs(task.groups, x.head.atom) : TRUE
      effect == IF x.head.negated THEN <<p[1], NoneOfThose(task.groups, p[1])>> ELSE p
  IN  {[condition |-> c, effect |-> effect] : c \in Conditions(x.condition)}

-----------------------------------------------------------------------------
(* translate_task.                                                         *)

TrInit ==
  /\ task \in Tasks
  /\ addImplied \in Switches
  /\ phase = "init"
  /\ position = 0
  /\ value = [v \in DOMAIN task.groups |-> NoneOfThose(task.groups, v)]
  /\ goal = {}
  /\ operators = {}
  /\ axioms = {}

InitPairs == UNION {Pairs(task.groups, a) : a \in task.init}

TranslateInit ==
  /\ phase = "init" /\ Consistent(InitPairs)
  /\ value' = [v \in DOMAIN value |->
                 IF \E p \in InitPairs : p[1] = v THEN (CHOOSE p \in InitPairs : p[1] = v)[2] ELSE value[v]]
  /\ phase' = "goal"
  /\ UNCHANGED <<task, addImplied, position, goal, operators, axioms>>

\* "Inconsistent init facts!"
InitFails ==
  /\ phase = "init" /\ ~Consistent(InitPairs)
  /\ phase' = "failed"
  /\ UNCHANGED <<task, addImplied, position, value, goal, operators, axioms>>

\* An impossible goal makes an unsolvable task; more than one disjunct is a
\* "Negative goal not supported".
TranslateGoal ==
  LET all == Conditions(task.goal)
      only == {c \in all : all = {c}}
  IN  /\ phase = "goal"
      /\ phase' = IF all = {} THEN "unsolvable" ELSE IF only # {} THEN "operators" ELSE "failed"
      /\ goal' = UNION only
      /\ UNCHANGED <<task, addImplied, position, value, operators, axioms>>

TranslateOperator ==
  /\ phase = "operators" /\ position < Len(task.operators)
  /\ operators' = operators \cup SASOperators(position + 1)
  /\ position' = position + 1
  /\ UNCHANGED <<task, addImplied, phase, value, goal, axioms>>

OperatorsEnd ==
  /\ phase = "operators" /\ position = Len(task.operators)
  /\ phase' = "axioms"
  /\ position' = 0
  /\ UNCHANGED <<task, addImplied, value, goal, operators, axioms>>

TranslateAxiom ==
  /\ phase = "axioms" /\ position < Len(task.axioms)
  /\ axioms' = axioms \cup SASAxioms(task.axioms[position + 1])
  /\ position' = position + 1
  /\ UNCHANGED <<task, addImplied, phase, value, goal, operators>>

AxiomsEnd ==
  /\ phase = "axioms" /\ position = Len(task.axioms)
  /\ phase' = "run"
  /\ UNCHANGED <<task, addImplied, position, value, goal, operators, axioms>>

-----------------------------------------------------------------------------
(* The task that was written: an operator may be executed when its prevail  *)
(* conditions and the first values of its effects hold.                     *)

True(C) == \A p \in C : value[p[1]] = p[2]

CanRun(o) == True(o.prevail) /\ \A e \in o.effects : e.pre \in {-1, value[e.var]}

Triggered(o) == {e \in o.effects : True(e.condition)}

\* What an execution may make of a variable: effects that disagree leave a choice.
Posts(o, v) ==
  LET posts == {e.post : e \in {f \in Triggered(o) : f.var = v}} IN IF posts = {} THEN {value[v]} ELSE posts

Run(o) ==
  /\ phase = "run" /\ CanRun(o)
  /\ value' \in {f \in [DOMAIN value -> UNION {Posts(o, v) : v \in DOMAIN value}] : \A v \in DOMAIN value : f[v] \in Posts(o, v)}
  /\ UNCHANGED <<task, addImplied, phase, position, goal, operators, axioms>>

TrEnded == phase \in {"run", "unsolvable", "failed"} /\ UNCHANGED trVars

TrNext ==
  \/ TranslateInit
  \/ InitFails
  \/ TranslateGoal
  \/ TranslateOperator
  \/ OperatorsEnd
  \/ TranslateAxiom
  \/ AxiomsEnd
  \/ \E o \in operators : Run(o)
  \/ TrEnded

TrSpec == TrInit /\ [][TrNext]_trVars

-----------------------------------------------------------------------------
(* The task that is written to output.sas against the ground PDDL task.    *)

AllAtoms == AtomsOf(task.groups)

\* The atoms that the values stand for, and the static ones.
Decoded ==
  {a \in AllAtoms : \E p \in Pairs(task.groups, a) : value[p[1]] = p[2]} \cup (task.init \ AllAtoms)

Strips == INSTANCE StripsTask WITH state <- IF phase = "run" THEN Decoded ELSE task.init

Legal == {s \in SUBSET AllAtoms : Strips!Exclusive(task.groups, s) /\ Strips!Exclusive(task.mutex, s)}

LiteralsOver(A) == [atom : A, negated : BOOLEAN]

\* What the translator hands to translate_task: groups without repetitions, ground
\* conditions and effects over their atoms, a goal that may mention static facts
\* as well, and groups that the initial state has at most one atom of and every
\* operator keeps (invariants.py).
TasksAssumption ==
  \A t \in Tasks :
    LET atoms == AtomsOf(t.groups)
        exclusive(s) == Strips!Exclusive(t.groups, s) /\ Strips!Exclusive(t.mutex, s)
    IN  /\ \A groups \in {t.groups, t.mutex} :
             /\ groups \in Seq(Seq(AtomsOf(groups)))
             /\ \A v \in DOMAIN groups : IsInjective(groups[v])
             /\ AtomsOf(groups) \subseteq atoms
        /\ t.goal \in Seq(LiteralsOver(atoms \cup t.init))
        /\ \A l \in ToSet(t.goal) : l.negated => l.atom \in atoms
        /\ \A x \in ToSet(t.axioms) : x.head \in LiteralsOver(atoms) /\ x.condition \in Seq(LiteralsOver(atoms))
        /\ Strips!Exclusive(t.groups, t.init) => Strips!Exclusive(t.mutex, t.init)
        /\ t.axioms \in Seq(ToSet(t.axioms)) /\ t.operators \in Seq(ToSet(t.operators))
        /\ \A op \in ToSet(t.operators) :
             /\ op.precondition \in Seq(LiteralsOver(atoms)) /\ IsFiniteSet(op.add)
             /\ \A e \in op.add \cup op.del : e.atom \in atoms /\ e.condition \in Seq(LiteralsOver(atoms))
             /\ \A s \in SUBSET atoms :
                  exclusive(s) /\ Strips!Applicable(op, s) => exclusive(Strips!Result(op, s))

ASSUME TasksAreGround == TasksAssumption

Encoded(s) ==
  [v \in DOMAIN task.groups |->
     IF \E p \in UNION {Pairs(task.groups, a) : a \in s} : p[1] = v
     THEN (CHOOSE p \in UNION {Pairs(task.groups, a) : a \in s} : p[1] = v)[2]
     ELSE NoneOfThose(task.groups, v)]

-----------------------------------------------------------------------------
(* Properties.                                                             *)

\* The execution of output.sas is an execution of the PDDL task: what is deleted
\* and added at once, what was not there when it was deleted, and effects with
\* conditions on the variable they change come out as in PDDL, and effects that
\* trigger together agree on the values they set.
ImplementsStrips == Strips!StripsSpec

\* translate_strips_operator loses no execution and doubles none: of the
\* variants of an action one can run if the action is applicable, none if not,
\* and it has the same result.
OneVariantRuns ==
  phase = "run" =>
    \A i \in DOMAIN task.operators :
      LET able == {o \in operators : o.action = i /\ CanRun(o)}
      IN  Cardinality(able) = IF Strips!Applicable(task.operators[i], Decoded) THEN 1 ELSE 0

\* translate_strips_axiom: in every state that the groups allow, the conditions
\* of an axiom hold for the values when they hold for the atoms.
AxiomsAgree ==
  phase = "run" =>
    \A x \in ToSet(task.axioms), s \in Legal :
      AllHold(ToSet(x.condition), s) <=>
        \E y \in axioms : y \in SASAxioms(x) /\ \A p \in y.condition : Encoded(s)[p[1]] = p[2]

\* The goal holds for the values when it holds for the atoms, and the task is
\* replaced by an unsolvable one only if no state that the groups allow
\* satisfies the goal.
GoalAgrees ==
  /\ phase = "run" => (True(goal) <=> AllHold(ToSet(task.goal), Decoded))
  /\ phase = "unsolvable" => \A s \in Legal : ~AllHold(ToSet(task.goal), s \cup (task.init \ AllAtoms))
=============================================================================
