------------------------------ MODULE Normalize -----------------------------
(***************************************************************************)
(* From the parsed task to its normal form (src/submodules/normalize.py,    *)
(* pddl/actions.py, pddl/axioms.py): every pass rewrites all conditions, in *)
(* the order of normalize().  Copies of an action that split_disjunctions   *)
(* makes share the list of effects, which is kept under the action's name.  *)
(***************************************************************************)
EXTENDS Conditions

CONSTANT NormTasks   \* [types, objects, actions, axioms, init, goal], as they are written

VARIABLES
  source,    \* the task as it is written
  actions,   \* a sequence of [name, params, external, pre]
  effects,   \* the effects of the actions of a name
  axioms,    \* a sequence of [name, params, external, cond]
  goal,
  rules,     \* the exploration rules
  stage      \* the next pass, or "error", "assertion", "done"

normVars == <<source, actions, effects, axioms, goal, rules, stage>>

-----------------------------------------------------------------------------
(* Parsing.                                                                *)

\* Action.uniquify_variables: the effects after the precondition, one by one.
UniquifiedAction(params, pre, effs) ==
  LET first == Uniquified(pre, TypeMap(params), <<>>)
  IN  [pre |-> first.condition,
       effects |-> FoldLeft(LAMBDA u, e : LET v == UniquifiedEffect(e, u.typeMap)
                                          IN  [effects |-> Append(u.effects, v.effect), typeMap |-> v.typeMap],
                            [effects |-> <<>>, typeMap |-> first.typeMap], effs).effects]

\* Action.parse: one action for each outcome of the effect.
OutcomeActions(a, outcomes) ==
  Mapped([k \in DOMAIN outcomes |-> k],
         LAMBDA k : [name |-> <<a.name, IF Len(outcomes) = 1 THEN 0 ELSE k>>, params |-> a.params, external |-> Len(a.params),
                     pre |-> outcomes[k].pre, effects |-> outcomes[k].effects])

ParsedAction(a) ==
  OutcomeActions(a, Mapped(ParsedEffects(a.effect),
                           LAMBDA o : UniquifiedAction(a.params, Simplified(Parsed(a.pre, FALSE)), o.effects)))

NewAxiom(name, params, cond) ==
  [name |-> name, params |-> params, external |-> Len(params), cond |-> Uniquified(cond, TypeMap(params), <<>>).condition]

ParseAsserts(e) == Unsupported(e) \/ \E f \in ToSet(Outcomes(e)) : NormalEffect(f).kind = "increase"

ParseFails ==
  /\ stage = "parse" /\ \E i \in DOMAIN source.actions : ParseAsserts(source.actions[i].effect)
  /\ stage' = "assertion"
  /\ UNCHANGED <<source, actions, effects, axioms, goal, rules>>

Parse ==
  /\ stage = "parse" /\ \A i \in DOMAIN source.actions : ~ParseAsserts(source.actions[i].effect)
  /\ LET all == FlattenSeq(Mapped(source.actions, ParsedAction))
     IN  /\ actions' = Mapped(all, LAMBDA a : [name |-> a.name, params |-> a.params, external |-> a.external, pre |-> a.pre])
         /\ effects' = [n \in {a.name : a \in ToSet(all)} |-> (CHOOSE a \in ToSet(all) : a.name = n).effects]
  /\ axioms' = Mapped(source.axioms, LAMBDA a : NewAxiom(a.name, a.params, Parsed(a.cond, FALSE)))
  /\ goal' = Parsed(source.goal, FALSE)
  /\ stage' = "universal"
  /\ UNCHANGED <<source, rules>>

-----------------------------------------------------------------------------
(* Passes that rewrite every condition.                                    *)

\* lit_replacement.
RECURSIVE Replaced(_, _)
Replaced(c, f) == Substituted(WithParts(c, LAMBDA part : Replaced(part, f)), f)

\* Mutant of RelatedObjects: only the first object is taken.
FirstObject(type) == SubSeq(SelectSeq(source.objects, LAMBDA o : o.type = type), 1, 1)

\* Objects that are declared with the type itself.
RelatedObjects(type) == SelectSeq(source.objects, LAMBDA o : o.type = type)

\* recurse of remove_universal_quantifiers_without_axioms.  The filters run when
\* the loop over the parameters has ended, so all of them read its last parameter.
RECURSIVE Expanded(_)
Expanded(c) ==
  LET template == Expanded(c.parts[1])
      combos == Product([i \in DOMAIN c.params |-> RelatedObjects(Last(c.params).type)])
      binding(t) == [v \in {p.name : p \in ToSet(c.params)} |-> t[CHOOSE i \in DOMAIN c.params : c.params[i].name = v].name]
  IN  IF c.kind = "forall"
      THEN Condition("and", <<>>, Mapped(combos, LAMBDA t : Replaced(template, binding(t))))
      ELSE WithParts(c, Expanded)

\* Rule (3): a conjunction of the other parts and one choice of each disjunction.
Distributed(others, disjunctions) ==
  Condition("or", <<>>,
    FoldRight(LAMBDA d, made : 
                FlattenSeq(Mapped(made, LAMBDA m : Mapped(d.parts, LAMBDA part : Condition("and", <<>>, <<m, part>>)))),
              disjunctions, <<Condition("and", <<>>, others)>>))

\* Mutant of DNF: a quantifier around a disjunction keeps its first part.
RECURSIVE DNFFirst(_)
DNFFirst(c) ==
  LET parts == Mapped(c.parts, DNFFirst)
      disjunctions == SelectSeq(parts, LAMBDA p : p.kind = "or")
      others == SelectSeq(parts, LAMBDA p : p.kind # "or")
  IN  CASE disjunctions = <<>> -> c
        [] c.kind = "or" -> Condition("or", <<>>, others \o FlattenSeq(Mapped(disjunctions, LAMBDA d : d.parts)))
        [] c.kind = "exists" -> [c EXCEPT !.parts = <<disjunctions[1].parts[1]>>]
        [] OTHER -> Distributed(others, disjunctions)

\* recurse of build_DNF.
RECURSIVE DNF(_)
DNF(c) ==
  LET parts == Mapped(c.parts, DNF)
      disjunctions == SelectSeq(parts, LAMBDA p : p.kind = "or")
      others == SelectSeq(parts, LAMBDA p : p.kind # "or")
  IN  IF disjunctions = <<>> THEN c
      ELSE CASE c.kind = "or" -> Condition("or", <<>>, others \o FlattenSeq(Mapped(disjunctions, LAMBDA d : d.parts)))
             [] c.kind = "exists" -> Condition("or", <<>>, Mapped(disjunctions[1].parts, LAMBDA part : [c EXCEPT !.parts = <<part>>]))
             [] OTHER -> Distributed(others, disjunctions)

\* recurse of move_existential_quantifiers; applied twice it changes nothing.
RECURSIVE Moved(_)
Moved(c) ==
  LET parts == Mapped(c.parts, Moved)
      quantified == SelectSeq(parts, LAMBDA p : p.kind = "exists")
      others == SelectSeq(parts, LAMBDA p : p.kind # "exists")
      inner == FlattenSeq(Mapped(quantified, LAMBDA q : q.parts))
      params == FlattenSeq(Mapped(quantified, LAMBDA q : q.params))
  IN  IF quantified = <<>> THEN c
      ELSE IF c.kind = "exists" THEN Condition("exists", c.params \o params, inner)
      ELSE Condition("exists", params, <<Condition("and", <<>>, others \o inner)>>)

\* all_conditions: those with a part of the kind are rewritten and simplified.
RewriteAll(kind, F(_)) ==
  LET new(c) == IF HasPart(c, kind) THEN Simplified(F(c)) ELSE c
  IN  /\ actions' = Mapped(actions, LAMBDA a : [a EXCEPT !.pre = new(@)])
      /\ effects' = [n \in DOMAIN effects |-> Mapped(effects[n], LAMBDA e : [e EXCEPT !.cond = new(@)])]
      /\ axioms' = Mapped(axioms, LAMBDA a : [a EXCEPT !.cond = new(@)])
      /\ goal' = new(goal)

Pass(now, next) == stage = now /\ stage' = next /\ UNCHANGED <<source, rules>>

RemoveUniversalQuantifiers == Pass("universal", "goal") /\ RewriteAll("forall", Expanded)

BuildDNF == Pass("dnf", "split") /\ RewriteAll("or", DNF)

MoveExistentialQuantifiers == Pass("move", "axioms") /\ RewriteAll("exists", Moved)

\* add_axiom numbers the axioms; only this one is added.
GoalAxiom == "new-axiom@0"

SubstituteComplicatedGoal ==
  /\ Pass("goal", "dnf")
  /\ IF IsLiteral(goal) \/ (goal.kind = "and" /\ \A i \in DOMAIN goal.parts : IsLiteral(goal.parts[i]))
     THEN UNCHANGED <<axioms, goal>>
     ELSE axioms' = Append(axioms, NewAxiom(GoalAxiom, <<>>, goal)) /\ goal' = LiteralOf("atom", GoalAxiom, <<>>)
  /\ UNCHANGED <<actions, effects>>

-----------------------------------------------------------------------------
(* Splitting, and the removal of existential quantifiers.                   *)

\* A copy for each part of the disjunction is added at the end, the original removed.
Split(list, field) ==
  SelectSeq(list, LAMBDA x : x[field].kind # "or")
    \o FlattenSeq(Mapped(list, LAMBDA x :
         IF x[field].kind = "or" THEN Mapped(x[field].parts, LAMBDA c : [x EXCEPT ![field] = c]) ELSE <<>>))

SplitDisjunctions ==
  /\ Pass("split", "move")
  /\ actions' = Split(actions, "pre")
  /\ effects' = [n \in DOMAIN effects |-> Split(effects[n], "cond")]
  /\ axioms' = Split(axioms, "cond")
  /\ UNCHANGED goal

\* The quantified variables become parameters that are no part of the name.
EliminateFromAxioms ==
  /\ Pass("axioms", "preconditions")
  /\ axioms' = Mapped(axioms, LAMBDA a : IF a.cond.kind = "exists"
                                          THEN [a EXCEPT !.params = @ \o a.cond.params, !.cond = @.parts[1]] ELSE a)
  /\ UNCHANGED <<actions, effects, goal>>

EliminateFromPreconditions ==
  /\ Pass("preconditions", "effects")
  /\ actions' = Mapped(actions, LAMBDA a : IF a.pre.kind = "exists"
                                            THEN [a EXCEPT !.params = @ \o a.pre.params, !.pre = @.parts[1]] ELSE a)
  /\ UNCHANGED <<effects, axioms, goal>>

EliminateFromEffects ==
  /\ Pass("effects", "verify")
  /\ effects' = [n \in DOMAIN effects |->
                   Mapped(effects[n], LAMBDA e : IF e.cond.kind = "exists"
                                                 THEN [e EXCEPT !.params = @ \o e.cond.params, !.cond = @.parts[1]] ELSE e)]
  /\ UNCHANGED <<actions, axioms, goal>>

\* verify_axiom_predicates: a derived predicate is no fact and no effect.
DerivedMisused ==
  LET derived == {a.name : a \in ToSet(axioms)}
  IN  \/ \E f \in source.init : f.pred \in derived
      \/ \E n \in DOMAIN effects : \E e \in ToSet(effects[n]) : e.literal.pred \in derived

VerifyFails == Pass("verify", "error") /\ DerivedMisused /\ UNCHANGED <<actions, effects, axioms, goal>>

Verify == Pass("verify", "rules") /\ ~DerivedMisused /\ UNCHANGED <<actions, effects, axioms, goal>>

-----------------------------------------------------------------------------
(* build_exploration_rules.                                                *)

\* The predicates of actions and axioms are the actions and axioms themselves.
HeadAtom(kind, i, params) == [pred |-> <<kind, i>>, args |-> [k \in DOMAIN params |-> params[k].name]]

Plain(l) == [pred |-> <<l.pred, 0>>, args |-> l.args]

TypeAtoms(params) == [k \in DOMAIN params |-> [pred |-> <<params[k].type, 0>>, args |-> <<params[k].name>>]]

Literals(c) == IF c.kind = "true" THEN <<>> ELSE IF c.kind = "and" THEN c.parts ELSE <<c>>

\* condition_to_rule_body, of a condition without quantifiers.
RuleBody(params, c) ==
  LET positive == SelectSeq(Literals(c), LAMBDA l : l.kind = "atom")
  IN  TypeAtoms(params) \o [k \in DOMAIN positive |-> Plain(positive[k])]

IsNormal(c) == \A l \in ToSet(Literals(c)) : IsLiteral(l)

AllNormal ==
  /\ \A i \in DOMAIN actions : IsNormal(actions[i].pre)
  /\ \A n \in DOMAIN effects : \A e \in ToSet(effects[n]) : e.literal.kind = "atom" => IsNormal(e.cond)
  /\ \A i \in DOMAIN axioms : IsNormal(axioms[i].cond)
  /\ IsNormal(goal)

ActionRules(i) ==
  LET head == HeadAtom("action", i, actions[i].params)
      added == SelectSeq(effects[actions[i].name], LAMBDA e : e.literal.kind = "atom")
  IN  <<Rule(RuleBody(actions[i].params, actions[i].pre), head)>>
        \o [k \in DOMAIN added |-> Rule(<<head>> \o RuleBody(<<>>, added[k].cond), Plain(added[k].literal))]

AxiomRules(i) ==
  LET head == HeadAtom("axiom", i, axioms[i].params)
      external == SubSeq(axioms[i].params, 1, axioms[i].external)
  IN  <<Rule(RuleBody(axioms[i].params, axioms[i].cond), head),
        Rule(<<head>>, [pred |-> <<axioms[i].name, 0>>, args |-> [k \in DOMAIN external |-> external[k].name]])>>

GoalReachable == [pred |-> <<"@goal-reachable", 0>>, args |-> <<>>]

BuildRules ==
  /\ stage = "rules" /\ AllNormal
  /\ rules' = FlattenSeq([i \in DOMAIN actions |-> ActionRules(i)]) \o FlattenSeq([i \in DOMAIN axioms |-> AxiomRules(i)])
                \o <<Rule(RuleBody(<<>>, goal), GoalReachable)>>
  /\ stage' = "done"
  /\ UNCHANGED <<source, actions, effects, axioms, goal>>

\* "Condition not normalized".
BuildRulesFails ==
  /\ stage = "rules" /\ ~AllNormal
  /\ stage' = "assertion"
  /\ UNCHANGED <<source, actions, effects, axioms, goal, rules>>

-----------------------------------------------------------------------------

NormInit ==
  /\ source \in NormTasks
  /\ actions = <<>> /\ effects = <<>> /\ axioms = <<>> /\ goal = Truth /\ rules = <<>>
  /\ stage = "parse"

NormStep ==
  \/ Parse \/ ParseFails
  \/ RemoveUniversalQuantifiers
  \/ SubstituteComplicatedGoal
  \/ BuildDNF
  \/ SplitDisjunctions
  \/ MoveExistentialQuantifiers
  \/ EliminateFromAxioms
  \/ EliminateFromPreconditions
  \/ EliminateFromEffects
  \/ Verify \/ VerifyFails
  \/ BuildRules \/ BuildRulesFails
=============================================================================
