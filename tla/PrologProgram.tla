--------------------------- MODULE PrologProgram ----------------------------
(***************************************************************************)
(* The exploration rules become rules of three kinds: "project" with one    *)
(* condition, "join" with two that share variables, and "product" with      *)
(* conditions that share none (src/submodules/pddl_to_prolog.py,            *)
(* split_rules.py and greedy_join.py).                                      *)
(***************************************************************************)
EXTENDS Datalog, FiniteSets

CONSTANT Programs  \* [rules, facts], sequences

VARIABLES
  program,  \* the program before any rewriting
  phase,    \* "free", "duplicates", "trivial", "split", then as in BuildModel
  at,       \* the rule that a pass over the rules has reached
  rules,    \* PrologProgram.rules; in the phase "split" those not yet split
  facts,    \* PrologProgram.facts
  names,    \* how many predicates new_name has made
  jobs,     \* rules that wait for split_into_binary_rules
  joinees,  \* CostMatrix.joinees of the rule that is being joined
  made,     \* ResultList.result for it
  binary    \* the rules that are ready

prologVars == <<program, phase, at, rules, facts, names, jobs, joinees, made, binary>>

Objects == UNION {ToSet(program.facts[i].args) : i \in DOMAIN program.facts}

PrologInit ==
  /\ program \in Programs
  /\ phase = "free"
  /\ at = 1
  /\ rules = program.rules
  /\ facts = program.facts
  /\ names = 0
  /\ jobs = <<>> /\ joinees = <<>> /\ made = <<>> /\ binary = <<>>

-----------------------------------------------------------------------------
(* PrologProgram.normalize: three passes over the rules.                   *)

\* remove_free_effect_variables, for one rule.
Bound(r) ==
  LET free == SetToSeq(Variables({r.effect}) \ ConditionVariables(r))
  IN  [r EXCEPT !.conditions = @ \o [i \in DOMAIN free |-> Fact("@object", <<free[i]>>)]]

RemoveFree ==
  /\ phase = "free" /\ at <= Len(rules)
  /\ rules' = [rules EXCEPT ![at] = Bound(@)]
  /\ at' = at + 1
  /\ UNCHANGED <<program, phase, facts, names, jobs, joinees, made, binary>>

RemoveFreeEnd ==
  /\ phase = "free" /\ at > Len(rules)
  /\ facts' = IF rules = program.rules THEN facts
              ELSE facts \o LET all == SetToSeq(Objects) IN [i \in DOMAIN all |-> Fact("@object", <<all[i]>>)]
  /\ phase' = "duplicates" /\ at' = 1
  /\ UNCHANGED <<program, rules, names, jobs, joinees, made, binary>>

\* The places whose variable occurs earlier in the atom.
Repeated(a) == {i \in DOMAIN a.args : IsVariable(a.args[i]) /\ \E j \in 1..(i - 1) : a.args[j] = a.args[i]}

\* _rename_duplicate_variables: the variable at a repeated place gets a new
\* name, n equations having been made before.
Renamed(a, n) ==
  [a EXCEPT !.args = [i \in DOMAIN a.args |->
     IF i \in Repeated(a) THEN <<"?", a.args[i][2], n + Cardinality({j \in Repeated(a) : j <= i})>> ELSE a.args[i]]]

Equations(a, n) ==
  LET places == SetToSortSeq(Repeated(a), <)
  IN  [k \in DOMAIN places |-> Fact("=", <<a.args[places[k]], Renamed(a, n).args[places[k]]>>)]

\* rename_duplicate_variables.  The renamed conditions are assigned to the
\* variable of the loop, and get lost; only their equations stay.
Distinct(r) ==
  LET equations == FoldLeft(LAMBDA made0, c : made0 \o Equations(c, Len(made0)), Equations(r.effect, 0), r.conditions)
  IN  [r EXCEPT !.effect = Renamed(r.effect, 0), !.conditions = @ \o equations]

SplitDuplicates ==
  /\ phase = "duplicates" /\ at <= Len(rules)
  /\ rules' = [rules EXCEPT ![at] = Distinct(@)]
  /\ at' = at + 1
  /\ UNCHANGED <<program, phase, facts, names, jobs, joinees, made, binary>>

SplitDuplicatesEnd ==
  /\ phase = "duplicates" /\ at > Len(rules)
  /\ phase' = "trivial"
  /\ UNCHANGED <<program, at, rules, facts, names, jobs, joinees, made, binary>>

TrivialFacts ==
  LET trivial == SelectSeq(rules, LAMBDA r : r.conditions = <<>>)
  IN  [i \in DOMAIN trivial |-> trivial[i].effect]

\* convert_trivial_rules.
ConvertTrivial ==
  /\ phase = "trivial"
  /\ facts' = facts \o TrivialFacts
  /\ rules' = SelectSeq(rules, LAMBDA r : r.conditions # <<>>)
  /\ phase' = "split"
  /\ UNCHANGED <<program, at, names, jobs, joinees, made, binary>>

-----------------------------------------------------------------------------
(* split_rule.                                                             *)

NewAtom(n, vars) == [pred |-> <<"p$", n>>, args |-> vars]

\* get_connected_conditions: the conditions that are linked by common
\* variables, as a set of sets.
Components(conditions) ==
  LET linked(C) == C # {} /\ \A D \in (SUBSET C) \ {{}, C} : Variables(D) \cap Variables(C \ D) # {}
  IN  {C \in SUBSET conditions :
         linked(C) /\ Variables(C) \cap Variables(conditions \ C) = {}}

\* project_rule.
Projection(r, C, n) == Rule(SetToSeq(C), NewAtom(n, SetToSeq(Variables({r.effect}) \cap Variables(C))))

\* A rule for every component, and one that combines them.
SplitRule ==
  /\ phase = "split" /\ jobs = <<>> /\ joinees = <<>> /\ rules # <<>>
  /\ LET r == Head(rules)
         trivial == SelectSeq(r.conditions, LAMBDA c : Variables({c}) = {})
         components == SetToSeq(Components({c \in ToSet(r.conditions) : Variables({c}) # {}}))
         parts == [i \in DOMAIN components |-> Projection(r, components[i], names + i)]
         combined == [i \in DOMAIN parts |-> parts[i].effect] \o trivial
     IN  IF Len(components) = 1 /\ trivial = <<>>
         THEN jobs' = <<r>> /\ UNCHANGED names
         ELSE /\ jobs' = Append(parts, [conditions |-> combined, effect |-> r.effect,
                                        kind |-> IF Len(combined) >= 2 THEN "product" ELSE "project"])
              /\ names' = names + Len(parts)
  /\ rules' = Tail(rules)
  /\ UNCHANGED <<program, phase, at, facts, joinees, made, binary>>

\* split_into_binary_rules.
BinaryRule ==
  /\ phase = "split" /\ jobs # <<>> /\ joinees = <<>>
  /\ LET r == Head(jobs)
     IN  IF r.kind # "none" \/ Len(r.conditions) <= 1
         THEN /\ binary' = Append(binary, IF r.kind = "none" THEN [r EXCEPT !.kind = "project"] ELSE r)
              /\ jobs' = Tail(jobs)
              /\ UNCHANGED joinees
         ELSE joinees' = r.conditions /\ UNCHANGED <<binary, jobs>>
  /\ UNCHANGED <<program, phase, at, rules, facts, names, made>>

-----------------------------------------------------------------------------
(* greedy_join: the two conditions whose join is smallest are replaced by   *)
(* a new one, until one is left.                                            *)

\* compute_join_cost.
JoinCost(a, b) ==
  LET common == Cardinality(Variables({a}) \cap Variables({b}))
      sizes == {Cardinality(Variables({a})), Cardinality(Variables({b}))}
      least == CHOOSE n \in sizes : \A m \in sizes : n <= m
      greatest == CHOOSE n \in sizes : \A m \in sizes : n >= m
  IN  <<least - common, greatest - common, 0 - common>>

LessThan(s, t) == \E k \in DOMAIN s : s[k] < t[k] /\ \A j \in 1..(k - 1) : s[j] = t[j]

\* find_min_pair: the first pair, in the order of the rows, of the least cost.
MinPair ==
  CHOOSE p \in {q \in (DOMAIN joinees) \X (DOMAIN joinees) : q[2] < q[1]} :
    \A q \in {s \in (DOMAIN joinees) \X (DOMAIN joinees) : s[2] < s[1]} :
      LET cp == JoinCost(joinees[p[1]], joinees[p[2]])
          cq == JoinCost(joinees[q[1]], joinees[q[2]])
      IN  LessThan(cp, cq) \/ (cp = cq /\ (p = q \/ LessThan(p, q)))

\* Mutant of Retained: variables that are only used for the join are dropped first.
RetainedEffect(a, effectVars, commonTerms) == {t \in ToSet(a.args) : t \in effectVars}

\* The terms of a joinee that the join needs.
Retained(a, effectVars, commonTerms) == {t \in ToSet(a.args) : t \in effectVars \cup commonTerms}

\* OccurrencesTracker: the variables that still occur once two joinees are out.
StillUsed(r, others) == Variables({r.effect} \cup ToSet(others))

Join ==
  /\ Len(joinees) >= 2
  /\ LET pair == <<joinees[MinPair[1]], joinees[MinPair[2]]>>
         others == RemoveAt(RemoveAt(joinees, MinPair[1]), MinPair[2])
         effectVars == StillUsed(Head(jobs), others) \cap Variables(ToSet(pair))
         common == ToSet(pair[1].args) \cap ToSet(pair[2].args)
         retained(i) == Retained(pair[i], effectVars, common)
         projected == SelectSeq(<<1, 2>>, LAMBDA i : retained(i) # ToSet(pair[i].args))
         name(i) == names + Cardinality({k \in ToSet(projected) : k <= i})
         joinee(i) == IF i \in ToSet(projected) THEN NewAtom(name(i), SetToSeq(retained(i))) ELSE pair[i]
         projections == [k \in DOMAIN projected |->
            [conditions |-> <<pair[projected[k]]>>, effect |-> joinee(projected[k]), kind |-> "project"]]
         joint == NewAtom(names + Len(projected) + 1, SetToSeq(effectVars))
     IN  /\ made' = made \o Append(projections, [conditions |-> <<joinee(1), joinee(2)>>, effect |-> joint, kind |-> "join"])
         /\ joinees' = Append(others, joint)
         /\ names' = names + Len(projected) + 1
  /\ UNCHANGED <<program, phase, at, rules, facts, jobs, binary>>

\* ResultList.get_result: the last rule gets the rule's own effect.
JoinEnd ==
  /\ Len(joinees) = 1
  /\ binary' = binary \o [made EXCEPT ![Len(made)].effect = Head(jobs).effect]
  /\ jobs' = Tail(jobs)
  /\ joinees' = <<>> /\ made' = <<>>
  /\ UNCHANGED <<program, phase, at, rules, facts, names>>

PrologNext ==
  \/ RemoveFree
  \/ RemoveFreeEnd
  \/ SplitDuplicates
  \/ SplitDuplicatesEnd
  \/ ConvertTrivial
  \/ SplitRule
  \/ BinaryRule
  \/ Join
  \/ JoinEnd

PrologDone == phase = "split" /\ rules = <<>> /\ jobs = <<>>
=============================================================================
