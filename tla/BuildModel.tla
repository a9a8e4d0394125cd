----------------------------- MODULE BuildModel -----------------------------
(***************************************************************************)
(* compute_model (src/submodules/build_model.py): the atoms that the rules  *)
(* derive.  Every atom is taken from the queue once and matched with the    *)
(* conditions of the rules; a rule remembers the atoms that its conditions  *)
(* have met, and combines a new one with those.                             *)
(***************************************************************************)
EXTENDS PrologProgram

VARIABLES
  queue,     \* Queue.queue
  queuePos,  \* Queue.queue_pos
  matches,   \* the matches of the current atom that have not fired
  index,     \* atoms_by_key and atoms_by_index, by rule and condition
  unifier    \* predicate_to_rule_generator

modelVars == <<queue, queuePos, matches, index, unifier>>

bmVars == <<prologVars, modelVars>>

BMInit ==
  /\ PrologInit
  /\ queue = <<>>
  /\ queuePos = 0
  /\ matches = {}
  /\ index = <<>>
  /\ unifier = <<>>

\* The conditions of the rules, as pairs of positions.
Sites == UNION {{<<i, c>> : c \in DOMAIN binary[i].conditions} : i \in DOMAIN binary}

ConditionAt(m) == binary[m[1]].conditions[m[2]]

-----------------------------------------------------------------------------
(* Unifier, LeafGenerator and MatchGenerator: a tree for each predicate     *)
(* finds the conditions an atom is an instance of.  A node looks at one     *)
(* argument, and has a branch per constant and a next node for the          *)
(* conditions without a constant there.                                     *)

\* sys.maxsize, the index of a leaf; a leaf has no next node.
MaxSize == 1000

Leaf(found) == [index |-> MaxSize, matches |-> found, branches |-> <<>>, next |-> <<>>]

Node(i, found, c, branch, next) == [index |-> i, matches |-> found, branches |-> (c :> branch), next |-> <<next>>]

IsLeaf(n) == n.index = MaxSize

\* The chain that LeafGenerator._insert builds around a new leaf.
RECURSIVE Chain(_, _)
Chain(args, id) ==
  IF args = <<>> THEN Leaf(<<id>>)
  ELSE Node(Head(args)[1], <<>>, Head(args)[2], Chain(Tail(args), id), Leaf(<<>>))

\* Mutant of Insert: of two conditions with a constant at one place the second wins.
RECURSIVE InsertOver(_, _, _)
InsertOver(n, args, id) ==
  IF args = <<>> THEN [n EXCEPT !.matches = Append(@, id)]
  ELSE LET i == Head(args)[1]
           c == Head(args)[2]
       IN  IF IsLeaf(n) THEN [Chain(args, id) EXCEPT !.matches = n.matches]
           ELSE IF n.index < i THEN [n EXCEPT !.next = <<InsertOver(n.next[1], args, id)>>]
           ELSE IF n.index > i THEN Node(i, <<>>, c, InsertOver(Leaf(<<>>), Tail(args), id), n)
           ELSE [n EXCEPT !.branches = (c :> InsertOver(Leaf(<<>>), Tail(args), id)) @@ @]

\* _insert; args are the places and values of the constants, by place.
RECURSIVE Insert(_, _, _)
Insert(n, args, id) ==
  IF args = <<>> THEN [n EXCEPT !.matches = Append(@, id)]
  ELSE LET i == Head(args)[1]
           c == Head(args)[2]
           branch == IF c \in DOMAIN n.branches THEN n.branches[c] ELSE Leaf(<<>>)
       IN  IF IsLeaf(n) THEN [Chain(args, id) EXCEPT !.matches = n.matches]
           ELSE IF n.index < i THEN [n EXCEPT !.next = <<Insert(n.next[1], args, id)>>]
           ELSE IF n.index > i THEN Node(i, <<>>, c, Insert(Leaf(<<>>), Tail(args), id), n)
           ELSE [n EXCEPT !.branches = (c :> Insert(branch, Tail(args), id)) @@ @]

\* generate: the matches of the node, of the branch and of the next node.
RECURSIVE Generate(_, _)
Generate(n, a) ==
  IF IsLeaf(n) THEN n.matches
  ELSE n.matches \o (IF a[n.index] \in DOMAIN n.branches THEN Generate(n.branches[a[n.index]], a) ELSE <<>>)
                 \o Generate(n.next[1], a)

ConstantArguments(condition) ==
  LET places == SelectSeq([i \in DOMAIN condition.args |-> i], LAMBDA i : ~IsVariable(condition.args[i]))
  IN  [k \in DOMAIN places |-> <<places[k], condition.args[places[k]]>>]

\* _insert_condition, for the conditions of a predicate in their order; a site
\* is a rule and one of its conditions.
Tree(sites) ==
  FoldLeft(LAMBDA n, site : Insert(n, ConstantArguments(ConditionAt(site)), site), Leaf(<<>>), sites)

\* unify.
Found(a) == IF a.pred \in DOMAIN unifier THEN Generate(unifier[a.pred], a.args) ELSE <<>>

-----------------------------------------------------------------------------
(* validate.                                                               *)

ValidJoin(r) ==
  LET left == Variables({r.conditions[1]})
      right == Variables({r.conditions[2]})
  IN  /\ Len(r.conditions) = 2
      /\ left \cap right # {}
      /\ left \cup right = (left \cap right) \cup Variables({r.effect})

ValidProduct(r) ==
  /\ Len(r.conditions) >= 2
  /\ Cardinality(ConditionVariables(r)) = Cardinality(Variables({r.effect}))
  /\ \A i, j \in DOMAIN r.conditions : i # j => Variables({r.conditions[i]}) \cap Variables({r.conditions[j]}) = {}

Valid(r) ==
  CASE r.kind = "join" -> ValidJoin(r)
    [] r.kind = "product" -> ValidProduct(r)
    [] r.kind = "project" -> Len(r.conditions) = 1

\* The conditions of a predicate, rule by rule.
SitesOf(p) ==
  SetToSortSeq({m \in Sites : ConditionAt(m).pred = p},
               LAMBDA m, n : m[1] < n[1] \/ (m[1] = n[1] /\ m[2] < n[2]))

\* convert_rules, the trees, and the queue with the facts.
Prepare ==
  /\ PrologDone
  /\ phase' = IF \A i \in DOMAIN binary : Valid(binary[i]) THEN "model" ELSE "failed"
  /\ queue' = facts
  /\ index' = [m \in Sites |-> {}]
  /\ unifier' = [p \in {ConditionAt(m).pred : m \in Sites} |-> Tree(SitesOf(p))]
  /\ UNCHANGED <<program, at, rules, facts, names, jobs, joinees, made, binary, queuePos, matches>>

-----------------------------------------------------------------------------
(* The rules.                                                              *)

\* prepare_effect, _get_bindings: a variable that a condition mentions twice
\* gets the later value.
Bindings(condition, a) == [v \in Variables({condition}) |-> a.args[LastPlace(condition, v)]]

\* Mutant of JoinVariables: nothing is compared.
JoinVariablesNone(r) == {}

\* common_vars: a variable that does not occur in the effect has no number,
\* and is not compared.
JoinVariables(r) == Variables({r.conditions[1]}) \cap Variables({r.conditions[2]}) \cap Variables({r.effect})

\* common_var_positions: the first occurrences.
Key(r, c, a) == [v \in JoinVariables(r) |-> a.args[FirstPlace(r.conditions[c], v)]]

\* JoinRule.fire.
Joined(r, c, a, atoms) ==
  {Substituted(r.effect, Bindings(r.conditions[3 - c], b) @@ Bindings(r.conditions[c], a)) :
     b \in {d \in atoms : Key(r, 3 - c, d) = Key(r, c, a)}}

\* ProductRule.fire: one atom for every other condition; none, if a condition
\* has no atom yet.
Products(i, c, a, known) ==
  LET r == binary[i]
      others == DOMAIN r.conditions \ {c}
      choices == {f \in [others -> UNION {known[<<i, d>>] : d \in others}] : \A d \in others : f[d] \in known[<<i, d>>]}
      all(f) == [v \in ConditionVariables(r) |->
                   LET d == CHOOSE d \in DOMAIN r.conditions : v \in Variables({r.conditions[d]})
                   IN  Bindings(r.conditions[d], IF d = c THEN a ELSE f[d])[v]]
  IN  {Substituted(r.effect, all(f)) : f \in choices}

\* What the rule of a match derives from the new atom.
Fired(m, a, known) ==
  LET r == binary[m[1]]
  IN  CASE r.kind = "join" -> Joined(r, m[2], a, known[<<m[1], 3 - m[2]>>])
        [] r.kind = "product" -> Products(m[1], m[2], a, known)
        [] r.kind = "project" -> {Substituted(r.effect, Bindings(ConditionAt(m), a))}

-----------------------------------------------------------------------------
(* The loop of compute_model.                                              *)

PopAtom ==
  /\ phase = "model" /\ matches = {} /\ queuePos < Len(queue)
  /\ queuePos' = queuePos + 1
  /\ matches' = ToSet(Found(queue[queuePos + 1]))
  /\ UNCHANGED <<prologVars, queue, index, unifier>>

\* update_index.
Remember(m, a) == IF binary[m[1]].kind = "project" THEN index ELSE [index EXCEPT ![m] = @ \cup {a}]

\* Queue.push: what has been enqueued before is not enqueued again.
New(atoms) == atoms \ ToSet(queue)

FireMatch(m) ==
  /\ phase = "model"
  /\ index' = Remember(m, queue[queuePos])
  /\ queue' = queue \o SetToSeq(New(Fired(m, queue[queuePos], index')))
  /\ matches' = matches \ {m}
  /\ UNCHANGED <<prologVars, queuePos, unifier>>

ModelEnd ==
  /\ phase = "model" /\ matches = {} /\ queuePos = Len(queue)
  /\ phase' = "done"
  /\ UNCHANGED <<program, at, rules, facts, names, jobs, joinees, made, binary, modelVars>>

BMEnded == phase \in {"done", "failed"} /\ UNCHANGED bmVars

BMNext ==
  \/ PrologNext /\ UNCHANGED modelVars
  \/ Prepare
  \/ PopAtom
  \/ \E m \in matches : FireMatch(m)
  \/ ModelEnd
  \/ BMEnded

BMSpec == BMInit /\ [][BMNext]_bmVars
=============================================================================
