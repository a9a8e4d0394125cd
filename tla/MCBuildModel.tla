---------------------------- MODULE MCBuildModel ----------------------------
(***************************************************************************)
(* Programs with two rules over two objects.                                *)
(***************************************************************************)
EXTENDS BuildModel

X == Variable("x")
Y == Variable("y")
Z == Variable("z")
A == Object("a")
B == Object("b")

Is(p, args) == Fact(p, args)

RuleSet ==
  {Rule(<<Is("p", <<X, Y>>), Is("q", <<Y>>)>>, Is("r", <<X, Y>>)),
   Rule(<<Is("q", <<X>>), Is("p", <<X, Y>>), Is("p", <<Y, Z>>)>>, Is("r", <<Z, Y>>)),
   Rule(<<Is("p", <<A, X>>)>>, Is("q", <<X>>)),
   Rule(<<Is("q", <<X>>), Is("q", <<Y>>)>>, Is("p", <<X, Y>>)),
   Rule(<<Is("q", <<X>>), Is("t", <<>>), Is("r", <<X, Y>>)>>, Is("p", <<Y, X>>)),
   Rule(<<Is("q", <<X>>)>>, Is("p", <<X, X>>)),
   Rule(<<Is("q", <<X>>)>>, Is("r", <<Y, Z>>)),
   Rule(<<>>, Is("t", <<>>)),
   Rule(<<Is("p", <<X, Y>>), Is("q", <<Y>>)>>, Is("q", <<X>>)),
   Rule(<<Is("p", <<Y, Y>>), Is("t", <<>>)>>, Is("q", <<Y>>)),
   Rule(<<Is("p", <<X, Y>>), Is("r", <<Y, A>>), Is("q", <<X>>)>>, Is("q", <<Y>>)),
   Rule(<<Is("p", <<X, X>>), Is("r", <<X, Y>>)>>, Is("r", <<Y, X>>)),
   Rule(<<Is("p", <<X, A>>), Is("p", <<A, Y>>)>>, Is("r", <<X, Y>>)),
   Rule(<<Is("p", <<A, B>>), Is("p", <<B, X>>)>>, Is("q", <<X>>))}

Equal == <<Is("=", <<A, A>>), Is("=", <<B, B>>)>>

FactLists ==
  {<<Is("p", <<A, B>>), Is("q", <<B>>)>> \o Equal,
   <<Is("r", <<A, A>>), Is("p", <<B, A>>), Is("p", <<A, A>>)>> \o Equal,
   Equal \o <<Is("t", <<>>), Is("q", <<A>>), Is("t", <<>>), Is("p", <<B, A>>)>>}

MCPrograms == {[rules |-> <<r, s>>, facts |-> f] : r, s \in RuleSet, f \in FactLists}

-----------------------------------------------------------------------------
\* What follows in one step, for every substitution of the variables.
Follows(rs, M) ==
  UNION {{Substituted(r.effect, f) :
            f \in {g \in [AllVariables(r) -> Objects] : \A i \in DOMAIN r.conditions : Substituted(r.conditions[i], g) \in M}} :
         r \in rs}

RECURSIVE Closure(_, _)
Closure(rs, M) == IF Follows(rs, M) \subseteq M THEN M ELSE Closure(rs, M \cup Follows(rs, M))

LeastModel == Closure(ToSet(program.rules), ToSet(program.facts))

Made(a) == a.pred[1] \in {"p$", "@object"}

Original(M) == {a \in M : ~Made(a)}

\* No variable twice in a fact, and no join that projects: what the comments of
\* the code promise of all rules.
DistinctVariables(r) == \A a \in {r.effect} \cup ToSet(r.conditions) : Repeated(a) = {}

KeepsVariables(r) == r.kind = "join" => ConditionVariables(r) \subseteq Variables({r.effect})

Exact == \A i \in DOMAIN binary : DistinctVariables(binary[i]) /\ KeepsVariables(binary[i])

-----------------------------------------------------------------------------
(* Properties.                                                             *)

\* The assertions of validate hold for every rule that normalisation, splitting
\* and the greedy join make, and splitting rules and joining conditions two at a
\* time does not change what the program derives.
SplitKeepsModel ==
  /\ phase # "failed"
  /\ phase = "model" /\ queuePos = 0 => Original(Closure(ToSet(binary), ToSet(facts))) = Original(LeastModel)

\* The model is complete: every atom that the program derives is in the queue at
\* the end, whatever the order of the matches; and where no rule repeats or
\* projects variables in a join it holds nothing else.
ModelIsLeast ==
  phase = "done" =>
    /\ Original(LeastModel) \subseteq ToSet(queue)
    /\ Exact => Original(ToSet(queue)) = Original(LeastModel)

\* The trees find, for every atom, each condition that it is an instance of, once,
\* and no other: a rule that is not found never fires.
UnifierIsExact ==
  phase = "model" /\ queuePos = 0 =>
    \A p \in DOMAIN unifier : \A args \in [1..2 -> Objects] :
      LET found == Found([pred |-> p, args |-> args])
          fits == {m \in Sites : ConditionAt(m).pred = p /\ Unifies(ConditionAt(m), [pred |-> p, args |-> args])}
      IN  (\E m \in Sites : ConditionAt(m).pred = p /\ Len(ConditionAt(m).args) = 2)
            => IsInjective(found) /\ ToSet(found) = fits
=============================================================================
