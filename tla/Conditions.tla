----------------------------- MODULE Conditions -----------------------------
(***************************************************************************)
(* PDDL conditions (src/submodules/pddl/conditions.py): parsing into        *)
(* negation normal form, simplification and renaming of variables.          *)
(* A condition, parsed or not, is [kind, params, parts, pred, args]; before *)
(* parsing its kind may also be "not" and "imply".                          *)
(*                                                                          *)
(* PDDL effects (src/submodules/pddl/effects.py).  An effect as it is       *)
(* written is [kind, params, cond, parts, literal, cost] with a kind among  *)
(* "and", "forall", "when", "oneof", "literal" and "increase"; a parsed one *)
(* has no "oneof".  In the end a list of [params, cond, literal] remains.   *)
(***************************************************************************)
EXTENDS Datalog, FiniteSets

Typed(name, type) == [name |-> name, type |-> type]

Condition(kind, params, parts) == [kind |-> kind, params |-> params, parts |-> parts, pred |-> "", args |-> <<>>]

LiteralOf(kind, p, args) == [kind |-> kind, params |-> <<>>, parts |-> <<>>, pred |-> p, args |-> args]

Truth == Condition("true", <<>>, <<>>)

Falsity == Condition("false", <<>>, <<>>)

IsLiteral(c) == c.kind \in {"atom", "negated"}

IsConstant(c) == c.kind \in {"true", "false"}

Opposite(kind) ==
  CASE kind = "and" -> "or" [] kind = "or" -> "and"
    [] kind = "forall" -> "exists" [] kind = "exists" -> "forall"
    [] kind = "atom" -> "negated" [] kind = "negated" -> "atom"

\* SelectSeq has TLC compute the elements once.
Mapped(s, F(_)) == SelectSeq([i \in DOMAIN s |-> F(s[i])], LAMBDA x : TRUE)

WithParts(c, F(_)) == [c EXCEPT !.parts = Mapped(@, F)]

\* parse_condition_aux: negations are pushed to the literals.
RECURSIVE Parsed(_, _)
Parsed(c, negated) ==
  LET kind(k) == IF negated THEN Opposite(k) ELSE k
  IN  IF c.kind = "not" THEN Parsed(c.parts[1], ~negated)
      ELSE IF c.kind = "imply"
      THEN Condition(kind("or"), <<>>, <<Parsed(c.parts[1], ~negated), Parsed(c.parts[2], negated)>>)
      ELSE [WithParts(c, LAMBDA part : Parsed(part, negated)) EXCEPT !.kind = kind(c.kind)]

\* simplified: nested conditions of one kind are merged, constants disappear.
RECURSIVE Simplified(_)
Simplified(c) ==
  LET parts == Mapped(c.parts, Simplified)
      neutral == IF c.kind = "and" THEN Truth ELSE Falsity
      absorbing == IF c.kind = "and" THEN Falsity ELSE Truth
      flat == FlattenSeq([i \in DOMAIN parts |-> IF parts[i].kind = c.kind THEN parts[i].parts
                                                 ELSE IF parts[i] = neutral THEN <<>> ELSE <<parts[i]>>])
  IN  CASE c.kind \in {"and", "or"} ->
             IF absorbing \in ToSet(parts) THEN absorbing
             ELSE IF flat = <<>> THEN neutral
             ELSE IF Len(flat) = 1 THEN flat[1] ELSE Condition(c.kind, <<>>, flat)
        [] c.kind \in {"forall", "exists"} -> IF IsConstant(parts[1]) THEN parts[1] ELSE [c EXCEPT !.parts = parts]
        [] OTHER -> c

\* has_disjunction, has_existential_part, has_universal_part.
RECURSIVE HasPart(_, _)
HasPart(c, kind) == c.kind = kind \/ \E i \in DOMAIN c.parts : HasPart(c.parts[i], kind)

-----------------------------------------------------------------------------
(* uniquify_variables.  type_map holds the names in use, renamings those    *)
(* that the quantifiers around a condition have replaced.                   *)

\* The name and a counter: ?x1, ?x11, ...
Numbered(name, n) == [name EXCEPT ![3] = 10 * @ + n]

\* Mutant of Renamed: a name that is in use is taken again.
NotRenamed(params, typeMap, renamings) ==
  [params |-> params, typeMap |-> [v \in {p.name : p \in ToSet(params)} |-> ""] @@ typeMap, renamings |-> renamings]

\* TypedObject.uniquify_name, for the parameters of one quantifier.
Renamed(params, typeMap, renamings) ==
  FoldLeft(LAMBDA u, par :
             IF par.name \notin DOMAIN u.typeMap
             THEN [u EXCEPT !.params = Append(@, par), !.typeMap = @ @@ (par.name :> par.type)]
             ELSE LET n == CHOOSE k \in 1..9 : /\ Numbered(par.name, k) \notin DOMAIN u.typeMap
                                               /\ \A j \in 1..(k - 1) : Numbered(par.name, j) \in DOMAIN u.typeMap
                      new == Numbered(par.name, n)
                  IN  [params |-> Append(u.params, Typed(new, par.type)), typeMap |-> u.typeMap @@ (new :> par.type),
                       renamings |-> (par.name :> new) @@ u.renamings],
           [params |-> <<>>, typeMap |-> typeMap, renamings |-> renamings], params)

RECURSIVE Uniquified(_, _, _)
Uniquified(c, typeMap, renamings) ==
  LET own == Renamed(c.params, typeMap, renamings)
      parts == FoldLeft(LAMBDA u, part : LET v == Uniquified(part, u.typeMap, own.renamings)
                                         IN  [parts |-> Append(u.parts, v.condition), typeMap |-> v.typeMap],
                        [parts |-> <<>>, typeMap |-> own.typeMap], c.parts)
  IN  [condition |-> Substituted([c EXCEPT !.params = own.params, !.parts = parts.parts], own.renamings),
       typeMap |-> parts.typeMap]

TypeMap(params) == [v \in {params[i].name : i \in DOMAIN params} |-> (CHOOSE p \in ToSet(params) : p.name = v).type]

-----------------------------------------------------------------------------
(* Effects.                                                                 *)

RawEffect(kind, params, cond, parts) ==
  [kind |-> kind, params |-> params, cond |-> cond, parts |-> parts, literal |-> Truth, cost |-> 0]

SimpleEffect(l) == [RawEffect("literal", <<>>, Truth, <<>>) EXCEPT !.literal = l]

CostEffect(n) == [RawEffect("increase", <<>>, Truth, <<>>) EXCEPT !.cost = n]

Flat(parts, kind) == FlattenSeq([i \in DOMAIN parts |-> IF parts[i].kind = kind THEN parts[i].parts ELSE <<parts[i]>>])

\* The constructors merge an effect with its child of the same kind.
ConjunctiveEffect(parts) == RawEffect("and", <<>>, Truth, Flat(parts, "and"))

ConditionalEffect(c, e) ==
  IF e.kind = "when" THEN RawEffect("when", <<>>, Condition("and", <<>>, <<c, e.cond>>), e.parts)
  ELSE RawEffect("when", <<>>, c, <<e>>)

UniversalEffect(params, e) ==
  IF e.kind = "forall" THEN RawEffect("forall", params \o e.params, Truth, e.parts)
  ELSE RawEffect("forall", params, Truth, <<e>>)

\* cartesian_product.
Product(lists) ==
  FoldRight(LAMBDA list, tails : FlattenSeq(Mapped(tails, LAMBDA t : Mapped(list, LAMBDA x : <<x>> \o t))),
            lists, << <<>> >>)

\* parse_effect: the list of the deterministic effects.
RECURSIVE Outcomes(_)
Outcomes(e) ==
  LET of == Mapped(e.parts, Outcomes)
      each(F(_)) == Mapped(of[1], F)
  IN  CASE e.kind = "and" -> Mapped(Product(of), ConjunctiveEffect)
        [] e.kind = "forall" -> each(LAMBDA f : UniversalEffect(e.params, f))
        [] e.kind = "when" -> each(LAMBDA f : ConditionalEffect(Parsed(e.cond, FALSE), f))
        [] e.kind = "oneof" -> FlattenSeq(of)
        [] OTHER -> <<e>>

\* normalize: conjunctions move outwards, and quantifiers out of conditions.
RECURSIVE NormalEffect(_)
NormalEffect(e) ==
  LET child == NormalEffect(e.parts[1])
      wrapped(f) == IF e.kind = "when" THEN ConditionalEffect(e.cond, f) ELSE UniversalEffect(e.params, f)
  IN  CASE e.kind = "and" -> ConjunctiveEffect(Mapped(e.parts, NormalEffect))
        [] e.kind \in {"when", "forall"} ->
             (IF child.kind = "and" THEN ConjunctiveEffect(Mapped(child.parts, wrapped))
              ELSE IF e.kind = "when" /\ child.kind = "forall" THEN UniversalEffect(child.params, wrapped(child.parts[1]))
              ELSE wrapped(child))
        [] OTHER -> e

\* The assertions of normalize, parse_effect and add_effect.
RECURSIVE Unsupported(_)
Unsupported(e) ==
  \/ \E i \in DOMAIN e.parts : Unsupported(e.parts[i])
  \/ e.kind = "forall" /\ Len(Outcomes(e)) # 1
  \/ /\ e.kind \in {"when", "forall"}
     /\ \E f \in ToSet(Outcomes(e.parts[1])) :
          LET child == NormalEffect(f)
          IN  \/ child.kind = "increase"
              \/ /\ child.kind = "and"
                 /\ \E i \in DOMAIN child.parts :
                      child.parts[i].kind \notin {"literal", "when"} \cup (IF e.kind = "forall" THEN {"forall"} ELSE {})

\* extract_cost: the last cost effect of the conjunction.
CostOf(e) ==
  LET costs == SelectSeq(Flat(<<e>>, "and"), LAMBDA f : f.kind = "increase")
  IN  IF costs = <<>> THEN 0 ELSE Last(costs).cost

WithoutCost(e) == SelectSeq(Flat(<<e>>, "and"), LAMBDA f : f.kind # "increase")

\* The structure that is left is [forall] [when] literal.
EffectOf(e) ==
  LET inner == IF e.kind = "forall" THEN e.parts[1] ELSE e
      leaf == IF inner.kind = "when" THEN inner.parts[1] ELSE inner
  IN  [params |-> e.params, cond |-> Simplified(inner.cond), literal |-> leaf.literal]

Contradiction(f) == [f EXCEPT !.literal.kind = Opposite(@)]

\* add_effect: of two contradictory effects under one condition the positive one stays.
AddEffect(effects, e) ==
  LET new == EffectOf(e)
  IN  IF Contradiction(new) \notin ToSet(effects) THEN Append(effects, new)
      ELSE IF new.literal.kind = "negated" THEN effects
      ELSE Append(RemoveFirst(effects, Contradiction(new)), new)

\* parse_effects.
ParsedEffects(e) ==
  Mapped(Mapped(Outcomes(e), NormalEffect),
         LAMBDA f : [cost |-> CostOf(f), effects |-> FoldLeft(AddEffect, <<>>, WithoutCost(f))])

\* Effect.uniquify_variables: parameters are renamed, the condition and the
\* literal follow.
UniquifiedEffect(e, typeMap) ==
  LET own == Renamed(e.params, typeMap, <<>>)
      cond == Uniquified(e.cond, own.typeMap, own.renamings)
  IN  [effect |-> [params |-> own.params, cond |-> cond.condition, literal |-> Substituted(e.literal, own.renamings)],
       typeMap |-> cond.typeMap]
=============================================================================
