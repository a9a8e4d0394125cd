------------------------------ MODULE Grounding -----------------------------
(***************************************************************************)
(* From the normal form to ground actions and axioms                        *)
(* (src/submodules/instantiate.py, pddl_to_prolog.py, pddl/pddl_types.py).  *)
(* What the exploration rules derive is their least model here; BuildModel  *)
(* shows that the queue of build_model.py computes it.                      *)
(***************************************************************************)
EXTENDS Normalize

VARIABLES
  model,         \* ground atoms [pred, args]
  ground,        \* ground actions [name, args, pre, add, del]
  groundAxioms   \* ground axioms [effect, body]

groundingVars == <<normVars, model, ground, groundAxioms>>

-----------------------------------------------------------------------------
(* Types.                                                                  *)

\* Warshall's algorithm.
TransitiveClosure(pairs) ==
  FoldSet(LAMBDA k, made : made \cup {<<p[1], q[2]>> : p \in {r \in made : r[2] = k}, q \in {r \in made : r[1] = k}},
          pairs, {p[1] : p \in pairs} \cup {p[2] : p \in pairs})

\* set_supertypes.
Supertypes(type) == {p[2] : p \in {q \in TransitiveClosure(source.types) : q[1] = type}}

\* get_objects_by_type.
ObjectsOf(type) == {o.name : o \in {p \in ToSet(source.objects) : p.type = type \/ type \in Supertypes(p.type)}}

Bindings(params) == {f \in [{p.name : p \in ToSet(params)} -> UNION {ObjectsOf(p.type) : p \in ToSet(params)}] :
                       \A p \in ToSet(params) : f[p.name] \in ObjectsOf(p.type)}

-----------------------------------------------------------------------------
(* Exploration.                                                            *)

\* Task.parse adds an equation for each object.
InitFacts ==
  {Plain(a) : a \in source.init}
    \cup {[pred |-> <<"=", 0>>, args |-> <<o.name, o.name>>] : o \in ToSet(source.objects)}

\* translate_facts.
Facts ==
  InitFacts \cup UNION {{[pred |-> <<t, 0>>, args |-> <<o.name>>] : t \in {o.type} \cup Supertypes(o.type)} : o \in ToSet(source.objects)}

\* A variable of an effect that no condition binds ranges over all objects.
Consequences(known) ==
  UNION {LET r == rules[i]
             over == [AllVariables(r) -> {o.name : o \in ToSet(source.objects)}]
         IN  {Substituted(r.effect, f) : f \in {g \in over : \A c \in ToSet(r.conditions) : Substituted(c, g) \in known}} :
           i \in DOMAIN rules}

RECURSIVE LeastModel(_)
LeastModel(known) == LET more == known \cup Consequences(known) IN IF more = known THEN known ELSE LeastModel(more)

Explore ==
  /\ stage = "done"
  /\ model' = LeastModel(Facts)
  /\ stage' = "explored"
  /\ UNCHANGED <<source, actions, effects, axioms, goal, rules, ground, groundAxioms>>

-----------------------------------------------------------------------------
(* instantiate.                                                            *)

\* get_fluent_facts.
FluentPredicates ==
  UNION {{e.literal.pred : e \in ToSet(effects[n])} : n \in DOMAIN effects} \cup {axioms[i].name : i \in DOMAIN axioms}

FluentFacts == {a \in model : a.pred[2] = 0 /\ a.pred[1] \in FluentPredicates}

\* Mutant of Impossible: a negated static literal is taken to be true.
ImpossibleAtom(c, f) ==
  \E l \in ToSet(Literals(c)) :
    LET a == Substituted(Plain(l), f)
    IN  a \notin FluentFacts /\ l.kind = "atom" /\ a \notin InitFacts

\* Literal.instantiate, Falsity.instantiate: facts that never change are decided.
Impossible(c, f) ==
  \E l \in ToSet(Literals(c)) :
    LET a == Substituted(Plain(l), f)
    IN  \/ l.kind = "false"
        \/ a \notin FluentFacts /\ (l.kind = "atom") # (a \in InitFacts)

Instance(l, f) == [kind |-> l.kind, atom |-> Substituted(Plain(l), f)]

\* The fluent literals of a condition.
Remaining(c, f) ==
  LET fluent == SelectSeq(Literals(c), LAMBDA l : Substituted(Plain(l), f) \in FluentFacts)
  IN  [k \in DOMAIN fluent |-> Instance(fluent[k], f)]

\* Effect.instantiate: for all values of the parameters, unless the condition is impossible.
GroundEffects(e, f) ==
  {<<Remaining(e.cond, g @@ f), Instance(e.literal, g @@ f)>> :
     g \in {h \in Bindings(e.params) : ~Impossible(e.cond, h @@ f) /\ Substituted(Plain(e.literal), h @@ f) \in FluentFacts}}

\* Action.instantiate, PropositionalAction.
GroundAction(a, f) ==
  LET all == UNION {GroundEffects(e, f) : e \in ToSet(effects[a.name])}
      of(kind) == {<<p[1], p[2].atom>> : p \in {q \in all : q[2].kind = kind}}
  IN  [name |-> a.name, args |-> [k \in 1..a.external |-> f[a.params[k].name]], pre |-> Remaining(a.pre, f),
       add |-> of("atom"), del |-> of("negated") \ of("atom")]

GroundAxiom(a, f) ==
  [effect |-> [pred |-> <<a.name, 0>>, args |-> [k \in 1..a.external |-> f[a.params[k].name]]], body |-> Remaining(a.cond, f)]

\* The values of the parameters for which the model holds the atom of an action or axiom.
Reached(kind, i, params) ==
  {[v \in {p.name : p \in ToSet(params)} |-> a.args[CHOOSE k \in DOMAIN params : params[k].name = v]] :
     a \in {b \in model : b.pred = <<kind, i>>}}

Instantiate ==
  /\ stage = "explored"
  /\ ground' = UNION {{GroundAction(actions[i], f) : f \in {g \in Reached("action", i, actions[i].params) : ~Impossible(actions[i].pre, g)}} :
                        i \in DOMAIN actions}
  /\ groundAxioms' = UNION {{GroundAxiom(axioms[i], f) : f \in {g \in Reached("axiom", i, axioms[i].params) : ~Impossible(axioms[i].cond, g)}} :
                              i \in DOMAIN axioms}
  /\ stage' = "ground"
  /\ UNCHANGED <<source, actions, effects, axioms, goal, rules, model>>

-----------------------------------------------------------------------------

GroundingInit == NormInit /\ model = {} /\ ground = {} /\ groundAxioms = {}

GroundingEnded == stage \in {"ground", "error", "assertion"} /\ UNCHANGED groundingVars

GroundingNext ==
  \/ NormStep /\ UNCHANGED <<model, ground, groundAxioms>>
  \/ Explore
  \/ Instantiate
  \/ GroundingEnded

GroundingSpec == GroundingInit /\ [][GroundingNext]_groundingVars
=============================================================================
