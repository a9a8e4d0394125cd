------------------------------- MODULE Domain -------------------------------
(***************************************************************************)
(* The domain (src/src/domain.cpp): parse_sas reads the translator's       *)
(* operators into add, delete and precondition lists; to_symbolic gives    *)
(* every action and every reaction a binary code, in the order of an       *)
(* unordered set, and builds a deterministic automaton whose state is the  *)
(* facts and two error bits, and whose input is a pair of codes, chosen by *)
(* the agent and the environment.                                          *)
(***************************************************************************)
EXTENDS GologProgram, Integers

CONSTANTS
  SASOperators,   \* the operators of output.sas, in the order of the file
  InitFacts,      \* the variables whose initial value is 0, "true" in output.sas
  NopName,        \* "nop"
  FirstReaction,  \* "_REACT_0", the reaction of deterministic actions
  NoName          \* a code that no name has

\* An operator line "v: pre -> post" is [var, pre, post, cond], with cond the
\* condition of the effect; a line "v: val" is <<v, val>> in prevail.  The
\* translator keeps every precondition as a prevail line, and the outcomes of
\* one action, made from one oneof, have the same precondition.
ASSUME OperatorsAssumption ==
  /\ SASOperators \in Seq({SASOperators[i] : i \in DOMAIN SASOperators}) \ {<<>>}
  /\ NoName \notin {NopName, FirstReaction}
  /\ \A i \in DOMAIN SASOperators :
       LET op == SASOperators[i]
       IN  /\ op.act \notin {NopName, NoName} /\ op.react # NoName
           /\ \A c \in op.prevail : c[2] \in {0, 1} /\ <<c[1], 1 - c[2]>> \notin op.prevail
           /\ \A e \in op.prepost :
                /\ e.post \in {0, 1} /\ e.pre # e.post
                /\ e.pre # -1 => <<e.var, e.pre>> \in op.prevail
  /\ \A i, j \in DOMAIN SASOperators :
       LET op == SASOperators[i]
           other == SASOperators[j]
       IN  op.act = other.act => op.prevail = other.prevail /\ (op.react = other.react => i = j)

VARIABLES
  phase,         \* "read", "encode" or "play"
  unread,        \* the operators that parse_sas has not read yet
  actions,       \* actions_
  actionCode,    \* action_name_to_bdd_, as a number
  reactionCode,  \* reaction_name_to_bdd_, as a number
  preOf,         \* per action name, the element of actions_ that get_agent_pre meets first
  input,         \* the last input of the automaton: an action and a reaction code
  facts,         \* the state variables of the facts that are true
  agErr, envErr  \* the state variables ag_err and env_err

loadVars == <<phase, unread, actions, actionCode, reactionCode, preOf>>
stateVars == <<input, facts, agErr, envErr>>
domainVars == <<loadVars, stateVars>>

-----------------------------------------------------------------------------
(* parse_sas.                                                              *)

\* The lists of an operator.  Of the effects, a line with a condition and one
\* that makes a variable false whatever it was are not recognised.
Parsed(op) ==
  LET lines == {e \in op.prepost : e.cond = {}}
  IN  [act |-> op.act, react |-> op.react,
       pos |-> {c[1] : c \in {d \in op.prevail : d[2] = 0}},
       neg |-> {c[1] : c \in {d \in op.prevail : d[2] = 1}},
       add |-> {e.var : e \in {d \in lines : d.pre \in {-1, 1} /\ d.post = 0}},
       del |-> {e.var : e \in {d \in lines : d.pre = 0 /\ d.post = 1}}]

Nop == [act |-> NopName, react |-> FirstReaction, pos |-> {}, neg |-> {}, add |-> {}, del |-> {}]

\* unordered_set::insert, where two elements with one name are equal.
Inserted(S, x) ==
  IF \E y \in S : y.act = x.act /\ y.react = x.react THEN S ELSE S \cup {x}

DomainInit ==
  /\ phase = "read"
  /\ unread = SASOperators
  /\ actions = {}
  /\ actionCode = [n \in {} |-> 0]
  /\ reactionCode = [n \in {} |-> 0]
  /\ preOf = [n \in {} |-> Nop]
  /\ input = <<>>
  /\ facts = InitFacts
  /\ agErr = FALSE
  /\ envErr = FALSE

ReadOperator ==
  /\ phase = "read"
  /\ unread # <<>>
  /\ unread' = Tail(unread)
  /\ actions' = Inserted(Inserted(actions, Nop), Parsed(Head(unread)))
  /\ UNCHANGED <<phase, actionCode, reactionCode, preOf, stateVars>>

ReadEnd ==
  /\ phase = "read"
  /\ unread = <<>>
  /\ phase' = "encode"
  /\ UNCHANGED <<unread, actions, actionCode, reactionCode, preOf, stateVars>>

-----------------------------------------------------------------------------
(* to_symbolic.                                                            *)

ActionNames == {x.act : x \in actions}
ReactionNames == {x.react : x \in actions}

\* The number of significant bits of n.
bitCount[n \in Nat] == IF n = 0 THEN 0 ELSE 1 + bitCount[n \div 2]

\* Mutant of Bits: the loop shifts before it counts.
BitsShort(names) == IF Cardinality(names) = 1 THEN 1 ELSE bitCount[(Cardinality(names) - 1) \div 2]

\* get_bits, for a set that is not empty.
Bits(names) == IF Cardinality(names) = 1 THEN 1 ELSE bitCount[Cardinality(names) - 1]

\* How many values k variables have.
powerOfTwo[k \in Nat] == IF k = 0 THEN 1 ELSE 2 * powerOfTwo[k - 1]

\* The codes of the variables that encode a set of names.
Codes(names) == 0 .. powerOfTwo[Bits(names)] - 1

\* One code after the other, in the order of the set.
Numbered(names, order) == [n \in names |-> (CHOOSE i \in DOMAIN order : order[i] = n) - 1]

Encode ==
  /\ phase = "encode"
  /\ phase' = "play"
  /\ \E order \in Orders(ActionNames) : actionCode' = Numbered(ActionNames, order)
  /\ \E order \in Orders(ReactionNames) : reactionCode' = Numbered(ReactionNames, order)
  /\ \E first \in [ActionNames -> actions] :
       /\ \A n \in ActionNames : first[n].act = n
       /\ preOf' = first
  /\ UNCHANGED <<unread, actions, stateVars>>

\* The action-reactions whose BDD an input satisfies.
Played(x, y) == {z \in actions : actionCode[z.act] = x /\ reactionCode[z.react] = y}

\* Mutant of AgentPre: the negative preconditions are not looked at.
AgentPositivePre(s, x) == \A n \in ActionNames : actionCode[n] = x => preOf[n].pos \subseteq s

\* get_agent_pre: each action implies the precondition recorded for its name.
AgentPre(s, x) ==
  \A n \in ActionNames : actionCode[n] = x => preOf[n].pos \subseteq s /\ preOf[n].neg \cap s = {}

\* Mutant of EnvPre: a later action of a reaction replaces an earlier one.
EnvLastPre(x, y) ==
  \A r \in ReactionNames : reactionCode[r] = y =>
    LET z == CHOOSE z \in actions : z.react = r IN actionCode[z.act] = x

\* get_env_pre: each reaction implies one of the actions that have it.
EnvPre(x, y) ==
  \A r \in ReactionNames : reactionCode[r] = y =>
    \E z \in actions : z.react = r /\ actionCode[z.act] = x

\* The mutual exclusion axioms: a code stands for a name.
AgentMutex(x) == \E n \in ActionNames : actionCode[n] = x
EnvMutex(y) == \E r \in ReactionNames : reactionCode[r] = y

\* The bits of the automaton's transition function.  The facts go on changing
\* after an error.
FactsAfter(s, x, y) ==
  (s \ UNION {z.del : z \in Played(x, y)}) \cup UNION {z.add : z \in Played(x, y)}
AgentErrs(s, x) == ~ AgentMutex(x) \/ ~ AgentPre(s, x)
EnvErrs(x, y)   == ~ EnvMutex(y) \/ ~ EnvPre(x, y)

Read(x, y) ==
  /\ phase = "play"
  /\ input' = <<x, y>>
  /\ facts' = FactsAfter(facts, x, y)
  /\ agErr' = (agErr \/ AgentErrs(facts, x))
  /\ envErr' = (envErr \/ EnvErrs(x, y))
  /\ UNCHANGED loadVars

Load == ReadOperator \/ ReadEnd \/ Encode

Play == phase = "play" /\ \E x \in Codes(ActionNames), y \in Codes(ReactionNames) : Read(x, y)

DomainNext == Load \/ Play

DomainSpec == DomainInit /\ [][DomainNext]_domainVars

-----------------------------------------------------------------------------
(* Properties.                                                             *)

\* Every outcome of every action can be played, alone: no two names share a code
\* and no code needs more bits than there are variables, whatever the order in
\* which the sets are enumerated.
EveryOutcomePlayable ==
  phase = "play" =>
    \A z \in actions : \E x \in Codes(ActionNames), y \in Codes(ReactionNames) : Played(x, y) = {z}

\* Neither player is ever forced into an error: nop is always there for the agent,
\* and the environment has an answer to an agent that keeps the rules.  So
\* env_err without ag_err is the environment's own doing, as the final states of
\* the game take it.
NobodyIsForced ==
  phase = "play" =>
    /\ \E x \in Codes(ActionNames) : ~ AgentErrs(facts, x)
    /\ \A x \in Codes(ActionNames) : AgentMutex(x) => \E y \in Codes(ReactionNames) : ~ EnvErrs(x, y)

-----------------------------------------------------------------------------
(* The domain the automaton implements.                                    *)

NameOf(code, c) ==
  IF \E n \in DOMAIN code : code[n] = c THEN CHOOSE n \in DOMAIN code : code[n] = c ELSE NoName

Move ==
  IF input = <<>> THEN <<NoName, NoName>>
  ELSE <<NameOf(actionCode, input[1]), NameOf(reactionCode, input[2])>>

Fond == INSTANCE FondDomain WITH move <- Move, agentFault <- agErr, envFault <- envErr

\* The automaton follows the operators: the facts change as the operator of the
\* move says while nobody broke a rule, and the error bits blame who did.
ImplementsFond == Fond!Spec
=============================================================================
