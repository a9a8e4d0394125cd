-------------------------------- MODULE Arena --------------------------------
(***************************************************************************)
(* CompositionalGologSynthesizer (src/src/compositional_golog_synthesizer) *)
(* and BaseGologSynthesizer::interactive: the automaton of the domain and  *)
(* that of the program graph are read side by side as one arena, a         *)
(* reachability game on it is solved (by LydiaSyft, outside the            *)
(* repository), and the strategy is executed against a user who plays the  *)
(* environment.                                                            *)
(*                                                                         *)
(* The domain is the module Domain, the graph an instance of ProgramGraph  *)
(* whose fluents are the facts of the domain.                              *)
(***************************************************************************)
EXTENDS Domain

CONSTANTS
  Roots,   \* the Golog programs
  Sat,     \* the states that satisfy the formula of a test
  Facts,   \* the fact variables of the task
  Programs,  \* the programs, with what they consist of and can become
  MaxMoves   \* bound on the length of the plans that a verdict is compared with

Listed(x) == x.pos \cup x.neg \cup x.add \cup x.del

ASSUME FactsAssumption ==
  /\ IsFiniteSet(Facts)
  /\ InitFacts \subseteq Facts
  /\ \A i \in DOMAIN SASOperators : Listed(Parsed(SASOperators[i])) \subseteq Facts

VARIABLES
  root, queue, added, visited, stack, trans, final, cont, outcome,     \* TFC
  stage, frontier, explored, reachable, programId, pending, delta,     \* ProgramGraph
  maxState, codes, code,
  game,     \* "build", "solve", "unrealizable", "loop", "answer", or how the loop ended
  round,    \* the rounds of the fixpoint so far
  found,    \* the winning states, each with the round that found it
  chosen    \* actions_bit, as a number

tfcVars == <<root, queue, added, visited, stack, trans, final, cont, outcome>>
graphVars == <<tfcVars, stage, frontier, explored, reachable, programId, pending, delta, maxState, codes>>
gameVars == <<game, round, found, chosen>>
arenaVars == <<domainVars, graphVars, code, gameVars>>

Names == {NopName} \cup {SASOperators[i].act : i \in DOMAIN SASOperators}

\* action_name_to_pre_bdd_, handed to the construction of the graph.
Guards ==
  [n \in Names |->
     {s \in SUBSET Facts :
        \A i \in DOMAIN SASOperators :
          LET x == Parsed(SASOperators[i])
          IN  x.act = n => x.pos \subseteq s /\ x.neg \cap s = {}}]

Graph == INSTANCE ProgramGraph WITH
           fluents <- facts, ActionNames <- Names, States <- SUBSET Facts,
           Pre <- Guards, NoAction <- NoName

-----------------------------------------------------------------------------
(* run: domain, graph, composition.                                        *)

ArenaInit ==
  /\ DomainInit
  /\ Graph!PGInit
  /\ game = "build"
  /\ round = 0
  /\ found = <<>>
  /\ chosen = 0

LoadDomain ==
  /\ game = "build"
  /\ Load
  /\ UNCHANGED <<graphVars, code, gameVars>>

BuildGraph ==
  /\ game = "build"
  /\ phase = "play"
  /\ Graph!Construct
  /\ UNCHANGED <<loadVars, input, agErr, envErr, gameVars>>

\* The state vector of the arena: the domain's, then the graph's.
Current == [facts |-> facts, agErr |-> agErr, envErr |-> envErr, code |-> code]

ArenaStates == [facts : SUBSET Facts, agErr : BOOLEAN, envErr : BOOLEAN, code : 0 .. codes - 1]

\* The transition functions side by side, read with the same state and input.
Successor(q, x, y) ==
  [facts  |-> FactsAfter(q.facts, x, y),
   agErr  |-> q.agErr \/ AgentErrs(q.facts, x),
   envErr |-> q.envErr \/ EnvErrs(x, y),
   code   |-> Graph!NextCode(q.code, q.facts, NameOf(actionCode, x))]

\* Mutant of Final: an error of the environment is no win.
FinalWithoutEnvError(q) == ~ q.agErr /\ Graph!AcceptingCode(q.code, q.facts)

\* final_states of compose.
Final(q) == ~ q.agErr /\ (q.envErr \/ Graph!AcceptingCode(q.code, q.facts))

Compose ==
  /\ game = "build"
  /\ stage = "play"
  /\ game' = "solve"
  /\ found' = [q \in {p \in ArenaStates : Final(p)} |-> 0]
  /\ UNCHANGED <<domainVars, graphVars, code, round, chosen>>

-----------------------------------------------------------------------------
(* Syft::Reachability, external: the least fixpoint of the agent's          *)
(* controllable predecessors, until the initial state is in it, and a       *)
(* transducer that follows the rounds.                                      *)

AgentCodes == Codes(ActionNames)
EnvCodes == Codes(ReactionNames)

Controllable(W) ==
  {q \in ArenaStates : \E x \in AgentCodes : \A y \in EnvCodes : Successor(q, x, y) \in W}

SolveRound ==
  /\ game = "solve"
  /\ LET won == DOMAIN found
         new == Controllable(won) \ won
     IN  /\ found' = [q \in won \cup new |-> IF q \in won THEN found[q] ELSE round + 1]
         /\ game' = IF Current \in won \cup new THEN "loop"
                    ELSE IF new = {} THEN "unrealizable"
                    ELSE "solve"
  /\ round' = round + 1
  /\ UNCHANGED <<domainVars, graphVars, code, chosen>>

\* The outputs of the transducer: from a winning state, a move into earlier
\* rounds whatever the environment does; from another state, anything.
Output(q) ==
  {x \in AgentCodes :
     q \in DOMAIN found =>
       \A y \in EnvCodes :
         LET next == Successor(q, x, y) IN next \in DOMAIN found /\ found[next] < found[q]}

-----------------------------------------------------------------------------
(* interactive, which main calls when the synthesis is realizable.         *)

\* What the head of the loop says of the state, in the order of its tests.
Verdict ==
  IF agErr THEN "agent error"
  ELSE IF envErr THEN "environment error"
  ELSE IF Final(Current) THEN "goal"
  ELSE "not final"

Stop ==
  /\ game = "loop"
  /\ Verdict # "not final"
  /\ game' = Verdict
  /\ UNCHANGED <<domainVars, graphVars, code, round, found, chosen>>

Select ==
  /\ game = "loop"
  /\ Verdict = "not final"
  /\ game' = "answer"
  /\ chosen' \in Output(Current)
  /\ UNCHANGED <<domainVars, graphVars, code, round, found>>

\* Mutant of Valid: any reaction the domain knows is taken.
AnyReaction(y) == EnvMutex(y)

\* valid_reactions: a reaction of the domain that does not set env_err.
Valid(y) == EnvMutex(y) /\ ~ Successor(Current, chosen, y).envErr

\* Mutant of Answer: state = new_state is forgotten.
AnswerInVain ==
  /\ game = "answer"
  /\ \E y \in EnvCodes : Valid(y)
  /\ game' = "loop"
  /\ UNCHANGED <<domainVars, graphVars, code, round, found, chosen>>

\* The user enters a valid reaction and the arena makes the step.  (Another
\* entry changes nothing, and the user is asked again.)  If the selected code
\* were no action's, the input vector would be too short and its evaluation
\* undefined.
Answer ==
  /\ game = "answer"
  /\ \E y \in EnvCodes :
       /\ Valid(y)
       /\ Read(chosen, y)
       /\ code' = Graph!NextCode(code, facts, NameOf(actionCode, chosen))
  /\ game' = IF AgentMutex(chosen) THEN "loop" ELSE "undefined"
  /\ UNCHANGED <<graphVars, round, found, chosen>>

\* The user enters -1.
Quit ==
  /\ game = "answer"
  /\ game' = "quit"
  /\ UNCHANGED <<domainVars, graphVars, code, round, found, chosen>>

-----------------------------------------------------------------------------
Tool == LoadDomain \/ BuildGraph \/ Compose \/ SolveRound \/ Stop \/ Select

User == Answer \/ Quit

\* The process has ended, normally or with an exception.
Exited ==
  /\ \/ game \notin {"build", "solve", "loop", "answer"}
     \/ Graph!Stopped
  /\ UNCHANGED arenaVars

\* The tool computes on; the user at the prompt gives a valid answer some time.
ArenaSpec ==
  /\ ArenaInit
  /\ [][Tool \/ User \/ Exited]_arenaVars
  /\ WF_arenaVars(Tool)
  /\ WF_arenaVars(User)

-----------------------------------------------------------------------------
(* The execution of the program in the domain.                             *)

\* The program that the graph's state stands for.
Remaining ==
  IF stage # "play" THEN root
  ELSE IF code = 0 THEN NoName
  ELSE CHOOSE p \in reachable : programId[p] = code

\* Where the operators of the domain allow an action.
Allowed == [n \in Names |-> {s \in SUBSET Facts : Fond!Legal(n, s)}]

Game == INSTANCE GologGame WITH
          States <- SUBSET Facts, Pre <- Allowed, program <- Remaining, over <- game = "goal"

-----------------------------------------------------------------------------
(* Properties.                                                             *)

\* The execution of the strategy is an execution of the program in the domain:
\* every action is one that the program offers and the domain allows, every
\* reaction an outcome of it, and the goal is announced only where the program
\* may terminate.
ExecutesProgram == Game!Spec

\* The verdict of the synthesis, computed on codes and error bits, is that of the
\* game between program and domain: if it finds no strategy there is no plan, and
\* if it finds one, its plans are as long as the fixpoint took rounds.
VerdictIsRight ==
  /\ game = "unrealizable" => <<root, InitFacts>> \notin Game!Won[MaxMoves]
  /\ game = "loop" /\ input = <<>> => <<root, InitFacts>> \in Game!Won[round + 1]

\* The executed strategy never breaks a rule of the domain, although codes of no
\* action are among its outputs and illegal actions lead to states like others;
\* and no answer that the loop accepts is an error of the environment.
RulesAreKept == game \notin {"agent error", "environment error", "undefined"}

\* If the user keeps answering, the execution ends, unless an exception ended the
\* construction: the strategy does not go round in circles inside the winning
\* states.
ExecutionEnds ==
  <>(\/ game \in {"unrealizable", "goal", "quit", "agent error", "environment error", "undefined"}
     \/ Graph!Stopped)
=============================================================================
