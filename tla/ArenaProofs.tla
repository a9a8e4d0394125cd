----------------------------- MODULE ArenaProofs -----------------------------
(***************************************************************************)
(* Proofs about the execution of a strategy: for every task, every Golog   *)
(* program and every order in which sets are enumerated, the tool keeps    *)
(* the rules of the domain, and every answer of the user brings the        *)
(* execution closer to its end.                                            *)
(***************************************************************************)
EXTENDS Arena, DomainProofs

CONSTANTS
  Succs,   \* the programs that a step of a program may lead to
  Depth    \* the height of a program's syntax tree

-----------------------------------------------------------------------------
(* The invariant.                                                          *)

ArenaNext == Tool \/ User \/ Exited

\* While the strategy is executed the state of the arena is a winning one.
\* Winning states are free of agent errors, since the fixpoint starts from such
\* states, errors stay, and the environment always has an input: so no state
\* from which the agent's move breaks a rule is ever added.
ArenaInv ==
  /\ Inv
  /\ game \in {"build", "solve", "unrealizable", "loop", "answer", "goal", "not final", "quit"}
  /\ stage # "tfc" => phase = "play"
  /\ game # "build" => phase = "play"
  /\ game = "build" => found = <<>>
  /\ round \in Nat /\ found \in [DOMAIN found -> Nat]
  /\ \A q \in DOMAIN found : ~ q.agErr
  /\ ~ envErr
  /\ game \in {"loop", "answer"} => Current \in DOMAIN found
  /\ game = "answer" => chosen \in Output(Current)

LEMMA ArenaInitInv == ArenaInit => ArenaInv
<1>. SUFFICES ASSUME ArenaInit PROVE ArenaInv
  OBVIOUS
<1>1. Inv
  BY InitInv DEF ArenaInit
<1>2. stage = "tfc" /\ game = "build" /\ round = 0 /\ found = <<>> /\ ~ envErr
  BY DEF ArenaInit, DomainInit, Graph!PGInit
<1>3. DOMAIN found = {} /\ found \in [{} -> Nat]
  BY <1>2
<1>. QED
  BY <1>1, <1>2, <1>3 DEF ArenaInv

\* A step that leaves alone what the domain has loaded keeps the invariant of the
\* domain.
LEMMA LoadedKeepsInv ==
  ASSUME Inv, UNCHANGED loadVars, phase = "play" \/ input' = input
  PROVE  Inv'
  BY DEF Inv, loadVars, ActionNames, ReactionNames

\* While the arena is built there is no winning state yet.
LEMMA BuildInv ==
  ASSUME ArenaInv, LoadDomain \/ BuildGraph \/ Compose
  PROVE  ArenaInv'
<1>1. CASE LoadDomain
  <2>1. Inv'
    BY <1>1, InductiveInv DEF LoadDomain, DomainNext, ArenaInv
  <2>2. phase # "play" /\ UNCHANGED <<stage, game, round, found, chosen, envErr>> /\ game = "build"
    BY <1>1 DEF LoadDomain, Load, ReadOperator, ReadEnd, Encode, graphVars, gameVars, stateVars
  <2>. QED
    BY <2>1, <2>2 DEF ArenaInv
<1>2. CASE BuildGraph
  <2>1. game = "build" /\ phase = "play" /\ UNCHANGED <<loadVars, input, agErr, envErr, gameVars>>
    BY <1>2 DEF BuildGraph
  <2>2. Inv'
    BY <2>1, LoadedKeepsInv DEF ArenaInv
  <2>. QED
    BY <2>1, <2>2 DEF ArenaInv, gameVars, loadVars
<1>3. CASE Compose
  <2>1. UNCHANGED <<domainVars, graphVars, code, round, chosen>> /\ stage = "play" /\ game' = "solve"
    BY <1>3 DEF Compose
  <2>2. Inv'
    BY <2>1, LoadedKeepsInv DEF ArenaInv, domainVars, stateVars
  <2>3. (\A q \in DOMAIN found' : ~ q.agErr) /\ found' \in [DOMAIN found' -> Nat]
    BY <1>3 DEF Compose, Final
  <2>4. phase' = "play" /\ envErr' = envErr /\ stage' = stage
    BY <2>1 DEF ArenaInv, domainVars, loadVars, stateVars, graphVars
  <2>. QED
    BY <2>1, <2>2, <2>3, <2>4 DEF ArenaInv
<1>. QED
  BY <1>1, <1>2, <1>3

\* A round of the fixpoint adds no state of an agent error: some input of the
\* environment answers the winning move, and errors stay.
LEMMA ControllableIsClean ==
  ASSUME Inv, phase = "play", NEW W, \A q \in W : ~ q.agErr, NEW q \in Controllable(W)
  PROVE  ~ q.agErr
<1>1. PICK x \in AgentCodes : \A y \in EnvCodes : Successor(q, x, y) \in W
  BY DEF Controllable
<1>2. reactionCode[FirstReaction] \in EnvCodes
  BY CodesInPlay DEF EnvCodes
<1>3. ~ Successor(q, x, reactionCode[FirstReaction]).agErr
  BY <1>1, <1>2
<1>. QED
  BY <1>3 DEF Successor

LEMMA SolveInv ==
  ASSUME ArenaInv, SolveRound
  PROVE  ArenaInv'
<1>. DEFINE won == DOMAIN found
            new == Controllable(won) \ won
<1>1. /\ game = "solve" /\ phase = "play"
      /\ UNCHANGED <<domainVars, graphVars, code, chosen>>
      /\ DOMAIN found' = won \cup new
      /\ game' \in {"loop", "unrealizable", "solve"}
      /\ game' = "loop" => Current \in won \cup new
  BY DEF SolveRound, ArenaInv
<1>2. Inv'
  BY <1>1, LoadedKeepsInv DEF ArenaInv, domainVars, stateVars
<1>3. \A q \in won \cup new : ~ q.agErr
  BY <1>1, ControllableIsClean DEF ArenaInv
<1>4. round' \in Nat /\ found' \in [DOMAIN found' -> Nat]
  <2>1. round' = round + 1 /\ found' = [q \in won \cup new |-> IF q \in won THEN found[q] ELSE round + 1]
    BY DEF SolveRound
  <2>2. round \in Nat /\ \A q \in won : found[q] \in Nat
    BY DEF ArenaInv
  <2>. HIDE DEF won, new
  <2>. QED
    BY <2>1, <2>2
<1>5. Current' = Current /\ phase' = phase /\ stage' = stage /\ envErr' = envErr
  BY <1>1 DEF Current, domainVars, loadVars, stateVars, graphVars
<1>. QED
  BY <1>1, <1>2, <1>3, <1>4, <1>5 DEF ArenaInv

\* What the head of the loop can say of a winning state.
LEMMA VerdictOfWinning ==
  ASSUME ArenaInv, game = "loop"
  PROVE  Verdict \in {"goal", "not final"}
<1>1. Current \in DOMAIN found /\ ~ Current.agErr /\ ~ envErr
  BY DEF ArenaInv
<1>2. ~ agErr
  BY <1>1 DEF Current
<1>. QED
  BY <1>1, <1>2 DEF Verdict

LEMMA StopInv ==
  ASSUME ArenaInv, Stop
  PROVE  ArenaInv'
<1>1. game = "loop" /\ UNCHANGED <<domainVars, graphVars, code, round, found, chosen>> /\ game' = "goal"
  BY VerdictOfWinning DEF Stop
<1>2. Inv'
  BY <1>1, LoadedKeepsInv DEF ArenaInv, domainVars, stateVars
<1>. QED
  BY <1>1, <1>2 DEF ArenaInv, domainVars, loadVars, stateVars, graphVars

LEMMA SelectInv ==
  ASSUME ArenaInv, Select
  PROVE  ArenaInv'
<1>1. /\ game = "loop" /\ UNCHANGED <<domainVars, graphVars, code, round, found>>
      /\ game' = "answer" /\ chosen' \in Output(Current)
  BY DEF Select
<1>2. Inv'
  BY <1>1, LoadedKeepsInv DEF ArenaInv, domainVars, stateVars
<1>3. /\ Current' = Current /\ UNCHANGED <<phase, actions, actionCode, reactionCode, preOf, stage, envErr>>
      /\ UNCHANGED <<delta, codes>>
  BY <1>1 DEF Current, domainVars, loadVars, stateVars, graphVars
<1>4. Output(Current)' = Output(Current)
  BY <1>1, <1>3 DEF Output, AgentCodes, EnvCodes, Successor, ActionNames, ReactionNames, FactsAfter,
                    Played, AgentErrs, EnvErrs, AgentMutex, EnvMutex, AgentPre, EnvPre, Graph!NextCode,
                    Graph!Encode
<1>. QED
  BY <1>1, <1>2, <1>3, <1>4 DEF ArenaInv

\* An answer leads to the successor of the state, which is winning and won earlier.
LEMMA AnswerSuccessor ==
  ASSUME ArenaInv, Answer
  PROVE  /\ Current' \in DOMAIN found /\ found[Current'] < found[Current]
         /\ ~ envErr'
         /\ AgentMutex(chosen)
<1>1. PICK y \in EnvCodes :
        Valid(y) /\ Read(chosen, y) /\ code' = Graph!NextCode(code, facts, NameOf(actionCode, chosen))
  BY DEF Answer
<1>2. Current' = Successor(Current, chosen, y)
  BY <1>1 DEF Read, Current, Successor
<1>3. Current \in DOMAIN found /\ chosen \in Output(Current)
  BY DEF ArenaInv, Answer
<1>4. Current' \in DOMAIN found /\ found[Current'] < found[Current]
  BY <1>2, <1>3 DEF Output
<1>5. ~ envErr'
  BY <1>1, <1>2 DEF Valid, Current
<1>6. AgentMutex(chosen)
  <2>1. ~ Current'.agErr
    BY <1>4 DEF ArenaInv
  <2>2. ~ AgentErrs(Current.facts, chosen)
    BY <1>2, <2>1 DEF Successor
  <2>. QED
    BY <2>2 DEF AgentErrs
<1>. QED
  BY <1>4, <1>5, <1>6

LEMMA AnswerInv ==
  ASSUME ArenaInv, Answer
  PROVE  ArenaInv'
<1>1. game = "answer" /\ UNCHANGED <<graphVars, round, found, chosen>> /\ game' = "loop"
  BY AnswerSuccessor DEF Answer
<1>2. UNCHANGED loadVars /\ phase = "play"
  BY DEF Answer, Read
<1>3. Inv'
  BY <1>2, LoadedKeepsInv DEF ArenaInv
<1>4. Current' \in DOMAIN found' /\ ~ envErr'
  BY <1>1, AnswerSuccessor
<1>. QED
  BY <1>1, <1>2, <1>3, <1>4 DEF ArenaInv, loadVars, graphVars

LEMMA QuitInv ==
  ASSUME ArenaInv, Quit
  PROVE  ArenaInv'
<1>1. game = "answer" /\ UNCHANGED <<domainVars, graphVars, code, round, found, chosen>> /\ game' = "quit"
  BY DEF Quit
<1>2. Inv'
  BY <1>1, LoadedKeepsInv DEF ArenaInv, domainVars, stateVars
<1>. QED
  BY <1>1, <1>2 DEF ArenaInv, domainVars, loadVars, stateVars, graphVars

LEMMA ArenaStutterInv ==
  ASSUME ArenaInv, UNCHANGED arenaVars
  PROVE  ArenaInv'
<1>1. UNCHANGED <<domainVars, graphVars, code, gameVars>>
  BY DEF arenaVars
<1>2. Inv'
  BY <1>1, LoadedKeepsInv DEF ArenaInv, domainVars, stateVars
<1>3. /\ Current' = Current /\ UNCHANGED <<phase, actions, actionCode, reactionCode, preOf, stage, envErr>>
      /\ UNCHANGED <<delta, codes, game, round, found, chosen>>
  BY <1>1 DEF Current, domainVars, loadVars, stateVars, graphVars, gameVars
<1>4. Output(Current)' = Output(Current)
  BY <1>3 DEF Output, AgentCodes, EnvCodes, Successor, ActionNames, ReactionNames, FactsAfter,
              Played, AgentErrs, EnvErrs, AgentMutex, EnvMutex, AgentPre, EnvPre, Graph!NextCode,
              Graph!Encode
<1>. QED
  BY <1>2, <1>3, <1>4 DEF ArenaInv

LEMMA ArenaInductive == ArenaInv /\ [ArenaNext]_arenaVars => ArenaInv'
<1>. SUFFICES ASSUME ArenaInv, [ArenaNext]_arenaVars PROVE ArenaInv'
  OBVIOUS
<1>1. CASE Tool
  BY <1>1, BuildInv, SolveInv, StopInv, SelectInv DEF Tool
<1>2. CASE User
  BY <1>2, AnswerInv, QuitInv DEF User
<1>3. CASE Exited \/ UNCHANGED arenaVars
  BY <1>3, ArenaStutterInv DEF Exited
<1>. QED
  BY <1>1, <1>2, <1>3 DEF ArenaNext

LEMMA ArenaAlwaysInv == ArenaSpec => []ArenaInv
<1>. QED
  BY ArenaInitInv, ArenaInductive, PTL DEF ArenaSpec, ArenaNext

-----------------------------------------------------------------------------
(* What the execution promises.                                            *)

\* The executed strategy never breaks a rule of the domain, no answer that the
\* loop accepts is an error of the environment, and the loop never looks up an
\* action for a code that has none: for every task and every program.
THEOREM RulesAlwaysKept == ArenaSpec => []RulesAreKept
<1>1. ArenaInv => RulesAreKept
  BY DEF ArenaInv, RulesAreKept
<1>. QED
  BY <1>1, ArenaAlwaysInv, PTL

\* Every answer of the user takes the execution to a state that was won in an
\* earlier round of the fixpoint.  Rounds are naturals, so an execution whose user
\* keeps answering comes to an end.
Closer == found'[Current'] \in Nat /\ found[Current] \in Nat /\ found'[Current'] < found[Current]
AnswersBringCloser == [][Answer => Closer]_arenaVars

THEOREM AnswersAlwaysBringCloser == ArenaSpec => AnswersBringCloser
<1>1. ArenaInv /\ [ArenaNext]_arenaVars => [Answer => Closer]_arenaVars
  <2>. SUFFICES ASSUME ArenaInv, Answer PROVE Closer
    OBVIOUS
  <2>1. found' = found /\ Current \in DOMAIN found
    BY DEF Answer, ArenaInv
  <2>. QED
    BY <2>1, AnswerSuccessor DEF ArenaInv, Closer
<1>. QED
  BY <1>1, ArenaAlwaysInv, PTL DEF ArenaSpec, ArenaNext, AnswersBringCloser
-----------------------------------------------------------------------------
(* The graph of the arena is the graph that ProgramGraphProofs speaks of.  *)

Proved == INSTANCE ProgramGraphProofs WITH
            fluents <- facts, ActionNames <- Names, States <- SUBSET Facts,
            Pre <- Guards, NoAction <- NoName, Stuck <- NoName

\* The programs are of the kind for which the graph is proved right: finite trees
\* without und over known actions, closed under steps.
Compilable ==
  /\ Proved!SpaceAssumption
  /\ Proved!SyntaxAssumption
  /\ Proved!SuccsAssumption
  /\ Proved!DepthAssumption
  /\ \A phi \in DOMAIN Sat : Sat[phi] \subseteq SUBSET Facts
  /\ NoName \notin Programs

\* What the proofs about the graph assume.
GraphAssumptions ==
  /\ Proved!SpaceAssumption
  /\ Proved!SyntaxAssumption
  /\ Proved!SuccsAssumption
  /\ Proved!DepthAssumption
  /\ Proved!FiniteAssumption
  /\ Proved!NamesAssumption
  /\ Proved!GuardsAreStateSets

\* A set is finite for both.
LEMMA SameFinite == \A S : Proved!IsFiniteSet(S) <=> IsFiniteSet(S)
  BY DEF Proved!IsFiniteSet, IsFiniteSet

\* The names of the actions, by operators.
LEMMA NamesOfOperators == Names = {NopName} \cup {op.act : op \in OperatorSet}
  BY DEF Names, OperatorSet

\* A task has finitely many operators.
LEMMA FiniteOperators == IsFiniteSet(OperatorSet)
<1>1. SASOperators \in Seq(OperatorSet)
  BY OperatorsAssumption DEF OperatorSet
<1>2. Len(SASOperators) \in Nat /\ DOMAIN SASOperators = 1 .. Len(SASOperators)
  BY <1>1
<1>3. SASOperators \in Surjection(1 .. Len(SASOperators), OperatorSet)
  BY <1>1, <1>2 DEF OperatorSet, Surjection
<1>. QED
  BY <1>2, <1>3, FS_NatSurjection DEF ExistsSurjection

\* The domain supplies the rest of what the proofs about the graph assume: facts
\* and operators are finitely many, guards are sets of states.
LEMMA Assumptions == Compilable => GraphAssumptions
<1>. SUFFICES ASSUME Compilable PROVE GraphAssumptions
  OBVIOUS
<1>1. IsFiniteSet(Names)
  <2>1. IsFiniteSet({op.act : op \in OperatorSet})
    <3>1. [op \in OperatorSet |-> op.act] \in Surjection(OperatorSet, {op.act : op \in OperatorSet})
      BY DEF Surjection
    <3>. QED
      BY <3>1, FiniteOperators, FS_Surjection
  <2>. QED
    BY <2>1, NamesOfOperators, FS_Singleton, FS_Union
<1>2. IsFiniteSet(SUBSET Facts)
  BY FactsAssumption, FS_SUBSET
<1>3. Proved!FiniteAssumption
  BY <1>1, <1>2, SameFinite DEF Proved!FiniteAssumption
<1>4. NoName \notin Names
  BY NamesOfOperators, OperatorNames
<1>5. Proved!NamesAssumption
  BY <1>4 DEF Compilable, Proved!NamesAssumption
<1>6. Proved!GuardsAreStateSets
  BY DEF Compilable, Proved!GuardsAreStateSets, Guards
<1>. QED
  BY <1>3, <1>5, <1>6 DEF Compilable, GraphAssumptions

\* The graph of the arena is the graph that the proofs speak of.
LEMMA SameGraph ==
  /\ Graph!PGInit <=> Proved!PGInit
  /\ Graph!Construct <=> Proved!Construct
  /\ Graph!PGNext <=> Proved!PGNext
  BY DEF
     Graph!Nil, Graph!Sequence, Graph!Iteration, Graph!Kind, Graph!IsLeaf, Graph!IsSequence, Graph!IsChoice, Graph!IsIteration, Graph!Orders,
     Graph!ArgLists, Graph!Args, Graph!Rest, Graph!Cardinality, Graph!tfcVars, Graph!Frames, Graph!Top, Graph!Store, Graph!Emplace, Graph!TransOf,
     Graph!Continuation, Graph!Init, Graph!Pop, Graph!Finish, Graph!InCall, Graph!ReturnLeaf, Graph!VisitNil, Graph!VisitTest, Graph!VisitAction,
     Graph!VisitUnknownAction, Graph!VisitUnd, Graph!AtArg, Graph!CurrentArg, Graph!VisitArg, Graph!UseMissingFinal, Graph!ArgReady,
     Graph!SkippedBefore, Graph!SequenceEntries, Graph!ChoiceEntries, Graph!IterationEntries, Graph!AddEntries, Graph!Advanced, Graph!NextArg,
     Graph!SequenceArg, Graph!ChoiceArg, Graph!IterationArg, Graph!Return, Graph!VisitLeaf, Graph!CombineArg, Graph!Next, Graph!graphVars,
     Graph!playVars, Graph!pgVars, Graph!Inputs, Graph!StateCount, Graph!Id, Graph!PGInit, Graph!ComputeTFC, Graph!StartReach, Graph!Unexplored,
     Graph!Expand, Graph!Number, Graph!MissingValue, Graph!AssignIds, Graph!ContinuationOf, Graph!Contribution, Graph!Plus, Graph!SumEntry,
     Graph!StartEncoding, Graph!AddBit, Graph!Encode, Graph!StartPlay, Graph!NextCode, Graph!Play, Graph!Construct, Graph!PGNext, Proved!Nil, Proved!Sequence,
     Proved!Iteration, Proved!Kind, Proved!IsLeaf, Proved!IsSequence, Proved!IsChoice, Proved!IsIteration, Proved!Orders, Proved!ArgLists, Proved!Args, Proved!Rest, Proved!Cardinality,
     Proved!tfcVars, Proved!Frames, Proved!Top, Proved!Store, Proved!Emplace, Proved!TransOf, Proved!Continuation, Proved!Init, Proved!Pop, Proved!Finish, Proved!InCall, Proved!ReturnLeaf,
     Proved!VisitNil, Proved!VisitTest, Proved!VisitAction, Proved!VisitUnknownAction, Proved!VisitUnd, Proved!AtArg, Proved!CurrentArg, Proved!VisitArg, Proved!UseMissingFinal,
     Proved!ArgReady, Proved!SkippedBefore, Proved!SequenceEntries, Proved!ChoiceEntries, Proved!IterationEntries, Proved!AddEntries, Proved!Advanced, Proved!NextArg, Proved!SequenceArg,
     Proved!ChoiceArg, Proved!IterationArg, Proved!Return, Proved!VisitLeaf, Proved!CombineArg, Proved!Next, Proved!graphVars, Proved!playVars, Proved!pgVars, Proved!Inputs, Proved!StateCount,
     Proved!Id, Proved!PGInit, Proved!ComputeTFC, Proved!StartReach, Proved!Unexplored, Proved!Expand, Proved!Number, Proved!MissingValue, Proved!AssignIds, Proved!ContinuationOf,
     Proved!Contribution, Proved!Plus, Proved!SumEntry, Proved!StartEncoding, Proved!AddBit, Proved!Encode, Proved!StartPlay, Proved!NextCode, Proved!Play, Proved!Construct, Proved!PGNext

\* The codes are read the same way.
LEMMA SameReading ==
  /\ Graph!Deterministic <=> Proved!Deterministic
  /\ \A z, s, a : Graph!NextCode(z, s, a) = Proved!NextCode(z, s, a)
  /\ \A z, s : Graph!AcceptingCode(z, s) <=> Proved!AcceptingCode(z, s)
  BY DEF Graph!Deterministic, Proved!Deterministic, Graph!NextCode, Proved!NextCode, Graph!Encode, Proved!Encode,
     Graph!AcceptingCode, Proved!AcceptingCode

GraphInv == Proved!IInv /\ Proved!GraphInv

\* Steps of the arena are steps of the graph, or leave it alone.
LEMMA GraphKeeps ==
  ASSUME GraphAssumptions, GraphInv, Graph!PGNext \/ UNCHANGED <<Graph!tfcVars, Graph!pgVars>>
  PROVE  GraphInv'
<1>1. [Proved!PGNext]_<<Proved!tfcVars, Proved!pgVars>>
  BY SameGraph DEF Graph!tfcVars, Graph!pgVars, Graph!graphVars, Graph!playVars, Proved!tfcVars, Proved!pgVars,
     Proved!graphVars, Proved!playVars
<1>. QED
  BY <1>1, Proved!GraphStep DEF GraphAssumptions, GraphInv

\* The preconditions handed to the construction of the graph are those of the
\* operators.
LEMMA AllowedIsGuards == Allowed = Guards
<1>1. ASSUME NEW n \in Names, NEW s \in SUBSET Facts
      PROVE  Fond!Legal(n, s) <=> \A i \in DOMAIN SASOperators :
               LET x == Parsed(SASOperators[i]) IN x.act = n => x.pos \subseteq s /\ x.neg \cap s = {}
  <2>1. \A op \in OperatorSet : (Parsed(op).pos \subseteq s /\ Parsed(op).neg \cap s = {})
           <=> \A c \in op.prevail : (c[1] \in s) = (c[2] = 0)
    BY ListsSayPrevail
  <2>2. (\A i \in DOMAIN SASOperators :
           LET x == Parsed(SASOperators[i]) IN x.act = n => x.pos \subseteq s /\ x.neg \cap s = {})
        <=> \A op \in OperatorSet : op.act = n => Parsed(op).pos \subseteq s /\ Parsed(op).neg \cap s = {}
    BY ParsedNames DEF OperatorSet
  <2>3. n = NopName \/ \E op \in OperatorSet : op.act = n
    BY NamesOfOperators
  <2>. QED
    BY <2>1, <2>2, <2>3, LegalOperators, OperatorNames
<1>. QED
  BY <1>1 DEF Allowed, Guards

\* Both abstract executions speak of the same programs.
LEMMA SameEnding == Game!Ending = Proved!Golog!Ending
BY DEF Game!Ending, Proved!Golog!Ending, Game!EndingOf, Proved!Golog!EndingOf, Game!Args, Game!Kind, Game!IsSequence, Game!IsChoice, Game!IsIteration,
    Proved!Golog!Args, Proved!Golog!Kind, Proved!Golog!IsSequence, Proved!Golog!IsChoice, Proved!Golog!IsIteration

\* ... and of the same moves.
LEMMA SameMoves == Game!Moves = Proved!Golog!Moves
<1>1. Game!Ending = Proved!Golog!Ending
  BY SameEnding
<1>2. Allowed = Guards
  BY AllowedIsGuards
<1>. QED
  BY <1>1, <1>2 DEF Game!Moves, Proved!Golog!Moves, Game!MovesOf, Proved!Golog!MovesOf, Game!Args, Game!Kind, Game!IsSequence, Game!IsChoice, Game!IsIteration,
    Proved!Golog!Args, Proved!Golog!Kind, Proved!Golog!IsSequence, Proved!Golog!IsChoice, Proved!Golog!IsIteration, Game!Move, Proved!Golog!Move, Game!Nil, Proved!Golog!Nil,
    Game!Rest, Proved!Golog!Rest, Game!Sequence, Proved!Golog!Sequence, Game!MayEnd, Proved!Golog!MayEnd

\* What the arena reads of the graph, in terms of programs.
LEMMA CodeAccepts ==
  ASSUME GraphAssumptions, GraphInv, stage = "play", NEW s
  PROVE  /\ ~ Graph!AcceptingCode(0, s)
         /\ \A p \in reachable : Graph!AcceptingCode(programId[p], s) <=> Game!MayEnd(p, s)
<1>1. Proved!Numbered
  BY DEF Proved!Numbered
<1>2. /\ ~ Proved!AcceptingCode(0, s)
      /\ \A p \in reachable : Proved!AcceptingCode(programId[p], s) <=> Proved!Golog!Ends(p, s)
      /\ \A p \in reachable : p # NoName
  BY <1>1, Proved!AcceptingCodeIs DEF GraphAssumptions, GraphInv
<1>3. \A p \in reachable : Proved!Golog!Ends(p, s) <=> Game!MayEnd(p, s)
  BY <1>2, SameEnding DEF Proved!Golog!Ends, Proved!Golog!MayEnd, Game!MayEnd
<1>. QED
  BY <1>2, <1>3, SameReading

\* A known action leads from the code of a program to that of a program which may
\* remain, and to the sink if none may.
LEMMA CodeMoves ==
  ASSUME GraphAssumptions, GraphInv, stage = "play", Graph!Deterministic, NEW s \in SUBSET Facts,
         NEW p \in reachable, NEW a \in Names
  PROVE  /\ \A q \in Game!After(p, a, s) : q \in reachable /\ Graph!NextCode(programId[p], s, a) = programId[q]
         /\ Graph!NextCode(programId[p], s, a) # 0 =>
              \E q \in Game!After(p, a, s) : Graph!NextCode(programId[p], s, a) = programId[q]
<1>1. /\ \A q \in Proved!Golog!After(p, a, s) : q \in reachable /\ Proved!NextCode(programId[p], s, a) = programId[q]
      /\ Proved!NextCode(programId[p], s, a) # 0 =>
           \E q \in Proved!Golog!After(p, a, s) : Proved!NextCode(programId[p], s, a) = programId[q]
  BY SameReading, Proved!NextCodeRemains DEF GraphAssumptions, GraphInv
<1>2. Proved!Golog!After(p, a, s) = Game!After(p, a, s)
  BY SameMoves DEF Proved!Golog!After, Game!After
<1>. QED
  BY <1>1, <1>2, SameReading

\* The sink is never left.
LEMMA SinkIsLeft ==
  ASSUME GraphAssumptions, GraphInv, stage = "play", NEW s \in SUBSET Facts, NEW a
  PROVE  Graph!NextCode(0, s, a) = 0
BY Proved!SinkStays, SameReading DEF GraphAssumptions, GraphInv

\* The codes of the programs are states of the arena.
LEMMA CodeValues ==
  ASSUME GraphAssumptions, GraphInv, stage = "play"
  PROVE  0 \in 0 .. codes - 1 /\ root \in reachable /\ \A p \in reachable : programId[p] \in 1 .. codes - 1
BY Proved!CodesAreValues DEF GraphAssumptions, GraphInv

\* The code tells the remaining program.
LEMMA CodeStands ==
  ASSUME GraphAssumptions, GraphInv, stage = "play"
  PROVE  /\ code = 0 => Remaining = NoName
         /\ \A p \in reachable : programId[p] # 0 /\ (code = programId[p] => Remaining = p)
         /\ Graph!Deterministic /\ code # 0 => \E p \in reachable : programId[p] = code
<1>1. Proved!Numbered
  BY DEF Proved!Numbered
<1>2. Proved!ProgramOf(0) = NoName /\ \A p \in reachable : programId[p] # 0 /\ Proved!ProgramOf(programId[p]) = p
  BY <1>1, Proved!ProgramOfCode DEF GraphAssumptions, GraphInv
<1>3. Remaining = Proved!ProgramOf(code)
  BY DEF Remaining, Proved!ProgramOf
<1>4. Graph!Deterministic /\ code # 0 => \E p \in reachable : programId[p] = code
  BY SameReading DEF GraphInv, Proved!GraphInv, Proved!CodeIsProgram
<1>. QED
  BY <1>2, <1>3, <1>4

\* While the graph is built nothing is executed.
LEMMA BuildingStutters ==
  ASSUME GraphAssumptions, GraphInv, Graph!Construct
  PROVE  Remaining' = Remaining /\ facts' = facts
<1>1. Proved!Remaining' = Proved!Remaining /\ facts' = facts
  BY SameGraph, Proved!ConstructStutters DEF GraphAssumptions, GraphInv
<1>2. Proved!Remaining = Remaining /\ Proved!Remaining' = Remaining'
  BY DEF Proved!Remaining, Remaining
<1>. QED
  BY <1>1, <1>2

-----------------------------------------------------------------------------
(* The invariant of the game: what the winning states are worth.           *)

\* The winning states: each is final or has a move into earlier rounds, and when
\* the fixpoint is reached without the initial state, nothing more is winning.
FoundInv ==
  /\ DOMAIN found \subseteq ArenaStates
  /\ \A q \in DOMAIN found : found[q] <= round /\ (IF found[q] = 0 THEN Final(q) ELSE Output(q) # {})
  /\ game # "build" => \A q \in ArenaStates : Final(q) => q \in DOMAIN found
  /\ game = "unrealizable" => Controllable(DOMAIN found) \subseteq DOMAIN found /\ Current \notin DOMAIN found

\* Before the first answer the arena is in its initial state.
StartInv ==
  /\ game \in {"build", "solve", "unrealizable"} => input = <<>>
  /\ input = <<>> => facts = InitFacts /\ ~ agErr /\ ~ envErr /\ (stage = "play" => code = programId[root])

GameInv ==
  /\ ArenaInv
  /\ GraphInv
  /\ game # "build" => stage = "play"
  /\ FoundInv
  /\ StartInv

\* In play the actions are the operators' and nop, and a code in use is a name's.
LEMMA NamesInPlay ==
  ASSUME Inv, phase = "play"
  PROVE  /\ ActionNames = Names
         /\ \A x : NameOf(actionCode, x) \in Names \cup {NoName}
         /\ \A x : AgentMutex(x) => NameOf(actionCode, x) \in Names
<1>1. ActionNames = Names
  <2>1. \A z \in actions : z.act \in Names
    <3>1. \A z \in actions : z = Nop \/ \E op \in OperatorSet : z = Parsed(op)
      BY DEF Inv
    <3>. QED
      BY <3>1, ParsedNames, NamesOfOperators
  <2>2. \A n \in Names : \E z \in actions : z.act = n
    BY CodesInPlay, ParsedNames, NamesOfOperators
  <2>. QED
    BY <2>1, <2>2 DEF ActionNames
<1>2. IsNumbering(actionCode, ActionNames)
  BY DEF Inv
<1>. QED
  BY <1>1, <1>2, NameOfCode DEF AgentMutex

\* Whatever the inputs are, the next facts are facts of the task.
LEMMA FactsStayFacts ==
  ASSUME Inv, NEW s \in SUBSET Facts, NEW x, NEW y
  PROVE  FactsAfter(s, x, y) \in SUBSET Facts
<1>1. \A z \in actions : z = Nop \/ \E op \in OperatorSet : z = Parsed(op)
  BY DEF Inv
<1>2. \A op \in OperatorSet : Parsed(op).add \subseteq Facts
  BY FactsAssumption DEF OperatorSet, Listed
<1>3. \A z \in actions : z.add \subseteq Facts
  BY <1>1, <1>2, ParsedNames
<1>. QED
  BY <1>3 DEF FactsAfter, Played

\* What the definitions of the game read does not change after the game is built.
LEMMA SameGame ==
  ASSUME UNCHANGED <<loadVars, graphVars>>
  PROVE  /\ ArenaStates' = ArenaStates /\ AgentCodes' = AgentCodes /\ EnvCodes' = EnvCodes
         /\ \A q : Final(q)' <=> Final(q)
         /\ \A q, x, y : Successor(q, x, y)' = Successor(q, x, y)
BY DEF ArenaStates, AgentCodes, EnvCodes, Final, Successor, ActionNames, ReactionNames, FactsAfter, Played,
       AgentErrs, EnvErrs, AgentMutex, EnvMutex, AgentPre, EnvPre, Graph!NextCode, Graph!Encode, Graph!AcceptingCode,
       loadVars, graphVars, tfcVars

\* The invariant holds at first ...
LEMMA GameInitInv == Compilable /\ ArenaInit => GameInv
<1>. SUFFICES ASSUME Compilable, ArenaInit PROVE GameInv
  OBVIOUS
<1>1. Proved!PGInit
  BY SameGraph DEF ArenaInit
<1>2. GraphInv
  BY <1>1, Assumptions, Proved!InitStep, Proved!GraphInit DEF GraphAssumptions, GraphInv, Proved!PGInit
<1>3. found = <<>> /\ game = "build" /\ stage # "play" /\ DOMAIN found = {} /\ input = <<>>
  BY DEF ArenaInit, Graph!PGInit, DomainInit
<1>4. FoundInv
  BY <1>3 DEF FoundInv
<1>5. StartInv
  BY <1>3 DEF StartInv, ArenaInit, DomainInit
<1>. QED
  BY <1>2, <1>3, <1>4, <1>5, ArenaInitInv DEF GameInv

\* ... while domain and graph are built ...
LEMMA BuildKeepsGame ==
  ASSUME GraphAssumptions, GameInv, LoadDomain \/ BuildGraph
  PROVE  GameInv'
<1>1. ArenaInv'
  BY BuildInv DEF GameInv
<1>2. UNCHANGED <<input, agErr, envErr, gameVars>> /\ game = "build"
  BY DEF LoadDomain, BuildGraph, Load, ReadOperator, ReadEnd, Encode, stateVars
<1>3. game' = "build" /\ found' = <<>> /\ DOMAIN found' = {}
  BY <1>2 DEF gameVars, GameInv, ArenaInv
<1>4. GraphInv' /\ facts' = facts
  <2>1. CASE LoadDomain
    <3>1. UNCHANGED <<graphVars, code, facts>>
      BY <2>1 DEF LoadDomain, Load, ReadOperator, ReadEnd, Encode, stateVars
    <3>2. UNCHANGED <<Graph!tfcVars, Graph!pgVars>>
      BY <3>1 DEF Graph!tfcVars, Graph!pgVars, Graph!graphVars, Graph!playVars, tfcVars, graphVars
    <3>. QED
      BY <3>1, <3>2, GraphKeeps DEF GameInv
  <2>2. CASE BuildGraph
    BY <2>2, GraphKeeps, BuildingStutters DEF BuildGraph, GameInv, Graph!PGNext
  <2>. QED
    BY <2>1, <2>2
<1>5. StartInv'
  <2>1. input = <<>> /\ facts = InitFacts /\ ~ agErr /\ ~ envErr /\ (stage = "play" => code = programId[root])
    BY <1>2 DEF GameInv, StartInv
  <2>2. CASE LoadDomain
    <3>1. UNCHANGED <<stage, programId, root, code>>
      BY <2>2 DEF LoadDomain, graphVars, tfcVars
    <3>. QED
      BY <1>2, <1>4, <2>1, <3>1 DEF StartInv
  <2>3. CASE BuildGraph
    <3>1. CASE Graph!StartPlay
      <4>1. Proved!StartPlay
        BY <3>1 DEF Graph!StartPlay, Proved!StartPlay, Graph!Encode, Proved!Encode, Graph!tfcVars, Proved!tfcVars
      <4>2. code' = programId[root]
        BY <4>1, Proved!StartPlayStep DEF GraphAssumptions, GraphInv, GameInv
      <4>3. UNCHANGED <<programId, root>>
        BY <3>1 DEF Graph!StartPlay, Graph!tfcVars
      <4>. QED
        BY <1>2, <1>4, <2>1, <4>2, <4>3 DEF StartInv
    <3>2. CASE ~ Graph!StartPlay
      <4>1. stage' # "play"
        BY <2>3, <3>2 DEF BuildGraph, Graph!Construct, Graph!ComputeTFC, Graph!StartReach, Graph!Expand, Graph!AssignIds,
           Graph!Number, Graph!SumEntry, Graph!StartEncoding, Graph!AddBit, Graph!pgVars, Graph!graphVars
      <4>. QED
        BY <1>2, <1>4, <2>1, <4>1 DEF StartInv
    <3>. QED
      BY <3>1, <3>2
  <2>. QED
    BY <2>2, <2>3
<1>. QED
  BY <1>1, <1>3, <1>4, <1>5 DEF GameInv, FoundInv

\* A step that touches only the game leaves what is said of the graph.
LEMMA QuietGraph ==
  ASSUME GraphAssumptions, GameInv, UNCHANGED <<domainVars, graphVars, code>>,
         game' \in {"build", "solve", "unrealizable"} => game \in {"build", "solve", "unrealizable"}
  PROVE  GraphInv' /\ Current' = Current /\ StartInv' /\ stage' = stage /\ UNCHANGED <<loadVars, graphVars>>
<1>1. UNCHANGED <<loadVars, graphVars, code, facts, input, agErr, envErr, stage, root, programId>>
  BY DEF domainVars, stateVars, graphVars, tfcVars
<1>2. UNCHANGED <<Graph!tfcVars, Graph!pgVars>>
  BY <1>1 DEF Graph!tfcVars, Graph!pgVars, Graph!graphVars, Graph!playVars, tfcVars, graphVars
<1>3. GraphInv'
  BY <1>2, GraphKeeps DEF GameInv
<1>4. StartInv'
  BY <1>1 DEF GameInv, StartInv
<1>. QED
  BY <1>1, <1>3, <1>4 DEF Current

\* ... when the final states are collected ...
LEMMA ComposeKeepsGame ==
  ASSUME GraphAssumptions, GameInv, Compose
  PROVE  GameInv'
<1>1. /\ UNCHANGED <<domainVars, graphVars, code>> /\ game = "build" /\ game' = "solve" /\ round' = round
      /\ stage = "play" /\ found' = [q \in {p \in ArenaStates : Final(p)} |-> 0]
  BY DEF Compose
<1>2. GraphInv' /\ StartInv' /\ stage' = stage /\ UNCHANGED <<loadVars, graphVars>>
  BY <1>1, QuietGraph
<1>3. ArenaInv'
  BY BuildInv DEF GameInv
<1>4. round' \in Nat
  BY <1>3 DEF ArenaInv
<1>5. FoundInv'
  <2>1. ArenaStates' = ArenaStates /\ \A q : Final(q)' <=> Final(q)
    BY <1>2, SameGame
  <2>2. DOMAIN found' = {p \in ArenaStates : Final(p)} /\ \A q \in DOMAIN found' : found'[q] = 0
    BY <1>1
  <2>. QED
    BY <1>1, <1>4, <2>1, <2>2 DEF FoundInv
<1>. QED
  BY <1>1, <1>2, <1>3, <1>5 DEF GameInv

\* ... in every round of the fixpoint: a state is added for an output that leads
\* into earlier rounds, and when none is left to add the fixpoint is reached ...
LEMMA SolveKeepsGame ==
  ASSUME GraphAssumptions, GameInv, SolveRound
  PROVE  GameInv'
<1>. DEFINE won == DOMAIN found
            new == Controllable(won) \ won
<1>1. /\ UNCHANGED <<domainVars, graphVars, code>> /\ game = "solve" /\ game' # "build" /\ round' = round + 1
      /\ found' = [q \in won \cup new |-> IF q \in won THEN found[q] ELSE round + 1]
      /\ game' = "unrealizable" => Current \notin won \cup new /\ new = {}
  BY DEF SolveRound
<1>2. GraphInv' /\ StartInv' /\ stage' = stage /\ UNCHANGED <<loadVars, graphVars>> /\ Current' = Current
  BY <1>1, QuietGraph
<1>3. ArenaInv'
  BY SolveInv DEF GameInv
<1>4. round \in Nat /\ \A q \in won : found[q] \in Nat /\ found[q] <= round
  BY DEF GameInv, ArenaInv, FoundInv
<1>5. /\ ArenaStates' = ArenaStates /\ AgentCodes' = AgentCodes /\ EnvCodes' = EnvCodes
      /\ \A q : Final(q)' <=> Final(q)
      /\ \A q, x, y : Successor(q, x, y)' = Successor(q, x, y)
  BY <1>2, SameGame
<1>6. /\ DOMAIN found' = won \cup new
      /\ \A q \in won : found'[q] = found[q]
      /\ \A q \in new : found'[q] = round + 1
  BY <1>1
<1>7. ASSUME NEW q \in won, found[q] # 0
      PROVE  Output(q)' # {}
  <2>1. PICK x \in Output(q) : TRUE
    BY <1>7 DEF GameInv, FoundInv
  <2>2. x \in AgentCodes /\ \A y \in EnvCodes : Successor(q, x, y) \in won /\ found[Successor(q, x, y)] < found[q]
    BY <2>1 DEF Output
  <2>3. \A y \in EnvCodes : Successor(q, x, y) \in DOMAIN found' /\ found'[Successor(q, x, y)] < found'[q]
    <3>. HIDE DEF won, new
    <3>. QED
      BY <1>6, <2>2
  <2>4. x \in Output(q)'
    BY <1>5, <2>2, <2>3 DEF Output
  <2>. QED
    BY <2>4
<1>8. ASSUME NEW q \in new
      PROVE  q \in ArenaStates /\ Output(q)' # {}
  <2>1. PICK x \in AgentCodes : \A y \in EnvCodes : Successor(q, x, y) \in won
    BY DEF Controllable
  <2>2. \A y \in EnvCodes : Successor(q, x, y) \in DOMAIN found' /\ found'[Successor(q, x, y)] < found'[q]
    <3>. HIDE DEF won, new
    <3>. QED
      BY <1>4, <1>6, <2>1
  <2>3. x \in Output(q)'
    BY <1>5, <2>1, <2>2 DEF Output
  <2>. QED
    BY <2>3 DEF Controllable
<1>9. won \subseteq ArenaStates /\ \A q \in ArenaStates : Final(q) => q \in won
  BY <1>1 DEF GameInv, FoundInv
<1>10. \A q \in won : found[q] = 0 => Final(q)
  BY DEF GameInv, FoundInv
<1>11. game' = "unrealizable" => Controllable(DOMAIN found)' \subseteq DOMAIN found' /\ Current' \notin DOMAIN found'
  <2>. SUFFICES ASSUME game' = "unrealizable"
                PROVE  Controllable(DOMAIN found)' \subseteq DOMAIN found' /\ Current' \notin DOMAIN found'
    OBVIOUS
  <2>1. DOMAIN found' = won /\ Controllable(won) \subseteq won
    BY <1>1, <1>6
  <2>2. Controllable(DOMAIN found)' = Controllable(won)
    <3>. HIDE DEF won, new
    <3>. QED
      BY <1>5, <2>1 DEF Controllable
  <2>. QED
    BY <1>1, <1>2, <2>1, <2>2
<1>12. FoundInv'
  <2>. HIDE DEF won, new
  <2>1. DOMAIN found' \subseteq ArenaStates'
    BY <1>5, <1>6, <1>8, <1>9
  <2>2. \A q \in DOMAIN found' : found'[q] <= round' /\ (IF found'[q] = 0 THEN Final(q)' ELSE Output(q)' # {})
    BY <1>1, <1>4, <1>5, <1>6, <1>7, <1>8, <1>10
  <2>3. \A q \in ArenaStates' : Final(q)' => q \in DOMAIN found'
    BY <1>5, <1>6, <1>9
  <2>. QED
    BY <1>11, <2>1, <2>2, <2>3 DEF FoundInv
<1>. QED
  BY <1>1, <1>2, <1>3, <1>12 DEF GameInv

\* The winning states stay as they are while the strategy is executed.
LEMMA FoundStays ==
  ASSUME GameInv, UNCHANGED <<loadVars, graphVars, round, found>>, game # "build",
         game' # "unrealizable" \/ (game' = game /\ Current' = Current)
  PROVE  FoundInv'
<1>1. /\ ArenaStates' = ArenaStates /\ AgentCodes' = AgentCodes /\ EnvCodes' = EnvCodes
      /\ \A q : Final(q)' <=> Final(q)
      /\ \A q, x, y : Successor(q, x, y)' = Successor(q, x, y)
  BY SameGame
<1>2. \A q : Output(q)' = Output(q)
  BY <1>1 DEF Output
<1>3. Controllable(DOMAIN found)' = Controllable(DOMAIN found)
  BY <1>1 DEF Controllable
<1>. QED
  BY <1>1, <1>2, <1>3 DEF GameInv, FoundInv

\* ... when the loop stops, selects or quits ...
LEMMA LoopKeepsGame ==
  ASSUME GraphAssumptions, GameInv, Stop \/ Select \/ Quit \/ UNCHANGED arenaVars
  PROVE  GameInv'
<1>1. /\ UNCHANGED <<domainVars, graphVars, code, round, found>>
      /\ game' = game \/ (game # "build" /\ game' \notin {"build", "solve", "unrealizable"})
  BY DEF Stop, Select, Quit, arenaVars, gameVars, Verdict
<1>2. GraphInv' /\ StartInv' /\ stage' = stage /\ UNCHANGED <<loadVars, graphVars>> /\ Current' = Current
  BY <1>1, QuietGraph
<1>3. ArenaInv'
  BY StopInv, SelectInv, QuitInv, ArenaStutterInv DEF GameInv
<1>4. FoundInv'
  <2>1. CASE game = "build"
    <3>1. game' = "build" /\ found' = <<>> /\ DOMAIN found' = {}
      BY <1>1, <1>3, <2>1 DEF ArenaInv
    <3>. QED
      BY <3>1 DEF FoundInv
  <2>2. CASE game # "build"
    BY <1>1, <1>2, <2>2, FoundStays
  <2>. QED
    BY <2>1, <2>2
<1>. QED
  BY <1>1, <1>2, <1>3, <1>4 DEF GameInv

\* A winning state without an error is the state of a program: neither final states
\* nor moves lead into the sink.
LEMMA WinningIsAlive ==
  ASSUME GraphAssumptions, GameInv, stage = "play", NEW w \in DOMAIN found, ~ w.envErr
  PROVE  w.code # 0
<1>. DEFINE S == {n \in Nat : \A q \in DOMAIN found : found[q] = n /\ ~ q.envErr => q.code # 0}
<1>1. Inv /\ phase = "play" /\ found \in [DOMAIN found -> Nat] /\ \A q \in DOMAIN found : ~ q.agErr
  BY DEF GameInv, ArenaInv
<1>2. \A q \in DOMAIN found : q.facts \in SUBSET Facts
  BY DEF GameInv, FoundInv, ArenaStates
<1>3. ASSUME NEW n \in Nat, 0 .. n - 1 \subseteq S, NEW q \in DOMAIN found, found[q] = n, ~ q.envErr, q.code = 0
      PROVE  FALSE
  <2>1. CASE n = 0
    <3>1. Final(q)
      BY <1>3, <2>1 DEF GameInv, FoundInv
    <3>2. Graph!AcceptingCode(0, q.facts)
      BY <1>3, <3>1 DEF Final
    <3>. QED
      BY <3>2, CodeAccepts DEF GameInv
  <2>2. CASE n # 0
    <3>1. PICK x \in Output(q) : TRUE
      BY <1>3, <2>2 DEF GameInv, FoundInv
    <3>2. x \in AgentCodes /\ \A y \in EnvCodes : Successor(q, x, y) \in DOMAIN found /\ found[Successor(q, x, y)] < found[q]
      BY <3>1 DEF Output
    <3>3. reactionCode[FirstReaction] \in EnvCodes
      BY <1>1, CodesInPlay DEF EnvCodes
    <3>4. AgentMutex(x)
      <4>1. ~ Successor(q, x, reactionCode[FirstReaction]).agErr
        BY <1>1, <3>2, <3>3
      <4>. QED
        BY <4>1 DEF Successor, AgentErrs
    <3>5. PICK y \in EnvCodes : ~ EnvErrs(x, y)
      BY <1>1, <3>2, <3>4, NoneForced DEF NobodyIsForced, AgentCodes, EnvCodes
    <3>. DEFINE r == Successor(q, x, y)
    <3>6. r \in DOMAIN found /\ found[r] < n
      BY <1>3, <3>2
    <3>7. ~ r.envErr
      BY <1>3, <3>5 DEF Successor
    <3>8. r.code = 0
      <4>1. r.code = Graph!NextCode(0, q.facts, NameOf(actionCode, x))
        BY <1>3 DEF Successor
      <4>. QED
        BY <1>2, <4>1, SinkIsLeft DEF GameInv
    <3>. HIDE DEF r
    <3>9. found[r] \in 0 .. n - 1
      BY <1>1, <3>6
    <3>. QED
      BY <1>3, <3>6, <3>7, <3>8, <3>9
  <2>. QED
    BY <2>1, <2>2
<1>4. Nat \subseteq S
  <2>1. \A n \in Nat : 0 .. n - 1 \subseteq S => n \in S
    BY <1>3
  <2>. HIDE DEF S
  <2>. QED
    BY <2>1, Induction
<1>. QED
  BY <1>1, <1>4

\* What an answer does, in terms of names.
LEMMA AnswerIsMove ==
  ASSUME GameInv, Answer
  PROVE  LET a == NameOf(actionCode, chosen)
         IN  /\ a \in Names
             /\ Fond!Legal(a, facts)
             /\ code' = Graph!NextCode(code, facts, a)
             /\ facts' \in SUBSET Facts
             /\ RecognisedLines => facts' \in Game!Outcomes(a, facts)
             /\ input' # <<>>
<1>1. PICK y \in EnvCodes :
        Valid(y) /\ Read(chosen, y) /\ code' = Graph!NextCode(code, facts, NameOf(actionCode, chosen))
  BY DEF Answer
<1>2. Inv /\ phase = "play" /\ ~ agErr' /\ ~ envErr' /\ AgentMutex(chosen) /\ facts \in SUBSET Facts
  <2>1. Current' \in DOMAIN found /\ ~ envErr' /\ AgentMutex(chosen)
    BY AnswerSuccessor DEF GameInv
  <2>2. ~ Current'.agErr
    BY <2>1 DEF GameInv, ArenaInv
  <2>. QED
    BY <1>1, <2>1, <2>2 DEF GameInv, ArenaInv, Current, Read, GraphInv, Proved!GraphInv
<1>. DEFINE a == NameOf(actionCode, chosen)
<1>3. a \in Names
  BY <1>2, NamesInPlay
<1>4. Fond!Legal(a, facts)
  BY <1>1, <1>2, AgentErrsIllegal DEF Read
<1>5. facts' \in SUBSET Facts /\ input' = <<chosen, y>>
  BY <1>1, <1>2, FactsStayFacts DEF Read
<1>6. RecognisedLines => facts' \in Game!Outcomes(a, facts)
  <2>. SUFFICES ASSUME RecognisedLines PROVE facts' \in Game!Outcomes(a, facts)
    OBVIOUS
  <2>1. Fond!Step
    BY <1>1, <1>2, ReadIsStep
  <2>2. Move'[1] = a
    BY <1>1 DEF Read, Move, loadVars
  <2>3. \/ a = NopName /\ facts' = facts
        \/ \E i \in DOMAIN SASOperators :
             Move' = <<SASOperators[i].act, SASOperators[i].react>> /\ facts' = Fond!Result(SASOperators[i], facts)
    BY <1>2, <2>1, <2>2 DEF Fond!Step
  <2>. HIDE DEF a
  <2>. QED
    BY <2>2, <2>3 DEF Game!Outcomes, Game!Fond!Result, Fond!Result, Game!Fond!Triggered, Fond!Triggered
<1>. QED
  BY <1>1, <1>3, <1>4, <1>5, <1>6

\* ... and when the user answers.
LEMMA AnswerKeepsGame ==
  ASSUME GraphAssumptions, GameInv, Answer
  PROVE  GameInv'
<1>1. ArenaInv'
  BY AnswerInv DEF GameInv
<1>2. game = "answer" /\ game' = "loop" /\ UNCHANGED <<loadVars, graphVars, round, found>>
  BY AnswerSuccessor DEF Answer, Read, GameInv
<1>3. stage = "play" /\ stage' = stage
  BY <1>2 DEF GameInv, graphVars
<1>4. Graph!Play
  BY <1>2, <1>3, AnswerIsMove DEF Graph!Play, graphVars, tfcVars, Graph!graphVars, Graph!tfcVars
<1>5. GraphInv'
  BY <1>4, GraphKeeps DEF Graph!PGNext, GameInv
<1>6. FoundInv'
  BY <1>2, FoundStays
<1>7. StartInv'
  BY <1>2, AnswerIsMove DEF StartInv
<1>. QED
  BY <1>1, <1>2, <1>3, <1>5, <1>6, <1>7 DEF GameInv

\* So it is inductive.
LEMMA GameInductive == GraphAssumptions /\ GameInv /\ [ArenaNext]_arenaVars => GameInv'
  BY BuildKeepsGame, ComposeKeepsGame, SolveKeepsGame, LoopKeepsGame, AnswerKeepsGame DEF ArenaNext, Tool, User, Exited

-----------------------------------------------------------------------------
(* The execution is an execution of the program in the domain.             *)

\* The program is deterministic: the guards of its moves do not overlap.
NoOverlap == stage = "play" => Graph!Deterministic

\* An answer is a move of the game: the action is one that the program offers and
\* the domain allows, and the facts are an outcome of it.
LEMMA AnswerIsAct ==
  ASSUME GraphAssumptions, RecognisedLines, GameInv, NoOverlap, Answer
  PROVE  Game!Act
<1>. DEFINE a == NameOf(actionCode, chosen)
<1>1. /\ a \in Names /\ Fond!Legal(a, facts) /\ facts' \in Game!Outcomes(a, facts)
      /\ code' = Graph!NextCode(code, facts, a)
  BY AnswerIsMove
<1>2. /\ GraphInv /\ stage = "play" /\ stage' = "play" /\ facts \in SUBSET Facts
      /\ UNCHANGED <<reachable, programId, root>> /\ game = "answer" /\ game' = "loop"
  BY AnswerSuccessor DEF Answer, GameInv, GraphInv, Proved!GraphInv, graphVars, tfcVars
<1>3. code # 0
  <2>1. Current \in DOMAIN found /\ ~ Current.envErr
    BY <1>2 DEF GameInv, ArenaInv, Current
  <2>. QED
    BY <1>2, <2>1, WinningIsAlive DEF Current
<1>4. code' # 0
  <2>1. Current' \in DOMAIN found /\ ~ Current'.envErr
    BY AnswerSuccessor DEF GameInv, Current
  <2>2. Current'.code # 0
    BY <1>2, <2>1, WinningIsAlive
  <2>. QED
    BY <2>2 DEF Current
<1>. HIDE DEF a
<1>5. PICK p \in reachable : programId[p] = code
  BY <1>2, <1>3, CodeStands DEF NoOverlap
<1>6. Remaining = p
  BY <1>2, <1>5, CodeStands
<1>7. PICK q \in Game!After(p, a, facts) : code' = programId[q]
  BY <1>1, <1>2, <1>4, <1>5, CodeMoves DEF NoOverlap
<1>8. q \in reachable
  BY <1>1, <1>2, <1>5, <1>7, CodeMoves DEF NoOverlap
<1>9. Remaining' = q
  <2>1. GraphInv'
    BY AnswerKeepsGame DEF GameInv
  <2>2. \A r \in reachable : programId[r] = programId[q] => r = q
    BY <1>2, <1>8 DEF GraphInv, Proved!GraphInv, Proved!NumbersFit, Proved!Numbered
  <2>3. Remaining' = CHOOSE r \in reachable : programId[r] = programId[q]
    BY <1>2, <1>4, <1>7 DEF Remaining
  <2>. QED
    BY <1>8, <2>2, <2>3
<1>10. Game!Fond!Legal(a, facts) /\ a \in Game!Names
  BY <1>1 DEF Game!Fond!Legal, Fond!Legal, Game!Names, Names
<1>. QED
  BY <1>1, <1>2, <1>6, <1>7, <1>9, <1>10 DEF Game!Act

\* The goal is announced where the program may terminate.
LEMMA StopIsStop ==
  ASSUME GraphAssumptions, GameInv, NoOverlap, Stop
  PROVE  Game!Stop
<1>1. /\ GraphInv /\ stage = "play" /\ game = "loop" /\ game' = "goal" /\ ~ envErr
      /\ UNCHANGED <<stage, root, reachable, programId, code, facts>>
  BY VerdictOfWinning DEF Stop, GameInv, ArenaInv, domainVars, stateVars, graphVars, tfcVars
<1>2. Graph!AcceptingCode(code, facts)
  <2>1. Verdict = "goal"
    BY <1>1, VerdictOfWinning DEF Stop, GameInv
  <2>. QED
    BY <1>1, <2>1 DEF Verdict, Final, Current
<1>3. code # 0
  BY <1>1, <1>2, CodeAccepts
<1>4. PICK p \in reachable : programId[p] = code
  BY <1>1, <1>3, CodeStands DEF NoOverlap
<1>5. Remaining = p /\ Game!MayEnd(p, facts)
  BY <1>1, <1>2, <1>4, CodeStands, CodeAccepts
<1>6. Remaining' = Remaining
  BY <1>1 DEF Remaining
<1>. QED
  BY <1>1, <1>5, <1>6 DEF Game!Stop

\* Nothing else is seen.
LEMMA OthersStutter ==
  ASSUME GraphAssumptions, GameInv, LoadDomain \/ BuildGraph \/ Compose \/ SolveRound \/ Select \/ Quit \/ UNCHANGED arenaVars
  PROVE  UNCHANGED <<Remaining, facts, game = "goal">>
<1>1. CASE BuildGraph
  BY <1>1, BuildingStutters DEF BuildGraph, GameInv, gameVars
<1>2. CASE ~ BuildGraph
  <2>1. UNCHANGED <<graphVars, code, facts>>
    BY <1>2 DEF LoadDomain, Load, ReadOperator, ReadEnd, Encode, Compose, SolveRound, Select, Quit, arenaVars, domainVars, stateVars
  <2>2. Remaining' = Remaining
    BY <2>1 DEF Remaining, graphVars, tfcVars
  <2>3. (game = "goal") <=> (game' = "goal")
    BY <1>2 DEF LoadDomain, Compose, SolveRound, Select, Quit, arenaVars, gameVars
  <2>. QED
    BY <2>1, <2>2, <2>3
<1>. QED
  BY <1>1, <1>2

\* The invariant of the game holds in every reachable state.
LEMMA GameAlwaysInv ==
  ASSUME Compilable
  PROVE  ArenaSpec => []GameInv
<1>1. GraphAssumptions
  BY Assumptions
<1>2. ArenaInit => GameInv
  BY GameInitInv
<1>3. GameInv /\ [ArenaNext]_arenaVars => GameInv'
  BY <1>1, GameInductive
<1>. QED
  BY <1>2, <1>3, PTL DEF ArenaSpec, ArenaNext

\* The execution of the strategy is an execution of the program in the domain, for
\* every task whose effect lines parse_sas recognises and every program whose graph
\* is deterministic: every action of the loop is one that the program offers and
\* the domain allows, every valid reaction an outcome of it, and "goal" is printed
\* only where the program may terminate.
THEOREM ExecutionIsOfProgram ==
  ASSUME Compilable, RecognisedLines
  PROVE  ArenaSpec /\ []NoOverlap => ExecutesProgram
<1>1. GraphAssumptions
  BY Assumptions
<1>2. ArenaInit => Game!Init
  BY DEF ArenaInit, DomainInit, Graph!PGInit, Graph!Init, Remaining, Game!Init
<1>3. GameInv /\ NoOverlap /\ [ArenaNext]_arenaVars => [Game!Act \/ Game!Stop]_<<Remaining, facts, game = "goal">>
  <2>. SUFFICES ASSUME GameInv, NoOverlap, [ArenaNext]_arenaVars
                PROVE  Game!Act \/ Game!Stop \/ UNCHANGED <<Remaining, facts, game = "goal">>
    OBVIOUS
  <2>1. CASE Answer
    BY <1>1, <2>1, AnswerIsAct
  <2>2. CASE Stop
    BY <1>1, <2>2, StopIsStop
  <2>. QED
    BY <1>1, <2>1, <2>2, OthersStutter DEF ArenaNext, Tool, User, Exited
<1>. QED
  BY <1>2, <1>3, GameAlwaysInv, PTL DEF ArenaSpec, ArenaNext, ExecutesProgram, Game!Spec

-----------------------------------------------------------------------------
(* The verdict of the fixpoint is that of the game on programs.            *)

\* The reactions that are no error are the outcomes of the action.
LEMMA OutcomesArePlayed ==
  ASSUME Inv, phase = "play", RecognisedLines, NEW a \in Names, NEW s \in SUBSET Facts, Fond!Legal(a, s)
  PROVE  /\ actionCode[a] \in AgentCodes /\ NameOf(actionCode, actionCode[a]) = a /\ ~ AgentErrs(s, actionCode[a])
         /\ \A y \in EnvCodes : ~ EnvErrs(actionCode[a], y) => FactsAfter(s, actionCode[a], y) \in Game!Outcomes(a, s)
         /\ \A s1 \in Game!Outcomes(a, s) :
              \E y \in EnvCodes : ~ EnvErrs(actionCode[a], y) /\ FactsAfter(s, actionCode[a], y) = s1
<1>. DEFINE x == actionCode[a]
<1>1. IsNumbering(actionCode, ActionNames) /\ ActionNames = Names
  BY NamesInPlay DEF Inv
<1>2. x \in AgentCodes /\ NameOf(actionCode, x) = a
  BY <1>1, NameOfCode, CodesInPlay DEF AgentCodes
<1>3. ~ AgentErrs(s, x)
  BY <1>2, AgentErrsIllegal
<1>4. ASSUME NEW z \in actions, z.act = a
      PROVE  (s \ z.del) \cup z.add \in Game!Outcomes(a, s)
  <2>1. CASE z = Nop
    BY <1>4, <2>1, ParsedNames DEF Game!Outcomes
  <2>2. CASE z # Nop
    <3>1. PICK op \in OperatorSet : z = Parsed(op)
      BY <2>2 DEF Inv
    <3>2. op.act = a /\ a # NopName
      BY <1>4, <3>1, ParsedNames, OperatorNames
    <3>3. \A c \in op.prevail : (c[1] \in s) = (c[2] = 0)
      BY <3>2, LegalOperators
    <3>4. (s \ Parsed(op).del) \cup Parsed(op).add = Fond!Result(op, s)
      BY <3>3, ListsSayEffects
    <3>5. PICK i \in DOMAIN SASOperators : op = SASOperators[i]
      BY DEF OperatorSet
    <3>6. Fond!Result(op, s) = Game!Fond!Result(SASOperators[i], s)
      BY <3>5 DEF Fond!Result, Game!Fond!Result, Fond!Triggered, Game!Fond!Triggered
    <3>. QED
      BY <3>1, <3>2, <3>4, <3>5, <3>6 DEF Game!Outcomes
  <2>. QED
    BY <2>1, <2>2
<1>5. ASSUME NEW z \in actions, z.act = a
      PROVE  LET y == reactionCode[z.react]
             IN  y \in EnvCodes /\ ~ EnvErrs(x, y) /\ FactsAfter(s, x, y) = (s \ z.del) \cup z.add
  <2>. DEFINE y == reactionCode[z.react]
  <2>1. z.react \in ReactionNames /\ y \in EnvCodes
    BY CodesInPlay DEF EnvCodes
  <2>2. Played(x, y) = {z}
    BY <1>5, PlayedAlone
  <2>3. ~ EnvErrs(x, y)
    <3>1. \A r \in ReactionNames : reactionCode[r] = y => r = z.react
      BY <2>1, CodesInPlay
    <3>. QED
      BY <1>5, <2>1, <3>1 DEF EnvErrs, EnvMutex, EnvPre
  <2>. QED
    BY <2>1, <2>2, <2>3 DEF FactsAfter
<1>6. ASSUME NEW y \in EnvCodes, ~ EnvErrs(x, y)
      PROVE  FactsAfter(s, x, y) \in Game!Outcomes(a, s)
  <2>1. PICK r \in ReactionNames : reactionCode[r] = y
    BY <1>6 DEF EnvErrs, EnvMutex
  <2>2. PICK z \in actions : z.react = r /\ actionCode[z.act] = x
    BY <1>6, <2>1 DEF EnvErrs, EnvPre
  <2>3. z.act = a
    BY <1>1, <2>2, CodesInPlay
  <2>. QED
    BY <1>4, <1>5, <2>1, <2>2, <2>3
<1>7. ASSUME NEW s1 \in Game!Outcomes(a, s)
      PROVE  \E z \in actions : z.act = a /\ (s \ z.del) \cup z.add = s1
  <2>1. CASE a = NopName
    <3>1. s1 = s
      BY <1>7, <2>1, OperatorNames DEF Game!Outcomes, OperatorSet
    <3>. QED
      BY <2>1, <3>1, CodesInPlay, ParsedNames
  <2>2. CASE a # NopName
    <3>1. PICK i \in DOMAIN SASOperators : SASOperators[i].act = a /\ s1 = Game!Fond!Result(SASOperators[i], s)
      BY <1>7, <2>2 DEF Game!Outcomes
    <3>. DEFINE op == SASOperators[i]
    <3>2. op \in OperatorSet /\ op.act = a
      BY <3>1 DEF OperatorSet
    <3>. HIDE DEF op
    <3>3. s1 = Fond!Result(op, s)
      BY <3>1 DEF op, Fond!Result, Game!Fond!Result, Fond!Triggered, Game!Fond!Triggered
    <3>4. \A c \in op.prevail : (c[1] \in s) = (c[2] = 0)
      BY <2>2, <3>2, LegalOperators
    <3>5. (s \ Parsed(op).del) \cup Parsed(op).add = s1
      BY <3>2, <3>3, <3>4, ListsSayEffects
    <3>. QED
      BY <3>2, <3>5, CodesInPlay, ParsedNames
  <2>. QED
    BY <2>1, <2>2
<1>8. ASSUME NEW s1 \in Game!Outcomes(a, s)
      PROVE  \E y \in EnvCodes : ~ EnvErrs(x, y) /\ FactsAfter(s, x, y) = s1
  BY <1>5, <1>7
<1>. QED
  BY <1>2, <1>3, <1>6, <1>8

-----------------------------------------------------------------------------
(* The positions won in n moves.                                           *)

Positions == Programs \X SUBSET Facts

\* The positions of Won are the rounds of a fixpoint too.
LEMMA WonEquation ==
  /\ Game!Won[0] = {}
  /\ \A n \in Nat \ {0} : Game!Won[n] = {x \in Positions : Game!Forced(x[1], x[2], Game!Won[n - 1])}
<1>. DEFINE G == [n \in Nat |-> [W \in SUBSET Positions |-> {x \in Positions : Game!Forced(x[1], x[2], W)}]]
            h == [n \in Nat |-> n - 1]
            More(W) == {x \in Positions : Game!Forced(x[1], x[2], W)}
<1>1. Descends(h)
  BY DEF Descends
<1>2. \A n \in Nat : h[n] = n - 1 /\ \A W \in SUBSET Positions : G[n][W] = More(W)
  OBVIOUS
<1>3. \A W : More(W) \in SUBSET Positions
  OBVIOUS
<1>. HIDE DEF G, h, More
<1>4. PICK f : Recurs(f, {}, G, h)
  BY <1>1, Recursion, Zenon
<1>5. f = [n \in Nat |-> f[n]] /\ f[0] = {} /\ \A n \in Nat \ {0} : f[n] = G[n][f[h[n]]]
  BY <1>4, Zenon DEF Recurs
<1>6. \A n \in Nat : f[n] \in SUBSET Positions
  <2>. DEFINE S == {n \in Nat : f[n] \in SUBSET Positions}
  <2>1. ASSUME NEW n \in Nat, 0 .. n - 1 \subseteq S
        PROVE  f[n] \in SUBSET Positions
    <3>1. CASE n = 0
      BY <3>1, <1>5
    <3>2. CASE n # 0
      <4>1. n - 1 \in 0 .. n - 1 /\ h[n] = n - 1
        BY <1>2, <3>2
      <4>2. f[n - 1] \in SUBSET Positions
        BY <4>1, <2>1
      <4>3. f[n] = G[n][f[n - 1]]
        BY <3>2, <1>5, <4>1
      <4>4. f[n] = More(f[n - 1])
        BY <1>2, <4>2, <4>3
      <4>. QED
        BY <1>3, <4>4
    <3>. QED
      BY <3>1, <3>2
  <2>2. \A n \in Nat : 0 .. n - 1 \subseteq S => n \in S
    BY <2>1
  <2>3. Nat \subseteq S
    <3>. HIDE DEF S
    <3>. QED
      BY <2>2, Induction
  <2>. QED
    BY <2>3
<1>7. \A n \in Nat : f[n] = IF n = 0 THEN {} ELSE More(f[n - 1])
  <2>1. ASSUME NEW n \in Nat, n # 0
        PROVE  f[n] = More(f[n - 1])
    <3>1. h[n] = n - 1 /\ n - 1 \in Nat
      BY <1>2, <2>1
    <3>2. f[n] = G[n][f[n - 1]]
      BY <2>1, <1>5, <3>1
    <3>. QED
      BY <1>2, <1>6, <3>1, <3>2
  <2>. QED
    BY <2>1, <1>5
<1>8. f = [n \in Nat |-> IF n = 0 THEN {} ELSE {x \in Positions : Game!Forced(x[1], x[2], f[n - 1])}]
  BY <1>5, <1>7, Zenon DEF More
<1>9. Game!Won = [n \in Nat |-> IF n = 0 THEN {} ELSE {x \in Positions : Game!Forced(x[1], x[2], Game!Won[n - 1])}]
  BY <1>8, Zenon DEF Game!Won, Positions
<1>. QED
  BY <1>9

\* What is forced into a set is forced into a larger one.
LEMMA ForcedGrows ==
  ASSUME NEW p, NEW s, NEW W, NEW V, W \subseteq V, Game!Forced(p, s, W)
  PROVE  Game!Forced(p, s, V)
BY DEF Game!Forced

\* Positions that are won stay so in later rounds.
LEMMA WonGrows == \A n \in Nat : \A m \in 0 .. n : Game!Won[m] \subseteq Game!Won[n]
<1>. DEFINE S == {n \in Nat : Game!Won[n] \subseteq Game!Won[n + 1]}
<1>1. ASSUME NEW n \in Nat, 0 .. n - 1 \subseteq S
      PROVE  Game!Won[n] \subseteq Game!Won[n + 1]
  <2>1. CASE n = 0
    BY <2>1, WonEquation
  <2>2. CASE n # 0
    <3>1. n - 1 \in Nat /\ n - 1 \in S /\ n + 1 \in Nat \ {0} /\ (n + 1) - 1 = n /\ (n - 1) + 1 = n
      BY <1>1, <2>2
    <3>2. Game!Won[n - 1] \subseteq Game!Won[n]
      BY <3>1
    <3>3. Game!Won[n] = {x \in Positions : Game!Forced(x[1], x[2], Game!Won[n - 1])}
      BY <2>2, WonEquation
    <3>4. Game!Won[n + 1] = {x \in Positions : Game!Forced(x[1], x[2], Game!Won[n])}
      BY <3>1, WonEquation
    <3>. QED
      BY <3>2, <3>3, <3>4, ForcedGrows
  <2>. QED
    BY <2>1, <2>2
<1>2. Nat \subseteq S
  <2>1. \A n \in Nat : 0 .. n - 1 \subseteq S => n \in S
    BY <1>1
  <2>. HIDE DEF S
  <2>. QED
    BY <2>1, Induction
<1>. DEFINE T == {n \in Nat : \A m \in 0 .. n : Game!Won[m] \subseteq Game!Won[n]}
<1>3. ASSUME NEW n \in Nat, 0 .. n - 1 \subseteq T, NEW m \in 0 .. n
      PROVE  Game!Won[m] \subseteq Game!Won[n]
  <2>1. CASE m = n
    BY <2>1
  <2>2. CASE m # n
    <3>1. n - 1 \in Nat /\ n - 1 \in T /\ m \in 0 .. n - 1 /\ (n - 1) + 1 = n
      BY <1>3, <2>2
    <3>2. Game!Won[m] \subseteq Game!Won[n - 1] /\ Game!Won[n - 1] \subseteq Game!Won[n]
      BY <1>2, <3>1
    <3>. QED
      BY <3>2
  <2>. QED
    BY <2>1, <2>2
<1>4. Nat \subseteq T
  <2>1. \A n \in Nat : 0 .. n - 1 \subseteq T => n \in T
    BY <1>3
  <2>. HIDE DEF T
  <2>. QED
    BY <2>1, Induction
<1>. QED
  BY <1>4

\* The graph's states are programs.
LEMMA ReachablePrograms ==
  ASSUME GraphInv, stage = "play"
  PROVE  reachable \subseteq Programs
BY DEF GraphInv, Proved!GraphInv, Proved!IInv, Proved!TypeOK

\* From a winning state the program can be executed to its end: in the round of the
\* fixpoint that found it, and one more.
LEMMA WinningIsWon ==
  ASSUME GraphAssumptions, RecognisedLines, GameInv, NoOverlap, stage = "play", NEW w \in DOMAIN found,
         ~ w.envErr, NEW r \in reachable, w.code = programId[r]
  PROVE  <<r, w.facts>> \in Game!Won[found[w] + 1]
<1>. DEFINE S == {n \in Nat : \A q \in DOMAIN found, p \in reachable :
                    found[q] = n /\ ~ q.envErr /\ q.code = programId[p] => <<p, q.facts>> \in Game!Won[n + 1]}
<1>1. /\ Inv /\ phase = "play" /\ found \in [DOMAIN found -> Nat] /\ \A q \in DOMAIN found : ~ q.agErr
      /\ GraphInv /\ Graph!Deterministic
  BY DEF GameInv, ArenaInv, NoOverlap
<1>2. \A q \in DOMAIN found : q.facts \in SUBSET Facts
  BY DEF GameInv, FoundInv, ArenaStates
<1>3. ASSUME NEW n \in Nat, 0 .. n - 1 \subseteq S, NEW q \in DOMAIN found, NEW p \in reachable,
             found[q] = n, ~ q.envErr, q.code = programId[p]
      PROVE  <<p, q.facts>> \in Game!Won[n + 1]
  <2>1. <<p, q.facts>> \in Positions
    BY <1>1, <1>2, ReachablePrograms DEF Positions
  <2>2. n + 1 \in Nat \ {0} /\ (n + 1) - 1 = n
    OBVIOUS
  <2>3. Game!Forced(p, q.facts, Game!Won[n]) => <<p, q.facts>> \in Game!Won[n + 1]
    BY <2>1, <2>2, WonEquation
  <2>4. CASE n = 0
    <3>1. Final(q)
      BY <1>3, <2>4 DEF GameInv, FoundInv
    <3>2. Game!MayEnd(p, q.facts)
      BY <1>1, <1>3, <3>1, CodeAccepts DEF Final
    <3>. QED
      BY <2>3, <3>2 DEF Game!Forced
  <2>5. CASE n # 0
    <3>1. PICK x \in Output(q) : TRUE
      BY <1>3, <2>5 DEF GameInv, FoundInv
    <3>2. x \in AgentCodes /\ \A y \in EnvCodes : Successor(q, x, y) \in DOMAIN found /\ found[Successor(q, x, y)] < n
      BY <1>3, <3>1 DEF Output
    <3>3. reactionCode[FirstReaction] \in EnvCodes
      BY <1>1, CodesInPlay DEF EnvCodes
    <3>4. ~ AgentErrs(q.facts, x)
      <4>1. ~ Successor(q, x, reactionCode[FirstReaction]).agErr
        BY <1>1, <3>2, <3>3
      <4>. QED
        BY <4>1 DEF Successor
    <3>5. PICK a \in Names : actionCode[a] = x
      BY <1>1, <3>4, NamesInPlay DEF AgentErrs, AgentMutex
    <3>6. NameOf(actionCode, x) = a
      BY <1>1, <3>5, NameOfCode, NamesInPlay DEF Inv
    <3>7. Fond!Legal(a, q.facts)
      BY <1>1, <3>4, <3>6, AgentErrsIllegal
    <3>. DEFINE z == Graph!NextCode(q.code, q.facts, a)
    <3>8. ASSUME NEW y \in EnvCodes, ~ EnvErrs(x, y)
          PROVE  LET next == Successor(q, x, y)
                 IN  /\ next \in DOMAIN found /\ found[next] \in 0 .. n - 1 /\ ~ next.envErr /\ next.code = z
                     /\ next.facts = FactsAfter(q.facts, x, y)
      <4>. DEFINE next == Successor(q, x, y)
      <4>1. next.code = z /\ next.facts = FactsAfter(q.facts, x, y) /\ (next.envErr <=> q.envErr \/ EnvErrs(x, y))
        BY <3>6 DEF Successor
      <4>2. next \in DOMAIN found /\ found[next] < n
        BY <3>2
      <4>. HIDE DEF next
      <4>3. found[next] \in 0 .. n - 1
        BY <1>1, <4>2
      <4>4. ~ next.envErr
        BY <1>3, <3>8, <4>1
      <4>. HIDE DEF z
      <4>. QED
        BY <4>1, <4>2, <4>3, <4>4 DEF next
    <3>9. z # 0
      <4>1. PICK y \in EnvCodes : ~ EnvErrs(x, y)
        BY <1>1, <3>2, <3>4, NoneForced DEF NobodyIsForced, AgentCodes, EnvCodes, AgentErrs
      <4>2. Successor(q, x, y) \in DOMAIN found /\ ~ Successor(q, x, y).envErr /\ Successor(q, x, y).code = z
        BY <3>8, <4>1
      <4>. HIDE DEF z
      <4>. QED
        BY <4>2, WinningIsAlive
    <3>10. PICK p1 \in Game!After(p, a, q.facts) : z = programId[p1] /\ p1 \in reachable
      BY <1>1, <1>2, <1>3, <3>9, CodeMoves
    <3>. HIDE DEF z
    <3>11. ASSUME NEW s1 \in Game!Outcomes(a, q.facts)
           PROVE  <<p1, s1>> \in Game!Won[n]
      <4>1. PICK y \in EnvCodes : ~ EnvErrs(x, y) /\ FactsAfter(q.facts, x, y) = s1
        BY <1>1, <1>2, <3>5, <3>7, OutcomesArePlayed
      <4>. DEFINE next == Successor(q, x, y)
      <4>2. /\ next \in DOMAIN found /\ found[next] \in 0 .. n - 1 /\ ~ next.envErr /\ next.code = z
            /\ next.facts = s1
        BY <3>8, <4>1
      <4>. HIDE DEF next
      <4>3. <<p1, s1>> \in Game!Won[found[next] + 1]
        BY <1>3, <3>10, <4>2
      <4>4. found[next] + 1 \in 0 .. n
        BY <4>2
      <4>. QED
        BY <4>3, <4>4, WonGrows
    <3>12. Game!Fond!Legal(a, q.facts) /\ a \in Game!Names
      BY <3>7 DEF Game!Fond!Legal, Fond!Legal, Game!Names, Names
    <3>. QED
      BY <2>3, <3>10, <3>11, <3>12 DEF Game!Forced
  <2>. QED
    BY <2>4, <2>5
<1>4. Nat \subseteq S
  <2>1. \A n \in Nat : 0 .. n - 1 \subseteq S => n \in S
    BY <1>3
  <2>. HIDE DEF S
  <2>. QED
    BY <2>1, Induction
<1>. QED
  BY <1>1, <1>4

\* The arena's state of a program in facts, nobody having erred.
StateOf(p, s) == [facts |-> s, agErr |-> FALSE, envErr |-> FALSE, code |-> programId[p]]

\* Where the program can be executed to its end, the fixpoint gets: if it ends
\* without a state, there is no plan from there.
LEMMA WonIsWinning ==
  ASSUME GraphAssumptions, RecognisedLines, GameInv, NoOverlap, game = "unrealizable",
         NEW k \in Nat, NEW r \in reachable, NEW w \in SUBSET Facts, <<r, w>> \in Game!Won[k]
  PROVE  StateOf(r, w) \in DOMAIN found
<1>. DEFINE S == {n \in Nat : \A p \in reachable, s \in SUBSET Facts :
                    <<p, s>> \in Game!Won[n] => StateOf(p, s) \in DOMAIN found}
<1>1. /\ Inv /\ phase = "play" /\ stage = "play" /\ GraphInv /\ Graph!Deterministic
      /\ \A q \in ArenaStates : Final(q) => q \in DOMAIN found
      /\ Controllable(DOMAIN found) \subseteq DOMAIN found
  BY DEF GameInv, ArenaInv, FoundInv, NoOverlap
<1>2. /\ \A p \in reachable : programId[p] \in 0 .. codes - 1
      /\ 0 \in 0 .. codes - 1
  <2>1. 0 \in 0 .. codes - 1 /\ \A p \in reachable : programId[p] \in 1 .. codes - 1
    BY <1>1, CodeValues
  <2>2. codes \in Int
    BY <1>1 DEF GraphInv, Proved!GraphInv, Proved!CodesSuffice
  <2>. QED
    BY <2>1, <2>2
<1>3. \A p \in reachable, s \in SUBSET Facts : StateOf(p, s) \in ArenaStates
  BY <1>2 DEF StateOf, ArenaStates
<1>4. ASSUME NEW n \in Nat, 0 .. n - 1 \subseteq S, NEW p \in reachable, NEW s \in SUBSET Facts, <<p, s>> \in Game!Won[n]
      PROVE  StateOf(p, s) \in DOMAIN found
  <2>1. n # 0 /\ n - 1 \in S /\ Game!Forced(p, s, Game!Won[n - 1])
    <3>1. n # 0
      BY <1>4, WonEquation
    <3>. QED
      BY <1>4, <3>1, WonEquation
  <2>2. CASE Game!MayEnd(p, s)
    <3>1. Final(StateOf(p, s))
      BY <1>1, <2>2, CodeAccepts DEF Final, StateOf
    <3>. QED
      BY <1>1, <1>3, <3>1
  <2>3. CASE ~ Game!MayEnd(p, s)
    <3>1. PICK a, q :
            /\ a \in Names /\ q \in Game!After(p, a, s) /\ Fond!Legal(a, s)
            /\ \A s1 \in Game!Outcomes(a, s) : <<q, s1>> \in Game!Won[n - 1]
      <4>1. \E a \in Game!Names : /\ Game!Fond!Legal(a, s)
                                  /\ \E q \in Game!After(p, a, s) :
                                       \A s1 \in Game!Outcomes(a, s) : <<q, s1>> \in Game!Won[n - 1]
        BY <2>1, <2>3 DEF Game!Forced
      <4>2. Game!Names = Names /\ \A a : Game!Fond!Legal(a, s) <=> Fond!Legal(a, s)
        BY DEF Game!Fond!Legal, Fond!Legal, Game!Names, Names
      <4>. QED
        BY <4>1, <4>2
    <3>2. q \in reachable /\ Graph!NextCode(programId[p], s, a) = programId[q]
      BY <1>1, <3>1, CodeMoves
    <3>. DEFINE x == actionCode[a]
    <3>3. /\ x \in AgentCodes /\ NameOf(actionCode, x) = a /\ ~ AgentErrs(s, x)
          /\ \A y \in EnvCodes : ~ EnvErrs(x, y) => FactsAfter(s, x, y) \in Game!Outcomes(a, s)
      BY <1>1, <3>1, OutcomesArePlayed
    <3>. HIDE DEF x
    <3>4. ASSUME NEW y \in EnvCodes
          PROVE  Successor(StateOf(p, s), x, y) \in DOMAIN found
      <4>. DEFINE next == Successor(StateOf(p, s), x, y)
      <4>1. next = [facts |-> FactsAfter(s, x, y), agErr |-> FALSE, envErr |-> EnvErrs(x, y), code |-> programId[q]]
        <5>1. StateOf(p, s).facts = s /\ StateOf(p, s).agErr = FALSE /\ StateOf(p, s).envErr = FALSE
              /\ StateOf(p, s).code = programId[p]
          BY DEF StateOf
        <5>2. EnvErrs(x, y) \in BOOLEAN /\ AgentErrs(s, x) = FALSE
          BY <3>3 DEF EnvErrs, AgentErrs
        <5>3. (FALSE \/ AgentErrs(s, x)) = FALSE /\ (FALSE \/ EnvErrs(x, y)) = EnvErrs(x, y)
          BY <5>2
        <5>. QED
          BY <3>2, <3>3, <5>1, <5>3 DEF Successor
      <4>2. FactsAfter(s, x, y) \in SUBSET Facts
        BY <1>1, FactsStayFacts
      <4>3. CASE EnvErrs(x, y)
        <5>1. next \in ArenaStates /\ Final(next)
          <6>1. next.agErr = FALSE /\ (next.envErr <=> EnvErrs(x, y))
            BY <4>1
          <6>2. next \in ArenaStates
            <7>1. EnvErrs(x, y) \in BOOLEAN
              BY DEF EnvErrs
            <7>. QED
              BY <1>2, <3>2, <4>1, <4>2, <7>1 DEF ArenaStates
          <6>. HIDE DEF next
          <6>. QED
            BY <4>3, <6>1, <6>2 DEF Final
        <5>. QED
          BY <1>1, <5>1
      <4>4. CASE ~ EnvErrs(x, y)
        <5>1. <<q, FactsAfter(s, x, y)>> \in Game!Won[n - 1]
          BY <3>1, <3>3, <4>4
        <5>2. StateOf(q, FactsAfter(s, x, y)) \in DOMAIN found
          BY <2>1, <3>2, <4>2, <5>1
        <5>3. next = StateOf(q, FactsAfter(s, x, y))
          <6>1. EnvErrs(x, y) = FALSE
            BY <4>4 DEF EnvErrs
          <6>. QED
            BY <4>1, <6>1 DEF StateOf
        <5>. QED
          BY <5>2, <5>3
      <4>. QED
        BY <4>3, <4>4
    <3>5. StateOf(p, s) \in Controllable(DOMAIN found)
      BY <1>3, <3>3, <3>4 DEF Controllable
    <3>. QED
      BY <1>1, <3>5
  <2>. QED
    BY <2>2, <2>3
<1>5. Nat \subseteq S
  <2>1. \A n \in Nat : 0 .. n - 1 \subseteq S => n \in S
    BY <1>4
  <2>. HIDE DEF S
  <2>. QED
    BY <2>1, Induction
<1>. QED
  BY <1>5

\* In a state of the invariant the verdict is right.
LEMMA VerdictOfGame ==
  ASSUME GraphAssumptions, RecognisedLines, MaxMoves \in Nat, GameInv, NoOverlap
  PROVE  VerdictIsRight
<1>1. game # "build" => stage = "play" /\ GraphInv /\ root \in reachable
  BY CodeValues DEF GameInv
<1>2. ASSUME game = "unrealizable", <<root, InitFacts>> \in Game!Won[MaxMoves]
      PROVE  FALSE
  <2>1. StateOf(root, InitFacts) \in DOMAIN found
    BY <1>1, <1>2, WonIsWinning, FactsAssumption
  <2>2. facts = InitFacts /\ agErr = FALSE /\ envErr = FALSE /\ code = programId[root]
    BY <1>1, <1>2 DEF GameInv, StartInv
  <2>3. Current = StateOf(root, InitFacts)
    BY <2>2 DEF Current, StateOf
  <2>. QED
    BY <1>2, <2>1, <2>3 DEF GameInv, FoundInv
<1>3. ASSUME game = "loop", input = <<>>
      PROVE  <<root, InitFacts>> \in Game!Won[round + 1]
  <2>1. facts = InitFacts /\ code = programId[root] /\ ~ envErr
    BY <1>1, <1>3 DEF GameInv, StartInv
  <2>2. Current \in DOMAIN found /\ found[Current] <= round /\ round \in Nat /\ found[Current] \in Nat
    BY <1>3 DEF GameInv, ArenaInv, FoundInv
  <2>3. Current.facts = InitFacts /\ Current.code = programId[root] /\ ~ Current.envErr
    BY <2>1 DEF Current
  <2>4. <<root, InitFacts>> \in Game!Won[found[Current] + 1]
    BY <1>1, <1>3, <2>2, <2>3, WinningIsWon
  <2>. QED
    BY <2>2, <2>4, WonGrows
<1>. QED
  BY <1>2, <1>3 DEF VerdictIsRight

\* The verdict of the synthesis is right for every such task and program: after
\* "not realizable" no plan of any length ends the program whatever the outcomes
\* are, and a strategy that is found has plans as long as the fixpoint took rounds.
THEOREM VerdictAlwaysRight ==
  ASSUME Compilable, RecognisedLines, MaxMoves \in Nat
  PROVE  ArenaSpec /\ []NoOverlap => []VerdictIsRight
<1>1. GameInv /\ NoOverlap => VerdictIsRight
  BY Assumptions, VerdictOfGame
<1>. QED
  BY <1>1, GameAlwaysInv, PTL
=============================================================================
