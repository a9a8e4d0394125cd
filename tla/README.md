# Syft4Golog, specified and verified

Syft4Golog synthesises strategies for Golog programs: given a nondeterministic
planning domain (PDDL) and a Golog program, it decides whether an agent can
execute the program to the end whatever the environment does, and computes a
strategy. This directory holds TLA+ modules for the synthesizer and for the
translator of PDDL that it runs, the configurations with which TLC checks them
on small instances, and proofs for every instance. Paths below are relative to
the repository.

## 1. The system

    PDDL ──translate.py──► output.sas ──parse_sas──► Domain ──to_symbolic──► domain DFA ─┐
                                                       │ action codes, preconditions      ├─ compose ─► arena ─► Reachability ─► strategy ─► interactive
    Golog ──parser──► program ──get_tfc──► T, F, C ──from_golog_program──► graph ─to_symbolic─┘

    translate.py:  parse ─► normalize ─► explore (pddl_to_prolog, build_model) ─► instantiate
                     ─► find invariants, choose groups ─► axiom rules ─► finite-domain task ─► simplify ─► output.sas

Everything is one sequential C++ process that runs the Python translator as a
child process. There are no threads, nothing is persistent and nothing is
retried. What makes the code hard is the order of nested calls and worklist
steps, iteration over unordered containers, sets and lists that are changed
while other parts read them, arithmetic on codes, passes that rely on the forms
earlier passes leave, and partial maps that are read with `operator[]`. BDDs and
ADDs come from CUDD, the game solver from LydiaSyft; neither is part of the
repository.

The synthesizer (`src/`, C++):

| Component | Source | State | Operations | Properties that make it correct |
|---|---|---|---|---|
| Program syntax | `golog_program.{hpp,cpp}` | immutable trees | equality, hash, visit | equality is structural, so sets of programs are finite |
| TFC construction | `golog_program.cpp` (`TFCVisitor`) | queue, added and visited sets, T, F, C, C++ call stack | `apply`, one `visit` per constructor | total and correct on every program mentioned, nothing read before it is written, ends |
| Program graph | `program_graph.cpp` | frontier, reachable set, numbering, ADD per state, bit vector | `from_golog_program`, `to_symbolic` | the automaton runs the program |
| Domain | `domain.cpp` | fluent names, operators, codes, symbolic DFA | `parse_sas`, `to_symbolic` | follows the operators, blames the right player, nobody is stuck |
| Compositional synthesizer | `compositional_golog_synthesizer.cpp` | the arena, the result | `run`, `compose` | winning means executable |
| Interactive execution | `base_golog_synthesizer.cpp` | state vector | `interactive` | stays legal, reaches the goal |
| LDLf synthesizer | `ldlf_golog_synthesizer.cpp`, `Golog2LDLf` | formula | `run`, translation | accepts the same executions |
| Syntactic closure, bottom-up TFC | `golog_program.cpp` | result and visited sets | `apply`, per constructor | closed under steps, same functions (not called today) |
| Formulas of tests | `propositional_logic.cpp` | trees | equality, evaluation | equal formulas are equal sets |
| Parser, driver | `parser.yy`, `lexer.l`, `golog_driver.cpp`, `main.cpp` | options, times | build programs two arguments at a time | |

The translator (`submodules/`, Python, a fork of the Fast Downward translator
with nondeterministic effects):

| Component | Source | State | Operations | Properties that make it correct |
|---|---|---|---|---|
| Conditions and effects | `pddl/conditions.py`, `pddl/effects.py`, `pddl/pddl_types.py` | trees | parse, negate, simplify, rename, normal form | meaning is kept |
| Normalisation | `normalize.py`, `pddl/actions.py`, `pddl/axioms.py` | the task, rewritten in place | nine passes | every pass keeps what the actions do |
| Datalog exploration | `pddl_to_prolog.py`, `split_rules.py`, `greedy_join.py`, `build_model.py` | rules, queue, index, tree of conditions | normalise, split, join, fire | derives the least model |
| Grounding | `instantiate.py`, `graph.py` | ground actions and axioms | `explore`, `instantiate` | the ground task takes the same steps |
| Invariant synthesis | `invariant_finder.py`, `invariants.py`, `constraints.py` | candidates, constraint systems | check, refine, accept | accepted candidates are invariants |
| Fact groups | `fact_groups.py` | groups by size | choose largest, remove its atoms | every atom in one variable, at most one true |
| Axiom rules | `axiom_rules.py` | axioms by atom, layers | needed, simplify, negate, layer | derived atoms get their values |
| Finite-domain translation | `translate.py`, `sas_tasks.py` | operators, axioms, goal | one operation per part of the task | executes as the PDDL task |
| Simplification | `simplify.py` | a transition graph per variable, renaming tables | reach, rename, remove | same executions |

Interactions: the stages of the translator hand a task to each other, and share
its lists; its output is the input of `parse_sas`. The domain gives the TFC
construction two maps from action names, to the BDD of the action's code and to
that of its precondition; the construction gives the graph T, F and C; domain
and graph are composed into the arena, whose inputs are the action and reaction
bits and whose state is the facts, two error bits and the graph's state bits.
PROJECT.json lists the behaviours that are hard to test, each at its line.

## 2. The modules

| Module | Models | Uses |
|---|---|---|
| `GologProgram` | syntax: the constructors, argument lists, what remains of a sequence after a step | |
| `TFC` | `TFCVisitor` | `GologProgram` |
| `TFCProperties` | what construction and graph promise, the inductive invariant of the construction, the assumptions on the space of programs | `ProgramGraph`, `GologRun` |
| `TFCProofs` | the proofs about the construction | `TFCProperties` |
| `ProgramGraphProofs` | the proofs about the graph | `TFCProofs`, `GologSemantics` |
| `ProgramGraph` | `from_golog_program`, `to_symbolic`, and a run of the automaton | `TFC` |
| `GologSemantics`, `GologRun` | abstract: steps and termination of a program, defined on its syntax; a program makes these steps | `GologProgram` |
| `MCProgramGraph` | instances | `TFCProperties`, `GologSemantics` |
| `BottomUp`, `MCBottomUp` | `SyntacticClosure`, `get_tfc_bottom_up`, run after `TFC`; instances | `TFC` |
| `Domain` | `parse_sas`, `to_symbolic` of the domain, and a run of the DFA | `GologProgram` |
| `FondDomain` | abstract: the operators applied to facts, with names for moves | |
| `DomainProofs` | the proofs about the domain | `Domain`, `FondDomain` |
| `MCDomain` | instance, refinement | `Domain`, `FondDomain` |
| `Arena` | `CompositionalGologSynthesizer`: composition, game, and the execution of the strategy | `Domain`, `ProgramGraph`, `GologGame` |
| `ArenaProofs` | the proofs about the game and the execution | `Arena`, `DomainProofs`, `ProgramGraphProofs` |
| `GologGame` | abstract: a program executed in a domain, and the game between agent and environment | `GologSemantics`, `FondDomain` |
| `Door` | an instance: a door domain and programs | `GologProgram` |
| `MCArena` | instance | `Arena`, `Door` |
| `LDLfArena`, `MCLDLf` | `Golog2LDLf`, the meaning of LDLf formulas; the composition of `LDLfGologSynthesizer`; instance | `Domain`, `GologSemantics`, `Door` |
| `Datalog` | symbolic atoms and substitutions | |
| `Conditions` | parsing and rewriting of conditions and effects | `Datalog` |
| `Normalize` | the passes of `normalize()` | `Conditions` |
| `Grounding` | types, `explore`, `instantiate` | `Normalize` |
| `MCGrounding` | instances; the meaning of a task as it is written | `Grounding` |
| `PrologProgram` | `pddl_to_prolog`, `split_rules`, `greedy_join` | `Datalog` |
| `BuildModel` | the tree of conditions, the queue and the rules that fire | `PrologProgram` |
| `MCBuildModel` | instances; the least model | `BuildModel` |
| `Invariants` | candidates, constraint systems, balance, refinement | `Datalog` |
| `FactGroups` | `compute_groups`: `get_groups`, `GroupCoverQueue`, `choose_groups`, `collect_all_mutex_groups` | `Invariants` |
| `FactGroupsProofs` | the proofs about the choice of groups | `FactGroups` |
| `MCGroups` | the ground states of a task; instances | `FactGroups` |
| `Literals`, `AxiomRules`, `MCAxiomRules` | `handle_axioms`; instances | |
| `AxiomRulesProofs` | the proofs about it | `AxiomRules` |
| `StripsTask` | abstract: a ground PDDL task and its executions | `Literals` |
| `Translate`, `MCTranslate` | `translate_task`, and an execution of its output; instances | `Literals`, `StripsTask` |
| `TranslateProofs` | the proofs about it | `Translate` |
| `SasTask` | abstract: a finite-domain task and its executions | |
| `Simplify`, `MCSimplify` | `filter_unreachable_propositions`, and an execution of the result; instances | `SasTask` |
| `SimplifyProofs` | the proofs about it | `Simplify` |

A definition whose comment begins with *Mutant of* is a faulty variant of the
definition after it. No specification uses it; it is there to show that the
properties notice the fault (PROJECT.json, "mutants").

The roots of the C++ instances are programs that the parser can build (`Then`,
`Or`): it knows no sequence or choice of more than two arguments and no if or
while, which are written with tests. The modules take argument lists of any
length, as the classes do; longer ones arise nowhere, because what remains of a
sequence is never longer than the sequence.

### TFC

A BDD over the fluents is the set of domain states that satisfy it, so `Sat`
and `Pre` are sets of states and conjunction is intersection. `trans` is the map
T flattened to records, `final` and `cont` are partial functions with the
domains the C++ maps have. The C++ call stack is explicit: `stack` holds one
frame per active `visit`, with the loop index and the local variable `f`.
`Pop` is the loop of `apply`; `VisitArg` the recursive `accept`; `SequenceArg`,
`ChoiceArg` and `IterationArg` are one round of the loop over the arguments
after the recursive call has returned, with everything that round does (T, the
two sets, the queue, `f`); `Return` is the end of `visit`. The loop over an
unordered set, and the order in which new successors are queued, are any order.
`VisitUnknownAction` is the exception, `UseMissingFinal` the operation on a BDD
that `operator[]` made up. The comparison of iterators of two containers
(line 469) is taken as what it does in the library: both are end iterators, and
equal, exactly when both searches fail.

### ProgramGraph

`ComputeTFC` runs TFC to its end, `Expand` is one round of the search for
reachable programs (the frontier keeps its duplicates), `AssignIds` numbers the
set in any order, `SumEntry` is one `+=` with the side effect of `operator[]` on
`program_id`, `AddBit` one round of the loop that counts bits, and `Play` one
transition of the encoded automaton, under any action code and any change of
the fluents. The sums are one entry at a time and the bits one loop round at a
time, so that the module can be proved about.

### Domain

An operator line of `output.sas` is a record; `Parsed` keeps what `parse_sas`
recognises. `ReadOperator` is one operator block, `Encode` the numbering of
actions and reactions in any order together with the choice of the element of
`actions_` from which `get_agent_pre` takes an action's precondition, and `Read`
one transition of the DFA. The input is a pair of codes and ranges over all
codes, also those without a name. Text processing of names is left out: names
are values, assumed distinct (`OperatorsAssumption`), and the task has at least
one operator, because `get_bits` of an empty set underflows to 64 variables.

### Arena

`LoadDomain`, `BuildGraph` and `Compose` are the stages of `run`; the names and
preconditions that the domain hands to the graph are `Names` and `Guards`.
`Successor` is the composed transition function, which reads one state and one
input for both automata, and `Final` the final states of `compose`. The game
solver is LydiaSyft's: `SolveRound` is a round of the least fixpoint of the
agent's controllable predecessors, which stops when the initial state is in it,
and `Output` is any strategy that leads from a round to earlier ones. In a state
that is not winning, the transducer may say anything, also codes of no action.
`Stop`, `Select`, `Answer` and `Quit` are the loop of `interactive`; an invalid
answer changes nothing and is no action.

`GologGame` is what the synthesis is about, without codes, automata or errors: the
agent picks an action that the program offers and the domain allows, the
environment one of its outcomes. `Remaining` is the program that the code stands
for; with it `ExecutesProgram` says that the execution implements `GologGame`, and
`VerdictIsRight` compares the verdict with `Won[n]`, the positions from which the
agent can stop after fewer than `n` actions whatever happens: never after
"unrealizable", and with `n` the rounds of the fixpoint, plus one, when there is a
strategy.

### LDLfArena

`Regex` and `ToLDLf` are the translation. The automaton of the formula is made
by LydiaSyft; it is replaced by the definition of the logic (`Holds`), its state
by the word it has read. `Letter` is the letter that it reads: `compose`
substitutes the domain's transition functions for the fluents, so that it is the
action together with the facts *after* the action. `AcceptsRunsAndOneMore`
states what the formula then says, from both sides: a run of the program, one
letter more, and tests evaluated in the last state only; what follows from the
last point is described in section 5.

### BottomUp

Each visit of `SyntacticClosure` is a function from its two sets to the sets it
may leave, one for each order in which the branches of a choice are met. The
priority queue returns any of the smallest programs. `TFC` runs first, on the
same root, and the results are compared.

### Conditions, Normalize

A condition is a record with a kind, parameters and parts; `Parsed` is
`parse_condition` with its negation normal form, `Simplified`, `Renamed` and
`Uniquified` are the methods of that name, with the order in which names are
handed on. `Outcomes` are the deterministic effects that an effect with `oneof`
stands for, `NormalEffect` the normal form of one of them with the assertions it
may fail, `AddEffect` the removal of contradictory effects. `Parse` makes the
task, and each pass of `normalize()` is an action that rewrites all conditions:
`RewriteAll` is the loop over `all_conditions`. In `Expanded` all parameters of a
universal quantifier range over the objects of the last one's type, as they do in the
code, whose filters are evaluated after the loop that makes them. Copies of an action made by
`split_disjunctions` share one list of effects in the code, which later passes
rewrite for all of them; here the effects are kept under the action's name.
`stage` is the next pass, or "error" for an exception and "assertion" for a
failed assertion.

### Grounding

`Explore` takes the least model of the exploration rules; how the queue computes
it is `BuildModel`. `Instantiate` makes ground actions and axioms for the atoms of
the model, with static facts decided in the initial state.

### PrologProgram, BuildModel

The passes over the rules are one rule at a time (`RemoveFree`,
`SplitDuplicates`, `ConvertTrivial`), because some change the program they run
over. `SplitRule` is one rule of `split_rules`, `Join` one round of
`greedy_join`, with the costs and the occurrences that the code keeps in tables
computed where they are used. `Prepare` is `convert_rules` and the building of
the trees (`Insert` and `Generate`, function by function), `PopAtom` and `FireMatch` the loop of
`compute_model`: one atom is matched, and the rules that it matches fire in any
order. A variable that occurs twice in a condition has the first or the last
position, whichever the dictionary keeps; the code that reads it is cited.

### Invariants, FactGroups

An assignment is a set of equations, a system a set of disjunctions of
assignments with clauses of inequalities, as in `constraints.py`; solvability is
their definition, the combination of one assignment from each disjunction.
`NextCandidate`, `CheckAction`, `Enqueue`, `Accept` and `FindingEnds` are the loop
of `find_invariants`: actions are checked in any order, refinements are queued in
one order, which only matters where a limit cuts the search short, and the time
limit may end the loop at any candidate. Constants in conditions are objects; no
effect of the run `groups` names one (section 5).
`Instantiate` builds the queue of groups, `Descend`, `Take` and `Refile` are
`_update_top`, `Pop` one choice. `FGSpec` is the choice of groups by itself, for any
lists of groups (`AreGroups`); `CGSpec` is `compute_groups`, which finds them first.
`MCGroups` compares its result with the reachable states of the ground task.

### AxiomRules

Phase by phase `handle_axioms`: `Collect` is one round of the worklist of needed
literals, `Simplify` one atom, with the sets of axioms per literal that shrink
while they are read, `AddAxioms` the axioms or the negated axioms of one literal,
`FindRoot`, `FindLevel` and `ReturnLevel` the recursive search for layers, with
its stack and its markers. Sets are read in any order. In `Undominated` the sets per
literal, what is to be skipped and an early return are the state of a loop.

### Translate, StripsTask

`TranslateInit`, `TranslateGoal`, `TranslateOperator` and `TranslateAxiom` are the
steps of `translate_task`. A condition is a set of pairs, a disjunction a set of
conditions, and a dictionary from variables to sets of values becomes a function.
After the last step the task is executed: `Run` is an operator of `output.sas`
performed by a planner (external: `CanRun`, `Triggered`, `Posts`); if effects that
trigger together set a variable to different values, it gets one of them. The
abstract specification `StripsTask` executes the ground PDDL task, and the atoms
that the values stand for are the refinement mapping.

### Simplify, SasTask

`ReadOperator` and `Expand` build the transition graphs and search them;
`register_variable` is the numbering (`Kept`, `NewPair`); `ApplyGoal`,
`ApplyOperator` and `ApplyAxioms` rewrite the task, with `Impossible` and
`DoesNothing` for the exceptions of the code and `AssertionFails` for its
assertions. Then the new task is executed, and mapped back to an execution of the
old one (`SasTask`).

## 3. The runs

| Run | Instance | What it shows |
|---|---|---|
| `program_graph` | eleven programs: overlapping guards, late choice, nested and nullable iterations, a subprogram shared by two sequences, a blocked sequence, the star of a star, nil, a conditional and a loop with a condition, two choices in sequence; three actions, one executable nowhere; four domain states | the inductive invariant `IInv`; no F is read before it is made (`NeverCrashes`), T, F and C are complete (`ResultIsComplete`), accept exactly the runs of the program, defined a second time by splitting runs along the syntax (`FunctionsDescribeProgram`), and do not change once published (`PublishedValuesAreStable`); nothing is queued twice; the construction ends; the encoded automaton implements `GologRun`, whatever order the states are numbered in |
| `bottom_up` | 21 programs: without repetitions, with repetitions, with und, with unknown actions | both constructions fail for the same programs (but und below an iteration) and agree on common ones; the closure of a program without repetitions is closed; the first construction ends, throws or crashes exactly for its causes (`OutcomeIsExplained`) |
| `domain` | three actions and three reactions, so that each side has an unused code; positive and negative preconditions; an error of either side possible at every step | the DFA implements `FondDomain`; every outcome can be played; the agent always has a legal action, and the environment a legal answer to it |
| `arena` | a door that may stay closed; programs whose goal depends on the outcome, on patience, on not waiting for ever, nil and und; realizable and not | the strategy keeps the rules, the verdict is that of `GologGame`, the execution implements `GologGame` and ends |
| `ldlf` | the door; tests at the end, between actions, in a loop | what the formula accepts, for every play of at most four letters |
| `grounding` | 86 tasks: over two blocks, eight preconditions with every junctor and quantifier, eight effects with choices, conditions and costs, goals of five shapes, misuses of derived predicates; over two blocks and a table, six conditions over two variables, of one type, of two types in two quantifiers and of two types in one, as precondition, condition of an effect, goal and axiom | every pass keeps the steps and the goal of the task as it is written, where no universal quantifier has two types (section 5); parameters stay distinct; the ground task takes the steps of the task as it is written in every reachable state |
| `build_model` | 588 programs: two of fourteen rules with some of the facts over two objects | splitting and joining keep what the program derives, no assertion fails, the tree finds exactly what an atom fits, the queue derives the least model |
| `groups` | one or two of eight actions over two objects, from two initial states, with and without partial encoding | accepted candidates are kept by every step of every ground state; chosen groups and mutex groups have at most one true atom in every reachable state; every atom has its variable; the search for groups ends |
| `axiom_rules` | 149 programs over three derived and two basic atoms, four uses | simplification keeps what follows; the planner gives every needed literal its value in every state; only real cycles are refused |
| `translate` | 2616 tasks over a variable of three values and one of two, with the switch for implied preconditions on and off | one variant of an operator can run if the action can; axioms and goal agree with the atoms; the execution implements `StripsTask` |
| `simplify` | two operators and up to two axioms over variables of three and two values and a derived one | the simplified task loses nothing, keeps its goal, and implements `SasTask` |
| `constant_effects` | one action with a constant in a delete effect | violated: two true atoms in one variable (section 5) |

Bounds. A run of the tables over a program is bounded by `MaxRunLength = 3`
actions; the programs have at most two nested iterations, whose derivatives
recur after one round, so three actions pass through every derivative and back.
Nothing else is cut off in the synthesizer: the construction is finite for each
program, the automaton and the DFA have finitely many states, and TLC explores
all of them. The bit widths of the instances cover one, two and three bits, with
the largest number at and next to a power of two. The game of the door is decided
by plans of at most three actions; the verdict "unrealizable" is compared with the
plans of fewer than `MaxMoves = 6` actions, and `SolveRound` itself has no bound. `MaxLetters = 4` is one letter more than the longest of the programs
without iteration, and two rounds of those with one; the run `ldlf` does not
check for deadlock, because a word of that length is not continued.

The translator's modules run to their end for each task. Two objects suffice to
tell apart what distinct and equal arguments do, and instances of rules and
candidates with two variables; two actions are the smallest number for which a
candidate that one keeps is refuted by the other; a variable of three values
with one of two are the smallest for which a variant, a none-of-those and a
shared variable differ. `MaxCandidates = 7` is reached by some tasks and not by
others (the code has 100000, and stops at it in the same way). When all three
predicates of `groups` are fluents, six candidates are there at the start and one
refinement fits; with fewer fluents there is room for more. A larger bound lets in
candidates whose constraint systems TLC cannot enumerate; the proofs
of `FactGroupsProofs` hold whatever groups are found.

Fairness. The code is sequential: a started construction runs until it returns,
so `WF(Next)` in TFC, `WF(Construct)` in ProgramGraph, `WF(Tool)` in Arena and
`WF(CGNext)` in FactGroups. In Arena there is `WF(User)` besides: at the prompt
the user answers validly or quits some time, because the loop asks again until
one of these happens. Nothing is assumed of what the user chooses, so
`ExecutionEnds` holds against every environment. `Play` and `Read` alone are never
obliged to happen, and the other modules have no liveness property.

## 4. The proofs

### TFCProofs

`TFCProofs` proves, for every finite space `Programs` that contains the roots and
is closed under subprograms and steps (`SpaceAssumption`, `SyntaxAssumption`,
`SuccsAssumption`), for every set of domain states, guards and actions:

| Theorem | Statement |
|---|---|
| `InvariantHolds` | `TFCSpec => []IInv` |
| `TypeCorrect` | `TFCSpec => []TypeOK` |
| `NoMissingFinal` | `TFCSpec => []NeverCrashes` |
| `ResultCorrect` | `TFCSpec => []ResultIsComplete` |
| `PublishedValuesKept` | `TFCSpec => PublishedValuesAreStable` |
| `NoProgramQueuedTwice` | `TFCSpec => []QueuedOnce` |

`Depth` (`DepthAssumption`) says that programs are finite trees; it replaces an
induction over syntax. The assumptions exclude und and unknown actions, for
which the run `bottom_up` shows what happens.

None of the properties is inductive. `ResultIsComplete` speaks of the end only;
why it holds then is a matter of what each active call has combined so far. The
invariant `IInv` says:

- `CallsNested`: the active calls lie on a path of the syntax tree, each on the
  argument at its caller's index. So no program has two active calls, and an
  argument that is marked visited but has no values would have to be an
  ancestor of its caller, which `Depth` excludes: `NeverCrashes`.
- `VisitedIsDoneOrActive`: marking before visiting never leaves a program
  marked without values or a call that will make them.
- `CallsCombined`: a frame at index i has combined exactly the arguments before i.
- `EntriesJustified`: every entry of T follows from the equation of its program
  and from arguments that have their values.
- `DoneIsSolved`: a program with values satisfies the equations of T, F and C.
- `WorklistCovers`: what was added is queued or visited.

The key lemma is stability: no step changes T, F or C of a program that has its
values (`Stable`), although `apply` visits such programs again. Every equation
of a program refers only to arguments that have their values, so it stays true
(`SolvedStable`, `JustifiedStable`, `FrameCombinedStable`), and the second visit
computes the same again. There is one lemma per action; `InductiveStep` puts
them together. `NoProgramQueuedTwice` adds that an enumeration of a finite set
has no repetition.

### ProgramGraphProofs

Under the same assumptions, for finitely many fluents and actions
(`FiniteAssumption`) and names that nothing else has (`NamesAssumption`):

| Theorem | Statement |
|---|---|
| `GraphInvariant` | `PGSpec => [](IInv /\ GraphInv)` |
| `NoValueMissing` | `PGSpec => []~ Stopped` |
| `GraphImplementsGolog` | `PGSpec => ImplementsGolog` |

The semantics of a program (`GologSemantics`: `Ending`, `Moves`) is defined by
recursive functions on its syntax. `SyntaxInduction` and `SyntaxRecursion` derive
induction over subprograms and the existence of such functions from `Depth`;
`EndingEquation` and `MovesEquation` are the recursion equations. `TablesAreMeant`
is the bridge: values that satisfy the equations of the construction (`Solved`, which
`TFCProofs` establishes) are the semantics, because both have the same recursion.
`GraphInv` then follows the stages of the code:

- `SearchCovers`: what was expanded has its successors in the frontier or the
  reachable set, so the result is closed under steps and every number looked up exists;
- `NumbersFit`: numbers are different, at most as many as programs, and not the sink's;
- `SumsAreSuccessors`: of the entries met so far at most one applies to a program
  under an input if guards do not overlap, so the sum is one number or 0;
- `CodesSuffice`: the bits counted and those to come are enough for every number;
- `CodeIsProgram`: the automaton is in the state of a program or in the sink.

`GraphImplementsGolog` is a refinement: the program with the code's number is what
remains, and each step of the automaton under an action is the program's step
(`PlayStepsBy`). The condition `Deterministic` is the code's own restriction
(section 5, `golog_program.cpp:366`).

### DomainProofs

For every finite list of operators with the names of `OperatorsAssumption`, and
every order in which the sets of the code may be enumerated:

| Theorem | Statement |
|---|---|
| `DomainInv` | `DomainSpec => []Inv` |
| `OutcomesAlwaysPlayable` | `DomainSpec => []EveryOutcomePlayable` |
| `NobodyIsEverForced` | `DomainSpec => []NobodyIsForced` |
| `AutomatonImplementsFond` | `DomainSpec => ImplementsFond`, if `RecognisedLines` |

The properties speak of the game only, so `Inv` says what the loop of
`parse_sas` leaves behind: each operator is still to be read or in `actions`,
where nothing else is, and once the codes are made they are numberings of the
names (`IsNumbering`). That as many bits as `get_bits` counts are enough for a
set of any size is an induction over the size (`EnoughBits` and the lemmas
before it). The induction principle of the library takes an operator as
parameter, which the provers cannot instantiate; `LeastNumber` and `Induction`
state it for sets of numbers instead, and the functions defined by recursion
are shown to exist from it.

`RecognisedLines` says that the effects have no conditions and that no line makes
a variable false without asking for it to be true. Without it the refinement is
false, because `parse_sas` drops such lines (section 5).

### ArenaProofs

For every such list of operators, every program and every facts at the start:

| Theorem | Statement |
|---|---|
| `RulesAlwaysKept` | `ArenaSpec => []RulesAreKept` |
| `AnswersAlwaysBringCloser` | `ArenaSpec => AnswersBringCloser` |
| `ExecutionIsOfProgram` | `ArenaSpec /\ []NoOverlap => ExecutesProgram`, if `Compilable` and `RecognisedLines` |
| `VerdictAlwaysRight` | `ArenaSpec /\ []NoOverlap => []VerdictIsRight`, likewise, for every `MaxMoves` |

`RulesAreKept` holds because the execution stays in winning states, and a winning
state is never one of an agent error: `ArenaInv` says both. That the fixpoint adds
no state with an agent error needs that the environment always has an input
(`ControllableIsClean`), hence `NobodyIsEverForced`'s invariant. `AnswersBringCloser`
is the safety half of `ExecutionEnds`: each answer leads to a state that was won in
an earlier round. What is left to TLC is that the user answers or quits.

The last two compose the proofs about the parts. `Compilable` is what
`ProgramGraphProofs` assumes of the programs (finite trees over known actions,
without und, closed under steps); what it assumes of facts and actions, and that the
guards handed to the graph are the operators' preconditions, is proved of the domain
(`Assumptions`, `AllowedIsGuards`). `NoOverlap` is the determinism that the code
relies on (section 5, `golog_program.cpp:366`), `RecognisedLines` that of
`DomainProofs`. Under them `GameInv` adds to `ArenaInv` the invariant of the graph
and what the rounds of the fixpoint mean (`FoundInv`): a state found in round 0 is
final, one found later has an output into earlier rounds, and at "unrealizable" the
winning states are closed under `Controllable`. An answer is then a step of
`GologGame` (`AnswerIsAct`), because a winning state is never the sink
(`WinningIsAlive`) and a reaction without an error is an outcome
(`OutcomesArePlayed`). The verdict takes an induction each way: over the round a
state was found in (`WinningIsWon`), and over the length of a plan
(`WonIsWinning`). `Won[n]` is recursive in `n`; that it satisfies its equation is
`WonEquation`, from `Recursion` in `DomainProofs`.

### AxiomRulesProofs

For every order on the atoms, all axioms whose bodies are lists of literals, and
every use of them:

| Theorem | Statement |
|---|---|
| `AxiomsAlwaysKeepMeaning` | `AxSpec => []AxiomsKeepMeaning` |

The difficult part is `simplify`, which reads the sets `axioms_by_literal` while it
shrinks them. `LoopInv` says why that does no harm: the sets never claim a literal
for a body that lacks it, so everything skipped contains the body of an axiom that
stays; when that axiom is skipped later, the one that dominates it takes its place
(`VisitedInv`). Sorting and dropping repetitions keep the literals of a body
(`SortedMeaning`, `RepeatsMeaning`), and multiplying out keeps the negation of those
multiplied so far (`TimesMeaning`, `NegatedMeaning`). `AxInv` carries this through
the phases, with the rule that the axioms of a handled literal are exactly those
of its rules or of their negation. `Recursion` gives the existence and the type of
the functions that the loops are modelled by.

### SimplifyProofs

For every set of tasks as `translate_task` builds them (`TasksAssumption`: pairs
are in range, and the first value of an effect is also a prevail condition, which
the translator's switch for implied preconditions, off by default, would break):

| Theorem | Statement |
|---|---|
| `SimplifyInv` | `SiSpec => []SiInv` |
| `SimplifiedImplementsTask` | `SiSpec => ImplementsTask` |
| `NothingIsEverLost` | `SiSpec => []NothingIsLost` |
| `GoalIsAlwaysKept` | `SiSpec /\ (ImplementsTask => []GroupsHold) => []GoalIsKept` |
| `UnsolvableIsRight` | `SiSpec => []GivenUpRightly` |
| `AssertionsHold` | `SiSpec => []OnlyContradictionsFail` |

`SiInv` has four parts: the reached values are in range and contain the first
ones; the arcs of what has been read are there and, once the queues are empty,
lead from reached values to reached values; the new operators are the
translations of those that were looked at and can happen; and the values of the new task
are those of a state of the old one, renamed (`Renamed`), all of whose values are
reached. The last part makes the refinement mapping one: `Rank` is injective on
reached values and `Index` on kept variables. `NothingIsLost` compares the two
tasks in that state, so the execution has to stay renamed for it.

`GroupsHold` says that the mutex groups are mutexes in the executions of the old
task: what invariant synthesis promises and `groups` checks. `GivenUpRightly` is
what a goal that is never reached means without liveness: there is a set of states
that contains the initial one, is closed under operators and axioms and satisfies
no goal. `OnlyContradictionsFail` shows that of the two assertions of the code only
the one about effects with contradictory conditions can fail, and the one about an
axiom's effect never does.

### TranslateProofs

For every set of tasks as the translator hands them to `translate_task`
(`TasksAssumption`: groups without repetitions, ground conditions and effects over
their atoms, a goal that may mention true static atoms, and groups of which no
operator leads from a legal state to an illegal one, the promise of invariant
synthesis that `AcceptedArePreserved` checks):

| Theorem | Statement |
|---|---|
| `AxiomsAlwaysAgree` | `TrSpec => []AxiomsAgree` |
| `GoalAlwaysAgrees` | `TrSpec => []GoalAgrees`, if `Decided` |
| `OneVariantAlwaysRuns` | `TrSpec => []OneVariantRuns`, if `Decided` |
| `TranslationImplementsStrips` | `TrSpec => ImplementsStrips`, if `Decided` |

The argument follows `translate_task`. `Represents` says that values stand for the
atoms of a state. `ExcludedMeaning` and `PositiveMeaning` say what one literal
leaves of the allowed values, `AllowedMeaning` (by induction over the literals) what
all of them leave, `MultipliedMeaning` that the disjuncts are the choices, and
`ConditionsMeaning` that one disjunct holds for the values exactly when the condition
holds for the atoms, and then only one. On it rest the lemmas on effects:
`AddMeaning`, `NoAddMeaning` (the negated disjunction of add conditions),
`DeleteMeaning`, and `EffectMeaning`, that together they make of the values those of
the next state. `LinesMeaning` carries this over to the lines that are written:
what is dropped from a condition, because it is a precondition, is implied
(`ImpliedIsTrue`) or belongs to a binary variable (`DroppedIsRight`), changes
nothing.

None of the properties is inductive. `TrInv` says that the values are those of the
initial state until the task is executed, that the goal is the only disjunct of its
condition, and that what is written is the translation of what was read; `RunInv`
that in an execution the values represent a legal state, which is what the
refinement mapping needs. `RunInv` is where the operators' promise to keep the groups
is used, and `Decided`: an operator that deletes an atom with a variable of its own
adds it never, or without a condition. Without it the refinement is false
(section 5, `translate.py:347`). All tasks of the run `translate` satisfy it.

### FactGroupsProofs

For any groups and atoms that invariant synthesis and grounding may hand over, as
long as there are finitely many (`AreGroups`):

| Theorem | Statement |
|---|---|
| `EveryAtomAlwaysOnce` | `FGSpec => []EveryAtomOnce` |
| `AlwaysWithinGroups` | `FGSpec => []WithinGroups` |
| `ComputeGroupsChooses` | `CGSpec /\ []FiniteInvariants => FGSpec` |

The first two speak of the end only, so the invariant `FGInv` says what holds on the way.
`ChosenInv`: `uncovered` is what no chosen group has, every chosen group is part of
a mutex group, and with the partial encoding no two chosen groups share an atom, nor
does a chosen group with one that is still in the queue. This last part makes it
inductive: `Pop` takes the atoms of the top out of all groups, so the next top has
none of them. `QueueInv` is needed for the top to be a group of the queue at all: the
search stays between the sizes there are (`LargestGroup`, from the finiteness of the
groups), and what is filed under a size are numbers of groups (`FiledType`), also
after they are filed again. At the end `Homes` finds the one place of each atom.
The third theorem carries them
over to `compute_groups` as the run `groups` executes it, for all tasks with finitely
many atoms and initial facts (`InvTasksAssumption`): what `UsefulGroups` and `Template`
make of invariants with finitely many parts (`FiniteInvariants`; the search builds
them part by part, by folds that the prover cannot follow) is a list of finite groups.
That each variable has one true atom at most follows from the second theorem where
the groups are invariants, which `VariablesAreExclusive` checks.

### Only model-checked

Termination (`ConstructionEnds`, `ExecutionEnds`, `GroupingEnds`: liveness under
fairness is beyond the prover); everything whose model or reference definition is a
recursive operator, which the prover does not read: `FunctionsDescribeProgram`, all
of `LDLfArena`, `BottomUp`, `Conditions` to `Grounding` and `BuildModel`; that accepted
candidates are invariants (`AcceptedArePreserved`, and the states that
`VariablesAreExclusive` reaches); and of `AxiomRules` what the layers promise, `EvaluationIsRight`
and `OnlyRealCyclesFail`, an argument about fixpoints within fixpoints.

## 5. Where the code does not keep its comments

The run `constant_effects` shows the most serious one: the system that decides
whether a delete effect balances an add effect may equate the variable of an
invariant with an object, and with it a parameter that the precondition keeps
different from the object (`invariants.py:359`). A variable with two true atoms is
made of it. `domain.cpp:14` runs `translate.py` with a time limit of 0 seconds for
the search, which then usually ends at the first candidate; the situation needs
`translate.py` with another limit, or the call of `invariant_finder.py` at
`domain.cpp:24`, which has a limit of 10 seconds (`invariant_finder.py:148`) and
writes the groups to its own file. The tasks of the run `groups` therefore have no objects in effects.

The others were met while modelling, and the runs leave their inputs out or the
properties state what the code does instead:

- und as an argument of a sequence or a choice makes the caller operate on a BDD
  without a manager (`golog_program.cpp:445`); the comment at 365 calls the result
  a partial function. `OutcomeIsExplained` describes it.
- `golog_program.cpp:366` says that determinisation is done while the graph is
  built. For `(nil | move) ; (nil | move) ; grasp` the numbers of two successors are
  added up (`program_graph.cpp:267`), and the graph moves to a state that is neither.
  `ImplementsGolog` is stated for programs whose guards do not overlap (`Deterministic`).
- `parse_sas` drops the line `-1 -> 1` (`domain.cpp:131`), by which the translator
  writes the deletion of a fact that the precondition does not mention: in
  `benchmarks/tireworld_simplified` the old position is never deleted.
- `to_ldlf` makes every test hold at the last letter (`golog_program.cpp:648`): no
  program with a test before an action is realizable with algorithm 2.
- `SyntacticClosure` skips an argument that was visited anywhere before
  (`golog_program.cpp:231`); for `a ; (a ; b)` the closure lacks `nil ; b`.
  `ClosedIfLinear` is stated for programs in which nothing occurs twice.
- `axiom_rules.py:61` stores levels computed inside a positive cycle, against the
  comment at 51: an atom may get a layer below one of its conditions, and a
  negative cycle may go unnoticed. `EvaluationIsRight` is stated for programs
  without cycles.
- `axiom_rules.py:147` intersects the sets of axioms per literal in place, so some
  dominated axioms stay; none that is needed is removed (`AxiomsKeepMeaning`).
- `translate.py:347` drops a condition of a delete effect as redundant without
  looking at the other effects of the operator: an atom that is deleted, and added
  under a condition that is false when the atom is true, is set to both values. The
  tasks of `translate` have no such operator (`Undecided`).
- `translate.py:77` says that static facts in a goal cannot be false and need no
  translation. A negative goal over a static fact is dropped in the same way at
  `translate.py:112`, though the reachability that is meant here ignores negative
  literals: the goal is then false for ever and not in `output.sas`.
  `TasksAssumption` excludes such goals.
- `simplify.py:272`: a conditional effect whose condition contradicts the operator's
  own precondition stops the translator with an assertion. One task of `simplify` has
  such an effect, the others have coherent ones (`Coherent`).
- `invariants.py:99` asks for the parts of a literal, of which there are none: two
  effects that add the same atom count as two atoms. This is safe.
- `pddl_to_prolog.py:135` assigns a renamed condition to the loop variable and loses
  it, so `p(x, x)` stays; and the greedy join drops a variable that both conditions
  share and nobody else uses, which `build_model.py:45` allows in projections only.
  Both make the model too large, never too small: `ModelIsLeast` states this, with
  equality where neither happens (`Exact`).
- `normalize.py:193` makes one filter for each parameter of a universal quantifier. In
  Python 3, which the translator needs (`invariant_finder.py:102` calls
  `time.perf_counter`), a filter is evaluated when it is read and its function looks up
  `param` then: that is at line 195, after the loop. So every parameter ranges over the
  objects of the *last* parameter's type, against the comment at 166 ("the standard
  conjunction of all related objects"): `(forall (?y - block ?z - table) (or (r ?y ?z)
  (p ?y)))` becomes a condition on pairs of tables. The same holds for an `exists` below
  a negation, which the parser turns round. `Expanded` does what the code does; seven
  of the twelve tasks with a table in `grounding` have such a quantifier, in a
  precondition, in the condition of an effect, in the goal or in an axiom; and
  `StepsAreKept`, `GoalIsKept` and `GroundingIsExact` are stated for tasks without one in
  the conditions they speak of (`AllOfOneType`). Without this
  restriction TLC refutes each of the three. Two parameters of one type, two quantifiers
  of one type each, and an existential quantifier over two types are not affected, and
  the properties cover them.
- `normalize.py:193` also takes the objects whose declared type is the parameter's, not
  those of its subtypes; `normalize.py:310` merges the existential variables of the
  copies of a universal condition; goals are never simplified or renamed
  (`tasks.py:239`, `conditions.py:12`), so a conjunction within a conjunction fails the
  assertion at `normalize.py:438` and a variable used twice changes the goal's
  meaning; `effects.py:180` refuses a universal effect in a conjunction below a `when`.
  The tasks of `grounding` have objects of the parameter's own type, no existential
  below a universal quantifier and no variable twice; the two refusals are in them.

## 6. Plan

1. (done) The synthesizer: `GologProgram` to `BottomUp`.
2. (done) The translator: `Conditions` to `Simplify`.
3. (done) Proofs about `TFC`, `Domain`, `Arena`, `Translate` and `Simplify`.
4. (done) Proofs about `ProgramGraph`, the game of `Arena`, `AxiomRules` and `FactGroups`.
5. `LDLfArena`: the verdict of its game, compared with that of `Arena` on programs
   without tests before actions.

Not modelled: the Golog parser (generated), the command line driver, the plots
and the timers (input and output only); `propositional_logic.cpp`, whose formulas
are values; the names of operators and values in `output.sas` and their mangling by
`domain.cpp`; the reading of nested lists in `pddl/parser.py` and the checks of
duplicates; printing of any kind; numeric expressions other than total cost;
`determinizer.py`, which nothing calls, and `invariant_grounder.py`, whose result
ends in a BDD that nothing reads; `remove_universal_quantifiers_with_axioms`, which
nothing calls; PDDL files, CUDD and LydiaSyft (external). The domain's LTLf export
and its goal are not used by the synthesis of Golog programs.
