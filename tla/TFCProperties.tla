--------------------------- MODULE TFCProperties ---------------------------
(***************************************************************************)
(* What the construction of T, F and C promises to the program graph that  *)
(* is built from it, the inductive invariant behind the promises, and what *)
(* the graph promises in turn.                                             *)
(*                                                                         *)
(* Programs is the space a compilation moves in: the roots, their          *)
(* subprograms and everything these can evolve into.  Succs[p]             *)
(* over-approximates the programs one step of p leads to, as the           *)
(* derivatives of a regular expression do, and Depth[p] is the height of   *)
(* the syntax tree of p.  The assumptions say no more than that the space  *)
(* is closed and that programs are finite trees.                           *)
(***************************************************************************)
EXTENDS ProgramGraph

CONSTANTS Programs, Succs, Depth, Stuck

ASSUME SpaceAssumption ==
  /\ IsFiniteSet(Programs)
  /\ Nil \in Programs
  /\ Roots \subseteq Programs
  /\ Succs \in [Programs -> SUBSET Programs]

\* The programs the grammar builds without und, over known actions.
ASSUME SyntaxAssumption ==
  \A p \in Programs :
    /\ Kind(p) \in {"nil", "action", "test", "sequence", "choice", "iteration"}
    /\ Kind(p) = "action" => p[2] \in ActionNames
    /\ Kind(p) = "test" => p[2] \in DOMAIN Sat
    /\ IsSequence(p) => p[2] \in Seq(Programs)
    /\ IsChoice(p) => p[2] \in SUBSET Programs
    /\ IsIteration(p) => p[2] \in Programs

ASSUME SuccsAssumption ==
  \A p \in Programs :
    /\ Kind(p) = "action" => Nil \in Succs[p]
    /\ IsSequence(p) => \A i \in DOMAIN p[2] : \A s \in Succs[p[2][i]] :
                          Rest(p[2], i, s) \in Succs[p]
    /\ IsChoice(p) => \A q \in p[2] : Succs[q] \subseteq Succs[p]
    /\ IsIteration(p) => \A s \in Succs[p[2]] : Sequence(<<s, p>>) \in Succs[p]

ASSUME DepthAssumption ==
  /\ Depth \in [Programs -> Nat]
  /\ \A p \in Programs : \A q \in Args(p) : Depth[q] < Depth[p]

\* Fluents and actions are finitely many.
ASSUME FiniteAssumption == IsFiniteSet(States) /\ IsFiniteSet(ActionNames)

\* What no program and no action is called.
ASSUME NamesAssumption == Stuck \notin Programs /\ NoAction \notin ActionNames

-----------------------------------------------------------------------------
(* Types.                                                                  *)

Entry == [prog : Programs, act : ActionNames, guard : SUBSET States, succ : Programs]

FrameType ==
  {fr \in [prog : Programs, args : Seq(Programs), next : Nat \ {0}, f : SUBSET States] :
     fr.args \in ArgLists(fr.prog) /\ fr.next <= Len(fr.args) + 1}

\* The type invariant of the construction.
TypeOK ==
  /\ root \in Roots
  /\ queue \in Seq(Programs)
  /\ added \in SUBSET Programs
  /\ visited \in SUBSET Programs
  /\ stack \in Seq(FrameType)
  /\ trans \in SUBSET Entry
  /\ DOMAIN final \subseteq Programs
  /\ final \in [DOMAIN final -> SUBSET States]
  /\ cont \in [DOMAIN final -> SUBSET States]
  /\ outcome \in {"running", "done", "threw", "crashed"}

-----------------------------------------------------------------------------
(* The equations that define T, F and C.                                   *)

\* T of p in terms of T and F of the arguments of p.
TransEquation(T, F, p) ==
  CASE Kind(p) = "action" -> {[prog |-> p, act |-> p[2], guard |-> Pre[p[2]], succ |-> Nil]}
    [] IsSequence(p)  -> UNION {SequenceEntries(T, F, p, p[2], i) : i \in DOMAIN p[2]}
    [] IsChoice(p)    -> UNION {ChoiceEntries(T, p, q) : q \in p[2]}
    [] IsIteration(p) -> IterationEntries(T, p)
    [] OTHER          -> {}

\* F of p in terms of F of the arguments of p.
FinalEquation(F, p) ==
  CASE Kind(p) = "action" -> {}
    [] Kind(p) = "test" -> Sat[p[2]]
    [] IsSequence(p) -> {s \in States : \A i \in DOMAIN p[2] : s \in F[p[2][i]]}
    [] IsChoice(p)   -> UNION {F[q] : q \in p[2]}
    [] OTHER         -> States

\* p has its final value: its arguments have entries and p obeys the equations.
Solved(p) ==
  /\ Args(p) \subseteq DOMAIN final
  /\ TransOf(trans, p) = TransEquation(trans, final, p)
  /\ final[p] = FinalEquation(final, p)
  /\ cont[p] = Continuation(trans, p, final[p])

-----------------------------------------------------------------------------
(* Properties.                                                             *)

\* No handler reads F of a program whose visit has only begun: "visited" is
\* recorded before the recursive call, so this rests on the order of calls.
NeverCrashes == outcome # "crashed"

\* When the queue runs dry, every program that T mentions, as a source or as a
\* successor, has its F and C (from_golog_program reads them with at()), and
\* T, F and C are the solution of their equations: no entry of an argument was
\* missed because the argument had been visited in another context, was still
\* waiting in the queue or was visited twice.
ResultIsComplete ==
  outcome = "done" =>
    /\ root \in DOMAIN final
    /\ \A t \in trans : {t.prog, t.succ} \subseteq DOMAIN final
    /\ \A p \in DOMAIN final : Solved(p)

\* What a later visit of the same program does not change: F and C that other
\* programs may already have been computed from.
PublishedValuesAreStable ==
  [][\A p \in DOMAIN final : p \in DOMAIN final' /\ final'[p] = final[p] /\ cont'[p] = cont[p]]_tfcVars

\* A program waits at most once in the queue, however many transitions lead to
\* it; apply itself queues nil twice when nil is the program to compile.
QueuedOnce ==
  /\ root # Nil => \A i, j \in DOMAIN queue : queue[i] = queue[j] => i = j
  /\ \A i \in DOMAIN queue : queue[i] \in added

-----------------------------------------------------------------------------
(* The inductive invariant.                                                *)

\* The calls are nested along the syntax tree: each active call is on the
\* argument at the caller's current index, so the callers are always larger.
CallsNested ==
  /\ \A i \in 1 .. Len(stack) - 1 :
       /\ stack[i + 1].next <= Len(stack[i + 1].args)
       /\ stack[i].prog = stack[i + 1].args[stack[i + 1].next]
  /\ \A i, j \in DOMAIN stack : i < j => Depth[stack[i].prog] < Depth[stack[j].prog]

\* A visited program has its values or its call is active.
VisitedIsDoneOrActive ==
  /\ \A p \in visited : p \in DOMAIN final \/ \E i \in DOMAIN stack : stack[i].prog = p
  /\ DOMAIN final \subseteq visited
  /\ \A i \in DOMAIN stack : stack[i].prog \in visited

\* The arguments before the current one have their values, and the call has
\* combined exactly these.
FrameCombined(fr) ==
  LET before == 1 .. fr.next - 1
  IN  /\ \A j \in before : fr.args[j] \in DOMAIN final
      /\ IsSequence(fr.prog) =>
           /\ fr.f = SkippedBefore(final, fr.args, fr.next)
           /\ \A j \in before :
                SequenceEntries(trans, final, fr.prog, fr.args, j) \subseteq trans
      /\ IsChoice(fr.prog) =>
           /\ fr.f = UNION {final[fr.args[j]] : j \in before}
           /\ \A j \in before : ChoiceEntries(trans, fr.prog, fr.args[j]) \subseteq trans
      /\ IsIteration(fr.prog) =>
           /\ fr.f = States
           /\ before # {} => IterationEntries(trans, fr.prog) \subseteq trans

CallsCombined == \A i \in DOMAIN stack : FrameCombined(stack[i])

\* T never has an entry that its equation does not justify; the arguments it
\* was computed from have their values, so it stays justified.
Justified(t) ==
  LET p == t.prog
  IN  CASE Kind(p) = "action" -> t \in TransEquation(trans, final, p)
        [] IsSequence(p) -> \E i \in DOMAIN p[2] :
                              /\ \A j \in 1 .. i : p[2][j] \in DOMAIN final
                              /\ t \in SequenceEntries(trans, final, p, p[2], i)
        [] IsChoice(p) -> \E q \in p[2] \cap DOMAIN final : t \in ChoiceEntries(trans, p, q)
        [] IsIteration(p) -> p[2] \in DOMAIN final /\ t \in IterationEntries(trans, p)
        [] OTHER -> FALSE

EntriesJustified ==
  \A t \in trans :
    /\ t.prog \in visited
    /\ t.succ \in Succs[t.prog]
    /\ Justified(t)

\* Programs with values are solved.
DoneIsSolved == \A p \in DOMAIN final : Solved(p)

\* Everything the worklist owes is queued, active or done.
WorklistCovers ==
  /\ added \subseteq visited \cup {queue[i] : i \in DOMAIN queue}
  /\ root \in added
  /\ Nil \in added
  /\ \A t \in trans : t.succ \in added \cup visited
  /\ outcome = "done" => stack = <<>> /\ queue = <<>>

IInv ==
  /\ TypeOK
  /\ CallsNested
  /\ VisitedIsDoneOrActive
  /\ CallsCombined
  /\ EntriesJustified
  /\ DoneIsSolved
  /\ WorklistCovers
  /\ outcome \in {"running", "done"}

-----------------------------------------------------------------------------
(* The graph.                                                              *)

Remaining ==
  IF stage # "play" THEN root
  ELSE IF code = 0 THEN Stuck
  ELSE CHOOSE p \in reachable : programId[p] = code

Golog == INSTANCE GologRun WITH program <- Remaining, accepting <- Accepting

\* The encoded graph of a deterministic program steps and accepts exactly as the
\* program does, from T, F and C through the numbering, the sums and the bits: a
\* move of the automaton is the program's move for every action that makes the
\* automaton move that way.
ImplementsGolog ==
  /\ Golog!Init
  /\ [][Deterministic' =>
          \/ Golog!Ready
          \/ /\ stage = "play"
             /\ \A a \in ActionNames \cup {NoAction} :
                  code' = NextCode(code, fluents, a) => Golog!StepBy(a)]_<<Remaining, fluents, Accepting>>
=============================================================================
