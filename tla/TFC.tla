-------------------------------- MODULE TFC --------------------------------
(***************************************************************************)
(* TFCVisitor (src/src/golog_program.cpp): the visitor that computes, for  *)
(* a Golog program and everything it can evolve into, the functions        *)
(*   T(p, a)  the guarded successors of p under action a,                  *)
(*   F(p)     the states of the domain in which p may terminate,           *)
(*   C(p)     the states in which p may terminate or continue.             *)
(* Programs wait in a FIFO queue; the visit of a program first visits each *)
(* argument that was not visited before, by a recursive call, and then     *)
(* combines the argument's entries into its own.  The call stack, the      *)
(* queue and the two program sets are explicit here, one action per step   *)
(* of a visit method, because the order of these steps is what decides     *)
(* whether an entry is there when it is read.                              *)
(*                                                                         *)
(* A BDD over the fluents is the set of domain states that satisfy it.     *)
(***************************************************************************)
EXTENDS GologProgram

CONSTANTS
  Roots,        \* the Golog programs to compile; each behaviour compiles one
  ActionNames,  \* keys of action_name_to_bdd_
  States,       \* the valuations of the fluents
  Sat,          \* Sat[phi]: the states that satisfy the formula of a test
  Pre           \* Pre[a]: action_name_to_pre_bdd_

ASSUME GuardsAreStateSets ==
  /\ \A phi \in DOMAIN Sat : Sat[phi] \subseteq States
  /\ Pre \in [ActionNames -> SUBSET States]

VARIABLES
  root,     \* the program passed to apply
  queue,    \* programs_queue_
  added,    \* added_programs_
  visited,  \* visited_programs_
  stack,    \* the active calls of accept/visit, innermost first
  trans,    \* result_.transitions_, one record per (program, action, transition)
  final,    \* result_.final_functions_, a partial map from programs
  cont,     \* result_.continuation_functions_, a partial map from programs
  outcome   \* "running", "done", "threw" (an exception) or "crashed"

tfcVars == <<root, queue, added, visited, stack, trans, final, cont, outcome>>

\* A call of visit on p: the arguments in the order of its loop, the index of
\* the next one, and the local variable f.
Frames(p) ==
  {[prog |-> p, args |-> args, next |-> 1,
    f |-> IF IsChoice(p) THEN {} ELSE States] : args \in ArgLists(p)}

Top == Head(stack)

\* Assignment m[p] = v on a partial map.
Store(m, p, v) == [q \in DOMAIN m \cup {p} |-> IF q = p THEN v ELSE m[q]]

\* unordered_map::emplace keeps a value that is already there.
Emplace(m, p, v) == IF p \in DOMAIN m THEN m ELSE Store(m, p, v)

\* The entries of T for program p.
TransOf(T, p) == {t \in T : t.prog = p}

\* get_continuation_function: p may continue or terminate.
Continuation(T, p, fp) == fp \cup UNION {t.guard : t \in TransOf(T, p)}

-----------------------------------------------------------------------------
(* apply: the worklist loop.                                               *)

Init ==
  /\ root \in Roots
  /\ queue = <<Nil, root>>
  /\ added = {Nil, root}
  /\ visited = {}
  /\ stack = <<>>
  /\ trans = {}
  /\ final = [p \in {} |-> {}]
  /\ cont = [p \in {} |-> {}]
  /\ outcome = "running"

\* Mutant of Pop: the pop() after front() is forgotten.
PopWithoutPop ==
  /\ outcome = "running"
  /\ stack = <<>>
  /\ queue # <<>>
  /\ visited' = visited \cup {Head(queue)}
  /\ \E frame \in Frames(Head(queue)) : stack' = <<frame>>
  /\ UNCHANGED <<root, queue, added, trans, final, cont, outcome>>

\* Pops a program and visits it, even when a recursive call visited it before.
Pop ==
  /\ outcome = "running"
  /\ stack = <<>>
  /\ queue # <<>>
  /\ queue' = Tail(queue)
  /\ visited' = visited \cup {Head(queue)}
  /\ \E frame \in Frames(Head(queue)) : stack' = <<frame>>
  /\ UNCHANGED <<root, added, trans, final, cont, outcome>>

Finish ==
  /\ outcome = "running"
  /\ stack = <<>>
  /\ queue = <<>>
  /\ outcome' = "done"
  /\ UNCHANGED <<root, queue, added, visited, stack, trans, final, cont>>

-----------------------------------------------------------------------------
(* The visits of leaves.                                                   *)

InCall(kind) ==
  /\ outcome = "running"
  /\ stack # <<>>
  /\ Kind(Top.prog) = kind

\* The end of a leaf's visit: its F and C, and the return to the caller.
ReturnLeaf(T, fp) ==
  LET p == Top.prog
      F == Emplace(final, p, fp)
  IN  /\ trans' = T
      /\ final' = F
      /\ cont' = Store(cont, p, Continuation(T, p, F[p]))
      /\ stack' = Tail(stack)
      /\ UNCHANGED <<root, queue, added, visited, outcome>>

VisitNil == InCall("nil") /\ ReturnLeaf(trans, States)

VisitTest == InCall("test") /\ ReturnLeaf(trans, Sat[Top.prog[2]])

VisitAction ==
  /\ InCall("action")
  /\ Top.prog[2] \in ActionNames
  /\ LET a == Top.prog[2]
     IN  ReturnLeaf(trans \cup {[prog |-> Top.prog, act |-> a,
                                 guard |-> Pre[a], succ |-> Nil]}, {})

\* Mutant of VisitUnknownAction: a return instead of the throw.
IgnoreUnknownAction ==
  /\ InCall("action")
  /\ Top.prog[2] \notin ActionNames
  /\ stack' = Tail(stack)
  /\ UNCHANGED <<root, queue, added, visited, trans, final, cont, outcome>>

\* "is not a valid action name": the exception leaves every call.
VisitUnknownAction ==
  /\ InCall("action")
  /\ Top.prog[2] \notin ActionNames
  /\ outcome' = "threw"
  /\ UNCHANGED <<root, queue, added, visited, stack, trans, final, cont>>

\* The visit of und has an empty body: no entry is made for it.
VisitUnd ==
  /\ InCall("und")
  /\ stack' = Tail(stack)
  /\ UNCHANGED <<root, queue, added, visited, trans, final, cont, outcome>>

-----------------------------------------------------------------------------
(* The loops over the arguments.                                           *)

AtArg ==
  /\ outcome = "running"
  /\ stack # <<>>
  /\ Top.next <= Len(Top.args)

CurrentArg == Top.args[Top.next]

\* Mutant of VisitArg: the argument is marked and not visited.
MarkArg ==
  /\ AtArg
  /\ CurrentArg \notin visited
  /\ visited' = visited \cup {CurrentArg}
  /\ UNCHANGED <<root, queue, added, stack, trans, final, cont, outcome>>

\* The recursive call on an argument that was not visited yet; the argument
\* counts as visited before its entries exist.
VisitArg ==
  /\ AtArg
  /\ CurrentArg \notin visited
  /\ visited' = visited \cup {CurrentArg}
  /\ \E frame \in Frames(CurrentArg) : stack' = <<frame>> \o stack
  /\ UNCHANGED <<root, queue, added, trans, final, cont, outcome>>

\* operator[] of final_functions_ on an absent argument yields a BDD without a
\* manager, and the operation on it is a null dereference.
UseMissingFinal ==
  /\ AtArg
  /\ ~ IsIteration(Top.prog)
  /\ CurrentArg \in visited
  /\ CurrentArg \notin DOMAIN final
  /\ outcome' = "crashed"
  /\ UNCHANGED <<root, queue, added, visited, stack, trans, final, cont>>

\* The argument's entries can be combined into those of the caller.
ArgReady ==
  /\ AtArg
  /\ CurrentArg \in visited
  /\ ~ IsIteration(Top.prog) => CurrentArg \in DOMAIN final

\* The states in which each of the first i - 1 arguments may terminate.
SkippedBefore(F, args, i) == {s \in States : \A j \in 1 .. i - 1 : s \in F[args[j]]}

\* Mutant of SequenceEntries: the arguments that are skipped need not be able to
\* terminate.
UnguardedEntries(T, F, p, args, i) ==
  {[prog |-> p, act |-> t.act, guard |-> t.guard, succ |-> Rest(args, i, t.succ)] :
   t \in TransOf(T, args[i])}

\* T of a sequence through its i-th argument.
SequenceEntries(T, F, p, args, i) ==
  LET g == SkippedBefore(F, args, i)
  IN  {[prog |-> p, act |-> t.act, guard |-> g \cap t.guard,
        succ |-> Rest(args, i, t.succ)] :
       t \in {u \in TransOf(T, args[i]) : g \cap u.guard # {}}}

\* T of a choice through one of its branches.
ChoiceEntries(T, p, arg) == {[t EXCEPT !.prog = p] : t \in TransOf(T, arg)}

\* T of an iteration: one more round remains after the step of the body.
IterationEntries(T, p) ==
  {[prog |-> p, act |-> t.act, guard |-> t.guard, succ |-> Sequence(<<t.succ, p>>)] :
   t \in {u \in TransOf(T, p[2]) : u.guard # {}}}

\* Mutants of AddEntries: a successor that is already in the queue is queued
\* again; and a successor is recorded as added and not queued.
AddEntriesAgain(entries) ==
  LET new == {t.succ : t \in entries} \ visited
  IN  /\ trans' = trans \cup entries
      /\ added' = added \cup new
      /\ \E order \in Orders(new) : queue' = queue \o order

AddWithoutQueueing(entries) ==
  /\ trans' = trans \cup entries
  /\ added' = added \cup {t.succ : t \in entries}
  /\ queue' = queue

\* Inserts entries in T and queues, in some order, the successors that were
\* neither visited nor added before.
AddEntries(entries) ==
  LET new == {t.succ : t \in entries} \ (visited \cup added)
  IN  /\ trans' = trans \cup entries
      /\ added' = added \cup new
      /\ \E order \in Orders(new) : queue' = queue \o order

\* The loop moves on, with f as the value of its local variable.
Advanced(frame, f) ==
  [prog |-> frame.prog, args |-> frame.args, next |-> frame.next + 1, f |-> f]

\* Mutant of NextArg: f is not combined with the argument's.
NextArgKeepingF(f) == stack' = <<Advanced(Top, Top.f)>> \o Tail(stack)

NextArg(f) == stack' = <<Advanced(Top, f)>> \o Tail(stack)

\* Mutant of SequenceArg: f is accumulated in the published entry of the
\* sequence instead of a local variable.
SequenceArgInPlace ==
  LET f == Top.f \cap final[CurrentArg]
  IN  /\ ArgReady
      /\ IsSequence(Top.prog)
      /\ AddEntries(SequenceEntries(trans, final, Top.prog, Top.args, Top.next))
      /\ NextArg(f)
      /\ final' = Store(final, Top.prog, f)
      /\ cont' = Store(cont, Top.prog, Continuation(trans', Top.prog, f))
      /\ UNCHANGED <<root, visited, outcome>>

SequenceArg ==
  /\ ArgReady
  /\ IsSequence(Top.prog)
  /\ AddEntries(SequenceEntries(trans, final, Top.prog, Top.args, Top.next))
  /\ NextArg(Top.f \cap final[CurrentArg])
  /\ UNCHANGED <<root, visited, final, cont, outcome>>

\* A choice does not queue the successors it takes over from its branch.
ChoiceArg ==
  /\ ArgReady
  /\ IsChoice(Top.prog)
  /\ trans' = trans \cup ChoiceEntries(trans, Top.prog, CurrentArg)
  /\ NextArg(Top.f \cup final[CurrentArg])
  /\ UNCHANGED <<root, queue, added, visited, final, cont, outcome>>

IterationArg ==
  /\ ArgReady
  /\ IsIteration(Top.prog)
  /\ AddEntries(IterationEntries(trans, Top.prog))
  /\ NextArg(Top.f)
  /\ UNCHANGED <<root, visited, final, cont, outcome>>

\* After the loop: F and C of the composite program, and the return.
Return ==
  /\ outcome = "running"
  /\ stack # <<>>
  /\ ~ IsLeaf(Top.prog)
  /\ Top.next > Len(Top.args)
  /\ final' = Store(final, Top.prog, Top.f)
  /\ cont' = Store(cont, Top.prog, Continuation(trans, Top.prog, Top.f))
  /\ stack' = Tail(stack)
  /\ UNCHANGED <<root, queue, added, visited, trans, outcome>>

-----------------------------------------------------------------------------
VisitLeaf == VisitNil \/ VisitUnd \/ VisitAction \/ VisitUnknownAction \/ VisitTest

CombineArg == SequenceArg \/ ChoiceArg \/ IterationArg

Next ==
  \/ Pop \/ Finish
  \/ VisitLeaf
  \/ VisitArg \/ UseMissingFinal \/ CombineArg \/ Return

\* The construction has ended; without this step a stop before the end would
\* be a deadlock.
Ended == outcome # "running" /\ UNCHANGED tfcVars

TFCSpec == Init /\ [][Next \/ Ended]_tfcVars /\ WF_tfcVars(Next)
=============================================================================
