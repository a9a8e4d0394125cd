------------------------------ MODULE BottomUp ------------------------------
(***************************************************************************)
(* The second construction of T, F and C (src/src/golog_program.cpp):      *)
(* SyntacticClosure collects the programs that a program may evolve into,  *)
(* and get_tfc_bottom_up computes their entries, smallest program first.   *)
(* The call in program_graph.cpp is commented out, in favour of get_tfc;   *)
(* here the two run one after the other and their results are compared.    *)
(***************************************************************************)
EXTENDS TFC, Integers, SequencesExt

VARIABLES
  closure,   \* syntactic_closure(x)
  pending,   \* priority_closure
  upTrans, upFinal, upCont,   \* the TFCResult of get_tfc_bottom_up
  upOutcome  \* "close", "running", "done", "threw" or "crashed"

upVars == <<closure, pending, upTrans, upFinal, upCont, upOutcome>>

-----------------------------------------------------------------------------
(* SyntacticClosure.                                                       *)

\* Mutant of Continuations: the argument after the current one is lost.
ContinuationsBeyond(S, args, i) ==
  {Rest(args, i + 1, q) : q \in S}

\* The programs of S, each before the arguments after the i-th one.
Continuations(S, args, i) == {Rest(args, i, q) : q \in S}

\* A visit turns [result, visited] into one of a set of such records, one for
\* each order of its loops.
RECURSIVE Close(_, _), CloseAll(_, _), CloseSequence(_, _, _)

Close(p, st) ==
  LET entered == [result |-> st.result \cup {p}, visited |-> st.visited \cup {p}]
  IN  CASE Kind(p) \in {"nil", "und"}     -> {[st EXCEPT !.result = @ \cup {p}]}
        [] Kind(p) \in {"action", "test"} -> {[st EXCEPT !.result = @ \cup {p, Nil}]}
        [] IsSequence(p)  -> CloseSequence(p[2], 1, entered)
        [] IsChoice(p)    -> UNION {CloseAll(args, entered) : args \in ArgLists(p)}
        [] IsIteration(p) -> CloseAll(<<Sequence(<<p[2], p>>)>>, entered)

\* The programs of a list that were not visited before, one after the other.
CloseAll(list, st) ==
  IF list = <<>> THEN {st}
  ELSE LET p == Head(list)
           after == IF p \in st.visited THEN {st}
                    ELSE Close(p, [st EXCEPT !.visited = @ \cup {p}])
       IN  UNION {CloseAll(Tail(list), r) : r \in after}

\* The arguments of a sequence from the i-th on.  What an argument evolves into
\* is collected separately, and inserted alone and with its continuation; an
\* argument that was visited before adds nothing.
CloseSequence(args, i, st) ==
  IF i = Len(args) THEN CloseAll(<<args[i]>>, st)
  ELSE IF args[i] \in st.visited THEN CloseSequence(args, i + 1, st)
  ELSE UNION {CloseSequence(args, i + 1,
                [result  |-> st.result \cup r.result \cup Continuations(r.result, args, i),
                 visited |-> r.visited]) :
              r \in Close(args[i], [result |-> {}, visited |-> st.visited \cup {args[i]}])}

Closures(p) == {r.result : r \in Close(p, [result |-> {Nil}, visited |-> {Nil}])}

-----------------------------------------------------------------------------
(* get_tfc_bottom_up.                                                      *)

RECURSIVE Size(_)
Size(p) ==
  CASE Kind(p) \in {"nil", "und"}     -> 0
    [] Kind(p) \in {"action", "test"} -> 1
    [] IsSequence(p)  -> 1 + FoldLeft(LAMBDA n, q : n + Size(q), 0, p[2])
    [] IsChoice(p)    -> 1 + FoldLeft(LAMBDA n, q : n + Size(q), 0, SetToSeq(p[2]))
    [] IsIteration(p) -> 1 + Size(p[2])

UpInit ==
  /\ Init
  /\ closure = {}
  /\ pending = {}
  /\ upTrans = {}
  /\ upFinal = [p \in {} |-> {}]
  /\ upCont = [p \in {} |-> {}]
  /\ upOutcome = "close"

\* The construction of module TFC, for comparison.
TopDown == Next /\ UNCHANGED upVars

ComputeClosure ==
  /\ outcome # "running"
  /\ upOutcome = "close"
  /\ closure' \in Closures(root)
  /\ pending' = closure'
  /\ upOutcome' = "running"
  /\ UNCHANGED <<tfcVars, upTrans, upFinal, upCont>>

\* Mutant of Smallest: the comparison is the other way round.
Largest(p) == \A q \in pending : Size(p) >= Size(q)

\* The top of the priority queue, which is any of the smallest programs.
Smallest(p) == \A q \in pending : Size(p) <= Size(q)

\* The tfc method reads the F of an argument that has none.
ReadsMissing(p) == ~ IsIteration(p) /\ ~ Args(p) \subseteq DOMAIN upFinal

\* What the tfc methods insert in T, from the entries of the arguments.
EntriesOf(p) ==
  CASE Kind(p) = "action" -> {[prog |-> p, act |-> p[2], guard |-> Pre[p[2]], succ |-> Nil]}
    [] IsSequence(p)  -> UNION {SequenceEntries(upTrans, upFinal, p, p[2], i) : i \in DOMAIN p[2]}
    [] IsChoice(p)    -> UNION {ChoiceEntries(upTrans, p, q) : q \in Args(p)}
    [] IsIteration(p) -> IterationEntries(upTrans, p)
    [] OTHER          -> {}

\* What they store as F.
FinalOf(p) ==
  CASE Kind(p) = "action" -> {}
    [] Kind(p) = "test"   -> Sat[p[2]]
    [] IsSequence(p) -> {s \in States : \A q \in Args(p) : s \in upFinal[q]}
    [] IsChoice(p)   -> UNION {upFinal[q] : q \in Args(p)}
    [] OTHER         -> States

UpVisit(p) ==
  /\ upOutcome = "running"
  /\ p \in pending
  /\ Smallest(p)

Compute ==
  /\ \E p \in closure :
       /\ UpVisit(p)
       /\ Kind(p) # "und"
       /\ Kind(p) = "action" => p[2] \in ActionNames
       /\ ~ ReadsMissing(p)
       /\ upTrans' = upTrans \cup EntriesOf(p)
       /\ upFinal' = Store(upFinal, p, FinalOf(p))
       /\ upCont' = Store(upCont, p, Continuation(upTrans', p, upFinal'[p]))
       /\ pending' = pending \ {p}
  /\ UNCHANGED <<tfcVars, closure, upOutcome>>

\* The tfc method of und does nothing.
SkipUnd ==
  /\ UpVisit(Und)
  /\ pending' = pending \ {Und}
  /\ UNCHANGED <<tfcVars, closure, upTrans, upFinal, upCont, upOutcome>>

\* An exception for an unknown action, a null dereference for a missing F.
Fail ==
  /\ \E p \in closure :
       /\ UpVisit(p)
       /\ \/ Kind(p) = "action" /\ p[2] \notin ActionNames /\ upOutcome' = "threw"
          \/ ReadsMissing(p) /\ upOutcome' = "crashed"
  /\ UNCHANGED <<tfcVars, closure, pending, upTrans, upFinal, upCont>>

Complete ==
  /\ upOutcome = "running"
  /\ pending = {}
  /\ upOutcome' = "done"
  /\ UNCHANGED <<tfcVars, closure, pending, upTrans, upFinal, upCont>>

UpEnded == upOutcome \in {"done", "threw", "crashed"} /\ UNCHANGED <<tfcVars, upVars>>

UpNext == TopDown \/ ComputeClosure \/ Compute \/ SkipUnd \/ Fail \/ Complete \/ UpEnded

UpSpec == UpInit /\ [][UpNext]_<<tfcVars, upVars>>

-----------------------------------------------------------------------------
(* Properties.                                                             *)

RECURSIVE Subprograms(_), IsLinear(_)
Subprograms(p) == {p} \cup UNION {Subprograms(q) : q \in Args(p)}

\* No program occurs at two places of p, except nil.
IsLinear(p) ==
  /\ \A q \in Args(p) : IsLinear(q)
  /\ \A args \in ArgLists(p) : \A i, j \in DOMAIN args :
       i # j => Subprograms(args[i]) \cap Subprograms(args[j]) \subseteq {Nil}

\* Smallest first, every argument has its F before it is read, unless it is und
\* (und below an iteration, which the other construction passes over, fails too,
\* because the closure unfolds the iteration); and the two constructions give the
\* programs that both have entries for the same T, F and C.
ConstructionsAgree ==
  /\ upOutcome = "done" => outcome = "done"
  /\ upOutcome = "threw" => outcome # "done"
  /\ upOutcome = "crashed" => Und \in Subprograms(root)
  /\ outcome = "done" /\ upOutcome = "done" =>
       \A p \in DOMAIN final \cap DOMAIN upFinal :
         TransOf(trans, p) = TransOf(upTrans, p) /\ final[p] = upFinal[p] /\ cont[p] = upCont[p]

\* In whatever order it meets the branches of a choice, the closure has the
\* successors of all its programs when no program occurs twice.
ClosedIfLinear ==
  upOutcome = "done" /\ IsLinear(root) => \A t \in upTrans : t.succ \in closure
=============================================================================
