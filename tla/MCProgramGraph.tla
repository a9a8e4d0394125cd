--------------------------- MODULE MCProgramGraph ---------------------------
(***************************************************************************)
(* From the program to the automaton: one fluent, three actions, programs *)
(* that exercise shared arguments, nested and nullable iterations, tests   *)
(* between actions and nondeterministic choices, and deterministic ones    *)
(* with a conditional and a loop.  The programs' meaning is defined a      *)
(* second time here, by splitting runs along the syntax tree, as a         *)
(* reference for T, F and C; the graph of a deterministic program is shown *)
(* to implement GologRun.                                                  *)
(***************************************************************************)
EXTENDS TFCProperties

CONSTANTS act_a, act_b, act_c

MCActionNames == {act_a, act_b, act_c}

\* A domain state is the set of fluents that hold.
MCStates == SUBSET {"f"}

MCSat == [phi \in {"f", "not_f", "false"} |->
            CASE phi = "f"     -> {{"f"}}
              [] phi = "not_f" -> {{}}
              [] phi = "false" -> {}]

\* act_c is executable nowhere: its entry has the empty guard.
MCPre == [x \in MCActionNames |->
            CASE x = act_a -> MCStates
              [] x = act_b -> {{"f"}}
              [] x = act_c -> {}]

A == Action(act_a)
B == Action(act_b)
C == Action(act_c)

\* [f]? ; a | a : two branches, one successor, overlapping guards.
GuardedOrPlain == Or(Then(Test("f"), A), A)
\* (a ; b) | (a ; [f]? ; a) : the choice is made later than the first action.
LateChoice == Or(Then(A, B), Then(A, Then(Test("f"), A)))
\* ((a | nil)* ; b)* : an iteration whose body may terminate at once.
NestedStar == Iteration(Then(Iteration(Or(A, Nil)), B))
\* (a ; b) ; (a ; b) : the same argument twice, visited once.
SharedArgs == Then(Then(A, B), Then(A, B))
\* ([not f]? | a)* ; [f]? ; (c | b) : nullable prefix and a dead action.
TestedLoop == Then(Iteration(Or(Test("not_f"), A)), Then(Test("f"), Or(C, B)))
\* A sequence blocked by its first test, and the star of a star of b | b.
Blocked    == Or(Then(Test("false"), A), Iteration(Iteration(Or(B, B))))

\* if f then (a ; b) else (a ; a), for which the language has no other form.
IfThenElse ==
  Or(Then(Test("f"), Then(A, B)), Then(Test("not_f"), Then(A, A)))
\* while f do (a ; b)
WhileDo == Then(Iteration(Then(Test("f"), Then(A, B))), Test("not_f"))
\* (a | b) ; (a | b): two entries to one successor, which is expanded twice.
TwoOfAny == Then(Or(A, B), Or(A, B))
\* a* ; b: the iteration may be skipped in every round.
LoopThenB == Then(Iteration(A), B)

MCRoots ==
  {GuardedOrPlain, LateChoice, NestedStar, SharedArgs, TestedLoop, Blocked, Nil,
   IfThenElse, WhileDo, TwoOfAny, LoopThenB}

RECURSIVE Height(_)
Height(p) == IF Args(p) = {} THEN 0
             ELSE 1 + (CHOOSE h \in {Height(q) : q \in Args(p)} :
                         \A q \in Args(p) : Height(q) <= h)

\* Syntactic derivatives: every program one step may lead to.
RECURSIVE Derivatives(_)
Derivatives(p) ==
  CASE Kind(p) = "action" -> {Nil}
    [] IsSequence(p)  -> UNION {{Rest(p[2], i, s) : s \in Derivatives(p[2][i])} : i \in DOMAIN p[2]}
    [] IsChoice(p)    -> UNION {Derivatives(q) : q \in p[2]}
    [] IsIteration(p) -> {Sequence(<<s, p>>) : s \in Derivatives(p[2])}
    [] OTHER          -> {}

RECURSIVE Closure(_)
Closure(S) ==
  LET more == S \cup UNION {Args(p) \cup Derivatives(p) : p \in S}
  IN  IF more = S THEN S ELSE Closure(more)

MCPrograms == Closure({Nil} \cup MCRoots)
MCSuccs    == [p \in MCPrograms |-> Derivatives(p)]
MCDepth    == [p \in MCPrograms |-> Height(p)]

-----------------------------------------------------------------------------
(* Reference semantics.  A run is a sequence of states with the actions     *)
(* between them; consecutive states are unrelated, because what an action   *)
(* does to the fluents is not the business of T, F and C.                   *)

MaxRunLength == 3   \* bound on the number of actions of a reference run

ReferenceRuns ==
  UNION {[st : [1 .. n + 1 -> States], ac : [1 .. n -> {act_a, act_b}]] : n \in 0 .. MaxRunLength}

\* The part of a run from its i-th to its j-th state.
Part(run, i, j) == [st |-> SubSeq(run.st, i, j), ac |-> SubSeq(run.ac, i, j - 1)]

RECURSIVE IsRunOf(_, _)
IsRunOf(p, run) ==
  LET last == Len(run.st)
  IN  CASE Kind(p) = "nil"    -> last = 1
        [] Kind(p) = "test"   -> last = 1 /\ run.st[1] \in Sat[p[2]]
        [] Kind(p) = "action" -> last = 2 /\ run.ac[1] = p[2] /\ run.st[1] \in Pre[p[2]]
        [] IsChoice(p)        -> \E q \in p[2] : IsRunOf(q, run)
        [] IsSequence(p)      ->
             IF Len(p[2]) = 1 THEN IsRunOf(p[2][1], run)
             ELSE \E i \in 1 .. last :
                    /\ IsRunOf(p[2][1], Part(run, 1, i))
                    /\ IsRunOf(Sequence(Tail(p[2])), Part(run, i, last))
        [] IsIteration(p)     ->
             \/ last = 1
             \/ \E i \in 2 .. last :
                  /\ IsRunOf(p[2], Part(run, 1, i))
                  /\ IsRunOf(p, Part(run, i, last))

\* The runs that T and F accept from p.
RECURSIVE Accepts(_, _)
Accepts(p, run) ==
  LET last == Len(run.st)
  IN  IF last = 1 THEN run.st[1] \in final[p]
      ELSE \E t \in TransOf(trans, p) :
             /\ t.act = run.ac[1]
             /\ run.st[1] \in t.guard
             /\ Accepts(t.succ, Part(run, 2, last))

\* The computed functions describe the program: along every run, T and F reach
\* a final configuration exactly when the run is an execution of the program.
FunctionsDescribeProgram ==
  stage = "tfc" /\ outcome = "done" =>
    \A run \in ReferenceRuns : Accepts(root, run) = IsRunOf(root, run)

=============================================================================
