--------------------------- MODULE GologSemantics ---------------------------
(***************************************************************************)
(* The steps and the termination of a Golog program, defined on its        *)
(* syntax: a reference that does without the tables the implementation     *)
(* builds.                                                                 *)
(***************************************************************************)
EXTENDS GologProgram

CONSTANTS
  Programs,  \* the programs spoken of, with their arguments
  States,    \* the valuations of the fluents
  Sat,       \* Sat[phi]: the states that satisfy the formula of a test
  Pre        \* Pre[a]: the states in which action a is executable

\* F: the states in which p may terminate, given those of its arguments.
EndingOf(F, p) ==
  CASE Kind(p) \in {"action", "und"} -> {}
    [] Kind(p) = "test" -> Sat[p[2]]
    [] IsSequence(p)    -> {s \in States : \A q \in Args(p) : s \in F[q]}
    [] IsChoice(p)      -> UNION {F[q] : q \in Args(p)}
    [] OTHER            -> States

Ending[p \in Programs] == EndingOf(Ending, p)

MayEnd(p, s) == s \in Ending[p]

Move(a, s, q) == [act |-> a, state |-> s, rest |-> q]

\* T: the moves of p, each an action, a state and what then remains of p, given
\* those of its arguments.
MovesOf(T, p) ==
  CASE Kind(p) = "action" -> {Move(p[2], s, Nil) : s \in Pre[p[2]]}
    [] IsSequence(p)      ->
         UNION {{Move(m.act, m.state, Rest(p[2], i, m.rest)) :
                   m \in {n \in T[p[2][i]] : \A k \in 1 .. i - 1 : MayEnd(p[2][k], n.state)}} :
                i \in DOMAIN p[2]}
    [] IsChoice(p)        -> UNION {T[q] : q \in Args(p)}
    [] IsIteration(p)     -> {Move(m.act, m.state, Sequence(<<m.rest, p>>)) : m \in T[p[2]]}
    [] OTHER              -> {}

Moves[p \in Programs] == MovesOf(Moves, p)

\* What may remain of p after action a in s.
After(p, a, s) == {m.rest : m \in {n \in Moves[p] : n.act = a /\ n.state = s}}
=============================================================================
