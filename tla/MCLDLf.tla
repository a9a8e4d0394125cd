------------------------------- MODULE MCLDLf -------------------------------
(***************************************************************************)
(* The domain of the door, and programs with tests at the end, between     *)
(* actions and in an iteration.                                            *)
(***************************************************************************)
EXTENDS LDLfArena, Door

\* [closed]? ; push ; [open]?
Check == Then(Test("is_closed"), Then(Action(push), Test("is_open")))
\* (push | nop ; push)* ; [open]?
Loop == Then(Iteration(Or(Action(push), Then(Action(nop), Action(push)))), Test("is_open"))

MCRoots == {Knock, Force, Insist, Check, Loop, Nil, Und, Test("is_open")}

MCPrograms == Space(MCRoots)
=============================================================================
