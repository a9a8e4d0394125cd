-------------------------------- MODULE Door --------------------------------
(***************************************************************************)
(* An instance: a door that may or may not open when it is pushed, and     *)
(* programs about it.                                                      *)
(***************************************************************************)
EXTENDS GologProgram, Integers

CONSTANTS nop, push, enter, none

MCFacts == {"open", "inside"}

\* The door opens, or it does not.
PushOpen  == [act |-> push, react |-> "r0", prevail |-> {<<"open", 1>>},
              prepost |-> {[var |-> "open", pre |-> 1, post |-> 0, cond |-> {}]}]
PushStuck == [PushOpen EXCEPT !.react = "r1", !.prepost = {}]
Enter     == [act |-> enter, react |-> "r0", prevail |-> {<<"open", 0>>, <<"inside", 1>>},
              prepost |-> {[var |-> "inside", pre |-> 1, post |-> 0, cond |-> {}]}]

MCOperators == <<PushOpen, PushStuck, Enter>>
MCInitFacts == {}

MCSat == [phi \in {"is_open", "is_closed", "is_inside"} |->
            CASE phi = "is_open"   -> {s \in SUBSET MCFacts : "open" \in s}
              [] phi = "is_closed" -> {s \in SUBSET MCFacts : "open" \notin s}
              [] phi = "is_inside" -> {s \in SUBSET MCFacts : "inside" \in s}]

\* push ; if open then (enter ; [inside]?) else nop
Knock == Then(Action(push),
              Or(Then(Test("is_open"), Then(Action(enter), Test("is_inside"))),
                 Then(Test("is_closed"), Action(nop))))
\* push ; enter: the door may stay closed.
Force == Then(Action(push), Action(enter))
\* nop* ; push: the strategy must not wait for ever.
Wait == Then(Iteration(Action(nop)), Action(push))
\* push* ; [open]?: nobody says that the door opens at last.
Insist == Then(Iteration(Action(push)), Test("is_open"))

-----------------------------------------------------------------------------
(* What programs consist of and can become.                                *)

RECURSIVE Remainders(_)
Remainders(p) ==
  CASE Kind(p) = "action" -> {Nil}
    [] IsSequence(p)  -> UNION {{Rest(p[2], i, q) : q \in Remainders(p[2][i])} : i \in DOMAIN p[2]}
    [] IsChoice(p)    -> UNION {Remainders(q) : q \in p[2]}
    [] IsIteration(p) -> {Then(q, p) : q \in Remainders(p[2])}
    [] OTHER          -> {}

RECURSIVE Space(_)
Space(S) ==
  LET more == S \cup UNION {Args(p) \cup Remainders(p) : p \in S}
  IN  IF more = S THEN S ELSE Space(more)
=============================================================================
