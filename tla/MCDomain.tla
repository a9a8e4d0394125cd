------------------------------ MODULE MCDomain ------------------------------
(***************************************************************************)
(* A robot that moves a fragile object: with nop three actions in two bits *)
(* and three reactions in two bits, so that each side has a code without a *)
(* name.                                                                   *)
(***************************************************************************)
EXTENDS Domain

CONSTANTS nop, pick, drop, none

Effect(v, from, to) == [var |-> v, pre |-> from, post |-> to, cond |-> {}]

\* pick: from the table to the hand, or it falls, or it breaks on the table.
PickUp    == [act |-> pick, react |-> "r0", prevail |-> {<<"table", 0>>, <<"broken", 1>>},
              prepost |-> {Effect("table", 0, 1), Effect("hand", -1, 0)}]
PickFall  == [PickUp EXCEPT !.react = "r1", !.prepost = {Effect("table", 0, 1)}]
PickBreak == [PickUp EXCEPT !.react = "r2", !.prepost = {Effect("broken", 1, 0)}]
\* drop: from the hand to the table, in one way only.
PutDown   == [act |-> drop, react |-> "r0", prevail |-> {<<"hand", 0>>},
              prepost |-> {Effect("hand", 0, 1), Effect("table", -1, 0)}]

MCOperators == <<PickFall, PutDown, PickUp, PickBreak>>

MCInitFacts == {"table"}
=============================================================================
