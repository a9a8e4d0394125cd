------------------------------ MODULE MCArena ------------------------------
(***************************************************************************)
(* The domain of the door, and six programs: realizable, not, and          *)
(* undefined.  With nop there are three actions in two bits, so one code   *)
(* is nobody's.                                                            *)
(***************************************************************************)
EXTENDS Arena, Door

MCRoots == {Knock, Force, Wait, Insist, Nil, Und}

MCPrograms == Space(MCRoots)
=============================================================================
