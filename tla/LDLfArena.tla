------------------------------ MODULE LDLfArena ------------------------------
(***************************************************************************)
(* LDLfGologSynthesizer (src/src/ldlf_golog_synthesizer.cpp), the other    *)
(* algorithm: the program becomes an LDLf formula, and the automaton of    *)
(* the formula is composed with that of the domain.  The composition       *)
(* substitutes the domain's transition functions in the automaton, which   *)
(* so reads, in every step, the action and the facts after the action.     *)
(*                                                                         *)
(* The automaton is external.  Its state is the word that it has read; a   *)
(* state is final when the word satisfies the formula.                     *)
(***************************************************************************)
EXTENDS Domain, SequencesExt

CONSTANTS
  Roots,      \* the Golog programs
  Programs,   \* what these consist of and can become
  Facts,      \* the fact variables of the task
  Sat,        \* the states that satisfy the formula of a test
  MaxLetters  \* bound on the length of a word

VARIABLES
  root,   \* golog_program_
  word    \* what the automaton of the formula has read

ldlfVars == <<domainVars, root, word>>

-----------------------------------------------------------------------------
(* Golog2LDLf and to_ldlf (src/src/golog_program.cpp): a Golog program as   *)
(* a formula of linear dynamic logic on finite traces.  The meaning of the  *)
(* formula is that of the logic, which the automaton that LydiaSyft makes   *)
(* of it accepts.                                                           *)
(*                                                                          *)
(* A trace is a sequence of letters [code, facts].                          *)

\* Formulas over one letter.
LetterTrue  == <<"true">>
HasCode(c)  == <<"code", c>>
HasFacts(phi) == <<"facts", phi>>

\* Regular expressions, and formulas.
PropRegex(f)    == <<"prop", f>>
TestRegex(psi)  == <<"test", psi>>
SeqRegex(rs)    == <<"seq", rs>>
UnionRegex(rs)  == <<"union", rs>>
StarRegex(r)    == <<"star", r>>

True == <<"tt">>
False == <<"ff">>
Diamond(r, psi) == <<"diamond", r, psi>>
Box(r, psi)     == <<"box", r, psi>>

\* No letter is left; exactly one is.
LdlfEnd  == Box(PropRegex(LetterTrue), False)
LdlfLast == Diamond(PropRegex(LetterTrue), LdlfEnd)

-----------------------------------------------------------------------------
(* The translation.                                                        *)

IterationRegex(r) == StarRegex(r)

SequenceRegex(rs) == SeqRegex(rs)

\* Golog2LDLf::visit.
RECURSIVE Regex(_)
Regex(p) ==
  CASE Kind(p) = "nil"    -> TestRegex(True)
    [] Kind(p) = "und"    -> TestRegex(False)
    [] Kind(p) = "action" -> PropRegex(HasCode(actionCode[p[2]]))
    [] Kind(p) = "test"   -> TestRegex(Diamond(PropRegex(HasFacts(p[2])), LdlfEnd))
    [] IsSequence(p)      -> SequenceRegex([i \in DOMAIN p[2] |-> Regex(p[2][i])])
    [] IsChoice(p)        -> UnionRegex({Regex(q) : q \in p[2]})
    [] IsIteration(p)     -> IterationRegex(Regex(p[2]))

ToLDLf(p) == Diamond(Regex(p), LdlfLast)

-----------------------------------------------------------------------------
(* The logic (external).                                                   *)

Models(letter, f) ==
  CASE f[1] = "true"  -> TRUE
    [] f[1] = "code"  -> letter.code = f[2]
    [] f[1] = "facts" -> letter.facts \in Sat[f[2]]

RECURSIVE Holds(_, _, _), Ends(_, _, _), Closed(_, _, _)

\* The positions of w, counted from 0, where a match of r from position i ends.
Ends(r, w, i) ==
  CASE r[1] = "prop"  -> {j \in {i + 1} : i < Len(w) /\ Models(w[j], r[2])}
    [] r[1] = "test"  -> {j \in {i} : Holds(r[2], w, i)}
    [] r[1] = "seq"   -> FoldLeft(LAMBDA S, q : UNION {Ends(q, w, j) : j \in S}, {i}, r[2])
    [] r[1] = "union" -> UNION {Ends(q, w, i) : q \in r[2]}
    [] r[1] = "star"  -> Closed(r[2], w, {i})

Closed(r, w, S) ==
  LET next == S \cup UNION {Ends(r, w, j) : j \in S}
  IN  IF next = S THEN S ELSE Closed(r, w, next)

\* psi holds of w from position i on.
Holds(psi, w, i) ==
  CASE psi[1] = "tt"      -> TRUE
    [] psi[1] = "ff"      -> FALSE
    [] psi[1] = "diamond" -> \E j \in Ends(psi[2], w, i) : Holds(psi[3], w, j)
    [] psi[1] = "box"     -> \A j \in Ends(psi[2], w, i) : Holds(psi[3], w, j)

-----------------------------------------------------------------------------
(* The composition.                                                        *)

LDLfInit ==
  /\ DomainInit
  /\ root \in Roots
  /\ word = <<>>

LoadDomain == Load /\ UNCHANGED <<root, word>>

\* Mutant of Letter: the automata are put side by side as in the other algorithm.
LetterBefore(x) == [code |-> x, facts |-> facts]

\* What the automaton reads once the domain's next facts have been substituted.
Letter(x) == [code |-> x, facts |-> facts']

\* A step of the composed automaton.
Compose ==
  /\ phase = "play"
  /\ Len(word) < MaxLetters
  /\ \E x \in Codes(ActionNames), y \in Codes(ReactionNames) :
       /\ Read(x, y)
       /\ word' = Append(word, Letter(x))
  /\ UNCHANGED root

\* final_states of compose.
Final == ~ agErr /\ (envErr \/ Holds(ToLDLf(root), word, 0))

LDLfNext == LoadDomain \/ Compose

LDLfSpec == LDLfInit /\ [][LDLfNext]_ldlfVars

-----------------------------------------------------------------------------
(* Properties.                                                             *)

\* Golog's own semantics, and one in which no test lets an action follow.  The
\* domain looks after the preconditions.
Unguarded == [n \in ActionNames |-> SUBSET Facts]

Golog == INSTANCE GologSemantics WITH States <- SUBSET Facts, Pre <- Unguarded

Testless == INSTANCE GologSemantics WITH
              States <- SUBSET Facts, Pre <- Unguarded, Sat <- [phi \in DOMAIN Sat |-> {}]

\* The k-th action of the word, and the facts before it.
ActionAt(k) == NameOf(actionCode, word[k].code)
FactsBefore(k) == IF k = 1 THEN InitFacts ELSE word[k - 1].facts

\* What may remain of the program after all letters but the last, for a relation
\* that says what remains of a program after the k-th letter.
LeftOver(Step(_, _)) ==
  FoldLeft(LAMBDA S, k : UNION {Step(p, k) : p \in S}, {root}, [k \in 1 .. Len(word) - 1 |-> k])

\* What the formula says, for a player who broke no rule: the word is a run of
\* the program, with one letter more.  A test is passed only where no action of
\* the program follows, and reads the facts at the end, after that letter.
AcceptsRunsAndOneMore ==
  phase = "play" =>
    (Final <=> /\ ~ agErr
               /\ \/ envErr
                  \/ /\ word # <<>>
                     /\ \E p \in LeftOver(LAMBDA p, k : Testless!After(p, ActionAt(k), FactsBefore(k))) :
                          Golog!MayEnd(p, facts))
=============================================================================
