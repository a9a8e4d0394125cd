---------------------------- MODULE ProgramGraph ----------------------------
(***************************************************************************)
(* ExplicitStateProgramGraph (src/src/program_graph.cpp): from T, F and C  *)
(* of a Golog program to a deterministic automaton whose states are bit    *)
(* vectors.  from_golog_program collects the programs reachable from the   *)
(* root, numbers them from 1 (0 is the sink), and adds up, per program,    *)
(* one ADD per entry of T; to_symbolic encodes the numbers in as many bits *)
(* as the largest one needs.  The automaton is then run against a domain   *)
(* that may change the fluents at will.                                    *)
(*                                                                         *)
(* The construction of T, F and C is the one of TFC; the variables of this *)
(* module are those of from_golog_program and to_symbolic.                 *)
(***************************************************************************)
EXTENDS TFC

CONSTANTS
  NoAction    \* a code of the action variables that no action name has

VARIABLES
  stage,      \* "tfc", "reach", "sum", "encode", "play" or "threw"
  frontier,   \* frontier: programs to expand, possibly several times the same
  explored,   \* visited_programs of from_golog_program
  reachable,  \* reachable_programs
  programId,  \* program_id, a partial map from programs
  pending,    \* the entries of T that the sum has not met yet
  delta,      \* transition_function_: the ADD of each state number
  maxState,   \* max_state of create_state_variables
  codes,      \* 2^bit_count
  code,       \* the bit vector of the automaton's state, as a number
  fluents     \* the domain state

graphVars == <<stage, frontier, explored, reachable, programId, pending, delta, maxState, codes>>
playVars == <<code, fluents>>
pgVars == <<graphVars, playVars>>

Inputs == States \X ActionNames

\* Mutant of StateCount: the sink is not counted.
ProgramCount == Cardinality(reachable)

StateCount == Cardinality(reachable) + 1

\* program_id[p]: operator[] reads an absent program as 0.
Id(p) == IF p \in DOMAIN programId THEN programId[p] ELSE 0

-----------------------------------------------------------------------------
(* from_golog_program.                                                     *)

PGInit ==
  /\ Init
  /\ stage = "tfc"
  /\ frontier = <<>>
  /\ explored = {}
  /\ reachable = {}
  /\ programId = [p \in {} |-> 0]
  /\ pending = {}
  /\ delta = <<>>
  /\ maxState = 0
  /\ codes = 1
  /\ code = 0
  /\ fluents \in States

\* get_tfc is one call: nothing else happens until it returns.
ComputeTFC ==
  /\ stage = "tfc"
  /\ Next
  /\ UNCHANGED pgVars

StartReach ==
  /\ stage = "tfc"
  /\ outcome = "done"
  /\ stage' = "reach"
  /\ frontier' = <<root>>
  /\ reachable' = {root}
  /\ UNCHANGED <<tfcVars, explored, programId, pending, delta, maxState, codes, playVars>>

\* The entries of T for p whose successor has not been expanded.
Unexplored(p) == {t \in TransOf(trans, p) : t.succ \notin explored \cup {p}}

\* Expands the program in front: every such entry pushes its successor, in the
\* order of the map.
Expand ==
  /\ stage = "reach"
  /\ frontier # <<>>
  /\ LET curr == Head(frontier)
     IN  /\ explored' = explored \cup {curr}
         /\ reachable' = reachable \cup {t.succ : t \in TransOf(trans, curr)}
         /\ \E order \in Orders(Unexplored(curr)) :
              frontier' = Tail(frontier) \o [i \in DOMAIN order |-> order[i].succ]
  /\ UNCHANGED <<tfcVars, stage, programId, pending, delta, maxState, codes, playVars>>

\* Numbers the reachable programs in the order of the unordered set.
Number ==
  /\ stage' = "sum"
  /\ \E order \in Orders(reachable) :
       programId' = [p \in reachable |-> CHOOSE i \in DOMAIN order : order[i] = p]
  /\ pending' = trans
  /\ delta' = [i \in 0 .. StateCount - 1 |-> [v \in Inputs |-> 0]]

\* f.at and c.at throw for a program without entries.
MissingValue == ~ reachable \subseteq DOMAIN final

AssignIds ==
  /\ stage = "reach"
  /\ frontier = <<>>
  /\ IF MissingValue THEN stage' = "threw" /\ UNCHANGED <<programId, pending, delta>> ELSE Number
  /\ UNCHANGED <<tfcVars, frontier, explored, reachable, maxState, codes, playVars>>

\* continuation_function of a state number: C of its program, nothing for the sink.
ContinuationOf(p) == IF p \in reachable THEN cont[p] ELSE {}

\* The ADD of one entry: the number of its successor where the entry applies.
Contribution(t) ==
  [v \in Inputs |->
     IF v[2] = t.act /\ v[1] \in t.guard \cap ContinuationOf(t.prog) THEN Id(t.succ) ELSE 0]

\* The sum of two ADDs.
Plus(f, g) == [v \in Inputs |-> f[v] + g[v]]

\* transition_function[...] += tf, for one entry of T.  T also has entries of
\* programs that are not reachable; operator[] gives these the number 0.  The
\* sum does not depend on the order of the entries, so one order is enough.
SumEntry ==
  /\ stage = "sum"
  /\ pending # {}
  /\ LET t == CHOOSE t \in pending : TRUE
         i == Id(t.prog)
     IN  /\ delta' = [delta EXCEPT ![i] = Plus(@, Contribution(t))]
         /\ programId' = [p \in DOMAIN programId \cup {t.prog, t.succ} |-> Id(p)]
         /\ pending' = pending \ {t}
  /\ UNCHANGED <<tfcVars, stage, frontier, explored, reachable, maxState, codes, playVars>>

-----------------------------------------------------------------------------
(* to_symbolic.                                                            *)

StartEncoding ==
  /\ stage = "sum"
  /\ pending = {}
  /\ stage' = "encode"
  /\ maxState' = StateCount - 1
  /\ UNCHANGED <<tfcVars, frontier, explored, reachable, programId, pending, delta, codes, playVars>>

\* One more bit while bits of the largest state number remain.
AddBit ==
  /\ stage = "encode"
  /\ maxState > 0
  /\ maxState' = maxState \div 2
  /\ codes' = 2 * codes
  /\ UNCHANGED <<tfcVars, stage, frontier, explored, reachable, programId, pending, delta, playVars>>

\* state_to_binary fills up or cuts off a number at bit_count bits.
Encode(n) == n % codes

StartPlay ==
  /\ stage = "encode"
  /\ maxState = 0
  /\ stage' = "play"
  /\ code' = Encode(programId[root])
  /\ UNCHANGED <<tfcVars, frontier, explored, reachable, programId, pending, delta,
                 maxState, codes, fluents>>

\* symbolic_transition_function: each bit is a disjunction over the states that
\* exist, so a code without a state leads to 0.
NextCode(z, s, x) ==
  IF z \in DOMAIN delta /\ x \in ActionNames THEN Encode(delta[z][<<s, x>>]) ELSE 0

\* final_states_to_bdd.
AcceptingCode(z, s) == \E p \in reachable : programId[p] = z /\ s \in final[p]

Accepting == stage = "play" /\ AcceptingCode(code, fluents)

\* The automaton reads the fluents and an action code; the domain moves on.
Play ==
  /\ stage = "play"
  /\ \E x \in ActionNames \cup {NoAction} : code' = NextCode(code, fluents, x)
  /\ fluents' \in States
  /\ UNCHANGED <<tfcVars, graphVars>>

Construct ==
  ComputeTFC \/ StartReach \/ Expand \/ AssignIds
    \/ SumEntry \/ StartEncoding \/ AddBit \/ StartPlay

\* An exception has ended the program.
Stopped == stage = "threw" \/ outcome \in {"threw", "crashed"}

PGNext == Construct \/ Play

\* The construction is a sequence of calls that runs to its end; what is played
\* afterwards is up to the players.
PGSpec == PGInit /\ [][PGNext]_<<tfcVars, pgVars>> /\ WF_<<tfcVars, pgVars>>(Construct)

-----------------------------------------------------------------------------
(* Properties.                                                             *)

\* No two entries of a program apply to the same action in the same state.
Deterministic ==
  \A t, u \in trans : t.prog = u.prog /\ t.act = u.act /\ t.guard \cap u.guard # {} => t = u

\* The construction comes to an end, with a graph or with an exception.
ConstructionEnds == <>(stage \in {"play", "threw"})
=============================================================================
