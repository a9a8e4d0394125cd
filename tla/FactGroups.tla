----------------------------- MODULE FactGroups -----------------------------
(***************************************************************************)
(* compute_groups (src/submodules/fact_groups.py): invariants are found,    *)
(* their instances that start with one true atom become groups of reachable *)
(* atoms, and of these the ones are chosen that become the finite-domain    *)
(* variables: always a largest one, whose atoms are then taken out of the   *)
(* others.                                                                  *)
(***************************************************************************)
EXTENDS Invariants

CONSTANT Encodings  \* values of partial_encoding

ASSUME EncodingsAssumption == Encodings \subseteq BOOLEAN

VARIABLES
  reachable,  \* reachable_facts
  lifted,     \* the groups of invariant_finder; a group is a set of templates
              \* [instances, counted], counted if it has the variable ?X
  partial,    \* partial_encoding
  phase,      \* "find", "search", "pop" or "done"
  remaining,  \* the groups of the queue, which shrink; a group is known by its number
  bySize,     \* groups_by_size: stacks of group numbers
  maxSize,    \* max_size
  top,        \* the group on top
  uncovered,  \* uncovered_facts
  chosen      \* the result, a sequence of sets

fgVars == <<reachable, lifted, partial, phase, remaining, bySize, maxSize, top, uncovered, chosen>>

\* expand_group: only instances of ?X are looked up among the reachable atoms.
Expanded(group) ==
  UNION {IF t.counted THEN t.instances \cap reachable ELSE t.instances : t \in group}

Groups == [i \in DOMAIN lifted |-> Expanded(lifted[i])]

Sizes(groups) == {Cardinality(groups[i]) : i \in DOMAIN groups}

Largest(S) == CHOOSE n \in S : \A k \in S : k <= n

\* collect_all_mutex_groups.
MutexGroups ==
  ToSet(Groups) \cup {{a} : a \in reachable \ UNION ToSet(Groups)}

FGInit ==
  /\ reachable = {}
  /\ lifted = <<>>
  /\ partial \in Encodings
  /\ remaining = <<>>
  /\ maxSize = 0
  /\ bySize = <<>>
  /\ phase = "find"
  /\ top = {}
  /\ uncovered = {}
  /\ chosen = <<>>

\* The numbers of the groups of size n, in order.
Filed(sizes, n) ==
  LET upTo[k \in 0..Len(sizes)] ==
        IF k = 0 THEN <<>> ELSE IF sizes[k] = n THEN Append(upTo[k - 1], k) ELSE upTo[k - 1]
  IN  upTo[Len(sizes)]

\* instantiate_groups and GroupCoverQueue: every group is filed under its size.
Instantiate(groups, atoms) ==
  /\ phase = "find"
  /\ reachable' = atoms
  /\ lifted' = groups
  /\ remaining' = Groups'
  /\ maxSize' = IF groups = <<>> THEN 0 ELSE Largest(Sizes(remaining'))
  /\ bySize' = [n \in 0..maxSize' |-> Filed([i \in DOMAIN groups |-> Cardinality(remaining'[i])], n)]
  /\ phase' = IF maxSize' > 1 THEN "search" ELSE "pop"
  /\ uncovered' = atoms
  /\ UNCHANGED <<partial, top, chosen>>

-----------------------------------------------------------------------------
(* _update_top.                                                            *)

Candidate == Last(bySize[maxSize])

IsLargest(i) == Cardinality(remaining[i]) = maxSize

Take ==
  /\ phase = "search" /\ bySize[maxSize] # <<>>
  /\ IsLargest(Candidate)
  /\ top' = remaining[Candidate]
  /\ bySize' = [bySize EXCEPT ![maxSize] = Front(@)]
  /\ phase' = "pop"
  /\ UNCHANGED <<reachable, lifted, partial, remaining, maxSize, uncovered, chosen>>

\* Mutant of SizeNow: the group stays where it was.
SizeBefore(i) == maxSize

SizeNow(i) == Cardinality(remaining[i])

\* A group that has shrunk is filed under its present size.
Refile ==
  /\ phase = "search" /\ bySize[maxSize] # <<>>
  /\ ~IsLargest(Candidate)
  /\ bySize' = [bySize EXCEPT ![maxSize] = Front(@), ![SizeNow(Candidate)] = Append(@, Candidate)]
  /\ UNCHANGED <<reachable, lifted, partial, phase, remaining, maxSize, top, uncovered, chosen>>

Descend ==
  /\ phase = "search" /\ bySize[maxSize] = <<>>
  /\ maxSize' = maxSize - 1
  /\ phase' = IF maxSize' > 1 THEN "search" ELSE "pop"
  /\ UNCHANGED <<reachable, lifted, partial, remaining, bySize, top, uncovered, chosen>>

-----------------------------------------------------------------------------
(* choose_groups.                                                          *)

\* Mutant of Shrunk: only the group on top loses its atoms.
ShrunkTop(group) == IF group = top THEN {} ELSE group

\* pop removes the atoms of the top from the groups that contain them.
Shrunk(group) == IF partial THEN group \ top ELSE group

Pop ==
  /\ phase = "pop" /\ maxSize > 1
  /\ chosen' = Append(chosen, top)
  /\ uncovered' = uncovered \ top
  /\ remaining' = [i \in DOMAIN remaining |-> Shrunk(remaining[i])]
  /\ phase' = "search"
  /\ UNCHANGED <<reachable, lifted, partial, bySize, maxSize, top>>

\* The queue is empty: every atom that is left gets a group of its own.
AddUncovered ==
  /\ phase = "pop" /\ maxSize <= 1
  /\ chosen' = chosen \o SetToSeq({{a} : a \in uncovered})
  /\ phase' = "done"
  /\ UNCHANGED <<reachable, lifted, partial, remaining, bySize, maxSize, top, uncovered>>

FGNext == Take \/ Refile \/ Descend \/ Pop \/ AddUncovered

\* Groups of finitely many atoms.
AreGroups(groups) ==
  /\ groups \in Seq(ToSet(groups))
  /\ \A group \in ToSet(groups) : IsFiniteSet(group) /\ \A t \in group : IsFiniteSet(t.instances)

AnyGroups == \E groups, atoms : AreGroups(groups) /\ IsFiniteSet(atoms) /\ Instantiate(groups, atoms)

\* Groups are chosen, whatever groups and atoms there are.
FGSpec == FGInit /\ [][AnyGroups \/ FGNext]_fgVars

-----------------------------------------------------------------------------
(* compute_groups.                                                         *)

cgVars == <<invVars, fgVars>>

CGInit == InvInit /\ FGInit

\* get_groups: find_invariants is a generator that is run to its end.
Find == phase = "find" /\ InvNext /\ UNCHANGED fgVars

\* InvariantPart.instantiate: ?X in the place that is counted.
Instances(part, values) ==
  {a \in task.atoms : a.pred = part.pred /\ Parameters(part, a) = values}

\* The atoms that a part stands for: if no place is counted it is one atom,
\* which need not be reachable.
Template(part, values) ==
  IF part.omitted = -1
  THEN [instances |-> {[pred |-> part.pred,
                        args |-> [i \in DOMAIN part.order |-> values[CHOOSE k \in DOMAIN part.order : part.order[k] = i]]]},
        counted |-> FALSE]
  ELSE [instances |-> Instances(part, values), counted |-> TRUE]

InstantiateGroups ==
  /\ ~finding
  /\ Instantiate(SetToSeq({{Template(part, g[2]) : part \in g[1]} : g \in UsefulGroups}), task.atoms)
  /\ UNCHANGED invVars

ChooseGroups == FGNext /\ UNCHANGED invVars

CGEnded == phase = "done" /\ UNCHANGED cgVars

CGNext == Find \/ InstantiateGroups \/ ChooseGroups \/ CGEnded

\* A sequence of calls that runs to its end.
CGSpec == CGInit /\ [][CGNext]_cgVars /\ WF_cgVars(CGNext)

-----------------------------------------------------------------------------
(* Properties.                                                             *)

\* The assertion of strips_to_sas_dictionary: with the partial encoding every
\* reachable atom becomes a value of exactly one variable, without it of at
\* least one.
EveryAtomOnce ==
  phase = "done" =>
    \A a \in reachable :
      LET homes == {k \in DOMAIN chosen : a \in chosen[k]}
      IN  IF partial THEN Cardinality(homes) = 1 ELSE homes # {}

\* A variable keeps to one of the mutex groups, so that it has no more true atoms
\* than the group: what is left of a group after others were chosen is part of it,
\* and an atom in no group is a mutex group of its own.
WithinGroups == phase = "done" => \A g \in ToSet(chosen) : \E m \in MutexGroups : g \subseteq m

\* Groups are found and chosen: refuted candidates make new ones, and groups are
\* filed again and again, but both come to an end.
GroupingEnds == <>(phase = "done")
=============================================================================
