------------------------------ MODULE Simplify ------------------------------
(***************************************************************************)
(* filter_unreachable_propositions (src/submodules/simplify.py): a graph    *)
(* of the transitions of each variable shows which values it can reach.     *)
(* The others are removed, and variables that are left with one value; the  *)
(* task is rewritten with the new numbers.                                  *)
(***************************************************************************)
EXTENDS Integers, FiniteSets, Sequences

CONSTANT SasTasks  \* tasks as in SasTask, the operators numbered

VARIABLES
  sas,       \* the task as it was translated
  phase,     \* "graph", "reach", "apply", "run", "unsolvable" or "failed"
  unread,    \* the operators of the loop that have not been looked at
  arcs,      \* dtgs[v].arcs, as pairs
  reached,   \* dtgs[v].reachable()
  queue,     \* the values of reachable() that have not been expanded
  result,    \* the operators of the new task
  values     \* the values of its variables, in its numbering

\* The pairs of a variable and one of its values.
Atoms(t) == UNION {{v} \X (0..(t.ranges[v] - 1)) : v \in DOMAIN t.ranges}

\* What translate_task builds: pairs come from the translation key, and the first
\* value of an effect stays a prevail condition of its operator (as long as
\* implied preconditions are off, which is the default of translate.py).
TasksAssumption ==
  \A t \in SasTasks :
    /\ t.ranges \in Seq(Nat) /\ t.init \in [DOMAIN t.ranges -> Nat]
    /\ \A v \in DOMAIN t.ranges : <<v, t.init[v]>> \in Atoms(t)
    /\ \A C \in {t.goal} \cup t.mutexes : C \subseteq Atoms(t)
    /\ \A o \in t.operators :
         /\ o.prevail \subseteq Atoms(t)
         /\ \A e \in o.effects :
              /\ <<e.var, e.post>> \in Atoms(t) /\ e.condition \subseteq Atoms(t)
              /\ e.pre = -1 \/ <<e.var, e.pre>> \in o.prevail
    /\ \A x \in t.axioms : x.condition \subseteq Atoms(t) /\ x.effect \in Atoms(t)

ASSUME TasksAreTranslated == TasksAssumption

siVars == <<sas, phase, unread, arcs, reached, queue, result, values>>

Vars == DOMAIN sas.ranges

Domain(v) == 0..(sas.ranges[v] - 1)

-----------------------------------------------------------------------------
(* build_dtgs and DomainTransitionGraph.reachable.                         *)

\* get_effective_pre: an effect that asks for two values of its variable can
\* never happen.
Contradictory(e) ==
  LET asked == ({e.pre} \ {-1}) \cup {p[2] : p \in {q \in e.condition : q[1] = e.var}}
  IN  Cardinality(asked) > 1

\* add_arc.
Arcs(v, pre, post) == (IF pre = -1 THEN Domain(v) \ {post} ELSE {pre}) \X {post}

SiInit ==
  /\ sas \in SasTasks
  /\ phase = IF sas.operators = {} THEN "reach" ELSE "graph"
  /\ unread = sas.operators
  /\ arcs = [v \in Vars |-> UNION {Arcs(v, -1, x.effect[2]) : x \in {y \in sas.axioms : y.effect[1] = v}}]
  /\ reached = [v \in Vars |-> {sas.init[v]}]
  /\ queue = reached
  /\ result = {}
  /\ values = <<>>

\* The arcs of an operator for one variable.
ArcsOf(o, v) ==
  UNION {Arcs(v, e.pre, e.post) : e \in {f \in o.effects : f.var = v /\ ~Contradictory(f)}}

ReadOperator(o) ==
  /\ phase = "graph" /\ o \in unread
  /\ arcs' = [v \in Vars |-> arcs[v] \cup ArcsOf(o, v)]
  /\ unread' = unread \ {o}
  /\ phase' = IF unread' = {} THEN "reach" ELSE phase
  /\ UNCHANGED <<sas, reached, queue, result, values>>

Expand(v, n) ==
  /\ phase = "reach" /\ n \in queue[v]
  /\ LET new == {a[2] : a \in {b \in arcs[v] : b[1] = n}} \ reached[v]
     IN  /\ reached' = [reached EXCEPT ![v] = @ \cup new]
         /\ queue' = [queue EXCEPT ![v] = (@ \ {n}) \cup new]
  /\ UNCHANGED <<sas, phase, unread, arcs, result, values>>

-----------------------------------------------------------------------------
(* VarValueRenaming.                                                       *)

Kept(v) == Cardinality(reached[v]) > 1

AlwaysFalse(p) == p[2] \notin reached[p[1]]

AlwaysTrue(p) == ~Kept(p[1]) /\ ~AlwaysFalse(p)

\* Variables and values are numbered anew, in their order.
Index(v) == Cardinality({u \in Vars : u < v /\ Kept(u)}) + 1

Rank(v, n) == Cardinality({m \in reached[v] : m < n})

\* translate_pair.
NewPair(p) == <<Index(p[1]), Rank(p[1], p[2])>>

\* translate_pairs_in_place, when none of the pairs is always false.
NewPairs(C) == {NewPair(p) : p \in {q \in C : ~AlwaysTrue(q)}}

CanHold(C) == \A p \in C : ~AlwaysFalse(p)

Pre(e) == <<e.var, e.pre>>

Post(e) == <<e.var, e.post>>

\* The exception that removes an operator.
Impossible(o) == ~CanHold(o.prevail) \/ \E e \in o.effects : e.pre # -1 /\ AlwaysFalse(Pre(e))

\* The assertions of translate_pre_post.
AssertionFails(e) ==
  /\ CanHold(e.condition)
  /\ \/ AlwaysFalse(Post(e))
     \/ e.pre # -1 /\ AlwaysTrue(Pre(e)) # AlwaysTrue(Post(e))

\* Mutant of DoesNothing: an effect that sets the initial value is dropped.
DoesNothingAtFirst(e) == ~CanHold(e.condition) \/ e.post = sas.init[e.var]

\* The exception that removes an effect.
DoesNothing(e) == ~CanHold(e.condition) \/ AlwaysTrue(Post(e))

\* Mutant of NewOperator: a prevail condition that is a first value is popped.
NewOperatorPopped(o) ==
  [number |-> o.number,
   prevail |-> NewPairs({p \in o.prevail : \A e \in o.effects : e.var # p[1]}),
   effects |-> {[var |-> Index(e.var), pre |-> IF e.pre = -1 THEN -1 ELSE Rank(e.var, e.pre),
                 post |-> Rank(e.var, e.post), condition |-> NewPairs(e.condition)] :
                  e \in {f \in o.effects : ~DoesNothing(f)}}]

\* An operator without effects stays.
NewOperator(o) ==
  [number |-> o.number,
   prevail |-> NewPairs(o.prevail),
   effects |-> {[var |-> Index(e.var), pre |-> IF e.pre = -1 THEN -1 ELSE Rank(e.var, e.pre),
                 post |-> Rank(e.var, e.post), condition |-> NewPairs(e.condition)] :
                  e \in {f \in o.effects : ~DoesNothing(f)}}]

NewAxioms ==
  {[condition |-> NewPairs(x.condition), effect |-> NewPair(x.effect)] :
     x \in {y \in sas.axioms : CanHold(y.condition) /\ ~AlwaysTrue(y.effect)}}

\* Mutant of NewGoal: what holds at first is dropped.
NewGoalOpen == NewPairs({p \in sas.goal : p[2] # sas.init[p[1]]})

\* apply_to_goals.
NewGoal == NewPairs(sas.goal)

NewMutexes ==
  {g \in {NewPairs({p \in m : ~AlwaysFalse(p)}) : m \in sas.mutexes} : Cardinality(g) >= 2}

NewCount == Cardinality({v \in Vars : Kept(v)})

NewInit == [k \in 1..NewCount |-> (CHOOSE p \in NewPairs({<<v, sas.init[v]>> : v \in Vars}) : p[1] = k)[2]]

\* apply_to_task: the goal is translated before the operators.
ApplyGoal ==
  /\ phase = "reach" /\ \A v \in Vars : queue[v] = {}
  /\ phase' = IF CanHold(sas.goal) THEN "apply" ELSE "unsolvable"
  /\ unread' = sas.operators
  /\ UNCHANGED <<sas, arcs, reached, queue, result, values>>

\* The first value of an effect is also a prevail condition, so an operator is
\* removed before its effects are looked at.
ApplyOperator(o) ==
  /\ phase = "apply" /\ o \in unread
  /\ unread' = unread \ {o}
  /\ IF ~Impossible(o) /\ \E e \in o.effects : AssertionFails(e)
     THEN phase' = "failed" /\ UNCHANGED result
     ELSE result' = result \cup (IF Impossible(o) THEN {} ELSE {NewOperator(o)}) /\ UNCHANGED phase
  /\ UNCHANGED <<sas, arcs, reached, queue, values>>

ApplyAxioms ==
  /\ phase = "apply" /\ unread = {}
  /\ phase' = IF \E x \in sas.axioms : CanHold(x.condition) /\ AlwaysFalse(x.effect) THEN "failed" ELSE "run"
  /\ values' = IF phase' = "run" THEN NewInit ELSE values
  /\ UNCHANGED <<sas, unread, arcs, reached, queue, result>>

-----------------------------------------------------------------------------
(* The execution of the new task.                                          *)

NewRanges == [k \in 1..NewCount |-> Cardinality(reached[CHOOSE v \in Vars : Kept(v) /\ Index(v) = k])]

NewTask ==
  [ranges |-> NewRanges, init |-> NewInit, goal |-> NewGoal, operators |-> result, axioms |-> NewAxioms,
   mutexes |-> NewMutexes]

New == INSTANCE SasTask WITH sas <- NewTask

RunOperator(o) ==
  /\ phase = "run"
  /\ UNCHANGED <<sas, phase, unread, arcs, reached, queue, result>>
  /\ New!Perform(o)

RunAxiom(x) ==
  /\ phase = "run"
  /\ UNCHANGED <<sas, phase, unread, arcs, reached, queue, result>>
  /\ New!Derive(x)

SiEnded == phase \in {"run", "unsolvable", "failed"} /\ UNCHANGED siVars

SiNext ==
  \/ \E o \in unread : ReadOperator(o)
  \/ \E v \in Vars : \E n \in queue[v] : Expand(v, n)
  \/ ApplyGoal
  \/ \E o \in unread : ApplyOperator(o)
  \/ ApplyAxioms
  \/ \E o \in result : RunOperator(o)
  \/ \E x \in NewAxioms : RunAxiom(x)
  \/ SiEnded

SiSpec == SiInit /\ [][SiNext]_siVars

-----------------------------------------------------------------------------
(* The simplified task against the task that was translated.               *)

\* The value that a variable of the old task has in a state of the new one.
OldValue(v) ==
  IF phase = "run" /\ Kept(v)
  THEN CHOOSE n \in reached[v] : Rank(v, n) = values[Index(v)]
  ELSE sas.init[v]

OldValues == [v \in Vars |-> OldValue(v)]

Old == INSTANCE SasTask WITH values <- OldValues

\* What an effect on a variable does to the new task: nothing, if the variable
\* was removed with its only value.
SameValues(v, old, new) ==
  IF Kept(v) THEN new[Index(v)] = {Rank(v, n) : n \in old} ELSE old \subseteq {sas.init[v]}

-----------------------------------------------------------------------------
(* Properties.                                                             *)

\* The simplified task can do nothing that the task could not do.
ImplementsTask == Old!SasSpec

\* Nothing is lost: an operator that can be executed in the task can be executed
\* in the simplified one, with the same effects, and an axiom that fires there
\* fires here; no value, effect or operator that can occur has been removed.
NothingIsLost ==
  phase = "run" =>
    /\ \A o \in sas.operators : Old!Enabled(o, OldValues) =>
         \E n \in result :
           /\ n.number = o.number /\ New!Enabled(n, values)
           /\ \A v \in Vars :
                SameValues(v, Old!Posts(o, v, OldValues), [k \in 1..NewCount |-> New!Posts(n, k, values)])
    /\ \A x \in sas.axioms : Old!TrueIn(x.condition, OldValues) =>
         \/ ~Kept(x.effect[1]) /\ x.effect[2] = sas.init[x.effect[1]]
         \/ \E y \in NewAxioms : New!TrueIn(y.condition, values) /\ y.effect = NewPair(x.effect)

\* Goals and mutex groups mean the same: the new goal holds when the old one
\* does, a task is given up only if its goal needs a value that no execution
\* reaches, and of a mutex group at most one atom is true.
GoalIsKept ==
  /\ phase = "run" => (New!TrueIn(NewGoal, values) <=> Old!TrueIn(sas.goal, OldValues))
  /\ phase = "unsolvable" => \E p \in sas.goal : p[2] \notin reached[p[1]]
  /\ phase = "run" => \A g \in NewMutexes : \A p, q \in g : p # q => ~New!TrueIn({p, q}, values)
=============================================================================
