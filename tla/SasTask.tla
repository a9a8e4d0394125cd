------------------------------ MODULE SasTask -------------------------------
(***************************************************************************)
(* A task over finite-domain variables (src/submodules/sas_tasks.py) and    *)
(* its executions.  A condition is a set of pairs of a variable and a       *)
(* value; an effect is [var, pre, post, condition], pre = -1 for any value. *)
(***************************************************************************)
EXTENDS Integers, FiniteSets

CONSTANT SasTasks  \* [ranges, init, goal, operators, axioms, mutexes]

VARIABLES
  sas,     \* the task
  values   \* the values of the variables

TrueIn(C, w) == \A p \in C : w[p[1]] = p[2]

Enabled(o, w) == TrueIn(o.prevail, w) /\ \A e \in o.effects : e.pre \in {-1, w[e.var]}

Posts(o, v, w) == {e.post : e \in {f \in o.effects : f.var = v /\ TrueIn(f.condition, w)}}

SasInit == sas \in SasTasks /\ values = sas.init

\* A variable that effects set to several values gets one of them.
Outcomes(o, w) ==
  {u \in [DOMAIN w -> UNION {0..(sas.ranges[v] - 1) : v \in DOMAIN w}] :
     \A v \in DOMAIN w : u[v] \in IF Posts(o, v, w) = {} THEN {w[v]} ELSE Posts(o, v, w)}

\* A derived variable gets the value of an axiom, or its initial value back.
Derived(x, w) ==
  {[w EXCEPT ![x.effect[1]] = n] :
     n \in {sas.init[x.effect[1]]} \cup {m \in {x.effect[2]} : TrueIn(x.condition, w)}}

Perform(o) == Enabled(o, values) /\ values' \in Outcomes(o, values) /\ UNCHANGED sas

Derive(x) == values' \in Derived(x, values) /\ UNCHANGED sas

SasNext == (\E o \in sas.operators : Perform(o)) \/ (\E x \in sas.axioms : Derive(x))

SasSpec == SasInit /\ [][SasNext]_<<sas, values>>
=============================================================================
