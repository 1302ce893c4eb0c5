-------------------------- MODULE MCTaskExecution --------------------------
(***************************************************************************)
(* Small plans.  long: one call three times over, confirmed and            *)
(* revalidated, and a step beyond the budget.  gui: a step that is         *)
(* revalidated and confirmed, then a terminal one.  knot: a plan with a    *)
(* dependency cycle.                                                       *)
(*                                                                         *)
(* "part" says whether a behaviour is about their execution or about the   *)
(* planner, which gets every plan of two small families: three steps, each *)
(* with up to two dependencies, and up to two steps with anything wrong.   *)
(***************************************************************************)
EXTENDS TaskExecution, Planner

CONSTANTS long, gui, knot, a, b, unknown

VARIABLE part

Step(tool, kinds, deps) ==
    [tool |-> tool, asks |-> "asks" \in kinds, revalidate |-> "revalidate" \in kinds,
     terminal |-> "terminal" \in kinds, deps |-> deps]

PlanOf(t) ==
    CASE t = long   -> <<Step(a, {}, {}), Step(a, {"asks"}, {1}),
                         Step(a, {"revalidate"}, {}), Step(b, {}, {})>>
      [] t = gui    -> <<Step(b, {"revalidate", "asks"}, {}),
                         Step(a, {"terminal"}, {1}), Step(b, {}, {})>>
      [] t = knot   -> <<Step(a, {}, {})>>

MCPlan == [t \in Tasks |-> PlanOf(t)]

Upto(S, n) == UNION {[1 .. k -> S] : k \in 0 .. n}
Tangled ==
    {[i \in 1 .. 3 |-> [id |-> <<"s1", "s2", "s3">>[i], tool |-> "known", deps |-> deps[i]]] :
        deps \in [1 .. 3 -> Upto({"s1", "s2", "s3"}, 2)]}
Faulty == Upto([id : {"s1", "s2"}, tool : {"known", "unknown"},
                deps : Upto({"s1", "s2", "s4"}, 1)], 2) \ {<<>>}
TooLong == {[i \in 1 .. 4 |-> [id |-> <<"s1", "s2", "s3", "s4">>[i], tool |-> "known",
                               deps |-> deps[i]]] :
               deps \in [1 .. 4 -> {<<>>, <<"s1">>, <<"s4">>}]}
MCPlans == Tangled \cup Faulty \cup TooLong

BothInit == part \in {"execution", "planning"} /\ Init /\ PlannerInit

Executes == part = "execution" /\ Next /\ UNCHANGED <<part, plannerVars>>
MakesPlans == part = "planning" /\ PlannerNext /\ UNCHANGED <<part, vars>>

BothNext == Executes \/ MakesPlans

BothSpec == /\ BothInit /\ [][BothNext]_<<part, vars, plannerVars>>
            /\ part = "execution" => Fairness
=============================================================================
