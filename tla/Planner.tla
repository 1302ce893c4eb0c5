------------------------------ MODULE Planner ------------------------------
(***************************************************************************)
(* The planner (agents/planner.py) asks a model for a plan, validates what *)
(* comes back and puts its steps in an order of execution; the executor    *)
(* orders a plan that somebody hands it by the same algorithm, without     *)
(* validating it (agents/executor.py, resolve_execution_order).            *)
(*                                                                         *)
(* The only await is that of the model's answer.  The ordering is Kahn's   *)
(* algorithm, one action per step taken from the ready list; nothing else  *)
(* runs meanwhile.  The ready list is kept sorted by the position in the   *)
(* plan, so it is the set of its members.                                  *)
(***************************************************************************)
EXTENDS Integers, Sequences, FiniteSets

CONSTANTS Ids,        \* names a plan may give to its steps
          Registered, \* tools of the registry
          Plans,      \* the plans that pass the schema: at least one step
          MaxPlanned, \* validate_plan's bound
          MaxRequests \* bound: plans asked for

PlanSteps == [id : Ids, tool : STRING, deps : Seq(Ids)]

IsPlan(p) == p \in Seq(PlanSteps) /\ p # <<>>

ASSUME PlansAssumption == \A p \in Plans : IsPlan(p)
ASSUME BoundsAssumption == MaxPlanned \in Nat /\ MaxRequests \in Nat

VARIABLES
    stage,      \* "idle", "asking" the model, "ordering", "accepted", "refused", "cancelled"
    cancelled,  \* the cancellation token is set
    requests,   \* plans asked for
    plan,       \* the plan that is validated or ordered
    checked,    \* it went through validate_plan
    inDegree,   \* prerequisites each step still waits for
    ready,      \* steps that wait for none
    ordered,    \* the order so far
    reason      \* why it was refused

plannerVars == <<stage, cancelled, requests, plan, checked, inDegree, ready, ordered, reason>>

NoReason == "none"
Reasons == {NoReason, "schema", "too long", "duplicate", "unknown tool", "self", "missing", "cycle"}

Elements(s) == {s[i] : i \in DOMAIN s}
Names(p) == {p[i].id : i \in DOMAIN p}

(* index_map: of two steps with one name the later counts.                 *)
ListedBefore(p, r, s) ==
    \E j \in DOMAIN p : p[j].id = s /\ \A i \in DOMAIN p : p[i].id = r => i < j

(* The dependencies a step declares on steps of the plan, each with its    *)
(* place: one that is declared twice counts twice (in_degree, adj).        *)
Places(p) == UNION {{i} \X DOMAIN p[i].deps : i \in DOMAIN p}
Edges(p, s) == {e \in Places(p) : p[e[1]].id = s /\ p[e[1]].deps[e[2]] \in Names(p)}
EdgesFrom(p, s, q) == {e \in Edges(p, s) : p[e[1]].deps[e[2]] = q}
Prerequisites(p, s) == {p[e[1]].deps[e[2]] : e \in Edges(p, s)}

-----------------------------------------------------------------------------
(* validate_plan: the first thing it finds.                                *)

Repeats(p, i) == \E j \in 1 .. (i - 1) : p[j].id = p[i].id
BadSteps(p) == {i \in DOMAIN p : Repeats(p, i) \/ p[i].tool \notin Registered}
BadPlaces(p) == {e \in Places(p) : LET d == p[e[1]].deps[e[2]]
                                   IN  d = p[e[1]].id \/ d \notin Names(p)}
First(S) == CHOOSE i \in S : \A j \in S : i <= j
FirstPlace(S) == CHOOSE e \in S : \A f \in S : e[1] < f[1] \/ (e[1] = f[1] /\ e[2] <= f[2])

Verdict(p) ==
    IF Len(p) > MaxPlanned THEN "too long"
    ELSE IF BadSteps(p) # {}
         THEN IF Repeats(p, First(BadSteps(p))) THEN "duplicate" ELSE "unknown tool"
    ELSE IF BadPlaces(p) # {}
         THEN LET e == FirstPlace(BadPlaces(p))
              IN  IF p[e[1]].deps[e[2]] = p[e[1]].id THEN "self" ELSE "missing"
    ELSE NoReason

-----------------------------------------------------------------------------
PlannerInit ==
    /\ stage = "idle" /\ cancelled = FALSE /\ requests = 0
    /\ plan = <<>> /\ checked = FALSE
    /\ inDegree = <<>> /\ ready = {} /\ ordered = <<>>
    /\ reason = NoReason

CancelPlanning ==
    /\ stage \in {"idle", "asking", "accepted", "refused"} /\ ~cancelled
    /\ cancelled' = TRUE
    /\ UNCHANGED <<stage, requests, plan, checked, inDegree, ready, ordered, reason>>

(* Both plan() and, when a step of an accepted plan has failed, replan()   *)
(* raise if they were cancelled, before they ask and once answered.        *)
Asks ==
    /\ requests < MaxRequests
    /\ requests' = requests + 1
    /\ stage' = IF cancelled THEN "cancelled" ELSE "asking"
    /\ plan' = <<>> /\ checked' = FALSE /\ ordered' = <<>> /\ inDegree' = <<>> /\ reason' = NoReason
    /\ UNCHANGED <<cancelled, ready>>

MakePlan == stage \in {"idle", "refused"} /\ Asks
Replan == stage = "accepted" /\ Asks

AnswerIsVoid ==
    /\ stage = "asking" /\ cancelled
    /\ stage' = "cancelled"
    /\ UNCHANGED <<cancelled, requests, plan, checked, inDegree, ready, ordered, reason>>

(* No JSON object in it, or none of the schema (Plan: 1 to 20 steps).      *)
Malformed ==
    /\ stage = "asking" /\ ~cancelled
    /\ stage' = "refused" /\ reason' = "schema"
    /\ UNCHANGED <<cancelled, requests, plan, checked, inDegree, ready, ordered>>

Ordering(p) ==
    /\ stage' = "ordering"
    /\ plan' = p
    /\ inDegree' = [s \in Names(p) |-> Cardinality(Edges(p, s))]
    /\ ready' = {s \in Names(p) : Edges(p, s) = {}}
    /\ ordered' = <<>>
    /\ UNCHANGED <<cancelled, reason>>

Answered(p) ==
    /\ stage = "asking" /\ ~cancelled
    /\ checked' = TRUE
    /\ IF Verdict(p) = NoReason
       THEN Ordering(p)
       ELSE /\ stage' = "refused" /\ reason' = Verdict(p) /\ plan' = p
            /\ UNCHANGED <<cancelled, inDegree, ready, ordered>>
    /\ UNCHANGED requests

(* resolve_execution_order: the executor is handed a plan.                 *)
Resolve(p) ==
    /\ stage = "idle"
    /\ checked' = FALSE
    /\ Ordering(p)
    /\ UNCHANGED requests

Released_Early(s) ==
    {d \in Names(plan) : EdgesFrom(plan, d, s) # {}}

(* The steps for which s is the last prerequisite.                         *)
Released(s) ==
    {d \in Names(plan) : /\ EdgesFrom(plan, d, s) # {}
                         /\ inDegree[d] = Cardinality(EdgesFrom(plan, d, s))}

IsNext(s) == s \in ready /\ ~\E r \in ready : ListedBefore(plan, r, s)

Take(s) ==
    /\ stage = "ordering" /\ IsNext(s)
    /\ ordered' = Append(ordered, s)
    /\ inDegree' = [d \in Names(plan) |->
                       inDegree[d] - Cardinality(EdgesFrom(plan, d, s))]
    /\ ready' = (ready \ {s}) \cup Released(s)
    /\ UNCHANGED <<stage, cancelled, requests, plan, checked, reason>>

(* Fewer steps in the order than in the plan: a cycle, or a name that two  *)
(* steps of a plan that nobody validated have.                             *)
OrderEnds ==
    /\ stage = "ordering" /\ ready = {}
    /\ IF Len(ordered) = Len(plan)
       THEN stage' = "accepted" /\ UNCHANGED reason
       ELSE stage' = "refused" /\ reason' = "cycle"
    /\ UNCHANGED <<cancelled, requests, plan, checked, inDegree, ready, ordered>>

PlannerNext ==
    \/ CancelPlanning \/ MakePlan \/ Replan \/ AnswerIsVoid \/ Malformed \/ OrderEnds
    \/ \E p \in Plans : Answered(p) \/ Resolve(p)
    \/ \E s \in ready : Take(s)

PlannerSpec == PlannerInit /\ [][PlannerNext]_plannerVars

-----------------------------------------------------------------------------
(* An accepted plan is executed whole and in an order: each step once,     *)
(* after all that it depends on, and never before one that the plan lists  *)
(* earlier unless that one had still to wait (get_execution_order: "a      *)
(* deterministic topological execution order").                            *)
EachStepOnce ==
    /\ \A i, j \in DOMAIN ordered : ordered[i] = ordered[j] => i = j
    /\ Elements(ordered) = Names(plan)
    /\ \A i, j \in DOMAIN plan : plan[i].id = plan[j].id => i = j

PrerequisitesFirst ==
    \A i \in DOMAIN ordered :
       \A q \in Prerequisites(plan, ordered[i]) : \E k \in 1 .. (i - 1) : ordered[k] = q

ListedOrder ==
    \A i, j \in DOMAIN ordered :
       i < j /\ ListedBefore(plan, ordered[j], ordered[i]) =>
          \E k \in i .. (j - 1) : ordered[k] \in Prerequisites(plan, ordered[j])

(* A plan refused for a cycle has one, or two steps of one name: some      *)
(* steps each wait for another of them.                                    *)
HasCycle ==
    \/ \E i, j \in DOMAIN plan : i # j /\ plan[i].id = plan[j].id
    \/ \E C \in SUBSET Names(plan) :
          C # {} /\ \A s \in C : Prerequisites(plan, s) \cap C # {}

OrderIsRight ==
    /\ stage = "accepted" => EachStepOnce /\ PrerequisitesFirst /\ ListedOrder
    /\ stage = "accepted" /\ checked =>
          /\ Len(plan) <= MaxPlanned
          /\ \A i \in DOMAIN plan : /\ plan[i].tool \in Registered
                                    /\ Elements(plan[i].deps) \subseteq Names(plan)
    /\ reason = "cycle" => HasCycle
=============================================================================
