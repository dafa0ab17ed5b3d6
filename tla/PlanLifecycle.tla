-------------------------- MODULE PlanLifecycle --------------------------
(***************************************************************************)
(* What the operator promises about an upgrade plan, whatever its caches,  *)
(* retries, conflicts and restarts do: a plan is carried out only once it  *)
(* is approved, as it was approved, step after step, and its phase only    *)
(* moves forward.  StackUpgrade implements it.                             *)
(***************************************************************************)
EXTENDS Naturals, Sequences

CONSTANTS
    Plans,      \* names of plans
    ToolLists,  \* the lists of steps a plan may have
    NoPlan      \* "no plan"

VARIABLES
    plan,  \* per name, the plan: its spec, its phase and the steps recorded as complete
    done   \* per name, the steps of that plan that have been carried out

vars == <<plan, done>>

Init ==
    /\ plan = [p \in Plans |-> NoPlan]
    /\ done = [p \in Plans |-> {}]

Exists(p, phases) == plan[p] # NoPlan /\ plan[p].phase \in phases

MoreSteps(p) == plan[p].step < Len(plan[p].tools)

Create(p) ==
    /\ plan[p] = NoPlan
    /\ \E tools \in ToolLists, approved \in BOOLEAN :
         plan' = [plan EXCEPT ![p] = [approved |-> approved, tools |-> tools,
                                      phase |-> "", step |-> 0]]
    /\ done' = [done EXCEPT ![p] = {}]

Delete(p) ==
    /\ plan[p] # NoPlan
    /\ plan' = [plan EXCEPT ![p] = NoPlan]
    /\ UNCHANGED done

\* Only a plan that is not approved can change; approving it is such a change.
Edit(p) ==
    /\ plan[p] # NoPlan
    /\ ~plan[p].approved
    /\ \E tools \in ToolLists, approved \in BOOLEAN :
         plan' = [plan EXCEPT ![p].tools = tools, ![p].approved = approved]
    /\ UNCHANGED done

MoveTo(p, phase) == plan' = [plan EXCEPT ![p].phase = phase] /\ UNCHANGED done

Hold(p)   == Exists(p, {""}) /\ MoveTo(p, "Pending")
Accept(p) == Exists(p, {"", "Pending"}) /\ plan[p].approved /\ MoveTo(p, "Approved")
Start(p)  == Exists(p, {"Approved"}) /\ MoveTo(p, "Upgrading")

\* The step that is next is carried out, perhaps again, or recorded.
CarryOut(p) ==
    /\ Exists(p, {"Upgrading"})
    /\ plan[p].approved
    /\ MoreSteps(p)
    /\ done' = [done EXCEPT ![p] = @ \union {plan[p].step + 1}]
    /\ UNCHANGED plan

Advance(p) ==
    /\ Exists(p, {"Upgrading"})
    /\ plan[p].step + 1 \in done[p]
    /\ plan' = [plan EXCEPT ![p].step = @ + 1]
    /\ UNCHANGED done

Succeed(p)  == Exists(p, {"Upgrading"}) /\ ~MoreSteps(p) /\ MoveTo(p, "Succeeded")
Fail(p)     == Exists(p, {"Upgrading"}) /\ MoreSteps(p) /\ MoveTo(p, "Failed")
RollBack(p) == /\ Exists(p, {"Upgrading", "Failed"})
               /\ MoreSteps(p)
               /\ MoveTo(p, "RolledBack")

Next ==
    \E p \in Plans :
       \/ Create(p) \/ Delete(p) \/ Edit(p)
       \/ Hold(p) \/ Accept(p) \/ Start(p)
       \/ CarryOut(p) \/ Advance(p)
       \/ Succeed(p) \/ Fail(p) \/ RollBack(p)

Spec == Init /\ [][Next]_vars
=============================================================================
