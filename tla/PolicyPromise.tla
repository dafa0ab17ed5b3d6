-------------------------- MODULE PolicyPromise --------------------------
(***************************************************************************)
(* What the operator promises about a CompatibilityPolicy, whatever its    *)
(* caches, retries, conflicts and restarts do: a report is one for the     *)
(* spec it stands beside, and stands there only once every upgrade it      *)
(* calls for has got its plan; and a plan is made only because some spec a *)
(* user gave the policy calls for it, is approved only if that very spec   *)
(* approves plans, and takes the place of no other plan.                   *)
(* PolicyReconciler implements it.                                         *)
(***************************************************************************)
CONSTANTS
    Policies,   \* names of policies
    Specs,      \* the specs users write
    Clusters,   \* what a scan may see installed
    Scanned,    \* the statuses it may write: spec -> cluster -> statuses
    Called,     \* the plans it calls for: policy -> spec -> cluster -> names
    NewStatus,  \* the status of a policy that was never scanned
    NoPolicy    \* "no policy"

VARIABLES
    spec,     \* per name, the spec of the policy, or NoPolicy
    status,   \* per name, its status, which holds the report
    gates,    \* per name, every spec users gave a policy of that name
    plans,    \* the plans there are: name -> approved
    planned   \* the names of all plans ever made

vars == <<spec, status, gates, plans, planned>>

Init ==
    /\ spec = [p \in Policies |-> NoPolicy]
    /\ status = [p \in Policies |-> NewStatus]
    /\ gates = [p \in Policies |-> {}]
    /\ plans = <<>>
    /\ planned = {}

\* A user creates the policy or changes its spec; a report there is stays.
Write(p) ==
    \E new \in Specs :
       /\ spec' = [spec EXCEPT ![p] = new]
       /\ gates' = [gates EXCEPT ![p] = @ \union {new}]
       /\ UNCHANGED <<status, plans, planned>>

Delete(p) ==
    /\ spec' = [spec EXCEPT ![p] = NoPolicy]
    /\ status' = [status EXCEPT ![p] = NewStatus]
    /\ UNCHANGED <<gates, plans, planned>>

DeletePlan(name) ==
    /\ plans' = [n \in DOMAIN plans \ {name} |-> plans[n]]
    /\ UNCHANGED <<spec, status, gates, planned>>

\* A scan works with a spec the policy has, or had, and makes one of its plans.
MakePlan(p) ==
    \E gate \in gates[p], seen \in Clusters :
       \E name \in Called[p][gate][seen] \ DOMAIN plans :
          /\ plans' = [n \in DOMAIN plans \union {name} |->
                         IF n = name THEN gate.autoApprove ELSE plans[n]]
          /\ planned' = planned \union {name}
          /\ UNCHANGED <<spec, status, gates>>

\* A status with a report replaces the one before.
Post(p) ==
    /\ spec[p] # NoPolicy
    /\ \E seen \in Clusters :
         /\ Called[p][spec[p]][seen] \subseteq planned
         /\ \E s \in Scanned[spec[p]][seen] : status' = [status EXCEPT ![p] = s]
    /\ UNCHANGED <<spec, gates, plans, planned>>

Next ==
    \/ \E p \in Policies : Write(p) \/ Delete(p) \/ MakePlan(p) \/ Post(p)
    \/ \E name \in DOMAIN plans : DeletePlan(name)

Spec == Init /\ [][Next]_vars
=============================================================================
