------------------------ MODULE MCPolicyReconciler ------------------------
(* Instances of PolicyReconciler for TLC: a tool with an alias, a chart and  *)
(* a risky newer version, and one without a chart for its newest version.    *)
EXTENDS PolicyReconciler, TLC

CONSTANTS p, q, ns, a, a2, b, x

v1 == <<1, 0, 0, 1>>
v2 == <<1, 1, 0, 1>>
v3 == <<2, 0, 0, 1>>

entry(app, chart, risk) ==
    [app |-> app, chart |-> chart, risk |-> risk, incompatible |-> {}, rest |-> TRUE]

document(tool, aliases, versions) ==
    [tool |-> tool, aliases |-> aliases, alias_origins |-> [n \in {} |-> {}],
     chart_repository |-> TRUE, versions |-> versions]

MCKnowledgeBase ==
    <<document(a, <<a2>>, <<entry(v1, v1, "LOW"), entry(v2, v2, "LOW"), entry(v3, v3, "HIGH")>>),
      document(b, <<>>, <<entry(v1, v1, "LOW"), entry(v2, NoVersion, "MEDIUM")>>)>>

MCVersions == {v1, v2, v3}

MCPlanName == [n \in {a, b} \X MCVersions |-> n]

MCHome == [n \in Policies |-> ns]

Discovery == [tracked |-> <<>>, tolerance |-> "LOW", autoplan |-> TRUE, maxRisk |-> "",
              autoApprove |-> FALSE]
Focused == [tracked |-> <<a2, x, a, x>>, tolerance |-> "", autoplan |-> FALSE, maxRisk |-> "",
            autoApprove |-> FALSE]
Eager == [tracked |-> <<b, a>>, tolerance |-> "MEDIUM", autoplan |-> TRUE, maxRisk |-> "HIGH",
          autoApprove |-> TRUE]

MCSpecs == {Discovery, Focused, Eager}
AutoplanSpecs == {Discovery, Eager}

at(version, source) == [version |-> version, source |-> source]

NoTools == [t \in {} |-> at(v1, "helm")]
MCClusters == {(a :> at(v1, "helm")) @@ (b :> at(v1, "raw")),
               (a :> at(v2, "fluxcd")) @@ (b :> at(NoVersion, "argocd")),
               (a :> at(BadVersion, "argocd")) @@ (b :> at(v1, "helm"))}
TwoClusters == {(a :> at(v1, "helm")) @@ (b :> at(v1, "raw")), NoTools}

Reject == {<<ns, <<a, v2>>>>}
===========================================================================
