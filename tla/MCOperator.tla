---------------------------- MODULE MCOperator ----------------------------
(* An instance of Operator for TLC: a tool with a safe upgrade and, in the   *)
(* newer of two knowledge bases, a risky one; what Flux declares is above    *)
(* the one and below the other.                                              *)
EXTENDS Operator

CONSTANTS a, older, newer, trial

v0 == <<0, 9, 0, 1>>
v1 == <<1, 0, 0, 1>>
v2 == <<1, 1, 0, 1>>
v3 == <<2, 0, 0, 1>>
MCVersions == {v0, v1, v2, v3}

entry(app, risk) ==
    [app |-> app, chart |-> app, risk |-> risk, incompatible |-> {}, rest |-> TRUE]

document(tool, versions) ==
    [tool |-> tool, aliases |-> <<>>, alias_origins |-> [n \in {} |-> {}],
     chart_repository |-> TRUE, versions |-> versions]

MCBase == [base \in Builds |->
    <<document(a, <<entry(v1, "LOW")>>
                  \o IF base # older THEN <<entry(v3, "MEDIUM")>> ELSE <<>>)>>]

MCDryRun == [base \in Builds |-> base = trial]

spec(tolerance, maxRisk, autoplan, autoApprove) ==
    [tracked |-> <<>>, tolerance |-> tolerance, autoplan |-> autoplan, maxRisk |-> maxRisk,
     autoApprove |-> autoApprove]

MCSpecs == {spec("", "MEDIUM", TRUE, TRUE), spec("", "", TRUE, FALSE),
            spec("LOW", "", TRUE, TRUE), spec("", "MEDIUM", FALSE, TRUE)}

at(version, source) == [version |-> version, source |-> source]

MCClusters == [{a} -> {at(v, s) : v \in MCVersions, s \in {"helm", "fluxcd"}}] \union {<<>>}
MCInitially == {[t \in {a} |-> at(v0, "helm")], [t \in {a} |-> at(v0, "fluxcd")],
                [t \in {a} |-> at(v1, "helm")]}

MCDeclared == [t \in ToolNames |-> v2]
===========================================================================
