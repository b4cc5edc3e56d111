-------------------------- MODULE MCDavinciEngine --------------------------
(* DavinciEngine with a harmless action, one of high risk and one that a    *)
(* guardrail rejects, under every permission mode, without rules, with an   *)
(* allow rule, and with a deny rule against it.                             *)
EXTENDS DavinciEngine, TLC

CONSTANTS a1, a2, a3

MCActions == {a1, a2, a3}
MCRiskOf == (a1 :> LOW) @@ (a2 :> HIGH) @@ (a3 :> LOW)
MCPolicies ==
    {p \in Policy : /\ p.ceiling = MEDIUM
                    /\ p.allow \in {{}, {a2, a3}}
                    /\ p.deny \subseteq p.allow \ {a3}}
MCBlocked == {a3}
=============================================================================
