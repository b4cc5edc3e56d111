---------------------------- MODULE Permissions ----------------------------
(***************************************************************************)
(* The gate of davinci/permissions.py: what PermissionEngine.check answers *)
(* for a tool action.  An action is a tool together with its arguments; of *)
(* it the gate looks at the risk tier, at whether an input validator       *)
(* rejects the arguments, and at which glob rules match its                *)
(* "<category>:<tool_id>".  A list of rules is therefore abstracted to the *)
(* set of the actions that one of its rules matches.                       *)
(***************************************************************************)
EXTENDS Integers

CONSTANTS
    Actions,    \* the tool actions a reasoner may propose
    RiskOf,     \* RiskOf[a]: the risk tier the tool of action a is registered with
    Blocked     \* the actions whose arguments an input validator rejects

\* Risk.rank
LOW == 0
MEDIUM == 1
HIGH == 2
Risks == LOW..HIGH

ASSUME ActionAssumption ==
    /\ RiskOf \in [Actions -> Risks]
    /\ Blocked \subseteq Actions

PermissionModes == {"plan", "default", "accept_edits", "auto", "dont_ask", "bypass"}

Outcomes == {"allow", "deny", "review"}

\* A configured PermissionEngine.
Policy == [mode    : PermissionModes,
           ceiling : Risks,             \* risk_ceiling, read in auto mode only
           allow   : SUBSET Actions,    \* matched by one of allow_rules
           deny    : SUBSET Actions]    \* matched by one of deny_rules

\* The highest tier that mode lets through without a human; -1 for none.
ModeCeiling(policy) ==
    CASE policy.mode \in {"bypass", "dont_ask"} -> HIGH
      [] policy.mode = "plan"                   -> -1
      [] policy.mode = "auto"                   -> policy.ceiling
      [] policy.mode = "accept_edits"           -> MEDIUM
      [] policy.mode = "default"                -> LOW

ModeDecision(policy, a) ==
    IF RiskOf[a] <= ModeCeiling(policy) THEN "allow" ELSE "review"

\* Seeded fault: the allow rules are consulted before the deny rules.
Check_AllowFirst(policy, a) ==
    IF a \in Blocked THEN "deny"
    ELSE IF a \in policy.allow THEN "allow"
    ELSE IF a \in policy.deny THEN "deny"
    ELSE ModeDecision(policy, a)

\* PermissionEngine.check: validators, deny rules, allow rules, mode; first match wins.
Check(policy, a) ==
    IF a \in Blocked \cup policy.deny THEN "deny"
    ELSE IF a \in policy.allow THEN "allow"
    ELSE ModeDecision(policy, a)

=============================================================================
