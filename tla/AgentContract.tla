--------------------------- MODULE AgentContract ---------------------------
(***************************************************************************)
(* What an agent run promises to the outside, without plan, steps, budget  *)
(* bookkeeping or reflection: it executes permitted actions only, each at  *)
(* most MaxRepeats times and at most MaxCalls in all, and it ends at most  *)
(* once, after which nothing is executed any more.                         *)
(***************************************************************************)
EXTENDS Integers, Sequences, FiniteSets

CONSTANTS Actions, MaxCalls, MaxRepeats

VARIABLES
    permitted,   \* the actions this run may execute
    executed,    \* the actions it executed, in order
    outcome      \* "running" until the run ends

vars == <<permitted, executed, outcome>>

Times(a) == Cardinality({k \in DOMAIN executed : executed[k] = a})

Init == /\ permitted \subseteq Actions
        /\ executed = <<>>
        /\ outcome = "running"

Execute(a) ==
    /\ outcome = "running"
    /\ a \in permitted
    /\ Len(executed) < MaxCalls
    /\ Times(a) < MaxRepeats
    /\ executed' = Append(executed, a)
    /\ UNCHANGED <<permitted, outcome>>

End ==
    /\ outcome = "running"
    /\ outcome' \in {"succeeded", "failed", "raised"}
    /\ UNCHANGED <<permitted, executed>>

Next == (\E a \in Actions : Execute(a)) \/ End

Spec == Init /\ [][Next]_vars
=============================================================================
