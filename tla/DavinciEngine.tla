--------------------------- MODULE DavinciEngine ---------------------------
(***************************************************************************)
(* One call of DavinciAgent.run (davinci/engine.py): the loop that takes   *)
(* the pending steps of a plan (davinci/planning.py) one by one, asks the  *)
(* reasoner for an action, gates it (davinci/permissions.py), executes it, *)
(* reflects when the plan is exhausted and possibly replans, all under a   *)
(* budget (Budget of davinci/observability.py).                            *)
(*                                                                         *)
(* The reasoner (an LLM or the heuristic one) and the executor are         *)
(* nondeterministic.  The loop is sequential; what runs beside it is the   *)
(* wall clock, which may pass its deadline between any two steps.          *)
(***************************************************************************)
EXTENDS Permissions, Sequences, FiniteSets

CONSTANTS
    Policies,            \* the permission configurations considered
    NoAction,            \* no action has been proposed
    max_steps,           \* Budget.max_steps
    max_tool_calls,      \* Budget.max_tool_calls
    max_tokens,          \* Budget.max_tokens
    max_step_attempts,   \* DavinciAgent.max_step_attempts
    replan_budget,       \* argument of run
    MaxPlan,             \* bound: steps of the first plan
    MaxTitles,           \* bound: steps one replan appends (4, or one per failed step)
    MaxOutput            \* bound: tokens charged for one tool result

ASSUME EngineAssumption ==
    /\ Policies \subseteq Policy
    /\ NoAction \notin Actions
    /\ max_steps \in Nat /\ max_tool_calls \in Nat /\ max_tokens \in Nat
    /\ max_step_attempts \in Nat /\ replan_budget \in Nat
    /\ MaxPlan \in Nat \ {0} /\ MaxTitles \in Nat \ {0} /\ MaxOutput \in Nat \ {0}

VARIABLES
    policy,           \* the PermissionEngine of this agent
    pc,               \* where run() is
    plan,             \* Plan.steps; a step's id is its position
    step,             \* the step _run_step is working on, 0 for none
    proposal,         \* the action it proposed, once there is one
    steps_used, tool_calls_used, tokens_used,
    late,             \* elapsed_seconds >= max_wall_seconds
    fingerprints,     \* _action_fingerprints
    pending_review,   \* the actions escalated to a human, with their steps
    replans_left,
    final_delivered,  \* _final_delivered
    answer,           \* where the answer to return comes from
    success,          \* RunResult.success
    calls             \* history: the calls of executor.execute, in order

budgetVars == <<steps_used, tool_calls_used, tokens_used>>

vars == <<policy, pc, plan, step, proposal, steps_used, tool_calls_used,
          tokens_used, late, fingerprints, pending_review, replans_left,
          final_delivered, answer, success, calls>>

StepStatus == {"pending", "in_progress", "done", "failed", "skipped"}

\* origin tells the steps of the first plan from those a replan appended;
\* result abstracts PlanStep.result to what put the step in its state.
StepResult == {"none", "answer", "no_tool", "awaiting_review", "ok",
               "stuck", "denied", "error", "guardrail"}

PlanStep == [status : StepStatus, origin : {"plan", "replan"},
             attempts : Nat, result : StepResult]

NewStep(origin) == [status |-> "pending", origin |-> origin,
                     attempts |-> 0, result |-> "none"]

-----------------------------------------------------------------------------
(* Plan and Budget *)

Pending == {i \in DOMAIN plan : plan[i].status = "pending"}

\* Seeded fault: any pending step will do.
IsNextPending_Any(i) == i \in Pending

\* Plan.next_pending: the first pending step, in list order.
IsNextPending(i) == i \in Pending /\ \A j \in Pending : i <= j

HasFailures == \E i \in DOMAIN plan : plan[i].status = "failed"

IsComplete == /\ plan # <<>>
              /\ \A i \in DOMAIN plan : plan[i].status \in {"done", "skipped"}

\* Step s with another status and result.
As(s, status, result) ==
    [status |-> status, origin |-> s.origin, attempts |-> s.attempts, result |-> result]

\* Plan.start with the count of attempts that _run_step keeps.
Started(s) ==
    [status |-> "in_progress", origin |-> s.origin, attempts |-> s.attempts + 1,
     result |-> s.result]

\* Plan.complete and Plan.fail, on the step that is being run.
Complete(result) == plan' = [plan EXCEPT ![step] = As(plan[step], "done", result)]

Fail(result) == plan' = [plan EXCEPT ![step] = As(plan[step], "failed", result)]

\* Seeded fault: the failed steps are retried in place.
ReplanFailed_InPlace(n) ==
    plan' = [i \in DOMAIN plan |->
                IF plan[i].status = "failed" THEN As(plan[i], "pending", plan[i].result)
                                             ELSE plan[i]]
            \o [k \in 1..n |-> NewStep("replan")]

\* Plan.replan_failed with n new titles.
ReplanFailed(n) ==
    plan' = [i \in DOMAIN plan |->
                IF plan[i].status = "failed" THEN As(plan[i], "skipped", plan[i].result)
                                             ELSE plan[i]]
            \o [k \in 1..n |-> NewStep("replan")]

\* Seeded fault: a limit may be passed by one.
Exceeded_OffByOne ==
    \/ steps_used > max_steps
    \/ tool_calls_used > max_tool_calls
    \/ tokens_used > max_tokens
    \/ late

\* Budget.exceeded() is not None.
Exceeded ==
    \/ steps_used >= max_steps
    \/ tool_calls_used >= max_tool_calls
    \/ tokens_used >= max_tokens
    \/ late

-----------------------------------------------------------------------------
(* run() *)

\* A plan has at least one step: Planner._heuristic_plan makes at least four,
\* LLMReasoner.make_plan falls back to it when the model gives none.
Init ==
    /\ policy \in Policies
    /\ pc = "loop"
    /\ \E n \in 1..MaxPlan : plan = [i \in 1..n |-> NewStep("plan")]
    /\ step = 0
    /\ proposal = NoAction
    /\ steps_used = 0 /\ tool_calls_used = 0 /\ tokens_used = 0
    /\ late = FALSE
    /\ fingerprints = [a \in Actions |-> 0]
    /\ pending_review = <<>>
    /\ replans_left = replan_budget
    /\ final_delivered = FALSE
    /\ answer = "none"
    /\ success = FALSE
    /\ calls = <<>>

\* The clock passes the deadline.
Deadline ==
    /\ pc \notin {"done", "raised"}
    /\ ~late
    /\ late' = TRUE
    /\ UNCHANGED <<policy, pc, plan, step, proposal, budgetVars, fingerprints,
                   pending_review, replans_left, final_delivered, answer, success, calls>>

\* Seeded fault: past the deadline the loop is not left.
StopOnBudget_NotOnDeadline ==
    /\ pc = "loop"
    /\ Exceeded /\ ~late
    /\ pc' = "settle"
    /\ UNCHANGED <<policy, plan, step, proposal, budgetVars, late, fingerprints,
                   pending_review, replans_left, final_delivered, answer, success, calls>>

\* The loop head finds a limit reached.
StopOnBudget ==
    /\ pc = "loop"
    /\ Exceeded
    /\ pc' = "settle"
    /\ UNCHANGED <<policy, plan, step, proposal, budgetVars, late, fingerprints,
                   pending_review, replans_left, final_delivered, answer, success, calls>>

\* The loop head takes the next pending step; _run_step charges and starts it.
TakeStep ==
    /\ pc = "loop"
    /\ ~Exceeded
    /\ \E i \in Pending :
          /\ IsNextPending(i)
          /\ step' = i
          /\ plan' = [plan EXCEPT ![i] = Started(plan[i])]
    /\ steps_used' = steps_used + 1
    /\ pc' = "propose"
    /\ UNCHANGED <<policy, proposal, tool_calls_used, tokens_used, late, fingerprints,
                   pending_review, replans_left, final_delivered, answer, success, calls>>

\* What the reflection of either reasoner can be, with n replan titles: never
\* satisfied while a step is failed, and never without a title then.
Reflects(satisfied, n) ==
    /\ satisfied => ~HasFailures
    /\ HasFailures => n > 0

\* The plan is exhausted and reflection ends the run.
ReflectAndStop ==
    /\ pc = "loop"
    /\ ~Exceeded
    /\ Pending = {}
    /\ \E satisfied \in BOOLEAN, n \in 0..MaxTitles :
          /\ Reflects(satisfied, n)
          /\ satisfied \/ replans_left <= 0 \/ n = 0
    /\ pc' = "settle"
    /\ UNCHANGED <<policy, plan, step, proposal, budgetVars, late, fingerprints,
                   pending_review, replans_left, final_delivered, answer, success, calls>>

\* Seeded fault: the replan budget is counted but not looked at.
Replan_Unlimited ==
    /\ pc = "loop"
    /\ ~Exceeded
    /\ Pending = {}
    /\ \E n \in 1..MaxTitles : Reflects(FALSE, n) /\ ReplanFailed(n)
    /\ replans_left' = replans_left - 1
    /\ UNCHANGED <<policy, pc, step, proposal, budgetVars, late, fingerprints,
                   pending_review, final_delivered, answer, success, calls>>

\* Seeded fault: a reflection without titles also replans.
Replan_NoTitles ==
    /\ pc = "loop"
    /\ ~Exceeded
    /\ Pending = {}
    /\ replans_left > 0
    /\ \E n \in 0..MaxTitles : ReplanFailed(n)
    /\ replans_left' = replans_left - 1
    /\ UNCHANGED <<policy, pc, step, proposal, budgetVars, late, fingerprints,
                   pending_review, final_delivered, answer, success, calls>>

\* The plan is exhausted, reflection is not satisfied and asks for more steps.
Replan ==
    /\ pc = "loop"
    /\ ~Exceeded
    /\ Pending = {}
    /\ replans_left > 0
    /\ \E n \in 1..MaxTitles : Reflects(FALSE, n) /\ ReplanFailed(n)
    /\ replans_left' = replans_left - 1
    /\ UNCHANGED <<policy, pc, step, proposal, budgetVars, late, fingerprints,
                   pending_review, final_delivered, answer, success, calls>>

-----------------------------------------------------------------------------
(* _run_step() *)

\* The reasoner answers directly.  Only with no further pending step is that
\* the answer of the run.  Neither reasoner delivers a blank answer.
FinalAnswer ==
    /\ pc = "propose"
    /\ Complete("answer")
    /\ final_delivered' = (Pending = {})
    /\ answer' = "step"
    /\ step' = 0
    /\ pc' = IF final_delivered' THEN "settle" ELSE "loop"
    /\ UNCHANGED <<policy, proposal, budgetVars, late, fingerprints, pending_review,
                   replans_left, success, calls>>

\* A step of cognition only.
NoTool ==
    /\ pc = "propose"
    /\ Complete("no_tool")
    /\ step' = 0
    /\ pc' = "loop"
    /\ UNCHANGED <<policy, proposal, budgetVars, late, fingerprints, pending_review,
                   replans_left, final_delivered, answer, success, calls>>

\* The reasoner proposes an action that has been proposed too often.
Stuck(a) ==
    /\ pc = "propose"
    /\ fingerprints' = [fingerprints EXCEPT ![a] = @ + 1]
    /\ fingerprints'[a] > max_step_attempts
    /\ Fail("stuck")
    /\ step' = 0
    /\ pc' = "loop"
    /\ UNCHANGED <<policy, proposal, budgetVars, late, pending_review, replans_left,
                   final_delivered, answer, success, calls>>

\* Seeded fault: the loop detector lets one repetition more through.
Propose_OneMore(a) ==
    /\ pc = "propose"
    /\ fingerprints' = [fingerprints EXCEPT ![a] = @ + 1]
    /\ fingerprints[a] <= max_step_attempts
    /\ proposal' = a
    /\ pc' = "gate"
    /\ UNCHANGED <<policy, plan, step, budgetVars, late, pending_review, replans_left,
                   final_delivered, answer, success, calls>>

\* The reasoner proposes an action, which goes to the gate.
Propose(a) ==
    /\ pc = "propose"
    /\ fingerprints' = [fingerprints EXCEPT ![a] = @ + 1]
    /\ fingerprints'[a] <= max_step_attempts
    /\ proposal' = a
    /\ pc' = "gate"
    /\ UNCHANGED <<policy, plan, step, budgetVars, late, pending_review, replans_left,
                   final_delivered, answer, success, calls>>

\* reasoner.propose, reasoner.reflect or Risk(tool.risk) raises: nothing in
\* run() catches it and the run has no result.
Raise ==
    /\ \/ pc = "propose"
       \/ pc = "loop" /\ ~Exceeded /\ Pending = {}
    /\ pc' = "raised"
    /\ UNCHANGED <<policy, plan, step, proposal, budgetVars, late, fingerprints,
                   pending_review, replans_left, final_delivered, answer, success, calls>>

Deny ==
    /\ pc = "gate"
    /\ Check(policy, proposal) = "deny"
    /\ Fail("denied")
    /\ proposal' = NoAction
    /\ step' = 0
    /\ pc' = "loop"
    /\ UNCHANGED <<policy, budgetVars, late, fingerprints, pending_review, replans_left,
                   final_delivered, answer, success, calls>>

\* The action is handed to a human; the step counts as done.
Review ==
    /\ pc = "gate"
    /\ Check(policy, proposal) = "review"
    /\ pending_review' = Append(pending_review, [step |-> step, action |-> proposal])
    /\ Complete("awaiting_review")
    /\ proposal' = NoAction
    /\ step' = 0
    /\ pc' = "loop"
    /\ UNCHANGED <<policy, budgetVars, late, fingerprints, replans_left,
                   final_delivered, answer, success, calls>>

\* The gate lets the action through: it is charged and handed to the executor.
Allow ==
    /\ pc = "gate"
    /\ Check(policy, proposal) = "allow"
    /\ tool_calls_used' = tool_calls_used + 1
    /\ calls' = Append(calls, [step |-> step, action |-> proposal])
    /\ pc' = "execute"
    /\ UNCHANGED <<policy, plan, step, proposal, steps_used, tokens_used, late,
                   fingerprints, pending_review, replans_left, final_delivered, answer, success>>

\* The executor raises, reports an error, or the output guardrail rejects its
\* output: no tokens are charged.
ToolFails ==
    /\ pc = "execute"
    /\ \E result \in {"error", "guardrail"} : Fail(result)
    /\ proposal' = NoAction
    /\ step' = 0
    /\ pc' = "loop"
    /\ UNCHANGED <<policy, budgetVars, late, fingerprints, pending_review, replans_left,
                   final_delivered, answer, success, calls>>

\* The tool succeeds and its output costs n tokens, at least one.
ToolSucceeds(n) ==
    /\ pc = "execute"
    /\ tokens_used' = tokens_used + n
    /\ Complete("ok")
    /\ proposal' = NoAction
    /\ step' = 0
    /\ pc' = "loop"
    /\ UNCHANGED <<policy, steps_used, tool_calls_used, late, fingerprints, pending_review,
                   replans_left, final_delivered, answer, success, calls>>

-----------------------------------------------------------------------------
\* After the loop: the verdict, and the answer unless a step delivered it.
\* The reasoner may have no synthesis to offer; then the answer of an earlier
\* step is used, or the summary of the plan.
Settle ==
    /\ pc = "settle"
    /\ success' = (IsComplete /\ ~HasFailures /\ ~Exceeded)
    /\ \/ final_delivered /\ answer' = answer
       \/ ~final_delivered /\ answer' = "synthesis"
       \/ ~final_delivered /\ answer' = IF answer = "none" THEN "summary" ELSE answer
    /\ pc' = "done"
    /\ UNCHANGED <<policy, plan, step, proposal, budgetVars, late, fingerprints,
                   pending_review, replans_left, final_delivered, calls>>

Finished == pc \in {"done", "raised"}

RunStep ==
    \/ FinalAnswer \/ NoTool
    \/ \E a \in Actions : Stuck(a) \/ Propose(a)
    \/ Deny \/ Review \/ Allow
    \/ ToolFails \/ \E n \in 1..MaxOutput : ToolSucceeds(n)

Run ==
    \/ StopOnBudget \/ TakeStep \/ ReflectAndStop \/ Replan
    \/ RunStep \/ Raise \/ Settle

Next == Run \/ Deadline

Spec == Init /\ [][Next]_vars

\* run() keeps going: every wait in it, for the model, the bridge or a tool
\* process, has a timeout of its own.
FairSpec == Spec /\ WF_vars(Run)

-----------------------------------------------------------------------------
(* Properties *)

Call == [step : Nat \ {0}, action : Actions]

TypeOK ==
    /\ policy \in Policies
    /\ pc \in {"loop", "propose", "gate", "execute", "settle", "done", "raised"}
    /\ plan \in Seq(PlanStep)
    /\ step \in 0..Len(plan)
    /\ pc \in {"propose", "gate", "execute"} => step # 0
    /\ proposal \in Actions \cup {NoAction}
    /\ pc \in {"gate", "execute"} => proposal \in Actions
    /\ steps_used \in Nat /\ tool_calls_used \in Nat /\ tokens_used \in Nat
    /\ late \in BOOLEAN
    /\ fingerprints \in [Actions -> Nat]
    /\ pending_review \in Seq(Call)
    /\ replans_left \in 0..replan_budget
    /\ final_delivered \in BOOLEAN
    /\ answer \in {"none", "step", "synthesis", "summary"}
    /\ success \in BOOLEAN
    /\ calls \in Seq(Call)

\* The gate's verdict is obeyed for the whole run: no action that an input
\* validator or a deny rule rejects ever reaches the executor, whatever the mode
\* and the allow rules say ("an explicit deny always beats an allow",
\* PermissionEngine.check), and one that was escalated to a human is executed
\* neither by the step that proposed it nor by one that a replan added.
VerdictObeyed ==
    \A k \in DOMAIN calls :
        /\ calls[k].action \notin Blocked \cup policy.deny
        /\ \A r \in DOMAIN pending_review : calls[k].action # pending_review[r].action

\* The calls of the executor with action a.
Runs(a) == {k \in DOMAIN calls : calls[k].action = a}

\* Loop detection: one action (a tool with its arguments) is executed at most
\* max_step_attempts times in a run, replanned steps included.
RepetitionBounded ==
    \A a \in Actions : Cardinality(Runs(a)) <= max_step_attempts

\* Bounded execution: the loop never passes the step or tool-call limit, every
\* call is charged, and the token limit is passed by at most one tool result,
\* because it is only looked at before a step.
WithinBudget ==
    /\ steps_used <= max_steps
    /\ Len(calls) = tool_calls_used
    /\ tool_calls_used <= max_tool_calls
    /\ tokens_used < max_tokens + MaxOutput

\* The plan is worked off in its order, the steps of a replan included, and the
\* run leaves pending steps behind only because a limit was reached: a step that
\* answers before the last one does not cut the plan short.
PlanWorkedOff ==
    /\ \A i, j \in DOMAIN plan :
           i < j /\ plan[i].status = "pending" => plan[j].status = "pending"
    /\ pc \in {"settle", "done"} /\ Pending # {} => Exceeded

\* A run that reports success has made good every step that went wrong: a
\* later step, which a replan appended, was done.
SuccessCoversFailures ==
    success => \A i \in DOMAIN plan :
        plan[i].result \in {"stuck", "denied", "error", "guardrail"} =>
            \E j \in DOMAIN plan :
                j > i /\ plan[j].origin = "replan" /\ plan[j].status = "done"

\* A step that was done or skipped stays so, one that failed is at most
\* skipped, and none is attempted twice: a replan appends steps, it does not
\* rewind the plan (Plan.replan_failed).
SettledStepsStay ==
    [][\A i \in DOMAIN plan :
        /\ plan[i].status \in {"done", "skipped"} => plan'[i] = plan[i]
        /\ plan[i].status = "failed" =>
              plan'[i] \in {plan[i], As(plan[i], "skipped", plan[i].result)}
        /\ plan'[i].attempts <= 1]_vars

\* Every run ends.
Terminates == <>Finished

\* The run as its callers see it.
Contract == INSTANCE AgentContract
    WITH MaxCalls   <- max_tool_calls,
         MaxRepeats <- max_step_attempts,
         permitted  <- {a \in Actions : Check(policy, a) = "allow"},
         executed   <- [k \in DOMAIN calls |-> calls[k].action],
         outcome    <- CASE pc = "done"   -> IF success THEN "succeeded" ELSE "failed"
                         [] pc = "raised" -> "raised"
                         [] OTHER         -> "running"

\* The engine implements AgentContract: whatever the reasoner proposes and the
\* tools return, only permitted actions are executed, within both limits, and
\* none after the run has ended.
ImplementsContract == Contract!Spec

=============================================================================
