------------------------ MODULE DavinciEngineProofs ------------------------
(***************************************************************************)
(* What is proved of DavinciEngine for every set of actions, every policy  *)
(* and every budget: its types, that the gate and the loop detector do     *)
(* what they promise, that the budget is kept, that the plan is worked off *)
(* and success means success, and that the engine implements its contract. *)
(***************************************************************************)
EXTENDS DavinciEngine, FiniteSetTheorems, SequenceTheorems, TLAPS

(***************************************************************************)
(* Types.                                                                  *)
(***************************************************************************)

\* A step stays a step when it is started, completed, failed or skipped.
LEMMA StepType ==
    ASSUME NEW s \in PlanStep
    PROVE  /\ Started(s) \in PlanStep
           /\ \A t \in StepStatus, r \in StepResult : As(s, t, r) \in PlanStep
           /\ s.result \in StepResult
  BY DEF PlanStep, Started, As, StepStatus

\* A plan keeps its type and length when one of its steps is replaced.
LEMMA MarkType ==
    ASSUME NEW p \in Seq(PlanStep), NEW i \in 1..Len(p), NEW s \in PlanStep
    PROVE  /\ [p EXCEPT ![i] = s] \in Seq(PlanStep)
           /\ Len([p EXCEPT ![i] = s]) = Len(p)
  OBVIOUS

\* What Plan.replan_failed leaves of each step, and appends.
LEMMA ReplanSteps ==
    ASSUME plan \in Seq(PlanStep), NEW n \in Nat, ReplanFailed(n)
    PROVE  /\ plan' \in Seq(PlanStep) /\ Len(plan') = Len(plan) + n
           /\ \A i \in 1..Len(plan) :
                 plan'[i] = IF plan[i].status = "failed" THEN As(plan[i], "skipped", plan[i].result)
                                                          ELSE plan[i]
           /\ \A i \in (Len(plan) + 1)..(Len(plan) + n) : plan'[i] = NewStep("replan")
<1> DEFINE f == [i \in DOMAIN plan |->
                    IF plan[i].status = "failed" THEN As(plan[i], "skipped", plan[i].result)
                                                 ELSE plan[i]]
           g == [k \in 1..n |-> NewStep("replan")]
<1>1. \A i \in DOMAIN plan : As(plan[i], "skipped", plan[i].result) \in PlanStep
  BY StepType DEF StepStatus
<1>2. f \in Seq(PlanStep) /\ Len(f) = Len(plan)
  BY <1>1
<1>3. g \in Seq(PlanStep) /\ Len(g) = n
  BY DEF NewStep, PlanStep, StepStatus, StepResult
<1>4. plan' = f \o g
  BY DEF ReplanFailed
<1>5. /\ \A i \in 1..Len(plan) :
            f[i] = IF plan[i].status = "failed" THEN As(plan[i], "skipped", plan[i].result)
                                                ELSE plan[i]
      /\ \A k \in 1..n : g[k] = NewStep("replan")
  OBVIOUS
<1> HIDE DEF f, g
<1>6. /\ \A i \in 1..Len(plan) : (f \o g)[i] = f[i]
      /\ \A i \in (Len(plan) + 1)..(Len(plan) + n) :
            (f \o g)[i] = g[i - Len(plan)] /\ i - Len(plan) \in 1..n
  BY <1>2, <1>3, ConcatProperties
<1>7. f \o g \in Seq(PlanStep) /\ Len(f \o g) = Len(f) + Len(g)
  BY <1>2, <1>3, ConcatProperties
<1>8. QED
  BY <1>2, <1>3, <1>4, <1>5, <1>6, <1>7

\* Completing or failing the step being run keeps the type of the plan.
LEMMA SettleStepType ==
    ASSUME TypeOK, step # 0,
           NEW r \in StepResult, Complete(r) \/ Fail(r)
    PROVE  plan' \in Seq(PlanStep) /\ Len(plan') = Len(plan)
<1>1. plan \in Seq(PlanStep) /\ step \in 1..Len(plan)
  BY DEF TypeOK
<1>2. plan[step] \in PlanStep
  BY <1>1
<1>3. /\ As(plan[step], "done", r) \in PlanStep
      /\ As(plan[step], "failed", r) \in PlanStep
  BY <1>2, StepType DEF StepStatus
<1>4. QED
  BY <1>1, <1>3, MarkType DEF Complete, Fail

\* The initial states are of the declared types.
LEMMA InitType == Init => TypeOK
<1> SUFFICES ASSUME Init PROVE TypeOK
  OBVIOUS
<1>1. PICK n \in 1..MaxPlan : plan = [i \in 1..n |-> NewStep("plan")]
  BY DEF Init
<1>2. NewStep("plan") \in PlanStep
  BY DEF NewStep, PlanStep, StepStatus, StepResult
<1>3. plan \in Seq(PlanStep) /\ Len(plan) = n
  BY <1>1, <1>2, EngineAssumption
<1>4. pending_review \in Seq(Call) /\ calls \in Seq(Call)
  BY DEF Init
<1>5. fingerprints \in [Actions -> Nat]
  BY DEF Init
<1>6. step \in 0..Len(plan) /\ replans_left \in 0..replan_budget
  BY <1>3, EngineAssumption DEF Init
<1>7. QED
  BY <1>3, <1>4, <1>5, <1>6 DEF Init, TypeOK

\* Every action keeps the declared types.
LEMMA NextType == TypeOK /\ [Next]_vars => TypeOK'
<1> SUFFICES ASSUME TypeOK, [Next]_vars PROVE TypeOK'
  OBVIOUS
<1> USE EngineAssumption
<1>1. CASE Deadline
  BY <1>1 DEF TypeOK, Deadline, budgetVars
<1>2. CASE StopOnBudget
  BY <1>2 DEF TypeOK, StopOnBudget, budgetVars
<1>3. CASE TakeStep
  <2>1. PICK i \in Pending : /\ step' = i
                            /\ plan' = [plan EXCEPT ![i] = Started(plan[i])]
    BY <1>3 DEF TakeStep
  <2>2. i \in 1..Len(plan) /\ plan[i] \in PlanStep
    BY DEF Pending, TypeOK
  <2>3. plan' \in Seq(PlanStep) /\ Len(plan') = Len(plan)
    BY <2>1, <2>2, StepType, MarkType DEF TypeOK
  <2>4. QED
    BY <1>3, <2>1, <2>2, <2>3 DEF TypeOK, TakeStep
<1>4. CASE ReflectAndStop
  BY <1>4 DEF TypeOK, ReflectAndStop, budgetVars
<1>5. CASE Replan
  <2>1. PICK n \in 1..MaxTitles : ReplanFailed(n)
    BY <1>5 DEF Replan
  <2>2. plan' \in Seq(PlanStep) /\ Len(plan') = Len(plan) + n
    BY <2>1, ReplanSteps DEF TypeOK
  <2>3. QED
    BY <1>5, <2>2 DEF TypeOK, Replan, budgetVars
<1>6. CASE FinalAnswer
  <2>1. plan' \in Seq(PlanStep) /\ Len(plan') = Len(plan)
    BY <1>6, SettleStepType DEF FinalAnswer, TypeOK, StepResult
  <2>2. QED
    BY <1>6, <2>1 DEF TypeOK, FinalAnswer, budgetVars
<1>7. CASE NoTool
  <2>1. plan' \in Seq(PlanStep) /\ Len(plan') = Len(plan)
    BY <1>7, SettleStepType DEF NoTool, TypeOK, StepResult
  <2>2. QED
    BY <1>7, <2>1 DEF TypeOK, NoTool, budgetVars
<1>8. ASSUME NEW a \in Actions, Stuck(a)
      PROVE  TypeOK'
  <2>1. plan' \in Seq(PlanStep) /\ Len(plan') = Len(plan)
    BY <1>8, SettleStepType DEF Stuck, TypeOK, StepResult
  <2>2. QED
    BY <1>8, <2>1 DEF TypeOK, Stuck, budgetVars
<1>9. ASSUME NEW a \in Actions, Propose(a)
      PROVE  TypeOK'
  BY <1>9 DEF TypeOK, Propose, budgetVars
<1>10. CASE Raise
  BY <1>10 DEF TypeOK, Raise, budgetVars
<1>11. CASE Deny
  <2>1. plan' \in Seq(PlanStep) /\ Len(plan') = Len(plan)
    BY <1>11, SettleStepType DEF Deny, TypeOK, StepResult
  <2>2. QED
    BY <1>11, <2>1 DEF TypeOK, Deny, budgetVars
<1>12. CASE Review
  <2>1. plan' \in Seq(PlanStep) /\ Len(plan') = Len(plan)
    BY <1>12, SettleStepType DEF Review, TypeOK, StepResult
  <2>2. pending_review' \in Seq(Call)
    BY <1>12 DEF TypeOK, Review, Call
  <2>3. QED
    BY <1>12, <2>1, <2>2 DEF TypeOK, Review, budgetVars
<1>13. CASE Allow
  <2>1. calls' \in Seq(Call)
    BY <1>13 DEF TypeOK, Allow, Call
  <2>2. QED
    BY <1>13, <2>1 DEF TypeOK, Allow
<1>14. CASE ToolFails
  <2>1. plan' \in Seq(PlanStep) /\ Len(plan') = Len(plan)
    BY <1>14, SettleStepType DEF ToolFails, TypeOK, StepResult
  <2>2. QED
    BY <1>14, <2>1 DEF TypeOK, ToolFails, budgetVars
<1>15. ASSUME NEW n \in 1..MaxOutput, ToolSucceeds(n)
       PROVE  TypeOK'
  <2>1. plan' \in Seq(PlanStep) /\ Len(plan') = Len(plan)
    BY <1>15, SettleStepType DEF ToolSucceeds, TypeOK, StepResult
  <2>2. tokens_used' \in Nat
    BY <1>15 DEF TypeOK, ToolSucceeds
  <2>3. QED
    BY <1>15, <2>1, <2>2 DEF TypeOK, ToolSucceeds
<1>16. CASE Settle
  BY <1>16 DEF TypeOK, Settle, budgetVars
<1>17. CASE UNCHANGED vars
  BY <1>17 DEF TypeOK, vars
<1>18. QED
  BY <1>1, <1>2, <1>3, <1>4, <1>5, <1>6, <1>7, <1>8, <1>9, <1>10, <1>11, <1>12,
     <1>13, <1>14, <1>15, <1>16, <1>17 DEF Next, Run, RunStep

\* Every variable of run() keeps its type: in particular a step is being run
\* whenever the code refers to one, and the replan budget never goes negative.
THEOREM TypeCorrect == Spec => []TypeOK
<1>1. QED
  BY InitType, NextType, PTL DEF Spec

(***************************************************************************)
(* The gate.  The property is not inductive: it is a consequence of what   *)
(* the gate answered for every action in the two lists, an answer that     *)
(* does not change while the policy does not.                              *)
(***************************************************************************)
GateInv ==
    /\ \A k \in DOMAIN calls : Check(policy, calls[k].action) = "allow"
    /\ \A r \in DOMAIN pending_review : Check(policy, pending_review[r].action) = "review"

\* The gate is asked before an action is executed or escalated.
LEMMA NextGate == TypeOK /\ GateInv /\ [Next]_vars => GateInv'
<1> SUFFICES ASSUME TypeOK, GateInv, [Next]_vars PROVE GateInv'
  OBVIOUS
<1>1. CASE Review
  <2>1. /\ policy' = policy /\ calls' = calls
        /\ pending_review' = Append(pending_review, [step |-> step, action |-> proposal])
        /\ Check(policy, proposal) = "review"
    BY <1>1 DEF Review
  <2>2. \A r \in DOMAIN pending_review' : \/ r \in DOMAIN pending_review
                                             /\ pending_review'[r] = pending_review[r]
                                          \/ pending_review'[r].action = proposal
    BY <2>1 DEF TypeOK
  <2>3. QED
    BY <2>1, <2>2 DEF GateInv
<1>2. CASE Allow
  <2>1. /\ policy' = policy /\ pending_review' = pending_review
        /\ calls' = Append(calls, [step |-> step, action |-> proposal])
        /\ Check(policy, proposal) = "allow"
    BY <1>2 DEF Allow
  <2>2. \A k \in DOMAIN calls' : \/ k \in DOMAIN calls /\ calls'[k] = calls[k]
                                 \/ calls'[k].action = proposal
    BY <2>1 DEF TypeOK
  <2>3. QED
    BY <2>1, <2>2 DEF GateInv
<1>3. CASE ~Review /\ ~Allow
  <2>1. UNCHANGED <<policy, calls, pending_review>>
    BY <1>3 DEF Next, Run, RunStep, vars, Deadline, StopOnBudget, TakeStep, ReflectAndStop,
       Replan, FinalAnswer, NoTool, Stuck, Propose, Raise, Deny, ToolFails, ToolSucceeds, Settle
  <2>2. QED
    BY <2>1 DEF GateInv
<1>4. QED
  BY <1>1, <1>2, <1>3

\* A denied action never runs and an escalated one does not run either, under
\* every policy.
THEOREM GateHolds == Spec => []VerdictObeyed
<1>1. Init => GateInv
  BY DEF Init, GateInv
<1>2. GateInv => VerdictObeyed
  BY DEF GateInv, VerdictObeyed, Check
<1>3. QED
  BY <1>1, <1>2, NextGate, TypeCorrect, PTL DEF Spec

(***************************************************************************)
(* The loop detector.  The count of an action's executions is bounded by   *)
(* its fingerprint count, which only an action on its way to the gate      *)
(* exceeds; Stuck raises the fingerprint count past the limit but executes *)
(* nothing.                                                                *)
(***************************************************************************)
RepetitionInv ==
    /\ RepetitionBounded
    /\ \A a \in Actions : Cardinality(Runs(a)) <= fingerprints[a]
    /\ pc = "gate" => /\ Cardinality(Runs(proposal)) < fingerprints[proposal]
                      /\ fingerprints[proposal] <= max_step_attempts

\* The executions of an action are finitely many.
LEMMA RunsFinite ==
    ASSUME TypeOK, NEW a \in Actions
    PROVE  IsFiniteSet(Runs(a)) /\ Cardinality(Runs(a)) \in Nat
<1>1. DOMAIN calls = 1..Len(calls) /\ Len(calls) \in Nat
  BY DEF TypeOK
<1>2. IsFiniteSet(1..Len(calls))
  BY <1>1, FS_Interval
<1>3. IsFiniteSet(Runs(a))
  BY <1>1, <1>2, FS_Subset DEF Runs
<1>4. QED
  BY <1>3, FS_CardinalityType

\* Executing an action adds one to its count and to no other.
LEMMA RunsAppend ==
    ASSUME TypeOK, proposal \in Actions, NEW a \in Actions,
           calls' = Append(calls, [step |-> step, action |-> proposal])
    PROVE  Cardinality(Runs(a)') = Cardinality(Runs(a)) + (IF a = proposal THEN 1 ELSE 0)
<1>1. /\ DOMAIN calls = 1..Len(calls) /\ DOMAIN calls' = 1..(Len(calls) + 1)
      /\ Len(calls) \in Nat
      /\ calls'[Len(calls) + 1].action = proposal
      /\ \A k \in 1..Len(calls) : calls'[k] = calls[k]
  BY DEF TypeOK
<1>2. CASE a = proposal
  <2>1. Runs(a)' = Runs(a) \cup {Len(calls) + 1} /\ Len(calls) + 1 \notin Runs(a)
    BY <1>1, <1>2 DEF Runs
  <2>2. QED
    BY <1>2, <2>1, RunsFinite, FS_AddElement
<1>3. CASE a # proposal
  <2>1. Runs(a)' = Runs(a)
    BY <1>1, <1>3 DEF Runs
  <2>2. QED
    BY <1>3, <2>1, RunsFinite
<1>4. QED
  BY <1>2, <1>3

\* Every action keeps the counts of executions below those of proposals.
LEMMA NextRepetition == TypeOK /\ RepetitionInv /\ [Next]_vars => RepetitionInv'
<1> SUFFICES ASSUME TypeOK, RepetitionInv, [Next]_vars PROVE RepetitionInv'
  OBVIOUS
<1> USE EngineAssumption
<1>0. \A a \in Actions : Cardinality(Runs(a)) \in Nat /\ fingerprints[a] \in Nat
  BY RunsFinite DEF TypeOK
<1>1. ASSUME NEW b \in Actions, Propose(b) \/ Stuck(b)
      PROVE  RepetitionInv'
  <2>1. calls' = calls /\ fingerprints' = [fingerprints EXCEPT ![b] = @ + 1]
    BY <1>1 DEF Propose, Stuck
  <2>2. \A a \in Actions : Runs(a)' = Runs(a)
    BY <2>1 DEF Runs
  <2>3. \A a \in Actions : fingerprints[a] <= fingerprints'[a]
    BY <1>0, <2>1 DEF TypeOK
  <2>4. CASE Propose(b)
    <3>1. proposal' = b /\ fingerprints'[b] <= max_step_attempts
      BY <2>4 DEF Propose
    <3>2. fingerprints'[b] = fingerprints[b] + 1
      BY <2>1 DEF TypeOK
    <3>3. Cardinality(Runs(b)) < fingerprints'[b]
      BY <1>0, <3>2 DEF RepetitionInv
    <3>4. Runs(proposal)' = Runs(b)
      BY <2>1, <3>1 DEF Runs
    <3>5. Cardinality(Runs(proposal))' < fingerprints'[proposal']
      BY <3>1, <3>3, <3>4
    <3>6. \A a \in Actions : /\ Cardinality(Runs(a))' <= max_step_attempts
                             /\ Cardinality(Runs(a))' <= fingerprints'[a]
      <4> TAKE a \in Actions
      <4>1. Cardinality(Runs(a)) <= max_step_attempts /\ Cardinality(Runs(a)) <= fingerprints[a]
        BY DEF RepetitionInv, RepetitionBounded
      <4>2. fingerprints'[a] \in Nat
        BY <2>1, <1>0 DEF TypeOK
      <4>3. QED
        BY <1>0, <2>2, <2>3, <4>1, <4>2
    <3>7. QED
      BY <3>1, <3>5, <3>6 DEF RepetitionInv, RepetitionBounded
  <2>5. CASE Stuck(b)
    BY <1>0, <2>2, <2>3, <2>5 DEF RepetitionInv, RepetitionBounded, Stuck, TypeOK
  <2>6. QED
    BY <1>1, <2>4, <2>5
<1>2. CASE Allow
  <2>1. /\ calls' = Append(calls, [step |-> step, action |-> proposal])
        /\ fingerprints' = fingerprints /\ pc' = "execute" /\ pc = "gate"
    BY <1>2 DEF Allow
  <2>2. proposal \in Actions
    BY <2>1 DEF TypeOK
  <2>3. \A a \in Actions : Cardinality(Runs(a)') =
                             Cardinality(Runs(a)) + (IF a = proposal THEN 1 ELSE 0)
    BY <2>1, <2>2, RunsAppend
  <2>4. QED
    BY <1>0, <2>1, <2>2, <2>3 DEF RepetitionInv, RepetitionBounded
<1>3. CASE ~Allow /\ ~(\E b \in Actions : Propose(b) \/ Stuck(b))
  <2>1. UNCHANGED <<calls, fingerprints>>
    BY <1>3 DEF Next, Run, RunStep, vars, Deadline, StopOnBudget, TakeStep, ReflectAndStop,
       Replan, FinalAnswer, NoTool, Raise, Deny, Review, ToolFails, ToolSucceeds, Settle
  <2>2. pc' = "gate" => pc = "gate" /\ proposal' = proposal
    BY <1>3 DEF Next, Run, RunStep, vars, Deadline, StopOnBudget, TakeStep, ReflectAndStop,
       Replan, FinalAnswer, NoTool, Raise, Deny, Review, ToolFails, ToolSucceeds, Settle
  <2>3. \A a \in Actions : Runs(a)' = Runs(a)
    BY <2>1 DEF Runs
  <2>4. pc' = "gate" => proposal \in Actions /\ Runs(proposal)' = Runs(proposal)
    BY <2>1, <2>2 DEF TypeOK, Runs
  <2>5. QED
    BY <2>1, <2>2, <2>3, <2>4 DEF RepetitionInv, RepetitionBounded
<1>4. QED
  BY <1>1, <1>2, <1>3

\* Nothing has been executed when a run starts.
LEMMA InitRepetition == Init => RepetitionInv
<1> SUFFICES ASSUME Init PROVE RepetitionInv
  OBVIOUS
<1>1. DOMAIN calls = {}
  BY EmptySeq DEF Init
<1>2. \A a \in Actions : Runs(a) = {}
  BY <1>1 DEF Runs
<1>3. \A a \in Actions : Cardinality(Runs(a)) = 0
  BY <1>2, FS_EmptySet
<1>4. QED
  BY <1>3, EngineAssumption DEF Init, RepetitionInv, RepetitionBounded

\* No run executes one action more than max_step_attempts times.
THEOREM RepetitionHolds == Spec => []RepetitionBounded
<1>1. RepetitionInv => RepetitionBounded
  BY DEF RepetitionInv
<1>2. QED
  BY <1>1, InitRepetition, NextRepetition, TypeCorrect, PTL DEF Spec

(***************************************************************************)
(* The budget.  It is only looked at by the loop head, so the invariant    *)
(* has to remember what was left of it while a step is on its way from     *)
(* there to the executor.                                                  *)
(***************************************************************************)
BudgetInv ==
    /\ WithinBudget
    /\ pc \in {"propose", "gate"} => tool_calls_used < max_tool_calls
    /\ pc \in {"propose", "gate", "execute"} => tokens_used < max_tokens

\* Every action keeps what is left of the budget.
LEMMA NextBudget == TypeOK /\ BudgetInv /\ [Next]_vars => BudgetInv'
<1> SUFFICES ASSUME TypeOK, BudgetInv, [Next]_vars PROVE BudgetInv'
  OBVIOUS
<1> USE EngineAssumption
<1>0. steps_used \in Nat /\ tool_calls_used \in Nat /\ tokens_used \in Nat
  BY DEF TypeOK
<1>1. CASE TakeStep
  BY <1>0, <1>1 DEF BudgetInv, WithinBudget, TakeStep, Exceeded
<1>2. CASE Allow
  <2>1. Len(calls') = Len(calls) + 1
    BY <1>2 DEF Allow, TypeOK
  <2>2. QED
    BY <1>0, <1>2, <2>1 DEF BudgetInv, WithinBudget, Allow
<1>3. ASSUME NEW n \in 1..MaxOutput, ToolSucceeds(n)
      PROVE  BudgetInv'
  BY <1>0, <1>3 DEF BudgetInv, WithinBudget, ToolSucceeds
<1>4. CASE \E a \in Actions : Propose(a)
  BY <1>4 DEF BudgetInv, WithinBudget, Propose, budgetVars
<1>5. CASE /\ ~TakeStep /\ ~Allow /\ ~(\E n \in 1..MaxOutput : ToolSucceeds(n))
           /\ ~(\E a \in Actions : Propose(a))
  <2>1. UNCHANGED <<steps_used, tool_calls_used, tokens_used, calls>>
    BY <1>5 DEF Next, Run, RunStep, vars, budgetVars, Deadline, StopOnBudget, ReflectAndStop,
       Replan, FinalAnswer, NoTool, Stuck, Raise, Deny, Review, ToolFails, Settle
  <2>2. pc' \in {"propose", "gate", "execute"} => pc' = pc
    BY <1>5 DEF Next, Run, RunStep, vars, Deadline, StopOnBudget, ReflectAndStop,
       Replan, FinalAnswer, NoTool, Stuck, Raise, Deny, Review, ToolFails, Settle
  <2>3. QED
    BY <2>1, <2>2 DEF BudgetInv, WithinBudget
<1>6. QED
  BY <1>1, <1>2, <1>3, <1>4, <1>5

\* Nothing has been charged when a run starts.
LEMMA InitBudget == Init => BudgetInv
  BY EngineAssumption, EmptySeq DEF Init, BudgetInv, WithinBudget

\* No run passes its step or tool-call limit, and its token limit by less
\* than one tool result.
THEOREM BudgetHolds == Spec => []WithinBudget
<1>1. BudgetInv => WithinBudget
  BY DEF BudgetInv
<1>2. QED
  BY <1>1, InitBudget, NextBudget, TypeCorrect, PTL DEF Spec

(***************************************************************************)
(* The refinement.                                                         *)
(***************************************************************************)

\* Under the invariants every step of the engine is a step of AgentContract
\* or leaves what its callers see unchanged.
LEMMA StepRefines ==
    TypeOK /\ RepetitionInv /\ BudgetInv /\ [Next]_vars => [Contract!Next]_Contract!vars
<1> DEFINE executed == [k \in DOMAIN calls |-> calls[k].action]
<1> SUFFICES ASSUME TypeOK, RepetitionInv, BudgetInv, [Next]_vars
             PROVE  [Contract!Next]_Contract!vars
  OBVIOUS
<1> USE EngineAssumption
<1>1. CASE Allow
  <2>1. /\ pc = "gate" /\ pc' = "execute" /\ policy' = policy /\ success' = success
        /\ Check(policy, proposal) = "allow"
        /\ calls' = Append(calls, [step |-> step, action |-> proposal])
    BY <1>1 DEF Allow
  <2>2. proposal \in Actions
    BY <2>1 DEF TypeOK
  <2>3. executed' = Append(executed, proposal)
    BY <2>1 DEF TypeOK
  <2>4. DOMAIN executed = DOMAIN calls /\ Len(executed) = Len(calls)
    BY DEF TypeOK
  <2>5. Contract!Times(proposal) < max_step_attempts
    <3>1. {k \in DOMAIN executed : executed[k] = proposal} = Runs(proposal)
      BY DEF Runs
    <3>2. Cardinality(Runs(proposal)) \in Nat /\ fingerprints[proposal] \in Nat
      BY <2>2, RunsFinite DEF TypeOK
    <3>3. Cardinality(Runs(proposal)) < max_step_attempts
      BY <2>1, <3>2 DEF RepetitionInv
    <3>4. Contract!Cardinality(Runs(proposal)) = Cardinality(Runs(proposal))
      BY DEF Contract!Cardinality, Cardinality
    <3>5. QED
      BY <3>1, <3>3, <3>4 DEF Contract!Times
  <2>6. Len(executed) < max_tool_calls
    BY <2>1, <2>4 DEF BudgetInv, WithinBudget
  <2>7. PICK a \in Actions : a = proposal
    BY <2>2
  <2>8. Contract!Execute(a)
    BY <2>1, <2>3, <2>5, <2>6, <2>7 DEF Contract!Execute, Contract!Times
  <2>9. QED
    BY <2>8 DEF Contract!Next
<1>2. CASE Settle \/ Raise
  <2>1. pc \notin {"done", "raised"} /\ pc' \in {"done", "raised"}
        /\ UNCHANGED <<policy, calls>>
    BY <1>2 DEF Settle, Raise
  <2>2. Contract!End
    BY <2>1 DEF Contract!End
  <2>3. QED
    BY <2>2 DEF Contract!Next
<1>3. CASE ~Allow /\ ~Settle /\ ~Raise
  <2>1. UNCHANGED <<policy, calls, success>>
    BY <1>3 DEF Next, Run, RunStep, vars, Deadline, StopOnBudget, TakeStep, ReflectAndStop,
       Replan, FinalAnswer, NoTool, Stuck, Propose, Deny, Review, ToolFails, ToolSucceeds
  <2>2. \/ pc' = pc
        \/ pc \notin {"done", "raised"} /\ pc' \notin {"done", "raised"}
    BY <1>3 DEF Next, Run, RunStep, vars, Deadline, StopOnBudget, TakeStep, ReflectAndStop,
       Replan, FinalAnswer, NoTool, Stuck, Propose, Deny, Review, ToolFails, ToolSucceeds
  <2>3. QED
    BY <2>1, <2>2 DEF Contract!vars
<1>4. QED
  BY <1>1, <1>2, <1>3

\* The engine implements the contract its callers rely on.
THEOREM EngineImplementsContract == Spec => ImplementsContract
<1>1. Init => Contract!Init
  <2> SUFFICES ASSUME Init PROVE Contract!Init
    OBVIOUS
  <2>1. DOMAIN calls = {} /\ pc = "loop"
    BY EmptySeq DEF Init
  <2>2. [k \in DOMAIN calls |-> calls[k].action] = <<>>
    BY <2>1
  <2>3. QED
    BY <2>1, <2>2 DEF Contract!Init
<1>2. QED
  BY <1>1, InitRepetition, InitBudget, StepRefines, NextRepetition, NextBudget, TypeCorrect, PTL
     DEF Spec, ImplementsContract, Contract!Spec

(***************************************************************************)
(* The plan.  That it is worked off in order, that a success covers every  *)
(* failure and that settled steps stay so all rest on what can be said of  *)
(* one step by its status, and of the plan by its pending and its skipped  *)
(* steps: the pending ones are its end, and when any was skipped the last  *)
(* one was appended by a replan and is not skipped itself.                 *)
(***************************************************************************)

\* The results of a step that went wrong.
Wrong == {"stuck", "denied", "error", "guardrail"}

\* A step has no result before it is settled, a good one when it is done, and it
\* is attempted once.
StepInv(s) ==
    /\ s.status = "pending" => s.attempts = 0
    /\ s.attempts <= 1
    /\ s.status \in {"pending", "in_progress"} => s.result = "none"
    /\ s.status = "done" => s.result \notin Wrong

InOrder(p) ==
    \A i, j \in DOMAIN p : i < j /\ p[i].status = "pending" => p[j].status = "pending"

SkippedInv(p) ==
    \A i \in DOMAIN p : p[i].status = "skipped" =>
        p[Len(p)].origin = "replan" /\ p[Len(p)].status # "skipped"

PlanInv(p) == (\A i \in DOMAIN p : StepInv(p[i])) /\ InOrder(p) /\ SkippedInv(p)

\* The step that is being run is in progress; what is pending after the loop is
\* so because of a limit; and success is that of a finished, complete plan.
ProgressInv ==
    /\ PlanInv(plan)
    /\ pc \in {"propose", "gate", "execute"} => plan[step].status = "in_progress"
    /\ pc \in {"settle", "done"} /\ Pending # {} => Exceeded
    /\ success => pc = "done" /\ IsComplete

\* A plan stays as described when a step before which none is pending is started
\* or settled.
LEMMA MarkPlan ==
    ASSUME NEW p \in Seq(PlanStep), PlanInv(p), NEW i \in 1..Len(p), NEW s \in PlanStep,
           StepInv(s), s.origin = p[i].origin, s.status \notin {"pending", "skipped"},
           \A k \in 1..Len(p) : k < i => p[k].status # "pending"
    PROVE  PlanInv([p EXCEPT ![i] = s])
<1> DEFINE q == [p EXCEPT ![i] = s]
<1>1. /\ DOMAIN q = 1..Len(p) /\ DOMAIN p = 1..Len(p) /\ Len(q) = Len(p) /\ Len(p) \in Nat
      /\ q[i] = s /\ \A k \in 1..Len(p) : k # i => q[k] = p[k]
  OBVIOUS
<1> HIDE DEF q
<1>2. \A k \in DOMAIN q : StepInv(q[k])
  BY <1>1 DEF PlanInv
<1>3. InOrder(q)
  BY <1>1 DEF PlanInv, InOrder
<1>4. SkippedInv(q)
  <2> SUFFICES ASSUME NEW k \in DOMAIN q, q[k].status = "skipped"
               PROVE  q[Len(q)].origin = "replan" /\ q[Len(q)].status # "skipped"
    BY DEF SkippedInv
  <2>1. k \in DOMAIN p /\ p[k].status = "skipped" /\ Len(p) \in 1..Len(p)
    BY <1>1
  <2>2. p[Len(p)].origin = "replan" /\ p[Len(p)].status # "skipped"
    BY <2>1 DEF PlanInv, SkippedInv
  <2>3. CASE i = Len(p)
    BY <1>1, <2>2, <2>3
  <2>4. CASE i # Len(p)
    BY <1>1, <2>1, <2>2, <2>4
  <2>5. QED
    BY <2>3, <2>4
<1>5. QED
  BY <1>2, <1>3, <1>4 DEF PlanInv, q

\* A plan that is exhausted stays as described when failed steps are skipped and at
\* least one step is appended.
LEMMA ReplanPlan ==
    ASSUME plan \in Seq(PlanStep), PlanInv(plan), Pending = {},
           NEW n \in Nat \ {0}, ReplanFailed(n)
    PROVE  PlanInv(plan')
<1>1. /\ Len(plan) \in Nat /\ DOMAIN plan = 1..Len(plan)
      /\ plan' \in Seq(PlanStep) /\ Len(plan') = Len(plan) + n
      /\ DOMAIN plan' = 1..(Len(plan) + n)
      /\ \A i \in 1..Len(plan) :
            plan'[i] = IF plan[i].status = "failed" THEN As(plan[i], "skipped", plan[i].result)
                                                     ELSE plan[i]
      /\ \A i \in (Len(plan) + 1)..(Len(plan) + n) : plan'[i] = NewStep("replan")
  BY ReplanSteps
<1>2. \A i \in 1..Len(plan) :
         StepInv(plan'[i]) /\ plan'[i].status # "pending"
  <2> TAKE i \in 1..Len(plan)
  <2>1. StepInv(plan[i]) /\ plan[i].status # "pending"
    BY <1>1 DEF PlanInv, Pending
  <2>2. CASE plan[i].status = "failed"
    <3>1. plan'[i] = As(plan[i], "skipped", plan[i].result)
      BY <1>1, <2>2
    <3>2. plan'[i].status = "skipped" /\ plan'[i].attempts = plan[i].attempts
      BY <3>1 DEF As
    <3>3. QED
      BY <2>1, <3>2 DEF StepInv
  <2>3. CASE plan[i].status # "failed"
    BY <1>1, <2>1, <2>3
  <2>4. QED
    BY <2>2, <2>3
<1>3. \A i \in (Len(plan) + 1)..(Len(plan) + n) :
         /\ StepInv(plan'[i]) /\ plan'[i].status = "pending" /\ plan'[i].origin = "replan"
  BY <1>1 DEF StepInv, NewStep
<1>4. \A i \in DOMAIN plan' : i \in 1..Len(plan) \/ i \in (Len(plan) + 1)..(Len(plan) + n)
  BY <1>1
<1>5. \A i \in DOMAIN plan' : StepInv(plan'[i])
  BY <1>2, <1>3, <1>4
<1>6. InOrder(plan')
  <2> SUFFICES ASSUME NEW i \in DOMAIN plan', NEW j \in DOMAIN plan', i < j,
                      plan'[i].status = "pending"
               PROVE  plan'[j].status = "pending"
    BY DEF InOrder
  <2>1. i \in (Len(plan) + 1)..(Len(plan) + n)
    BY <1>2, <1>4
  <2>2. j \in (Len(plan) + 1)..(Len(plan) + n)
    BY <1>1, <2>1
  <2>3. QED
    BY <1>3, <2>2
<1>7. SkippedInv(plan')
  <2>1. Len(plan') \in (Len(plan) + 1)..(Len(plan) + n)
    BY <1>1
  <2>2. QED
    BY <1>3, <2>1 DEF SkippedInv
<1>8. QED
  BY <1>5, <1>6, <1>7 DEF PlanInv

\* A step of the plan that is settled: only the one in progress is.
LEMMA SettlePlan ==
    ASSUME TypeOK, ProgressInv, pc \in {"propose", "gate", "execute"},
           NEW result \in StepResult,
           (Complete(result) /\ result \notin Wrong) \/ Fail(result)
    PROVE  /\ plan' \in Seq(PlanStep) /\ Len(plan') = Len(plan)
           /\ plan[step].status = "in_progress" /\ step \in 1..Len(plan)
           /\ plan'[step].attempts = plan[step].attempts
           /\ plan'[step].status \in {"done", "failed"}
           /\ \A i \in 1..Len(plan) : i # step => plan'[i] = plan[i]
           /\ PlanInv(plan') /\ Pending' = Pending
<1>1. /\ plan \in Seq(PlanStep) /\ step \in 1..Len(plan) /\ plan[step] \in PlanStep
      /\ plan[step].status = "in_progress" /\ PlanInv(plan)
      /\ DOMAIN plan = 1..Len(plan)
  BY DEF TypeOK, ProgressInv
<1>2. PICK status \in {"done", "failed"} :
         /\ plan' = [plan EXCEPT ![step] = As(plan[step], status, result)]
         /\ status = "done" => result \notin Wrong
  BY DEF Complete, Fail
<1> DEFINE s == As(plan[step], status, result)
<1>3. /\ s \in PlanStep /\ s.status = status /\ s.result = result
      /\ s.origin = plan[step].origin /\ s.attempts = plan[step].attempts
  <2>1. status \in StepStatus
    BY <1>2 DEF StepStatus
  <2>2. s \in PlanStep
    BY <1>1, <2>1, StepType
  <2>3. QED
    BY <2>2 DEF As
<1>4. StepInv(s)
  <2>1. StepInv(plan[step])
    BY <1>1 DEF PlanInv
  <2>2. QED
    BY <1>2, <1>3, <2>1 DEF StepInv
<1> HIDE DEF s
<1>5. \A k \in 1..Len(plan) : k < step => plan[k].status # "pending"
  BY <1>1 DEF PlanInv, InOrder
<1>6. PlanInv(plan')
  BY <1>1, <1>2, <1>3, <1>4, <1>5, MarkPlan DEF s
<1>7. /\ plan' \in Seq(PlanStep) /\ Len(plan') = Len(plan) /\ DOMAIN plan' = 1..Len(plan)
      /\ plan'[step] = s /\ \A i \in 1..Len(plan) : i # step => plan'[i] = plan[i]
  BY <1>1, <1>2, <1>3 DEF s
<1>8. Pending' = Pending
  BY <1>1, <1>2, <1>3, <1>7 DEF Pending
<1>9. QED
  BY <1>1, <1>2, <1>3, <1>6, <1>7, <1>8

\* What a step of the engine may do to each step of the plan.
Settled ==
    \A i \in DOMAIN plan :
        /\ plan[i].status \in {"done", "skipped"} => plan'[i] = plan[i]
        /\ plan[i].status = "failed" =>
              plan'[i] \in {plan[i], As(plan[i], "skipped", plan[i].result)}
        /\ plan'[i].attempts <= 1

\* A step of the engine that leaves the plan alone leaves settled steps alone.
LEMMA SamePlan ==
    ASSUME ProgressInv, plan' = plan
    PROVE  Settled /\ PlanInv(plan') /\ Pending' = Pending /\ (IsComplete => IsComplete')
  BY DEF ProgressInv, PlanInv, StepInv, Settled, Pending, IsComplete

\* One that settles a step leaves those alone that are settled already.
LEMMA SettleSettled ==
    ASSUME TypeOK, ProgressInv, pc \in {"propose", "gate", "execute"},
           NEW result \in StepResult,
           (Complete(result) /\ result \notin Wrong) \/ Fail(result)
    PROVE  Settled
<1>1. /\ plan[step].status = "in_progress" /\ step \in 1..Len(plan)
      /\ plan'[step].attempts = plan[step].attempts
      /\ \A i \in 1..Len(plan) : i # step => plan'[i] = plan[i]
  BY SettlePlan
<1>2. DOMAIN plan = 1..Len(plan) /\ \A i \in DOMAIN plan : plan[i].attempts <= 1
  BY DEF TypeOK, ProgressInv, PlanInv, StepInv
<1>3. QED
  BY <1>1, <1>2 DEF Settled

\* Every action keeps the invariant, and settled steps as they are.
LEMMA NextProgress == TypeOK /\ ProgressInv /\ [Next]_vars => ProgressInv' /\ Settled
<1> SUFFICES ASSUME TypeOK, ProgressInv, [Next]_vars PROVE ProgressInv' /\ Settled
  OBVIOUS
<1> USE EngineAssumption
<1>a. pc # "done" => ~success
  BY DEF ProgressInv
<1>1. CASE Deadline
  <2>1. /\ plan' = plan /\ pc' = pc /\ step' = step /\ late' = TRUE /\ success' = success
        /\ pc \notin {"done", "raised"}
    BY <1>1 DEF Deadline
  <2>2. Exceeded'
    BY <2>1 DEF Exceeded
  <2>3. QED
    BY <1>a, <2>1, <2>2, SamePlan DEF ProgressInv
<1>2. CASE StopOnBudget
  <2>1. /\ plan' = plan /\ pc' = "settle" /\ success' = success /\ pc = "loop"
        /\ Exceeded /\ UNCHANGED <<budgetVars, late>>
    BY <1>2 DEF StopOnBudget
  <2>2. Exceeded'
    BY <2>1 DEF Exceeded, budgetVars
  <2>3. QED
    BY <1>a, <2>1, <2>2, SamePlan DEF ProgressInv
<1>3. CASE TakeStep
  <2>1. PICK i \in Pending : /\ IsNextPending(i) /\ step' = i
                             /\ plan' = [plan EXCEPT ![i] = Started(plan[i])]
    BY <1>3 DEF TakeStep
  <2>2. pc = "loop" /\ pc' = "propose" /\ success' = success
    BY <1>3 DEF TakeStep
  <2>3. /\ plan \in Seq(PlanStep) /\ DOMAIN plan = 1..Len(plan) /\ i \in 1..Len(plan)
        /\ plan[i] \in PlanStep /\ plan[i].status = "pending" /\ Len(plan) \in Nat
        /\ \A k \in 1..Len(plan) : k < i => plan[k].status # "pending"
    <3>1. /\ plan \in Seq(PlanStep) /\ DOMAIN plan = 1..Len(plan) /\ Len(plan) \in Nat
          /\ i \in 1..Len(plan) /\ plan[i].status = "pending"
      <4>1. plan \in Seq(PlanStep)
        BY DEF TypeOK
      <4>2. i \in DOMAIN plan /\ plan[i].status = "pending"
        BY <2>1 DEF Pending
      <4>3. DOMAIN plan = 1..Len(plan) /\ Len(plan) \in Nat
        BY <4>1
      <4>4. QED
        BY <4>1, <4>2, <4>3
    <3>2. ASSUME NEW k \in 1..Len(plan), k < i, plan[k].status = "pending"
          PROVE  FALSE
      <4>1. k \in Pending
        BY <3>1, <3>2 DEF Pending
      <4>2. i <= k
        BY <2>1, <4>1 DEF IsNextPending
      <4>3. QED
        BY <3>1, <3>2, <4>2
    <3>3. QED
      BY <3>1, <3>2
  <2>4. /\ Started(plan[i]) \in PlanStep /\ Started(plan[i]).status = "in_progress"
        /\ Started(plan[i]).origin = plan[i].origin
        /\ Started(plan[i]).attempts = plan[i].attempts + 1
        /\ Started(plan[i]).result = plan[i].result
    BY <2>3, StepType DEF Started
  <2>5. \A k \in DOMAIN plan : StepInv(plan[k])
    BY DEF ProgressInv, PlanInv
  <2>6. Started(plan[i]).attempts = 1 /\ StepInv(Started(plan[i]))
    BY <2>3, <2>4, <2>5 DEF StepInv
  <2>7. PlanInv(plan')
    BY <2>1, <2>3, <2>4, <2>6, MarkPlan DEF ProgressInv
  <2>8. /\ plan'[i] = Started(plan[i])
        /\ \A k \in 1..Len(plan) : k # i => plan'[k] = plan[k]
    BY <2>1, <2>3, <2>4
  <2>9. Settled
    <3>1. \A k \in DOMAIN plan : plan[k].attempts <= 1
      BY <2>5 DEF StepInv
    <3>2. QED
      BY <2>3, <2>6, <2>8, <3>1 DEF Settled
  <2>10. QED
    BY <1>a, <2>1, <2>2, <2>4, <2>7, <2>8, <2>9 DEF ProgressInv
<1>4. CASE ReflectAndStop
  <2>1. plan' = plan /\ pc' = "settle" /\ success' = success /\ pc = "loop" /\ Pending = {}
    BY <1>4 DEF ReflectAndStop
  <2>2. QED
    BY <1>a, <2>1, SamePlan DEF ProgressInv
<1>5. CASE Replan
  <2>1. PICK n \in 1..MaxTitles : ReplanFailed(n)
    BY <1>5 DEF Replan
  <2>2. /\ pc = "loop" /\ pc' = pc /\ success' = success /\ Pending = {}
        /\ plan \in Seq(PlanStep) /\ PlanInv(plan) /\ n \in Nat \ {0}
    BY <1>5 DEF Replan, TypeOK, ProgressInv
  <2>3. PlanInv(plan')
    BY <2>1, <2>2, ReplanPlan
  <2>4. /\ DOMAIN plan = 1..Len(plan)
        /\ \A i \in 1..Len(plan) :
              plan'[i] = IF plan[i].status = "failed" THEN As(plan[i], "skipped", plan[i].result)
                                                      ELSE plan[i]
    BY <2>1, <2>2, ReplanSteps
  <2>5. \A i \in 1..Len(plan) : plan'[i].attempts = plan[i].attempts
    <3> TAKE i \in 1..Len(plan)
    <3>1. CASE plan[i].status = "failed"
      <4>1. plan'[i] = As(plan[i], "skipped", plan[i].result)
        BY <2>4, <3>1
      <4>2. QED
        BY <4>1 DEF As
    <3>2. CASE plan[i].status # "failed"
      BY <2>4, <3>2
    <3>3. QED
      BY <3>1, <3>2
  <2>6. \A i \in DOMAIN plan : plan[i].attempts <= 1
    BY <2>2 DEF PlanInv, StepInv
  <2>7. Settled
    BY <2>4, <2>5, <2>6 DEF Settled
  <2>8. QED
    BY <1>a, <2>2, <2>3, <2>7 DEF ProgressInv
<1>6. CASE FinalAnswer
  <2>1. /\ pc = "propose" /\ Complete("answer") /\ success' = success
        /\ pc' = IF Pending = {} THEN "settle" ELSE "loop"
        /\ "answer" \in StepResult /\ "answer" \notin Wrong
    BY <1>6 DEF FinalAnswer, StepResult, Wrong
  <2>2. PlanInv(plan') /\ Pending' = Pending /\ Settled
    BY <2>1, SettlePlan, SettleSettled
  <2>3. QED
    BY <1>a, <2>1, <2>2 DEF ProgressInv
\* The other actions that settle the step being run go back to the loop head.
<1>b. ASSUME pc \in {"propose", "gate", "execute"}, pc' = "loop", success' = success,
             NEW result \in StepResult,
             (Complete(result) /\ result \notin Wrong) \/ Fail(result)
      PROVE  ProgressInv' /\ Settled
  <2>1. PlanInv(plan') /\ Settled
    BY <1>b, SettlePlan, SettleSettled
  <2>2. QED
    BY <1>a, <1>b, <2>1 DEF ProgressInv
<1>7. CASE NoTool
  BY <1>7, <1>b DEF NoTool, StepResult, Wrong
<1>8. ASSUME NEW a \in Actions, Stuck(a)
      PROVE  ProgressInv' /\ Settled
  BY <1>8, <1>b DEF Stuck, StepResult
<1>9. CASE Deny
  BY <1>9, <1>b DEF Deny, StepResult
<1>10. CASE Review
  BY <1>10, <1>b DEF Review, StepResult, Wrong
<1>11. CASE ToolFails
  BY <1>11, <1>b DEF ToolFails, StepResult
<1>12. ASSUME NEW n \in 1..MaxOutput, ToolSucceeds(n)
       PROVE  ProgressInv' /\ Settled
  BY <1>12, <1>b DEF ToolSucceeds, StepResult, Wrong
<1>13. CASE (\E a \in Actions : Propose(a)) \/ Allow
  <2>1. /\ plan' = plan /\ step' = step /\ success' = success
        /\ pc \in {"propose", "gate"} /\ pc' \in {"gate", "execute"}
    BY <1>13 DEF Propose, Allow
  <2>2. QED
    BY <1>a, <2>1, SamePlan DEF ProgressInv
<1>14. CASE Raise
  <2>1. plan' = plan /\ pc' = "raised" /\ success' = success /\ pc # "done"
    BY <1>14 DEF Raise
  <2>2. QED
    BY <1>a, <2>1, SamePlan DEF ProgressInv
<1>15. CASE Settle
  <2>1. /\ plan' = plan /\ pc = "settle" /\ pc' = "done" /\ (success' => IsComplete)
        /\ UNCHANGED <<budgetVars, late>>
    BY <1>15 DEF Settle
  <2>2. Pending # {} => Exceeded'
    BY <2>1 DEF ProgressInv, Exceeded, budgetVars
  <2>3. QED
    BY <2>1, <2>2, SamePlan DEF ProgressInv
<1>16. CASE UNCHANGED vars
  <2>1. plan' = plan /\ pc' = pc /\ step' = step /\ success' = success /\ UNCHANGED <<budgetVars, late>>
    BY <1>16 DEF vars, budgetVars
  <2>2. Exceeded => Exceeded'
    BY <2>1 DEF Exceeded, budgetVars
  <2>3. QED
    BY <2>1, <2>2, SamePlan DEF ProgressInv
<1>17. QED
  BY <1>1, <1>2, <1>3, <1>4, <1>5, <1>6, <1>7, <1>8, <1>9, <1>10, <1>11, <1>12,
     <1>13, <1>14, <1>15, <1>16 DEF Next, Run, RunStep

\* A run starts with pending steps only.
LEMMA InitProgress == Init => ProgressInv
<1> SUFFICES ASSUME Init PROVE ProgressInv
  OBVIOUS
<1>1. PICK n \in 1..MaxPlan : plan = [i \in 1..n |-> NewStep("plan")]
  BY DEF Init
<1>2. DOMAIN plan = 1..n /\ \A i \in 1..n : plan[i] = NewStep("plan")
  BY <1>1
<1>3. PlanInv(plan)
  BY <1>2 DEF PlanInv, StepInv, InOrder, SkippedInv, NewStep
<1>4. QED
  BY <1>3 DEF Init, ProgressInv

LEMMA Progress == Spec => []ProgressInv
<1>1. QED
  BY InitProgress, NextProgress, TypeCorrect, PTL DEF Spec

\* A plan is worked off in order, those of its steps included that a replan added,
\* and what is left of it when the run ends is left because of a limit.
THEOREM PlanHolds == Spec => []PlanWorkedOff
<1>1. ProgressInv => PlanWorkedOff
  BY DEF ProgressInv, PlanInv, InOrder, PlanWorkedOff
<1>2. QED
  BY <1>1, Progress, PTL

\* A run that reports success has made good every step that went wrong by a step
\* that a replan appended and that was done.
THEOREM SuccessHolds == Spec => []SuccessCoversFailures
<1>1. TypeOK /\ ProgressInv => SuccessCoversFailures
  <2> SUFFICES ASSUME TypeOK, ProgressInv, success, NEW i \in DOMAIN plan,
                      plan[i].result \in {"stuck", "denied", "error", "guardrail"}
               PROVE  \E j \in DOMAIN plan :
                         j > i /\ plan[j].origin = "replan" /\ plan[j].status = "done"
    BY DEF SuccessCoversFailures
  <2>1. /\ \A k \in DOMAIN plan : plan[k].status \in {"done", "skipped"}
        /\ StepInv(plan[i]) /\ SkippedInv(plan)
    BY DEF ProgressInv, PlanInv, IsComplete
  <2>2. plan[i].status = "skipped"
    BY <2>1 DEF StepInv, Wrong
  <2>3. DOMAIN plan = 1..Len(plan) /\ Len(plan) \in Nat /\ Len(plan) \in DOMAIN plan
    BY DEF TypeOK
  <2>4. plan[Len(plan)].origin = "replan" /\ plan[Len(plan)].status = "done"
    BY <2>1, <2>2, <2>3 DEF SkippedInv
  <2>5. Len(plan) > i
    BY <2>2, <2>3, <2>4
  <2>6. QED
    BY <2>3, <2>4, <2>5
<1>2. QED
  BY <1>1, Progress, TypeCorrect, PTL

\* No step of the engine rewinds the plan: what is settled stays settled, and no
\* step is attempted twice.
THEOREM SettledHolds == Spec => SettledStepsStay
<1>1. TypeOK /\ ProgressInv /\ [Next]_vars =>
        [\A i \in DOMAIN plan :
            /\ plan[i].status \in {"done", "skipped"} => plan'[i] = plan[i]
            /\ plan[i].status = "failed" =>
                  plan'[i] \in {plan[i], As(plan[i], "skipped", plan[i].result)}
            /\ plan'[i].attempts <= 1]_vars
  BY NextProgress DEF Settled
<1>2. QED
  BY <1>1, Progress, TypeCorrect, PTL DEF Spec, SettledStepsStay

=============================================================================
