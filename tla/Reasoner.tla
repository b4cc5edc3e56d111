------------------------------ MODULE Reasoner ------------------------------
(***************************************************************************)
(* The reasoner of an agent run (davinci/reasoner.py) over its LLM client: *)
(* planning, the choice of an action for a step, reflection and synthesis, *)
(* each one call of generate whose text is parsed leniently, with the      *)
(* deterministic heuristics (davinci/engine.py, planning.py) behind them.  *)
(*                                                                         *)
(* This is what the engine relies on: module DavinciEngine starts with a   *)
(* plan that is not empty and takes reflections to be sensible.  A text is *)
(* what the parser finds in it.                                            *)
(***************************************************************************)
EXTENDS LLMClient, Selections

CONSTANTS
    MaxSteps,   \* bound: steps that a model lists in one plan
    MaxFailed   \* bound: failed steps of a plan that is reflected on

ASSUME ReasonerAssumption == MaxSteps \in Nat \ {0} /\ MaxFailed \in Nat

VARIABLES
    op,      \* the call that is under way
    input,   \* the category of the step, or the failed steps of the plan
    result   \* what the last call returned

vars == <<vars_client, op, input, result>>

Ops == {"make_plan", "propose", "reflect", "synthesize"}

Categories == {"analysis", "verification", "synthesis", "other"}

Input == [category : Categories, failed : 0..MaxFailed]

NoInput == [category |-> "other", failed |-> 0]

\* What a call looks at: the category of a step, or the failures of a plan.
InputOf(o) ==
    {i \in Input : /\ o # "propose" => i.category = NoInput.category
                   /\ o # "reflect" => i.failed = 0}

-----------------------------------------------------------------------------
(* What the calls return *)

\* A step of a plan: one that works, or one that composes the answer (category
\* "result" or "synthesis").
StepKind == {"work", "answer"}

Plans == UNION {[1..n -> StepKind] : n \in 1..(MaxSteps + 1)}

NoResult == [op |-> "none"]

PlanResult(steps) == [op |-> "make_plan", steps |-> steps]

\* A proposal with a tool, with a final answer, or with neither.
Proposal(kind) == [op |-> "propose", kind |-> kind]

\* A reflection on a plan with that many failed steps.
Reflection(failed, satisfied, titles) ==
    [op |-> "reflect", failed |-> failed, satisfied |-> satisfied, titles |-> titles]

Synthesis(answer) == [op |-> "synthesize", answer |-> answer]

Raised == [op |-> "raised"]

-----------------------------------------------------------------------------
(* The heuristics *)

\* Planner._heuristic_plan: clarify, work (one step for each required category;
\* one here), verify, synthesise.
HeuristicPlan == <<"work", "work", "work", "answer">>

\* HeuristicReasoner.propose; a tool only if one is registered for the step.
HeuristicKinds(category) ==
    CASE category = "synthesis"                   -> {"answer"}
      [] category \in {"analysis", "verification"} -> {"none"}
      [] OTHER                                    -> {"tool", "none"}

\* HeuristicReasoner.reflect: every failed step is to be retried.
HeuristicReflection(failed) == Reflection(failed, failed = 0, failed)

-----------------------------------------------------------------------------
(* What the parsed texts say *)

\* An entry of "steps": no object or without a title, or a step.
Entries == StepKind \cup {"junk"}

Listed == UNION {[1..n -> Entries] : n \in 0..MaxSteps}

\* The entries that the loop of make_plan appends to its steps.
Kept(entries) == Filtered(entries, StepKind)

\* Seeded fault: the last entry of the model's list is looked at, kept or not.
PlanOf_LastListed(entries) ==
    IF Kept(entries) = <<>> THEN HeuristicPlan
    ELSE IF Last(entries) = "work" THEN Append(Kept(entries), "answer")
    ELSE Kept(entries)

\* make_plan: the usable steps, with one that composes the answer at the end.
PlanOf(entries) ==
    IF Kept(entries) = <<>> THEN HeuristicPlan
    ELSE IF Last(Kept(entries)) = "answer" THEN Kept(entries)
    ELSE Append(Kept(entries), "answer")

\* propose: an answer wins over a tool; a name that is not registered is
\* searched for and may match nothing.
ProposalOf(answer, tool) ==
    IF answer THEN Proposal("answer")
    ELSE IF tool \in {"registered", "found"} THEN Proposal("tool")
    ELSE Proposal("none")

\* The fields of a reflection: n replan titles that are not blank.
Titles(n) == IF n > 4 THEN 4 ELSE n

\* reflect: failures outweigh the verdict, and a verdict without titles gets one
\* for each failed step.
ReflectionOf(verdict, n, failed) ==
    LET satisfied == verdict /\ failed = 0
    IN  Reflection(failed, satisfied, IF ~satisfied /\ n = 0 THEN failed ELSE Titles(n))

-----------------------------------------------------------------------------

\* reasoner_from_config.
Init ==
    /\ \E c \in Config : provider = ClientFromConfig(c)
    /\ InitClient
    /\ op = "none" /\ input = NoInput /\ result = NoResult

\* The call is over.
Returns(r) ==
    /\ result' = r
    /\ op' = "none" /\ input' = NoInput
    /\ Returned

\* The engine calls the reasoner.  A synthesis step is deferred to the end of
\* the run without a word to the model, and only propose shows it attachments.
Ask(o, i) ==
    /\ op = "none" /\ provider # NoProvider
    /\ ~(o = "propose" /\ i.category = "synthesis")
    /\ op' = o /\ input' = i /\ result' = NoResult
    /\ Generate(o = "propose")

Defer ==
    /\ op = "none" /\ provider # NoProvider
    /\ Returns(Proposal("none"))

\* Without a client the engine has the heuristics alone.
AskHeuristic(o, i) ==
    /\ op = "none" /\ provider = NoProvider
    /\ \/ o = "make_plan" /\ Returns(PlanResult(HeuristicPlan))
       \/ o = "propose" /\ \E k \in HeuristicKinds(i.category) : Returns(Proposal(k))
       \/ o = "reflect" /\ Returns(HeuristicReflection(i.failed))

\* generate returned None, or a text in which _parse_json finds no object.
FallsBack ==
    /\ stage \in {"text", "failed"}
    /\ \/ op = "make_plan" /\ Returns(PlanResult(HeuristicPlan))
       \/ op = "propose" /\ \E k \in HeuristicKinds(input.category) : Returns(Proposal(k))
       \/ op = "reflect" /\ Returns(HeuristicReflection(input.failed))
       \/ op = "synthesize" /\ Returns(Synthesis("none"))

MakePlan ==
    /\ stage = "text" /\ op = "make_plan"
    /\ \E entries \in Listed : Returns(PlanResult(PlanOf(entries)))

Propose ==
    /\ stage = "text" /\ op = "propose"
    /\ \E answer \in BOOLEAN, tool \in {"none", "registered", "found", "unknown"} :
          Returns(ProposalOf(answer, tool))

Reflect ==
    /\ stage = "text" /\ op = "reflect"
    /\ \E verdict \in BOOLEAN, n \in 0..5 : Returns(ReflectionOf(verdict, n, input.failed))

\* "replan_titles" is a number or true: the loop over it raises, and neither
\* reflect nor the engine catches that.
ReflectRaises ==
    /\ stage = "text" /\ op = "reflect"
    /\ Returns(Raised)

Synthesize ==
    /\ stage = "text" /\ op = "synthesize"
    /\ \E answer \in {"none", "blank", "answer"} : Returns(Synthesis(answer))

Asked == \E o \in Ops : \E i \in InputOf(o) : Ask(o, i) \/ AskHeuristic(o, i)

Decide == FallsBack \/ MakePlan \/ Propose \/ Reflect \/ ReflectRaises \/ Synthesize

Call == (GenerateSteps /\ UNCHANGED <<op, input, result>>) \/ Decide

Next == Asked \/ Defer \/ Call

Spec == Init /\ [][Next]_vars

-----------------------------------------------------------------------------
(* Properties *)

TypeOK ==
    /\ ClientTypeOK
    /\ op \in Ops \cup {"none"} /\ input \in Input
    /\ (op = "none") = (stage = "none")
    /\ result \in {NoResult, Raised}
                  \cup {PlanResult(p) : p \in Plans \cup {HeuristicPlan}}
                  \cup {Proposal(k) : k \in {"tool", "answer", "none"}}
                  \cup {Reflection(f, s, n) : f \in 0..MaxFailed, s \in BOOLEAN, n \in 0..(4 + MaxFailed)}
                  \cup {Synthesis(a) : a \in {"none", "blank", "answer"}}

\* What the engine takes for granted (Init and Reflects of DavinciEngine),
\* whatever the models write: a plan has a step and its last one composes the
\* answer ("The LAST step MUST have category result", make_plan), and a
\* reflection that returns is not satisfied with a plan that has failed steps
\* and names something to do about them.
EngineCanRely ==
    /\ result.op = "make_plan" => result.steps # <<>> /\ Last(result.steps) = "answer"
    /\ result.op = "reflect" /\ result.failed > 0 => ~result.satisfied /\ result.titles > 0

=============================================================================
