---------------------------- MODULE Orchestrator ----------------------------
(***************************************************************************)
(* The orchestrator (caspar_orchestrator.py): worker machines that a       *)
(* master launches from templates, signals and terminates, one by one or   *)
(* through the plans it makes and executes later; and the planner that     *)
(* routes categories to tools that run already.                            *)
(*                                                                         *)
(* A host call is one packet on a connection of its own, which nobody      *)
(* answers: it raises, or it is on its way.  The node and the network are  *)
(* external: the node carries out the packets one by one, a machine may    *)
(* take its time to start, so a packet may take effect before an earlier   *)
(* one does, or be lost.  The packets are kept for each machine in the     *)
(* order in which they were sent.  The caller is one thread.               *)
(***************************************************************************)
EXTENDS Integers, SequencesExt, Selections

CONSTANTS
    Templates,   \* the worker templates in order: role, vm_name, categories, risk_level
    TaskIds,     \* lower case, hyphens, the first 48 characters: tasks may share one
    WorkerIds,   \* worker ids that callers of launch_worker choose
    Catalog,     \* the entities that are installed in the point
    Requests,    \* the required categories of the plans considered
    MaxPlans,    \* bound: plans that wait for their execution
    MaxPackets   \* bound: packets on their way

Risks == {"low", "medium", "high", "odd"}

\* An entity of the catalog is an MCP server, which is one tool of its own, or
\* lists tools, complete or not.
NoCapability == [tool_id |-> 0, risk |-> "odd", categories |-> {}]

\* discover_tool_capabilities: MCP metadata make one tool, others one for each
\* complete entry.  (A point's catalog has to be given: list_point_apps finds
\* none, since host_call returns no answer of the node.)
Discovered ==
    UNION {IF e.own # NoCapability THEN {e.own} ELSE {t.tool : t \in {u \in e.tools : u.complete}}
           : e \in Catalog}

Required == UNION {ToSet(request) : request \in Requests}

\* The templates are a dictionary by their roles.  Ids of tools are numbered in
\* their order.
ASSUME OrchestratorAssumption ==
    /\ Templates \in Seq(Range(Templates))
    /\ \A j, k \in DOMAIN Templates : Templates[j].role = Templates[k].role => j = k
    /\ \A k \in DOMAIN Templates : Templates[k].risk \in Risks
    /\ \A t \in Discovered : t.tool_id \in Nat
    /\ Requests \subseteq Seq(Required)
    /\ MaxPlans \in Nat /\ MaxPackets \in Nat

VARIABLES
    workers,   \* _workers: the role and the task id of each worker
    plans,     \* hierarchical plans that were made and not yet executed
    doing,     \* the actions that execute_plan works on, <<>> when it does not run
    sent,      \* how many of them it has sent
    net,       \* the packets on their way to each machine, as they were sent
    vm,        \* each machine: "off", "on", "busy" with a signal, or "cut", which is
               \* off since the cleanup of a plan came while it was busy
    disturbed, \* history: machines of which a packet was overtaken or lost
    unheard,   \* history: machines that were off when a plan's signal came
    ended      \* history: machines of plans executed to the end, until they are
               \* started again

caller == <<workers, plans, doing, sent, ended>>
node == <<vm, disturbed, unheard>>
vars_orchestrator == <<caller, net, node>>

-----------------------------------------------------------------------------
(* Machines and plans *)

Roles == {Templates[k].role : k \in DOMAIN Templates}

Template(role) == Templates[CHOOSE k \in DOMAIN Templates : Templates[k].role = role]

\* A worker id is chosen or made of the role and the task id, and a machine is
\* named after the template's VM and the worker.
WorkerId == WorkerIds \cup (Roles \X TaskIds)

Machine(role, id) == [vm |-> Template(role).vm_name, worker |-> id]

Machines == {Machine(role, id) : role \in Roles, id \in WorkerId}

Action(phase, machine, category) == [phase |-> phase, machine |-> machine, category |-> category]

\* The template that serves a category: the first one that has it.
Serving(category) == {k \in DOMAIN Templates : category \in Templates[k].categories}

RoleFor(category) ==
    Templates[CHOOSE k \in Serving(category) : \A j \in Serving(category) : k <= j].role

\* The k-th category of a request is the first one that needs its worker.
Launches(request, k) ==
    /\ Serving(request[k]) # {}
    /\ \A j \in 1..(k - 1) :
          Serving(request[j]) # {} => RoleFor(request[j]) # RoleFor(request[k])

\* The roles that a plan launches, in order.
Launched == [request \in Requests |->
    LET at == Filtered([k \in DOMAIN request |-> k], {k \in DOMAIN request : Launches(request, k)})
    IN  [i \in DOMAIN at |-> RoleFor(request[at[i]])]]

\* The worker of a role in the plans of a task.
PlanMachine(task, role) == Machine(role, <<role, task>>)

\* Seeded fault: the workers are launched already, so the plan only signals.
Steps_NotAgain(task, request, k) ==
    IF Serving(request[k]) = {} THEN <<>>
    ELSE <<Action("signal_request", PlanMachine(task, RoleFor(request[k])), request[k])>>

\* What the k-th category of a request adds to its plan.
Steps(task, request, k) ==
    IF Serving(request[k]) = {} THEN <<>>
    ELSE LET role    == RoleFor(request[k])
             machine == PlanMachine(task, role)
             signal  == Action("signal_request", machine, request[k])
         IN  IF Launches(request, k)
             THEN <<Action("provision_worker", machine, request[k]), signal>>
             ELSE <<signal>>

\* What all of them do.
Work(task, request) ==
    LET done[k \in 0..Len(request)] ==
            IF k = 0 THEN <<>> ELSE done[k - 1] \o Steps(task, request, k)
    IN  done[Len(request)]

Missing(request) == {c \in ToSet(request) : Serving(c) = {}}

\* plan_hierarchical_execution without the launches.
HierarchicalPlan == [task \in TaskIds |-> [request \in Requests |->
    LET cleanup(role) == Action("cleanup_worker", PlanMachine(task, role), "lifecycle")
        launched      == Launched[request]
    IN  [request |-> request,
         actions |-> Work(task, request) \o [k \in DOMAIN launched |-> cleanup(launched[k])],
         review  |-> \/ Missing(request) # {}
                     \/ \E role \in ToSet(launched) : Template(role).risk = "high"]]]

-----------------------------------------------------------------------------
(* Tools that run already *)

RiskRank(risk) ==
    CASE risk = "low" -> 0 [] risk = "medium" -> 1 [] risk = "high" -> 2 [] OTHER -> 99

Options(category) == {t \in Discovered : category \in t.categories}

\* The least risky tool, the first by its id.
Chosen(category) ==
    CHOOSE t \in Options(category) : \A u \in Options(category) :
        \/ RiskRank(t.risk) < RiskRank(u.risk)
        \/ RiskRank(t.risk) = RiskRank(u.risk) /\ t.tool_id <= u.tool_id

\* Seeded fault: the tool that comes last decides whether a human is asked.
RoutedPlan_LastDecides(request, low_tolerance) ==
    LET served == Filtered(request, {c \in ToSet(request) : Options(c) # {}})
    IN  [request |-> request,
         signals |-> [k \in DOMAIN served |-> [tool |-> Chosen(served[k]), category |-> served[k]]],
         review  |-> \/ Len(served) < Len(request)
                     \/ served # <<>> /\ Chosen(Last(served)).risk = "high"
                     \/ low_tolerance]

\* DavinciPlanner.plan.
RoutedPlan(request, low_tolerance) ==
    LET served == Filtered(request, {c \in ToSet(request) : Options(c) # {}})
    IN  [request |-> request,
         signals |-> [k \in DOMAIN served |-> [tool |-> Chosen(served[k]), category |-> served[k]]],
         review  |-> \/ Len(served) < Len(request)
                     \/ \E k \in DOMAIN served : Chosen(served[k]).risk = "high"
                     \/ low_tolerance]

-----------------------------------------------------------------------------

InitOrchestrator ==
    /\ workers = <<>> /\ plans = {} /\ doing = <<>> /\ sent = 0
    /\ net = [m \in Machines |-> <<>>]
    /\ vm = [m \in Machines |-> "off"]
    /\ disturbed = {} /\ unheard = {} /\ ended = {}

-----------------------------------------------------------------------------
(* The caller *)

\* No operation begins while a plan runs.
Idle == doing = <<>>

\* host_call for each of the machines.
OnTheirWay == {mk \in Machines \X (1..MaxPackets) : mk[2] \in DOMAIN net[mk[1]]}

Send(machines, packet) ==
    /\ Cardinality(OnTheirWay) + Cardinality(machines) <= MaxPackets
    /\ net' = [m \in Machines |-> IF m \in machines THEN Append(net[m], packet) ELSE net[m]]

\* _workers with new ones, which take the places of those of the same ids.
Known(new) ==
    [id \in DOMAIN workers \cup DOMAIN new |-> IF id \in DOMAIN new THEN new[id] ELSE workers[id]]

\* Seeded fault: one worker for each role, whatever the task.
Registered_ByRole(task, roles) ==
    Known([id \in {<<role>> : role \in roles} |-> [role |-> id[1], task_id |-> task]])

\* The workers of a plan.
Registered(task, roles) ==
    Known([id \in {<<role, task>> : role \in roles} |-> [role |-> id[1], task_id |-> task]])

\* RUN_VM for each of the machines.
Start(machines) == Send(machines, "run") /\ ended' = ended \ machines

\* launch_worker.
LaunchWorker(role, task, id) ==
    /\ Idle
    /\ Start({Machine(role, id)})
    /\ workers' = Known([i \in {id} |-> [role |-> role, task_id |-> task]])
    /\ UNCHANGED <<plans, doing, sent, node>>

\* assign_task; a worker whose machine a plan has terminated is still listed.
AssignTask(id) ==
    /\ Idle
    /\ id \in DOMAIN workers
    /\ Send({Machine(workers[id].role, id)}, "assign")
    /\ UNCHANGED <<caller, node>>

\* terminate_worker forgets the worker first; the host call may raise.
TerminateWorker(id) ==
    /\ Idle
    /\ id \in DOMAIN workers
    /\ workers' = Restrict(workers, DOMAIN workers \ {id})
    /\ Send({Machine(workers[id].role, id)}, "terminate") \/ UNCHANGED net
    /\ UNCHANGED <<plans, doing, sent, ended, node>>

\* plan_hierarchical_execution launches its workers, at once.
Plan(task, request) ==
    /\ Idle
    /\ Cardinality(plans) < MaxPlans
    /\ plans' = plans \cup {HierarchicalPlan[task][request]}
    /\ workers' = Registered(task, ToSet(Launched[request]))
    /\ Start({PlanMachine(task, role) : role \in ToSet(Launched[request])})
    /\ UNCHANGED <<doing, sent, node>>

\* The launch of one of them raises: there is no plan, but those before it run.
PlanRaises(task, request) ==
    /\ Idle
    /\ \E n \in 0..(Len(Launched[request]) - 1) :
          LET roles == ToSet(SubSeq(Launched[request], 1, n))
          IN  /\ workers' = Registered(task, roles)
              /\ Start({PlanMachine(task, role) : role \in roles})
    /\ UNCHANGED <<plans, doing, sent, node>>

\* execute_plan.  Nothing asks whether a human has reviewed the plan.
ExecutePlan(p) ==
    /\ Idle
    /\ p \in plans
    /\ plans' = plans \ {p}
    /\ doing' = p.actions /\ sent' = 0
    /\ UNCHANGED <<workers, ended, net, node>>

\* The host calls follow each other; none waits for anything but its connection.
HostCall ==
    /\ sent < Len(doing)
    /\ LET action == doing[sent + 1]
       IN  \/ action.phase = "provision_worker" /\ Start({action.machine})
          \/ /\ action.phase = "signal_request" /\ Send({action.machine}, "signal")
             /\ UNCHANGED ended
          \/ /\ action.phase = "cleanup_worker" /\ Send({action.machine}, "cleanup")
             /\ UNCHANGED ended
    /\ sent' = sent + 1
    /\ UNCHANGED <<workers, plans, doing, node>>

\* One raises and leaves the rest of the plan undone.
HostCallRaises ==
    /\ sent < Len(doing)
    /\ doing' = <<>> /\ sent' = 0
    /\ UNCHANGED <<workers, plans, ended, net, node>>

PlanDone ==
    /\ doing # <<>> /\ sent = Len(doing)
    /\ ended' = ended \cup {action.machine : action \in ToSet(doing)}
    /\ doing' = <<>> /\ sent' = 0
    /\ UNCHANGED <<workers, plans, net, node>>

-----------------------------------------------------------------------------
(* The node and the network, external *)

Packets == {"run", "signal", "assign", "cleanup", "terminate"}

IsOff(machine) == vm[machine] \in {"off", "cut"}

\* What a packet does to a machine: a start leaves one alone that is on.
After(machine, packet) ==
    CASE packet = "run" -> IF IsOff(machine) THEN "on" ELSE vm[machine]
      [] packet \in {"signal", "assign"} -> IF IsOff(machine) THEN vm[machine] ELSE "busy"
      [] packet = "cleanup" -> IF vm[machine] = "busy" THEN "cut" ELSE "off"
      [] packet = "terminate" -> "off"

TakesEffect(machine, packet) ==
    /\ vm' = [vm EXCEPT ![machine] = After(machine, packet)]
    /\ unheard' = IF packet = "signal" /\ IsOff(machine) THEN unheard \cup {machine} ELSE unheard

\* The oldest packet takes effect.
CarriedOut(machine) ==
    /\ net[machine] # <<>>
    /\ TakesEffect(machine, Head(net[machine]))
    /\ net' = [net EXCEPT ![machine] = Tail(@)]
    /\ UNCHANGED <<caller, disturbed>>

\* One takes effect before those that were sent earlier.
Overtakes(machine, k) ==
    /\ k \in DOMAIN net[machine] \ {1}
    /\ TakesEffect(machine, net[machine][k])
    /\ net' = [net EXCEPT ![machine] = RemoveAt(@, k)]
    /\ disturbed' = disturbed \cup {machine}
    /\ UNCHANGED caller

Lost(machine, k) ==
    /\ k \in DOMAIN net[machine]
    /\ net' = [net EXCEPT ![machine] = RemoveAt(@, k)]
    /\ disturbed' = disturbed \cup {machine}
    /\ UNCHANGED <<caller, vm, unheard>>

\* A worker has done what it was signalled to do.
Completes(machine) ==
    /\ vm[machine] = "busy"
    /\ vm' = [vm EXCEPT ![machine] = "on"]
    /\ UNCHANGED <<caller, net, disturbed, unheard>>

-----------------------------------------------------------------------------

NextOrchestrator ==
    \/ \E role \in Roles, task \in TaskIds :
          \E id \in WorkerIds \cup {<<role, task>>} : LaunchWorker(role, task, id)
    \/ \E id \in WorkerId : AssignTask(id) \/ TerminateWorker(id)
    \/ \E task \in TaskIds, request \in Requests : Plan(task, request) \/ PlanRaises(task, request)
    \/ \E p \in plans : ExecutePlan(p)
    \/ HostCall \/ HostCallRaises \/ PlanDone
    \/ \E m \in Machines :
          \/ CarriedOut(m) \/ Completes(m)
          \/ \E k \in DOMAIN net[m] : Overtakes(m, k) \/ Lost(m, k)

SpecOrchestrator == InitOrchestrator /\ [][NextOrchestrator]_vars_orchestrator

-----------------------------------------------------------------------------
(* Properties *)

OrchestratorTypeOK ==
    /\ DOMAIN workers \subseteq WorkerId
    /\ \A id \in DOMAIN workers :
          /\ workers[id].role \in Roles
          /\ id \in WorkerIds \/ id = <<workers[id].role, workers[id].task_id>>
    /\ \A p \in plans : p.request \in Requests /\ p.review \in BOOLEAN
    /\ sent \in 0..Len(doing)
    /\ net \in [Machines -> Seq(Packets)]
    /\ vm \in [Machines -> {"off", "on", "busy", "cut"}]
    /\ disturbed \subseteq Machines /\ unheard \subseteq Machines /\ ended \subseteq Machines

\* Plans whose tasks have the same id share their machines, and one may end
\* before the other begins.  Still only the network makes a signal of an executed
\* plan miss its machine, or leaves one of its machines on when the plan was
\* executed to its end ("lifecycle control via runVm/terminateVm"): a machine
\* whose packets took effect in the order in which they were sent was on for
\* every signal, and is off when the last of them has taken effect.
PlansServe ==
    /\ unheard \subseteq disturbed
    /\ \A m \in ended \ disturbed : net[m] = <<>> => IsOff(m)

\* "Terminate ephemeral worker {worker.worker_id} after task completion."
\* (plan_hierarchical_execution): no cleanup meets a worker at work, where no
\* packet overtakes another or is lost.
TerminatedWhenDone == \A m \in Machines \ disturbed : vm[m] # "cut"

SignalsOf(actions) == Filtered(actions, {a \in ToSet(actions) : a.phase = "signal_request"})

\* What UnreviewedIsSafe says of the plans of the planner.
RoutedPlansAreSafe ==
    \A request \in Requests :
       LET plan == RoutedPlan(request, FALSE)
       IN  ~plan.review =>
             /\ [k \in DOMAIN plan.signals |-> plan.signals[k].category] = request
             /\ \A k \in DOMAIN plan.signals :
                   /\ plan.signals[k].tool.risk # "high"
                   /\ plan.signals[k].category \in plan.signals[k].tool.categories

\* A plan that asks for no review does the whole of what was required, each
\* category by one signal in the order of the request, and with nothing that is
\* of high risk ("Risky or incomplete plans can be flagged for user review
\* before execution", agentic_runtime.py).
UnreviewedIsSafe ==
    /\ \A p \in plans : ~p.review =>
          LET signals == SignalsOf(p.actions)
          IN  /\ [k \in DOMAIN signals |-> signals[k].category] = p.request
              /\ \A k \in DOMAIN signals :
                    LET template == Template(signals[k].machine.worker[1])
                    IN  template.risk # "high" /\ signals[k].category \in template.categories
    /\ RoutedPlansAreSafe

=============================================================================
