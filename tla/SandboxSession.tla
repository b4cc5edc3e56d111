--------------------------- MODULE SandboxSession --------------------------
(***************************************************************************)
(* The sandbox VM of a session, driven from two processes at once through  *)
(* SandboxManager (davinci/sandbox_core.py).  _SessionSandbox in the       *)
(* agent's runtime (davinci/caspar_runtime.py) starts the VM before a run  *)
(* and suspends it after; the worker threads of the sandbox_pc tool        *)
(* (tools/sandbox_pc/tool.py) work on it when the agent asks them to.  An  *)
(* operation is two host calls, one on the VM and one that records what    *)
(* was done; neither is part of a transaction and both may be lost, or be  *)
(* given up by the caller and carried out later.                           *)
(*                                                                         *)
(* The node is external: it keeps the VMs, their disks and the records.    *)
(* The runtime that an operation names, fire or docker, is left out: a VM  *)
(* has one here, as when SANDBOX_PC_RUNTIME pins it and no payload differs.*)
(***************************************************************************)
EXTENDS Integers, FiniteSets

CONSTANTS
    Sessions,   \* the session ids of tasks, one VM each
    ToolKey,    \* the session id the tool falls back to, from its own handshake
    Runtime,    \* the agent's process
    Workers,    \* worker threads of the tool
    MaxRuns,    \* bound: agent runs
    MaxOps,     \* bound: tool operations in all
    MaxLate     \* bound: host calls that are under way after their caller gave up

ASSUME SandboxAssumption ==
    /\ ToolKey \notin Sessions /\ Runtime \notin Workers
    /\ MaxRuns \in Nat /\ MaxOps \in Nat /\ MaxLate \in Nat

Clients == Workers \cup {Runtime}
VMs == Sessions \cup {ToolKey}
Actions == {"start", "exec", "write", "suspend", "delete"}

VARIABLES
    vm,       \* the node: power state of each VM
    record,   \* the node: lastAction of its state record, "none" without one
    late,     \* the node: host calls it has not carried out yet
    at,       \* each client: "idle", "host", "record", and "run" of the runtime
    op, key,  \* each client: its operation and the VM it is about, in it or in its run
    inbox,    \* tool operations the agent has asked for (asking twice at once counts once)
    runs, ops,
    clean,    \* history: the last operation on the VM was alone and nothing got lost
    woken,    \* history: it was last switched on in a run, before the end of it
    missed    \* history: VMs the runtime's last suspend of which was given up

node == <<vm, record, late>>
clients == <<at, op, key>>
history == <<clean, woken, missed>>
vars == <<node, clients, inbox, runs, ops, history>>

Init ==
    /\ vm = [v \in VMs |-> "none"]
    /\ record = [v \in VMs |-> "none"]
    /\ late = {}
    /\ at = [c \in Clients |-> "idle"]
    /\ op = [c \in Clients |-> "none"]
    /\ key = [c \in Clients |-> ToolKey]
    /\ inbox = {}
    /\ runs = 0 /\ ops = 0
    /\ clean = [v \in VMs |-> FALSE]
    /\ woken = [v \in VMs |-> FALSE]
    /\ missed = {}

-----------------------------------------------------------------------------
(* What SandboxManager asks of the node *)

\* terminateVm is told to purge the disk.
Purges(a) == a = "delete"

\* Seeded fault: a deletion leaves the record as it was.
Records_NotDelete(a) == a \notin {"write", "delete"}

\* Seeded fault: write is recorded like the others.
Records_All(a) == a \in Actions

\* The operations that end with _record.
Records(a) == a # "write"

\* The agent's run with session v is on, its suspend not yet carried out.
\* A VM that is nobody's session counts with every run.
InRun(v) ==
    /\ at[Runtime] # "idle"
    /\ at[Runtime] = "record" => op[Runtime] = "start"
    /\ v \in {key[Runtime], ToolKey}

\* The node carries out operation a on VM v: runVm and execVm switch it on,
\* terminateVm off, and away when it purges the disk.
Carried(a, v) ==
    /\ vm' = [vm EXCEPT ![v] =
                CASE a \in {"start", "exec"}         -> "running"
                  [] a = "write"                     -> @
                  [] a \in {"suspend", "delete"}     ->
                        IF Purges(a) \/ @ = "none" THEN "none" ELSE "suspended"]
    /\ woken' = [woken EXCEPT ![v] = IF a \in {"start", "exec"} THEN InRun(v) ELSE @]

Put(a, v) == record' = [record EXCEPT ![v] = a]

\* A call that its caller has given up: the node may still have it.
GivenUp(what, c) ==
    /\ late' \in {late} \cup
          (IF Cardinality(late) < MaxLate
           THEN {late \cup {[what |-> what, action |-> op[c], vm |-> key[c]]}} ELSE {})
    /\ clean' = [clean EXCEPT ![key[c]] = FALSE]

Busy(v) == {c \in Clients : at[c] \in {"host", "record"} /\ key[c] = v}

\* Operation a of client c on VM v begins.
Start(c, a, v) ==
    /\ at' = [at EXCEPT ![c] = "host"]
    /\ op' = [op EXCEPT ![c] = a]
    /\ key' = [key EXCEPT ![c] = v]
    /\ clean' = [clean EXCEPT ![v] =
                   /\ Busy(v) = {} /\ ~\E call \in late : call.vm = v
                   /\ Records(a) \/ @]

-----------------------------------------------------------------------------
(* Both clients: an operation of SandboxManager *)

\* Where a client is when its operation is over.
Over(c) == IF c = Runtime /\ op[c] = "start" THEN "run" ELSE "idle"

\* Client c goes on to place; one that is idle keeps nothing of its operation.
Go(c, place) ==
    /\ at' = [at EXCEPT ![c] = place]
    /\ op' = [op EXCEPT ![c] = IF place = "idle" THEN "none" ELSE @]
    /\ key' = [key EXCEPT ![c] = IF place = "idle" THEN ToolKey ELSE @]

AfterHost(c) == Go(c, IF Records(op[c]) THEN "record" ELSE Over(c))

\* The host call on the VM is carried out and answered in time.
HostCall(c) ==
    /\ at[c] = "host"
    /\ Carried(op[c], key[c])
    /\ AfterHost(c)
    /\ missed' = IF c = Runtime THEN missed \ {key[c]} ELSE missed
    /\ UNCHANGED <<record, late, inbox, runs, ops, clean>>

\* It fails or is given up: _call swallows that, and the operation is recorded
\* all the same.
HostCallFails(c) ==
    /\ at[c] = "host"
    /\ GivenUp("vm", c)
    /\ AfterHost(c)
    /\ missed' = IF c = Runtime /\ op[c] = "suspend" THEN missed \cup {key[c]} ELSE missed
    /\ UNCHANGED <<vm, record, inbox, runs, ops, woken>>

RecordCall(c) ==
    /\ at[c] = "record"
    /\ \/ Put(op[c], key[c]) /\ UNCHANGED <<late, clean>>
       \/ GivenUp("record", c) /\ UNCHANGED record
    /\ Go(c, Over(c))
    /\ UNCHANGED <<vm, inbox, runs, ops, woken, missed>>

-----------------------------------------------------------------------------
(* The runtime: _run_agent inside _SessionSandbox *)

\* __enter__ starts the VM of the session.
Enter(s) ==
    /\ at[Runtime] = "idle"
    /\ runs < MaxRuns
    /\ runs' = runs + 1
    /\ Start(Runtime, "start", s)
    /\ UNCHANGED <<node, inbox, ops, woken, missed>>

\* The agent has the tool do something.  Its arguments name the session, or
\* they do not.  Whether it awaits the answer or gives up is open.
AskTool(a, v) ==
    /\ at[Runtime] = "run"
    /\ ops < MaxOps
    /\ ops' = ops + 1
    /\ v \in {key[Runtime], ToolKey}
    /\ inbox' = inbox \cup {[action |-> a, vm |-> v]}
    /\ UNCHANGED <<node, clients, runs, history>>

\* Seeded fault: a run that raises does not suspend.
Exit_OnReturnOnly ==
    /\ at[Runtime] = "run"
    /\ \/ Start(Runtime, "suspend", key[Runtime])
       \/ Go(Runtime, "idle") /\ UNCHANGED clean
    /\ UNCHANGED <<node, inbox, runs, ops, woken, missed>>

\* agent.run returns or raises: __exit__ suspends the VM.
Exit ==
    /\ at[Runtime] = "run"
    /\ Start(Runtime, "suspend", key[Runtime])
    /\ UNCHANGED <<node, inbox, runs, ops, woken, missed>>

-----------------------------------------------------------------------------
(* The tool: a worker thread per invocation *)

\* invoke resolves the session and dispatches; the order is that of threads.
TakeOp(w) ==
    /\ at[w] = "idle"
    /\ \E request \in inbox :
          /\ inbox' = inbox \ {request}
          /\ Start(w, request.action, request.vm)
    /\ UNCHANGED <<node, runs, ops, woken, missed>>

-----------------------------------------------------------------------------
(* The node *)

\* A call that was given up is carried out after all, or never.
LateCall(call) ==
    /\ call \in late
    /\ late' = late \ {call}
    /\ \/ call.what = "vm" /\ Carried(call.action, call.vm) /\ UNCHANGED record
       \/ call.what = "record" /\ Put(call.action, call.vm) /\ UNCHANGED <<vm, woken>>
       \/ UNCHANGED <<vm, record, woken>>
    /\ clean' = [clean EXCEPT ![call.vm] = FALSE]
    /\ UNCHANGED <<clients, inbox, runs, ops, missed>>

\* The keep-alive limit of the VM (maxExecTimeSeconds) is reached.
KeepAliveEnds(v) ==
    /\ vm[v] = "running"
    /\ vm' = [vm EXCEPT ![v] = "suspended"]
    /\ clean' = [clean EXCEPT ![v] = FALSE]
    /\ UNCHANGED <<record, late, clients, inbox, runs, ops, woken, missed>>

Operation(c) == HostCall(c) \/ HostCallFails(c) \/ RecordCall(c)

Next ==
    \/ \E c \in Clients : Operation(c)
    \/ \E s \in Sessions : Enter(s)
    \/ \E a \in Actions, v \in VMs : AskTool(a, v)
    \/ Exit
    \/ \E w \in Workers : TakeOp(w)
    \/ \E call \in late : LateCall(call)
    \/ \E v \in VMs : KeepAliveEnds(v)

Spec == Init /\ [][Next]_vars

-----------------------------------------------------------------------------
(* Properties *)

Calls == [what : {"vm", "record"}, action : Actions, vm : VMs]

TypeOK ==
    /\ vm \in [VMs -> {"none", "running", "suspended"}]
    /\ record \in [VMs -> (Actions \ {"write"}) \cup {"none"}]
    /\ late \subseteq Calls
    /\ at \in [Clients -> {"idle", "host", "record", "run"}]
    /\ op \in [Clients -> Actions \cup {"none"}] /\ key \in [Clients -> VMs]
    /\ at[Runtime] = "run" => op[Runtime] = "start"
    /\ inbox \subseteq [action : Actions, vm : VMs]
    /\ runs \in 0..MaxRuns /\ ops \in 0..MaxOps
    /\ clean \in [VMs -> BOOLEAN] /\ woken \in [VMs -> BOOLEAN]
    /\ missed \subseteq VMs

\* "when the reply is delivered the runtime suspends it" (tools/sandbox_pc):
\* between runs the VM of a session is off, whether the run returned or raised
\* and whatever the tool did in it, unless the suspend itself was lost.  A tool
\* operation that comes after the suspend wakes it again; that is left out.
IdleVmIsOff ==
    \A s \in Sessions :
        at[Runtime] = "idle" /\ woken[s] /\ s \notin missed => vm[s] # "running"

\* "Report the session VM's last-known state" (status): the record tells what
\* the VM is, however wrong it was before, once an operation on the VM that no
\* other one overlapped has gone through.
StatusTrue ==
    \A v \in VMs : clean[v] /\ Busy(v) = {} =>
        /\ record[v] \in {"start", "exec"}  => vm[v] = "running"
        /\ record[v] = "suspend"            => vm[v] # "running"
        /\ record[v] \in {"delete", "none"} => vm[v] = "none"

=============================================================================
