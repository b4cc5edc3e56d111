# Verification of Davinci

TLA+ models of the parts of this repository that keep state across steps,
threads or processes, the TLC runs that check them on small instances, and
proofs, checked by TLAPS, of the safety properties of the agent engine, the
bridge, the serve loop, the session memory, both sandboxes, the tool runtime, the
signaling client, the reasoner and the orchestrator for every instance.
`PROJECT.json` maps each definition to the
lines of source it was translated from, and lists the runs, the seeded faults,
the hazards, the findings and the theorems.

Run `tlc -config MCBridge.cfg MCBridge` to check a model and
`tlapm BridgeProofs.tla` to check the proofs about it. The proofs are in eight
modules. Seven are named after the module that they are about:
`DavinciEngineProofs`, `BridgeProofs`, `ServeLoopProofs`, `VercelSandboxProofs`,
`SandboxSessionProofs`, `ToolRuntimeProofs` and `SignalingClientProofs`. The eighth,
`SequenceProofs`, is about `Reasoner`, `SessionMemory` and `Orchestrator`, whose
proofs are by induction over sequences and share their lemmas.

## The system

Davinci is an agent that runs as a container ("creature") of a Caspar node. A
requester signals it a task; it plans, has a language model propose tool calls,
executes those that the permission engine lets through, by signalling other
creatures and waiting for their replies, and signals its answer back.

    backend --task--> node --frame--> CasparBridgeClient (reader thread)
                                          | one handler slot
                                          v
                       main / _wait_for_task_signal     (main thread)
                          | _run_agent
                          |   SessionMemory: conversation of the thread
                          |   _SessionSandbox: start VM ... suspend VM
                          v
                       DavinciAgent.run: plan -> propose -> gate -> execute -> reflect
                          | BridgeCreatureExecutor.execute
                          v
             node --> tool creature: tool_runtime, worker thread per call
                          |-- vercel_sandbox: REST service, sessions that end
                          '-- sandbox_pc: SandboxManager, VM of the session

| component | state it keeps | operations | with whom it interacts | what is hard | correct when |
|---|---|---|---|---|---|
| agent engine (`davinci/engine.py`) | plan, budget, fingerprints, pending reviews, replans left | `run`, `_run_step` | reasoner, permission engine, executor, tracer (calls) | loops, limits that are looked at between steps, a replan in the middle | nothing forbidden runs, limits hold, every run ends, success means success |
| plan (`davinci/planning.py`) | steps and their status | `start`, `complete`, `fail`, `replan_failed` | engine | steps appended while others are failed | settled steps stay, order is kept |
| permission engine (`davinci/permissions.py`) | rules and mode | `check` | engine | order of rules, modes and guardrails | deny beats allow |
| bridge client (`davinci/caspar_bridge.py`) | pending calls, results, partial messages, next id | `connect`, `call`, `close`, reader thread | node, every other component | threads; chunks; late answers; lost connection | a call gets its own whole answer, ends, and leaves nothing behind |
| serve loop (`davinci/caspar_runtime.py`, `main`) | captured task, handler slot | capture, run, stream, reply | bridge, engine, backend | reader thread against main thread, one handler slot | each task has a well-formed stream, no task is lost |
| tool-creature executor (`BridgeCreatureExecutor`) | waiters, results | `execute`, `handle_signal` | bridge, tool creatures | timeouts against late replies | a call returns its own reply |
| session memory (`davinci/memory.py`) | LRU of conversations | `messages`, `append`, `replace` | `_run_agent` | two sources of the same conversation | the right conversation, in order, once |
| session sandbox (`sandbox_core.py`, `_SessionSandbox`, `tools/sandbox_pc`) | none of its own: VM, disk and record at the node | `start`, `exec`, `write`, `suspend`, `delete`, `status` | node; two processes on one VM | lost and late host calls, no transaction | off between runs, disk kept, status true |
| vercel sandbox tool (`tools/vercel_sandbox`) | cache of session ids | create, start, exec, info, stop, delete | REST service | worker threads share the cache; sessions end by themselves | a command runs at most once, a worker that is alone recovers |
| tool runtime (`tools/_runtime/tool_runtime.py`) | connection, handler, last arrival, workers | connect with retries, serve, invoke, reply | node, senders, tools | layers of a signal, idle exit against running workers, a second call after a `TypeError` | who gave an address is answered, idleness cuts off nothing young, no body runs twice by accident |
| signaling client (`davinci/caspar_signaling.py`) | socket, read position | `connect`, `close`, `send`, `_signal_await_result` | node | responses name no request, time-outs in the middle of a frame | no request takes a response that was not left over for it; an await ends |
| LLM client (`davinci/llm.py`) | models, file cache | choice of a provider, `generate` | model providers | fallback, retries, partial uploads | models in order, each until nothing more can be had of it |
| reasoner (`davinci/reasoner.py`, `HeuristicReasoner`) | the client | `make_plan`, `propose`, `reflect`, `synthesize` | engine, LLM client | texts that are unusable in whole or in part | plans and reflections that the engine can rely on |
| orchestrator (`caspar_orchestrator.py`) | worker table, machines at the node | launch, assign, terminate, plan, execute a plan, route | node, installed entities | workers launched by the plan and again by its steps, shared task ids, host calls that raise | plans reach their machines, leave none, and ask for review when they must |
| other memory (`davinci/memory.py`) | bounded lists, a log, files | add, recall | engine, reasoner | the edge at `max_items = 1` | bounds hold |
| attachments, MCP registry, tool connectors, command line, scripts | nothing across calls | - | - | text and I/O | - |

`PROJECT.json`, "components", says of each whether it is modelled, in part or
not, and why not.

## The modules

Each module models one component; a few variables marked "history" exist for
the properties only. An operator whose name has an underscore, `Complete_Always`
beside `Complete`, is a seeded fault: the same operation with a plausible bug,
against which the properties are tried. No action uses it.

**`Permissions`** is `PermissionEngine.check` as an operator: blocked, denied,
allowed by rule, then by the ceiling of the mode. Actions are model values with
a risk; a guardrail is the arbitrary set `Blocked`.

**`DavinciEngine`** is `DavinciAgent.run`. The loop head is `StopOnBudget`,
`TakeStep`, `Replan` or `ReflectAndStop`; `_run_step` is `FinalAnswer`,
`NoTool`, `Propose` or `Stuck`, then `Deny`, `Review` or `Allow`, then
`ToolSucceeds` or `ToolFails`; `Settle` is what the loop does after a step. The
reasoner is arbitrary: it may propose any action or answer at any step, and
`reflect` asks for replans exactly when `LLMReasoner.reflect` would; `Raise` is
an exception that it lets through. The passing of time is one bit, `late`, that
`Deadline` sets at any moment.

**`AgentContract`** is the abstract specification of a run, as `_run_agent` and
the requester see it: executions of permitted actions within two limits, and
one end. `DavinciEngine!ImplementsContract` is the refinement, with the plan,
the budget and the steps hidden.

**`Bridge`** has one state per caller of `CasparBridgeClient.call` (`send`,
`waiting`, `taking`, `expired`), the reader thread (`Receive`, `ReadFrame`, `ReaderExit`),
`Close` by the main thread, and an external node that answers in any order and
in frames of any interleaving, never or late. Steps are as large as the code's
locks make them: registering, completing and taking are atomic; sending is not
part of any of them.

**`ServeLoop`** puts `main` and the executor over the handler slot that they
share. `pc` is where the main thread is; `Listen` and `StartRun` move the slot;
the reader thread delivers what is in `inbound` to whoever holds it. The backend
sends the next task after the reply to the last, as `main` assumes. A step or a
result is a host call that is delivered, lost, or given up by the client and
carried out by the node at any later time (`late`, `CarriedOutLate`).

**`SessionMemory`** is `SessionMemory` of `memory.py` and the part of
`_run_agent` before and after a run. A task comes with the orchestrator's
history of its thread or without; the record of the thread, which the history is
taken from, may or may not have the current prompt already. A run may raise.

**`VercelSandbox`** is the tool with one state per worker thread inside an
operation and one step per request to the service. The service keeps the
sandbox and its sessions; a session may end at any moment, and a request may
fail after it was carried out. `"exec"` is a command, `"file"` a read, write or
mkdir, which a live session may refuse with the status of one that is gone.

**`SandboxSession`** has the agent's runtime and the worker threads of the tool,
each of which is at the host call or at the record call of an operation of
`SandboxManager`. A host call is carried out and answered, or given up: then it
is lost, was carried out, or is carried out later (`late`).

**`ToolRuntime`** is the process that every tool creature runs. `pc` is where
`main` is: connecting, registering, in the loop of `_serve`, leaving. The reader
thread of the bridge calls `on_signal` (`OnSignal`, `OnSignalIgnores`) or finds
no handler (`NobodyListens`); each invocation has a worker that loads the tool
or falls back, calls it with one or two arguments, and replies; a result that JSON
has no form for raises instead (`ReplyRaises`). A signal is the
JSON object of three layers that `_extract_invoke` peels, and `Arriving` has one
of each shape that the senders of this repository make. Time is counted in ticks
from the last arrival (`quiet`).

**`SignalingClient`** has the byte stream as a sequence of lengths and bodies.
A request is under way at `length`, `body` or, after a body that was given up is
read as a length, `misread`, until that length is used up (`SwallowEnds`). `send` and an await share the steps; they differ in
what a response, an update, an empty frame and a failed read do. The node
answers any request it owes at any time.

**`LLMClient`** is the choice of a provider as the operator `ClientFromConfig`
and `generate` as steps: `BuildFor` a model, attach each file, `Built`, then
posts that are answered, retried or given up (`GiveUp` goes to the next model).
**`Reasoner`** extends it with the calls of the engine: `Ask` begins a call of
`generate`; its text ends in `MakePlan`, `Propose`, `Reflect`, `Synthesize` or
`FallsBack`. A text is what the parser finds in it, and everything is possible.
`Kept` is the loop of `make_plan` over the listed steps, by `Filtered` of
**`Selections`**: what `SelectSeq` has, as a recursive function that the provers can
expand.

**`Orchestrator`** has an action per operation of `MasterWorkerOrchestrator`.
Every host call is a packet on a connection of its own without an answer: it
raises, or it is in `net` until it takes effect, in order or not, or is lost
(`CarriedOut`, `Overtakes`, `Lost`). The caller is one thread. `execute_plan` is a
step for each of its host calls (`HostCall`), which wait for nothing; launching and
planning send what they send at once. A machine is on, off, or at work on a signal
until it `Completes`. Plans wait between being made and being executed, in any
order. `RoutedPlan` is `DavinciPlanner.plan`, over the
tools that `Discovered` finds in a catalog. The loop of
`plan_hierarchical_execution` over the categories is the recursive function of
`Work`, with what one category adds in `Steps`.

How they fit together: `Reasoner` is what `DavinciEngine` assumes of a reasoner,
and `EngineCanRely` states exactly that; `ToolRuntime` is the far side of the
calls of `ServeLoop`, where a reply may be missing; `Bridge` carries both.

The `MC...` modules give the constants values for TLC.

## The runs

All bounds are constants and stand in guards. `CHECK_DEADLOCK FALSE` is said
where the modelled system stops: an agent run ends, and the other models stop
when the bound on calls, tasks or operations is used up.

| run | bounds | what it shows |
|---|---|---|
| `engine` | 3 actions: harmless, of high risk, rejected by a guardrail; every mode without rules, with an allow rule and with a deny rule against it; plans of up to 2 steps, one replan of up to 2, 4 steps in all, 3 tool calls | see the list below; a failure, a replan of it and a second failure all occur, each limit is reached and each verdict of the gate is given to the same action twice |
| `bridge` | main and one worker thread, 6 ids, answers of 1 or 2 chunks | the handshake, overlapping calls, a late answer during the next call, interleaved chunks, lost connection and close |
| `serve` | 2 tasks, 2 tool calls, 1 streamed step each | a reply of the first task's tool arrives in the second task; a step that the client gave up is carried out after the result, or in the next task (the steps of one run among themselves are left to the proof) |
| `serve_dropped` | 2 tasks, 1 call | finding 1 |
| `session` | 3 threads, 2 kept, windows of 3 turns, 2 prompts, 4 runs | eviction and trimming happen, a thread comes back after its eviction, the same prompt is asked twice |
| `vercel` | 2 workers, 4 operations, 3 sessions | an id gets stale in the hands of one worker while the other recovers |
| `sandbox` | 1 session, 2 workers, 2 runs, 2 tool operations, 1 late call | suspend against late exec or delete, across two runs |
| `tool_runtime` | 2 signals of 7 shapes, 2 connection attempts, an idle window of 1 tick | one worker is at work while the other signal sets the clock back, or comes in while the loop leaves |
| `signaling` | 3 requests | a response is left over by a request, and the next or the one after it reads it; a body that is given up is read as a length, which updates and answers then use up |
| `reasoner` | 3 models, 2 attempts, 1 large attachment, plans of up to 2 listed steps, 2 failed steps | an upload fails for the first model and works for the second; retries are used up, then another model answers |
| `orchestrator` | 2 templates of one VM name that share a category, 1 task id, 3 requests, 2 waiting plans, 2 packets on their way | two plans of one task id are executed in either order, whole or in part, beside the operations on single workers, while packets overtake each other or get lost (chosen worker ids are in the next run and in the proofs) |
| `terminated_when_done` | 1 chosen worker id, 1 waiting plan, 2 packets on their way | finding 2 |

The bounds suffice for the hazards because each of these needs at most two
actors and one leftover of an earlier operation; every bound leaves room for one
operation more than that.

What is checked:

* Engine. `VerdictObeyed`: what is denied or left to a human is never executed,
  over all steps and replans. `RepetitionBounded`: the loop detector counts over
  steps and replans. `WithinBudget`: by how much a limit may be passed (tokens,
  by less than one tool result). `PlanWorkedOff`: steps are begun in order, and a
  run that finishes has worked off all of them. `SuccessCoversFailures`: success
  is only reported if every failure was followed by a replanned step that was
  done. `SettledStepsStay`: a replan appends. `ImplementsContract`: the
  refinement. `Terminates`: a run ends.
* Bridge. `OwnWholeAnswer`: no call returns another's answer, or a part.
  `NoOrphans`: the tables hold nothing of calls that are over, but for the leak
  named in the hazards (a failed send), and nobody who registered before the
  reader ended still waits. `CallsEnd`.
* Serve loop. `StreamWellFormed`: the requester sees steps, then one result, per
  task; only a message whose host call was given up may be out of that order, and
  even a late result comes before anything of the next task. `OwnToolResult`: a call returns its own reply, and late replies to calls
  that timed out are dropped. `ComesBack`: a task that was taken is worked off.
* Session memory. `ContextInOrder`: a run is given the end of its own
  conversation, in order, without gaps and without the current prompt.
  `RecentThreadsKept`: LRU, with the order of uses as the reference.
* Vercel sandbox. `RunsAtMostOnce`, `CreateAdopts`, and `RecoversAlone`, which is
  what holds of automatic recovery.
* Session sandbox. `IdleVmIsOff`: the VM is off between runs, but for late calls.
  `StatusTrue`: what status reports against what the VM is.
* Tool runtime. `CutOnlyIfOld`: leaving for idleness cuts off only invocations
  that ran for a whole window, or came in after the last look at the clock.
  `RunsOnce`: the call after a `TypeError` runs the body again only if the tool
  takes its payload as optional, and hides an error only of a body that ran.
  `Answered`: an invocation that says where its reply goes is replied to, unless
  the connection or the process goes or the result has no form in JSON.
* Signaling client. `InStep`: what a request takes for its response is its own or
  one that an earlier request of the connection left unread. `AwaitEnds`: an await
  comes back, though in the body of a misread length only when that is used up.
* LLM client and reasoner. `FallbackInOrder`: which models were asked, how often,
  with which attachments, whatever each of them did. `EngineCanRely`: plans end
  with a step that composes the answer, and reflections on failures are sensible.
* Orchestrator. `PlansServe`: if a signal of an executed plan finds its machine
  off, or a machine is still on when all packets of a plan that was executed to
  its end have taken effect, then the network lost one of the machine's packets
  or let one overtake another; plans of one task id share their machines. It is
  what the code can promise, since it waits for no answer. `UnreviewedIsSafe`: a plan that asks for
  no review does all that was required with nothing of high risk.

### Fairness

* Engine: weak fairness of the run. Every wait in it (model, bridge, tool
  process) has a timeout. Nothing is assumed of the deadline.
* Bridge: of each caller, whose wait has a timeout, and of the reader thread.
  Nothing is assumed of the node.
* Serve loop: of the main and the reader thread; nothing of tools and backend.
* Tool runtime: of the main thread, of time, of the reader and of each worker. A
  tool comes back from its invocation: the shipped ones bound each request or
  command. Nothing is assumed of the node, the link or the senders.
* Signaling client: of the thread that reads, whose socket has a time-out, and
  of time. Strong fairness of `SwallowEnds`: a misread length is finite, so bytes
  that go on coming use it up. Nothing is assumed of the node.
* The other modules state safety only and have no fairness.

## Findings

1. `NoRequestDropped` (`caspar_runtime.py:763`): the task that follows a reply
   may reach the executor's handler, which ignores it.
2. `TerminatedWhenDone` (`caspar_orchestrator.py:187`): `execute_plan` sends the
   termination right after the last signal, where line 372 gives "after task
   completion" as its reason. The trace has no loss and no overtaking.

Other disagreements between the code and what is said of it were met while
modelling. Each shows in one step of a model, but for one that is in no model, so
no run is spent on it:

* Engine. A final answer of the last step ends the run at once
  (`engine.py:333`), also when an earlier step failed and replans are left,
  although `engine.py:9` speaks of "Replan-on-failure"; the heuristic plan always
  ends that way (`DavinciEngine!FinalAnswer`). An allow rule is looked at before
  the mode, so it lets an action run in plan mode (`permissions.py:120`), of
  which line 38 says "never mutate; everything needs review"
  (`Permissions!Check`).
* Bridge. A call that is woken by the loss of the connection returns `None`
  (`caspar_bridge.py:291`), like an answer, where line 155 says "return its
  parsed JSON result" (`Bridge!Return`). A call that begins after the reader
  thread has ended waits for its full timeout, while line 288 speaks of failing
  fast (`Bridge!Begin`).
* Serve loop. `materialize_attachments` is called outside the `try` that keeps
  "one bad task" (`caspar_runtime.py:782`) from ending the server
  (`ServeLoop!SetupRaises`).
* Session memory. A prompt that the orchestrator's history has already is
  remembered a second time (`caspar_runtime.py:623`): only the local copy loses
  it, although lines 626-628 mean to avoid that it is seeded twice
  (`SessionMemory!Begin`).
* Vercel sandbox. The id that one worker looked up before the session ended
  replaces the one that another worker has just recovered (`tool.py:224`), and
  its single retry fails, where lines 235-237 promise that "recovery is
  automatic" (`VercelSandbox!Store`).
* Session sandbox. Without a session id in its arguments the tool works on the
  VM of its own gateway session (`sandbox_core.py:138`), which no lifecycle hook
  suspends, where lines 132-133 say "a single agent run always hits the same VM"
  (`SandboxSession!TakeOp`).
* Tool runtime. A result that JSON has no form for, as `sql_query` may return (an
  interval or a UUID passes its `_jsonable`), makes `signal_user` raise, since
  `caspar_bridge.py:193` has no default; that is only logged as `reply_error`, and
  the caller hears nothing though the connection stands, where `tool_runtime.py:275`
  says "signal the result back to the caller" (`ToolRuntime!ReplyRaises`). And the one
  that is in no model: the runtime is started as a script, so it puts its bridge
  into the module `__main__` (line 54); `sandbox_pc` imports `tool_runtime`, gets a
  second copy with no bridge, and answers "bridge unavailable" to everything, where
  `sandbox_pc/tool.py:38` speaks of "the docker-host bridge the tool runtime opened
  before invoke()". Its tests replace `_get_bridge`.
* LLM client. A provider that is named without a key is passed over silently
  (`llm.py:648`, `ClientFromConfig`). 504 is not among the statuses that are
  retried, unlike what "transient 5xx" suggests (`Retried`). 429 is retried like
  an overload before the next model is asked, where line 17 has "skip on quota".
* Reasoner. A reflection whose `replan_titles` is a number or `true` raises in
  `reflect` (`reasoner.py:550`), which neither it nor the engine catches
  (`Reasoner!ReflectRaises`).
* Orchestrator. The workers of a plan are launched while it is made, high risk
  included, and `execute_plan` does not look at whether a review was asked for
  (`agentic_runtime.py:118`: "flagged for user review before execution"). A task
  id is cut to 48 characters, so plans of two tasks may share their machines. An
  `execute_plan` that raises skips its cleanup steps. `terminate_worker` forgets
  the worker before the host call that may raise, and a worker whose machine a
  plan has terminated is still listed, so `assign_task` may signal nobody
  (`Orchestrator!AssignTask`). A plan that raises while it launches leaves the
  machines before it running, and no plan to terminate them
  (`Orchestrator!PlanRaises`).

## Proofs

`DavinciEngineProofs` proves of `DavinciEngine`, for every set of actions, every
set of policies and every budget, under `EngineAssumption` and
`ActionAssumption` only (the constants have their types;
`max_step_attempts` and the budgets are natural numbers; `Blocked` and the
rules are sets of actions):

* `TypeCorrect`: `TypeOK`. It is inductive; `NextType` has a step per action.
* `GateHolds`: `VerdictObeyed`. It is not inductive, as it says nothing of the
  verdict that let the calls through. `GateInv` says that every call was allowed
  and every escalation reviewed by the policy of the run, which does not change.
* `RepetitionHolds`: `RepetitionBounded`. The invariant `RepetitionInv` relates
  the number of executions of each action to the loop detector's count of its
  proposals, which exceeds it while the action is on its way to the gate.
* `BudgetHolds`: `WithinBudget`. `BudgetInv` remembers what was left of the
  budget while a step is between the loop head and the executor.
* `EngineImplementsContract`: every step of the engine is a step of
  `AgentContract` or stutters, from the three invariants above.
* `PlanHolds`, `SuccessHolds` and `SettledHolds`: `PlanWorkedOff`,
  `SuccessCoversFailures` and the action property `SettledStepsStay`, from one
  invariant. `ProgressInv` says of each step what its status tells (a pending one
  was not attempted, a done one has no bad result, none is attempted twice), and
  of the plan that the pending steps are its end and that, when any was skipped,
  the last step was appended by a replan and is not skipped itself. So the last
  step of a complete plan was done after every failure.

`BridgeProofs` proves of `Bridge`, for any number of threads, ids and chunks,
under `BridgeAssumption` (the main thread is a caller, an answer has a frame),
`TypeCorrect`, `OwnWholeAnswerHolds` and `NoOrphansHolds`: `TypeOK`,
`OwnWholeAnswer` and `NoOrphans`. That an outcome is right rests on everything on
its way: ids in calls differ and are registered (`IdsInv`), the node takes up a
request once (`AskedInv`), frames and partial messages are of the answer the node
is giving (`FramesInv`), and whatever is kept is good and whoever is woken finds
it (`ResultsInv`). The code delivers when it has as many chunks as the frames
announce, whichever they are; that these are all of them is a fact of finite
sets.

`ServeLoopProofs` proves of `ServeLoop`, for any number of tasks, calls and
streamed steps, under `ServeAssumption` (the constants have their types),
`TypeCorrect`, `OwnToolResultHolds` and `StreamHolds`: `TypeOK`, `OwnToolResult`
and `StreamWellFormed`. `ToolInv`: a reply is kept under its own id, and the
tables hold the call under way and those whose signal failed. `LateInv`: a message
is delivered or still late, not both, and a late result is of the task that the
backend awaits. `TaskInv`: one task at most is under way and in one place (on the
wire, in the box, or with the main thread), nothing of it was said, delivered or
late, before the main thread works on it, and no result of it before the reply.
It rests on the backend's sending the next task after the reply.

`VercelSandboxProofs` proves of `VercelSandbox`, for any number of workers,
operations and sessions, under `SandboxAssumption` (both numbers are natural):

* `TypeCorrect`: `TypeOK`; an id is at hand wherever one is needed.
* `RunsAtMostOnceHolds`: `RunsAtMostOnce`. A command ends the operation in which
  it ran, so nothing is retried that has run (`RunInv`).
* `CreateAdoptsHolds`: `CreateAdopts`. What made a creation fail is there until
  it is deleted (`AdoptInv`).
* `RecoversAloneHolds`: `RecoversAlone`. In its second attempt a worker that is
  alone finds the cache as it left it, without an id, and then the live session
  (`RecoverInv`).

`SandboxSessionProofs` proves of `SandboxSession`, for any sessions, worker
threads, runs, operations and late calls, under `SandboxAssumption` (the tool's
key is no session, the runtime no worker):

* `TypeCorrect`: `TypeOK`.
* `IdleVmIsOffHolds`: `IdleVmIsOff`. It speaks of the time between runs only;
  `WakeInv` follows the VM through the run that woke it, to a suspend that is
  carried out or missed.
* `StatusTrueHolds`: `StatusTrue`. `CleanInv` follows the operation that makes a
  VM clean: it has the VM for itself, nothing that was given up is still to come,
  and once the host call is carried out the record it is about to write is true.

`SignalingClientProofs` proves of `SignalingClient`, for any number of requests,
under `SignalingAssumption` (there is a request), `TypeCorrect` and `InStepHolds`:
`TypeOK` and the action property `InStep`. `AnswersInv` says that each response
is on its way once - the node owes it, or it is in the stream, or it is being
read - and is of a request that is under way or was given up without its own.

`ToolRuntimeProofs` proves of `ToolRuntime`, for any signals, number of attempts
and idle window, under `ToolRuntimeAssumption` (both numbers are positive):

* `TypeCorrect`: `TypeOK`. It is not inductive by itself: that no body begins a
  third time needs `RunsInv`, and that no attempt follows the last `Connecting`.
* `RunsOnceHolds`: `RunsOnce`. `RunsInv` says for each place of a worker how often
  the body has begun, which depends on the signature once a call was refused.
* `CutHolds`: `CutOnlyIfOld`. `IdleInv` says that no invocation at work is younger
  than the time since the last arrival, so all are old when the loop ends; those
  that come in later are `late`, and none comes once the bridge is closed.

`SequenceProofs` has two lemmas on which the rest stands. The library's induction
theorems take a predicate as a parameter, which the provers cannot instantiate.
`LeastNumber` gets around that: the intervals 0..n are finite sets, which the
library has well ordered by inclusion, so a set of natural numbers has a least
element; `SetInduction` follows, with a set in the place of the predicate. From it
come that a recursive function exists and is the only one (`RecursionUnique`), so
what `Filtered`, `Undoubled` and `Work` return for one entry more
(`FilteredAppend`, `UndoubledAppend`), and that they keep the order of what they
keep and the ends of sequences (`EndsFiltered`, `EndsUndoubled`).

Of `Reasoner` it proves, for any number of models, attempts, attachments, listed
steps and failed steps, under `LLMClientAssumption` (there is a model) and
`ReasonerAssumption` (a list may have a step):

* `TypeCorrect`: `TypeOK`.
* `FallbackHolds`: `FallbackInOrder`. It compares the whole history of a call with
  what may still be asked, so the invariant follows the call: in `Order` the
  models before the current one are exhausted and those after it unasked; in
  `Attempts` the current model was posted to once per attempt, every time with an
  outcome that may be retried; in `Attached` the attachments that were looked at
  and are uploaded are in the request or could not be read.
* `EngineCanRelyHolds`: `EngineCanRely`, by an invariant that says of every result
  that it is `Sound`. What `make_plan` keeps of a list, however long and whatever
  is junk in it, is a list of steps (`KeptType`).

Of `SessionMemory` it proves, for any threads, prompts and runs, under
`MemoryAssumption` (both bounds are positive):

* `MemoryTypeCorrect` and `RecentThreadsKeptHolds`: `MemoryTypeOK` and
  `RecentThreadsKept`. Neither the bound nor the list of threads tells who was used
  when. `UsedInOrder` does: the threads are listed in the order of their last use,
  no two were used at once, and all that are not listed were used before. What
  `_touch` moves and drops is then known by its place in the list (`TouchedMoves`).
* `ContextInOrderHolds`: `ContextInOrder`. A run sees what the memory kept, and
  that is not simply the end of the record: a prompt may be there twice, the prompt
  of a run that raised may be there or not, the window may have cut between two
  equal turns, and the run under way may have recorded its prompt already.
  `Conversations` says of each thread that what is kept, without doubled turns and
  without the runs that raised, is the end of its record without them, and of the
  run under way whether its prompt is kept and recorded yet. That cutting, appending
  and dropping a last prompt keep such a match are the lemmas about `Match`.

Of `Orchestrator` it proves, for any templates, task ids, worker ids, catalog and
requests of any length, under `OrchestratorAssumption` (the templates are a
sequence whose roles differ, as the keys of a dictionary do; risks are known; tool
ids have an order, here that of numbers; a request is a sequence):

* `OrchestratorTypeCorrect`: `OrchestratorTypeOK`.
* `PlansServeHolds`: `PlansServe`. The invariant `Made` says that every waiting plan
  is `HierarchicalPlan` of some task and request, and nothing of the machines:
  others may turn them on and off meanwhile. So a plan has to do by itself, and
  `Serves` says what: every signal follows a provision of its machine with no
  cleanup between, and after the last provision of every machine comes a cleanup.
  That `Work` does so is by induction over the categories (`DoesStep`). The rest is
  about the packets on their way to an undisturbed machine (`InOrder`): whether it
  is on when the first n of them have taken effect follows from the last start or
  stop among them (`OnAt`); every signal among them finds it on (`Heard`); and they
  leave it on while a plan that has provisioned it is under way, and off when one
  was executed to its end.
* `UnreviewedIsSafeHolds`: `UnreviewedIsSafe`, for waiting plans by the same
  induction (one signal for each category that has a template) and for routed plans
  because a least risky tool exists for each category (`RoutedIsSafe`).

The inductive invariants were first checked by TLC with the bounds of the runs.

Model-checked only: the liveness properties `Terminates`, `CallsEnd`, `ComesBack`,
`Answered` and `AwaitEnds`, since fairness is out of the prover's reach. Every
invariant and action property of the runs is proved.

## Abstractions and what is left out

* Text: prompts, parsing of model output, the patterns of guardrails. A
  guardrail's verdict is arbitrary.
* The heuristic plan and `HeuristicReasoner` are instances of the arbitrary plan
  and reasoner of the engine's model. A reasoner that asks for a replan with
  more than `MaxTitles` titles is outside the bound.
* Frames are well formed: a payload that is not UTF-8, which ends the reader
  thread without waking anybody, is a hazard without a model.
* One backend, sequential, as `main` requires; with two backends the fields of
  the captured task may be mixed: the reader thread writes them one by one while
  the main thread reads them (`caspar_runtime.py:709`).
* Session ids differ after sanitising (`sandbox_core.py:52`).
* `ServeLoop` and `SandboxSession` see an agent run from outside: as steps, tool
  calls and an end. `DavinciEngine` has the inside. `SandboxSession` has the
  tool's workers with a bridge, as its tests and its comment have it; the second
  copy of the module is what stands in the way when the runtime is a script. A VM has one runtime:
  whether a tool call that names another one than the lifecycle hook (fire against
  docker) meets the same VM is up to the node.
* `Bridge`: numbering a call and registering it (`caspar_bridge.py:162-163`) are one
  step. Between the two there is nothing under the number for anybody to see.
* `ToolRuntime`: what built-in fallbacks compute is data; an import that fails is
  swallowed and ends in a fallback, as in the code. A tool that never comes back
  is left out: nothing bounds it, and its worker would never reply. Connections
  of attempts that failed half-way are not closed and leak; they have no effect
  on the rest and are left out.
* `SignalingClient`: lengths are read whole, and no body is torn (a body is all
  there or late). A misread length is of 16 MB and more, since the first byte is
  a tag: what comes is swallowed by it until it is used up, after how many frames
  is left open, or until the socket's time-out. A
  result that comes on a later connection is an update like any other.
* `LLMClient`: the attached files do not change while a task runs. Of `generate`
  the model has outcomes, not durations: models times retries times the time-out
  of a request passes inside one step of the engine, whose budget looks at the
  clock only between steps.
* `Reasoner`: a text that is not JSON is text, so `generate` has answered and no
  other model is asked; the heuristics decide.
* `Orchestrator`: the node takes a second `RUN_VM` of a machine that is on as
  nothing new, and carries out a packet to a machine at once when it gets to it: a
  start that takes its time is one that later packets overtake. Machines are named
  after VM name and worker id, so two workers may share one. `list_point_apps` returns nothing with the real client, whose host
  calls have no answers, so discovery is modelled for a catalog that is given.
  Templates are registered before. The payloads of host calls are data.

Not modelled: the command line, the scripts, the MCP registry and the tool
connectors, each of which does one thing and keeps nothing; the files of
`InstructionMemory` and the log of `EpisodicMemory`; `WorkingMemory` and
`compact_messages`, which bound a list (with `max_items = 1` the slice `[-0:]` of
`memory.py:43` is the whole list and nothing is bounded; the engine uses 200);
`agentic_runtime.py`, which describes the orchestrator's abilities as data.

## Plan

Done: the engine with its contract and proofs; the concurrent parts around it in
the order of what they put at risk: bridge, serve loop, session memory,
sandboxes; then the far side of tool calls, the signalling client, the reasoner
over its LLM client, and the orchestrator; and the proofs of every invariant and
action property of these. Next, in this order:

1. `ServeLoop` and `ToolRuntime` in one composition, with `Answered` as what the
   executor may rely on.
2. `WorkingMemory` and `compact_messages` as operators against a reference.
