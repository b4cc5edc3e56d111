----------------------------- MODULE ServeLoop -----------------------------
(***************************************************************************)
(* The serve loop of the deployed agent (davinci/caspar_runtime.py: main,  *)
(* _wait_for_task_signal, _run_agent, the step sink and                    *)
(* BridgeCreatureExecutor).  The main thread waits for a task, runs the    *)
(* agent, which streams its steps to the requester and drives tools by     *)
(* signals, and signals the result.  Signals arrive on the reader thread,  *)
(* which hands each to the one handler that is registered at that moment.  *)
(*                                                                         *)
(* The backend is external and is as the comment in main describes it: it  *)
(* awaits each reply before it sends the next task.  Tool creatures are    *)
(* external too: one that was signalled may reply at any time, or never.   *)
(* And so is the node that carries out the host calls: one that main gave  *)
(* up waiting for may still be carried out, at any later time.             *)
(***************************************************************************)
EXTENDS Integers, Sequences, FiniteSets

CONSTANTS
    serve_forever,   \* DAVINCI_SERVE_FOREVER
    MaxTasks,        \* bound: tasks the backend sends
    MaxCalls,        \* bound: tool calls in all runs together
    MaxEvents        \* bound: events one run streams

ASSUME ServeAssumption ==
    /\ serve_forever \in BOOLEAN
    /\ MaxTasks \in Nat /\ MaxCalls \in Nat /\ MaxEvents \in Nat

Tasks == 1..MaxTasks
Calls == 1..MaxCalls

VARIABLES
    pc,        \* where the main thread is
    handler,   \* the registered signal handler: "none", "task" or "exec"
    box,       \* the task the handler put into the box main waits on, 0 for none
    ev,        \* the event main waits on
    task,      \* the task main is working on, 0 for none
    events,    \* trajectory events streamed in this run
    call,      \* the last tool call made: correlation ids are fresh uuids
    waiters,   \* _waiters of the run's executor
    arrived,   \* _results of the run's executor: correlation id -> payload, 0 for none
    used,      \* the payload the last tool call returned to the agent, 0 for none
    inbound,   \* signals on their way to the client
    tools,     \* tool calls that a tool creature is working on
    awaiting,  \* the task the backend awaits the reply to, 0 for none
    sent,      \* tasks the backend has sent
    log,       \* what was delivered to the backend, in order
    late,      \* messages that main gave up and the node is yet to deliver
    overdue,   \* history: every message that was ever late
    dropped,   \* history: tasks that were discarded, with the handler that did it
    failed     \* history: tool calls whose signal failed

mainVars == <<pc, box, ev, task, events>>
history == <<dropped, failed>>
stream == <<log, late, overdue>>
execVars == <<call, waiters, arrived, used>>
vars == <<mainVars, handler, execVars, inbound, tools, awaiting, sent, stream, history>>

Init ==
    /\ pc = "listen" /\ handler = "none" /\ box = 0 /\ ev = FALSE
    /\ task = 0 /\ events = 0
    /\ call = 0 /\ waiters = {} /\ arrived = [c \in Calls |-> 0] /\ used = 0
    /\ inbound = <<>> /\ tools = {}
    /\ awaiting = 0 /\ sent = 0
    /\ log = <<>> /\ late = {} /\ overdue = {}
    /\ dropped = {} /\ failed = {}

-----------------------------------------------------------------------------
(* The main thread between tasks *)

\* _wait_for_task_signal: a new box, a new event, and the handler over them.
Listen ==
    /\ pc = "listen"
    /\ box' = 0 /\ ev' = FALSE
    /\ handler' = "task"
    /\ pc' = "waiting"
    /\ UNCHANGED <<task, events, execVars, inbound, tools, awaiting, sent, stream, history>>

\* ev.wait returns True and main reads the box.
TakeTask ==
    /\ pc = "waiting"
    /\ ev
    /\ task' = box
    /\ pc' = "setup"
    /\ UNCHANGED <<handler, box, ev, events, execVars, inbound, tools, awaiting, sent,
                   stream, history>>

\* Seeded fault: the empty-handed return is taken for a task.
IdleTimeout_FallsThrough ==
    /\ pc = "waiting"
    /\ ~ev
    /\ task' = box
    /\ pc' = "setup"
    /\ UNCHANGED <<handler, box, ev, events, execVars, inbound, tools, awaiting,
                   sent, stream, history>>

\* ev.wait times out.  The handler stays over the old box until the next Listen;
\* a process that does not serve forever ends.
IdleTimeout ==
    /\ pc = "waiting"
    /\ ~ev
    /\ pc' = IF serve_forever THEN "listen" ELSE "exited"
    /\ UNCHANGED <<handler, box, ev, task, events, execVars, inbound, tools, awaiting,
                   sent, stream, history>>

\* materialize_attachments raises (it cannot make its directory).  That is
\* outside the try: main ends.
SetupRaises ==
    /\ pc = "setup"
    /\ pc' = "dead"
    /\ UNCHANGED <<handler, box, ev, task, events, execVars, inbound, tools, awaiting,
                   sent, stream, history>>

\* _run_agent builds the executor, which takes over the handler.
StartRun ==
    /\ pc = "setup"
    /\ handler' = "exec"
    /\ waiters' = {}
    /\ arrived' = [c \in Calls |-> 0]
    /\ used' = 0
    /\ events' = 0
    /\ pc' = "run"
    /\ UNCHANGED <<box, ev, task, call, inbound, tools, awaiting, sent, stream, history>>

\* _run_agent raises before it gets there.
StartRaises ==
    /\ pc = "setup"
    /\ pc' = "reply"
    /\ UNCHANGED <<handler, box, ev, task, events, execVars, inbound, tools, awaiting,
                   sent, stream, history>>

-----------------------------------------------------------------------------
(* The main thread in a run *)

Step(t, n) == [kind |-> "step", task |-> t, seq |-> n]
Result(t) == [kind |-> "result", task |-> t, seq |-> 0]

\* A host call of bridge.signal_user is carried out, or never will be, or main
\* gives it up after its timeout and the node carries it out afterwards.
Delivered(m) == log' = Append(log, m) /\ UNCHANGED <<late, overdue>>
Delayed(m) == /\ late' = late \cup {m}
              /\ overdue' = overdue \cup {m}
              /\ UNCHANGED log
Lost == UNCHANGED stream

\* The step sink signals one trajectory event; a failure is swallowed.
StreamStep ==
    /\ pc = "run"
    /\ events < MaxEvents
    /\ events' = events + 1
    /\ Delivered(Step(task, events')) \/ Delayed(Step(task, events')) \/ Lost
    /\ UNCHANGED <<pc, handler, box, ev, task, execVars, inbound, tools, awaiting, sent, history>>

\* BridgeCreatureExecutor.execute registers a waiter and has the node signal
\* the tool, which it does or does not.
Invoke ==
    /\ pc = "run"
    /\ call < MaxCalls
    /\ call' = call + 1
    /\ waiters' = waiters \cup {call'}
    /\ tools' \in {tools, tools \cup {call'}}
    /\ pc' = "signal"
    /\ UNCHANGED <<handler, box, ev, task, events, arrived, used, inbound, awaiting, sent,
                   stream, history>>

\* The node says that it has; execute waits for the reply.
Acknowledged ==
    /\ pc = "signal"
    /\ pc' = "tool"
    /\ UNCHANGED <<handler, box, ev, task, events, execVars, inbound, tools, awaiting, sent,
                   stream, history>>

\* The node says no, or its answer is late or lost: execute returns at once
\* and its waiter stays registered.  The tool may have been signalled.
InvokeFails ==
    /\ pc = "signal"
    /\ failed' = failed \cup {call}
    /\ used' = 0
    /\ pc' = "run"
    /\ UNCHANGED <<handler, box, ev, task, events, call, waiters, arrived, inbound, tools,
                   awaiting, sent, stream, dropped>>

\* ev.wait of execute returns True.
ToolAnswered ==
    /\ pc = "tool"
    /\ arrived[call] # 0
    /\ pc' = "collect"
    /\ UNCHANGED <<handler, box, ev, task, events, execVars, inbound, tools, awaiting,
                   sent, stream, history>>

\* Seeded fault: the wait for a tool has no timeout.
ToolTimesOut_Never == FALSE /\ UNCHANGED vars

\* ev.wait of execute returns False.
ToolTimesOut ==
    /\ pc = "tool"
    /\ arrived[call] = 0
    /\ pc' = "expired"
    /\ UNCHANGED <<handler, box, ev, task, events, execVars, inbound, tools, awaiting,
                   sent, stream, history>>

\* Waiter and result are popped; after a timeout a result that came in the
\* meantime is discarded.
Collect ==
    /\ pc \in {"collect", "expired"}
    /\ waiters' = waiters \ {call}
    /\ arrived' = [arrived EXCEPT ![call] = 0]
    /\ used' = IF pc = "collect" THEN arrived[call] ELSE 0
    /\ pc' = "run"
    /\ UNCHANGED <<handler, box, ev, task, events, call, inbound, tools, awaiting, sent,
                   stream, history>>

\* agent.run returns or raises; both are replied to.
EndRun ==
    /\ pc = "run"
    /\ pc' = "reply"
    /\ UNCHANGED <<handler, box, ev, task, events, execVars, inbound, tools, awaiting,
                   sent, stream, history>>

\* Seeded fault: the result is signalled before the run has ended.
Reply_Early ==
    /\ pc \in {"reply", "run"}
    /\ Delivered(Result(task))
    /\ pc' = IF pc = "run" THEN "run" ELSE "replied"
    /\ UNCHANGED <<handler, box, ev, task, events, execVars, inbound, tools, awaiting,
                   sent, history>>

\* The result is signalled to the requester; the call returns later.
Reply ==
    /\ pc = "reply"
    /\ Delivered(Result(task))
    /\ pc' = "replied"
    /\ UNCHANGED <<handler, box, ev, task, events, execVars, inbound, tools, awaiting,
                   sent, history>>

\* The call fails or is given up; that is logged and nothing else.
ReplyFails ==
    /\ pc = "reply"
    /\ Delayed(Result(task)) \/ Lost
    /\ pc' = "replied"
    /\ UNCHANGED <<handler, box, ev, task, events, execVars, inbound, tools, awaiting,
                   sent, history>>

\* The loop goes round, or the process ends.
NextRound ==
    /\ pc = "replied"
    /\ task' = 0
    /\ pc' = IF serve_forever THEN "listen" ELSE "exited"
    /\ UNCHANGED <<handler, box, ev, events, execVars, inbound, tools, awaiting, sent,
                   stream, history>>

-----------------------------------------------------------------------------
(* The reader thread *)

\* A task: the task handler puts it into the box and sets the event; only main
\* in its wait will look at them.  The executor's handler ignores it.
DeliverTask ==
    /\ inbound # <<>> /\ Head(inbound).kind = "task"
    /\ pc \notin {"exited", "dead"}
    /\ inbound' = Tail(inbound)
    /\ IF handler = "task"
       THEN /\ box' = Head(inbound).id
            /\ ev' = TRUE
            /\ dropped' = dropped \cup
                    {[task |-> t, by |-> "task"] :
                        t \in IF pc # "waiting" THEN {Head(inbound).id}
                              ELSE IF ev THEN {box} ELSE {}}
       ELSE /\ dropped' = dropped \cup {[task |-> Head(inbound).id, by |-> handler]}
            /\ UNCHANGED <<box, ev>>
    /\ UNCHANGED <<pc, handler, task, events, execVars, tools, awaiting, sent, stream, failed>>

\* Seeded fault: a reply is given to whoever waits.
HandleResult_Unmatched(c) ==
    IF handler = "exec" /\ waiters # {}
    THEN arrived' = [w \in Calls |-> IF w \in waiters THEN c ELSE arrived[w]]
    ELSE UNCHANGED arrived

\* BridgeCreatureExecutor.handle_signal: a reply is kept for its waiter.
HandleResult(c) ==
    IF handler = "exec" /\ c \in waiters
    THEN arrived' = [arrived EXCEPT ![c] = c]
    ELSE UNCHANGED arrived

\* A tool's reply.  The task handler ignores it.
DeliverResult ==
    /\ inbound # <<>> /\ Head(inbound).kind = "tools/result"
    /\ pc \notin {"exited", "dead"}
    /\ inbound' = Tail(inbound)
    /\ HandleResult(Head(inbound).id)
    /\ UNCHANGED <<mainVars, handler, call, waiters, used, tools, awaiting, sent, stream, history>>

-----------------------------------------------------------------------------
(* The node, the backend and the tool creatures, external *)

\* The node comes to a message that main gave up.
CarriedOutLate(m) ==
    /\ m \in late
    /\ late' = late \ {m}
    /\ log' = Append(log, m)
    /\ UNCHANGED <<mainVars, handler, execVars, inbound, tools, awaiting, sent, overdue, history>>

\* The first task is sent after DAVINCI_READY, the others after the reply to
\* the one before.
BackendSends ==
    /\ handler # "none"
    /\ awaiting = 0
    /\ sent < MaxTasks
    /\ sent' = sent + 1
    /\ awaiting' = sent'
    /\ inbound' = Append(inbound, [kind |-> "task", id |-> sent'])
    /\ UNCHANGED <<mainVars, handler, execVars, tools, stream, history>>

\* The terminal result of the task it awaits has come.
BackendReceives ==
    /\ awaiting # 0
    /\ \E k \in DOMAIN log : log[k] = Result(awaiting)
    /\ awaiting' = 0
    /\ UNCHANGED <<mainVars, handler, execVars, inbound, tools, sent, stream, history>>

ToolReplies(c) ==
    /\ c \in tools
    /\ tools' = tools \ {c}
    /\ inbound' = Append(inbound, [kind |-> "tools/result", id |-> c])
    /\ UNCHANGED <<mainVars, handler, execVars, awaiting, sent, stream, history>>

-----------------------------------------------------------------------------
MainThread ==
    \/ Listen \/ TakeTask \/ SetupRaises \/ StartRun \/ StartRaises
    \/ StreamStep \/ Invoke \/ Acknowledged \/ InvokeFails
    \/ ToolAnswered \/ ToolTimesOut \/ Collect
    \/ EndRun \/ Reply \/ ReplyFails \/ NextRound

ReaderThread == DeliverTask \/ DeliverResult

Next ==
    \/ MainThread \/ IdleTimeout \/ ReaderThread
    \/ \E m \in late : CarriedOutLate(m)
    \/ BackendSends \/ BackendReceives \/ \E c \in Calls : ToolReplies(c)

Spec == Init /\ [][Next]_vars

\* Both threads are scheduled; the waits of main inside a run have timeouts.
\* Nothing is assumed of the node, the backend, the tools, or the idle timeout.
FairSpec == Spec /\ WF_vars(MainThread) /\ WF_vars(ReaderThread)

-----------------------------------------------------------------------------
(* Properties *)

Signal == [kind : {"task"}, id : Tasks] \cup [kind : {"tools/result"}, id : Calls]

Message == [kind : {"step"}, task : Tasks, seq : 1..MaxEvents]
           \cup [kind : {"result"}, task : Tasks, seq : {0}]

TypeOK ==
    /\ pc \in {"listen", "waiting", "setup", "run", "signal", "tool", "collect", "expired",
               "reply", "replied", "exited", "dead"}
    /\ handler \in {"none", "task", "exec"}
    /\ box \in 0..MaxTasks /\ ev \in BOOLEAN
    /\ pc \in {"setup", "run", "signal", "tool", "collect", "expired", "reply", "replied"} => task # 0
    /\ task \in 0..MaxTasks /\ events \in 0..MaxEvents
    /\ call \in 0..MaxCalls /\ waiters \subseteq Calls
    /\ arrived \in [Calls -> 0..MaxCalls] /\ used \in 0..MaxCalls
    /\ inbound \in Seq(Signal) /\ tools \subseteq Calls
    /\ awaiting \in 0..MaxTasks /\ sent \in 0..MaxTasks
    /\ log \in Seq(Message) /\ late \subseteq Message /\ overdue \subseteq Message
    /\ dropped \subseteq [task : Tasks, by : {"task", "exec"}]
    /\ failed \subseteq Calls

\* The order in which main says things: task by task, in each the steps and then
\* the result.
SaidBefore(m, n) ==
    \/ m.task < n.task
    \/ m.task = n.task /\ m.kind = "step" /\ (n.kind = "step" => m.seq < n.seq)

\* The stream a requester sees is well formed as far as the node keeps up: no
\* message comes twice, and one that comes out of order, as a step after its
\* result or among the steps of a later task, is one whose host call main gave
\* up and the node carried out late.  A result is never late by that much: the
\* requester awaits it, so it comes before anything of the next task (the proxy
\* "closes the correlation on the terminal davinci/result", _run_agent).
StreamWellFormed ==
    \A i, j \in DOMAIN log : i < j =>
        /\ log[i] # log[j]
        /\ SaidBefore(log[i], log[j]) \/ log[j] \in overdue
        /\ log[j].kind = "result" => log[i].task <= log[j].task

\* What a tool call returns to the agent is the reply to this call: not the
\* late reply to an earlier call that timed out, of this run or of another.  The
\* executor's tables hold the call that is under way and nothing else of calls
\* that are over; but for calls whose signal failed, which leave a waiter and may
\* leave a reply.
OwnToolResult ==
    LET under_way == IF pc \in {"signal", "tool", "collect", "expired"} THEN {call} ELSE {}
    IN  /\ pc = "run" /\ used # 0 => used = call
        /\ \A c \in Calls : c \in waiters \/ arrived[c] # 0 => c \in under_way \cup failed

\* A task that was taken is worked off: main comes back to listening, for
\* whatever the tools and the requester do, unless it ends.
ComesBack == pc = "setup" ~> pc \in {"waiting", "exited", "dead"}

\* "on_signal is a single handler that _run_agent's executor overwrites while a
\* task runs ... davinci serves prompts sequentially - the backend awaits each
\* reply before sending the next - so this cannot drop an in-flight request"
\* (main): the executor's handler never gets, and discards, a task.
NoRequestDropped == \A d \in dropped : d.by # "exec"

=============================================================================
