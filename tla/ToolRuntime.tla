---------------------------- MODULE ToolRuntime ----------------------------
(***************************************************************************)
(* The runtime of a tool creature (tools/_runtime/tool_runtime.py): main   *)
(* connects the gateway bridge with retries and serves signals, one worker *)
(* thread for each invocation, until the idle window has passed or the     *)
(* node ends the process.  Without a gateway it dispatches the task file   *)
(* once.                                                                   *)
(*                                                                         *)
(* The senders and the node are external.  A signal is an object of JSON   *)
(* whose layers _extract_invoke peels.  Time is counted in ticks from the  *)
(* last arrival, up to the idle window.                                    *)
(***************************************************************************)
EXTENDS Integers

CONSTANTS
    Signals,     \* the signals that senders may push
    attempts,    \* TOOL_BRIDGE_CONNECT_ATTEMPTS
    idle_timeout \* TOOL_SERVE_IDLE, in ticks

ASSUME ToolRuntimeAssumption ==
    /\ attempts \in Nat \ {0}
    /\ idle_timeout \in Nat \ {0}

VARIABLES
    pc,         \* where the main thread is
    attempt,    \* failed attempts to connect
    link,       \* the connection to the gateway: "none", "up", "down"
    listening,  \* the bridge has this runtime's signal handler
    quiet,      \* ticks since state["last"], up to idle_timeout
    signature,  \* how the tool's invoke takes its arguments
    data,       \* what a signal on its way or at work carries
    state,      \* where each signal is
    result,     \* what _dispatch returned for it: the tool's "answer", a
                \* fallback's included, an "odd" one, for which JSON has no form
                \* (an interval of a database, say), or the "mismatch" of its
                \* arguments
    runs,       \* how often the body of the tool's invoke has begun for it
    age,        \* ticks since its arrival, up to idle_timeout
    late        \* history: signals at work that arrived after the last look at the clock

mainVars == <<pc, attempt, link, listening>>
time == <<quiet, age>>
worker == <<result, runs>>
vars == <<mainVars, signature, data, state, time, worker, late>>

-----------------------------------------------------------------------------
(* Signals and their layers *)

Kinds == {"", "invoke", "tools/result"}

\* An object: its kind, whether it names a tool or a function, its arguments
\* ("addressed" ones hold the caller's reply_to and correlationId themselves),
\* and whether it carries the caller's reply_to and correlationId beside them.
Layer == [kind : Kinds, named : BOOLEAN, args : {"none", "plain", "addressed", "text"},
          ids : BOOLEAN]

Empty == [kind |-> "", named |-> FALSE, args |-> "none", ids |-> FALSE]

\* The signal's own object, the object in its "data", and the one that the
\* packet carries as a JSON string in its "payload".
Data == [outer : Layer, inner : Layer, core : Layer]

Nothing == [outer |-> Empty, inner |-> Empty, core |-> Empty]

Invoke(args, ids) == [kind |-> "invoke", named |-> TRUE, args |-> args, ids |-> ids]
Bare(args, ids) == [kind |-> "", named |-> TRUE, args |-> args, ids |-> ids]
Echo == [kind |-> "tools/result", named |-> FALSE, args |-> "none", ids |-> TRUE]

\* What arrives: a sibling creature's packet, a client's wrapped by the node,
\* the backend's in two layers, one with arguments that are no object, one
\* that nobody waits for, a result that comes back, and one that is no packet.
Arriving ==
    {[outer |-> Invoke("plain", TRUE), inner |-> Empty, core |-> Empty],
     [outer |-> Empty, inner |-> Invoke("addressed", FALSE), core |-> Empty],
     [outer |-> Empty, inner |-> Empty, core |-> Bare("plain", TRUE)],
     [outer |-> Bare("text", FALSE), inner |-> Empty, core |-> Empty],
     [outer |-> Empty, inner |-> Bare("none", FALSE), core |-> Empty],
     [outer |-> Empty, inner |-> Echo, core |-> Empty],
     Nothing}

\* The object over those of the same name in the one around it.
Over(new, old) ==
    [kind  |-> IF new.kind # "" THEN new.kind ELSE old.kind,
     named |-> new.named \/ old.named,
     args  |-> new.args,
     ids   |-> new.ids \/ old.ids]

\* Seeded fault: the second layer stays unpeeled.
ExtractInvoke_OneLayer(d) ==
    IF d.outer.kind = "invoke" \/ d.outer.named THEN d.outer ELSE d.inner

\* _extract_invoke.
ExtractInvoke(d) ==
    LET packet == IF d.outer.kind = "invoke" \/ d.outer.named THEN d.outer ELSE d.inner
    IN  IF d.core # Empty THEN Over(d.core, packet) ELSE packet

Packet(s) == ExtractInvoke(data[s])

\* The two early returns of on_signal.
IsInvocation(s) ==
    /\ Packet(s).kind # "tools/result"
    /\ Packet(s).named \/ Packet(s).args # "none"

\* Some layer of the signal says where the reply goes.
Addressed(s) ==
    \E l \in {data[s].outer, data[s].inner, data[s].core} :
        (l.kind = "invoke" \/ l.named) /\ (l.ids \/ l.args = "addressed")

-----------------------------------------------------------------------------

Init ==
    /\ pc = "connect" /\ attempt = 0 /\ link = "none" /\ listening = FALSE
    /\ quiet = 0
    /\ signature \in {"two", "one", "optional"}
    /\ data = [s \in Signals |-> Nothing]
    /\ state = [s \in Signals |-> "unsent"]
    /\ result = [s \in Signals |-> "none"]
    /\ runs = [s \in Signals |-> 0]
    /\ age = [s \in Signals |-> 0]
    /\ late = {}

-----------------------------------------------------------------------------
(* The main thread *)

\* bridge_from_env finds no gateway in the environment.
NoGateway ==
    /\ pc = "connect" /\ attempt = 0
    /\ pc' = "once"
    /\ UNCHANGED <<attempt, link, listening, signature, data, state, time,
                   worker, late>>

\* Seeded fault: it tries for ever.
ConnectFails_Forever ==
    /\ pc = "connect" /\ attempt <= attempts
    /\ attempt' = attempt + 1
    /\ UNCHANGED <<pc, link, listening, signature, data, state, time, worker, late>>

\* An attempt raises (the node cannot identify the container yet); after the
\* last one _connect_bridge gives up.
ConnectFails ==
    /\ pc = "connect"
    /\ attempt' = attempt + 1
    /\ pc' = IF attempt' < attempts THEN "connect" ELSE "once"
    /\ UNCHANGED <<link, listening, signature, data, state, time, worker, late>>

Connect ==
    /\ pc = "connect"
    /\ link' = "up"
    /\ attempt' = 0
    /\ pc' = "register"
    /\ UNCHANGED <<listening, signature, data, state, time, worker, late>>

\* _run_once_offline.
RunOnceOffline ==
    /\ pc = "once"
    /\ pc' = "exited"
    /\ UNCHANGED <<attempt, link, listening, signature, data, state, time,
                   worker, late>>

\* Seeded fault: ready is announced before the handler is registered.
Register_AfterReady ==
    /\ pc = "register"
    /\ pc' = "loop"
    /\ UNCHANGED <<attempt, link, listening, signature, data, state, time,
                   worker, late>>

\* _serve starts the clock and registers on_signal; then it announces itself.
Register ==
    /\ pc = "register"
    /\ quiet' = 0
    /\ listening' = TRUE
    /\ pc' = "announce"
    /\ UNCHANGED <<attempt, link, signature, data, state, age, worker, late>>

\* TOOL_SERVE_READY.
Announce ==
    /\ pc = "announce"
    /\ pc' = "loop"
    /\ UNCHANGED <<attempt, link, listening, signature, data, state, time,
                   worker, late>>

\* The loop looks at the clock and finds the idle window over.
LoopEnds ==
    /\ pc = "loop"
    /\ quiet = idle_timeout
    /\ pc' = "leave"
    /\ UNCHANGED <<attempt, link, listening, signature, data, state, time,
                   worker, late>>

\* bridge.close().
Close ==
    /\ pc = "leave"
    /\ link' = "down"
    /\ pc' = "closed"
    /\ UNCHANGED <<attempt, listening, signature, data, state, time, worker, late>>

\* A worker is at work on the signal.
AtWork(s) == state[s] \in {"accepted", "call", "recall", "done"}

\* The process ends and its daemon threads with it; what becomes of the signals
\* that they work on is the fate.
Ends(fate) ==
    /\ pc' = "exited"
    /\ link' = IF link = "up" THEN "down" ELSE link
    /\ state' = [s \in Signals |-> IF AtWork(s) THEN fate ELSE state[s]]
    /\ UNCHANGED <<attempt, listening, signature, data, time, worker, late>>

Exit == pc = "closed" /\ Ends("cut")

-----------------------------------------------------------------------------
(* The node and the senders *)

\* A sender signals the creature, which is connected, before or after it has
\* printed TOOL_SERVE_READY.
Push(s) ==
    /\ state[s] = "unsent"
    /\ link = "up"
    /\ state' = [state EXCEPT ![s] = IF pc \in {"loop", "leave"} THEN "flight" ELSE "early"]
    /\ \E d \in Arriving : data' = [data EXCEPT ![s] = d]
    /\ UNCHANGED <<mainVars, signature, time, worker, late>>

\* The gateway's connection breaks.  Nothing in _serve looks at it.
LinkLost ==
    /\ link = "up"
    /\ link' = "down"
    /\ UNCHANGED <<pc, attempt, listening, signature, data, state, time,
                   worker, late>>

\* max_exec_seconds of the VM are over.
NodeTerminates == pc # "exited" /\ Ends("killed")

Tick ==
    /\ pc # "exited"
    /\ quiet < idle_timeout
    /\ quiet' = quiet + 1
    /\ age' = [s \in Signals |-> IF AtWork(s) /\ age[s] < idle_timeout THEN age[s] + 1
                                 ELSE age[s]]
    /\ UNCHANGED <<mainVars, signature, data, state, worker, late>>

-----------------------------------------------------------------------------
(* The bridge's reader thread *)

\* The signal is over; what was known of it is forgotten.
Settles(s, end) ==
    /\ state' = [state EXCEPT ![s] = end]
    /\ data' = [data EXCEPT ![s] = Nothing]
    /\ result' = [result EXCEPT ![s] = "none"]
    /\ runs' = [runs EXCEPT ![s] = 0]
    /\ age' = [age EXCEPT ![s] = 0]
    /\ late' = late \ {s}

\* Seeded fault: the idle clock is not set back.
OnSignal_KeepsClock(s) ==
    /\ state[s] \in {"early", "flight"} /\ link = "up" /\ listening
    /\ IsInvocation(s)
    /\ state' = [state EXCEPT ![s] = "accepted"]
    /\ late' = IF pc = "leave" THEN late \cup {s} ELSE late
    /\ UNCHANGED <<mainVars, signature, data, time, worker>>

\* on_signal hands an invocation to a worker of its own.
OnSignal(s) ==
    /\ state[s] \in {"early", "flight"} /\ link = "up" /\ listening
    /\ IsInvocation(s)
    /\ state' = [state EXCEPT ![s] = "accepted"]
    /\ quiet' = 0
    /\ late' = IF pc = "leave" THEN late \cup {s} ELSE late
    /\ UNCHANGED <<mainVars, signature, data, age, worker>>

OnSignalIgnores(s) ==
    /\ state[s] \in {"early", "flight"} /\ link = "up" /\ listening
    /\ ~IsInvocation(s)
    /\ Settles(s, "ignored")
    /\ UNCHANGED <<mainVars, signature, quiet>>

\* The bridge has no handler yet and drops the signal.
NobodyListens(s) ==
    /\ state[s] \in {"early", "flight"} /\ link = "up" /\ ~listening
    /\ Settles(s, "dropped")
    /\ UNCHANGED <<mainVars, signature, quiet>>

-----------------------------------------------------------------------------
(* The worker thread of an invocation: _handle_invoke *)

Goes(s, there) == state' = [state EXCEPT ![s] = there]

workerUnchanged == <<mainVars, signature, data, time, late>>

\* _load_tool_module imports the tool.
LoadTool(s) ==
    /\ state[s] = "accepted"
    /\ Goes(s, "call")
    /\ UNCHANGED <<worker, workerUnchanged>>

\* The import raises, or there is no tool: a built-in answers, or the echo.
FallBack(s) ==
    /\ state[s] = "accepted"
    /\ Goes(s, "done")
    /\ result' = [result EXCEPT ![s] = "answer"]
    /\ UNCHANGED <<runs, workerUnchanged>>

\* The body of the tool's invoke begins.
Enters(s) == runs' = [runs EXCEPT ![s] = @ + 1]

\* _call_invoke with (function, payload); the body returns or raises.
CallReturns(s) ==
    /\ state[s] = "call" /\ signature # "one"
    /\ Enters(s)
    /\ \E r \in {"answer", "odd"} : result' = [result EXCEPT ![s] = r]
    /\ Goes(s, "done")
    /\ UNCHANGED workerUnchanged

\* The arguments do not fit, and the body does not begin.
CallMismatch(s) ==
    /\ state[s] = "call" /\ signature = "one"
    /\ Goes(s, "recall")
    /\ UNCHANGED <<worker, workerUnchanged>>

\* A TypeError out of the body is taken for the same.
CallRaisesTypeError(s) ==
    /\ state[s] = "call" /\ signature # "one"
    /\ Enters(s)
    /\ Goes(s, "recall")
    /\ UNCHANGED <<result, workerUnchanged>>

\* Seeded fault: the second call has both arguments again.
RecallMismatch_SameArguments(s) ==
    /\ state[s] = "recall" /\ signature = "two"
    /\ Enters(s)
    /\ result' = [result EXCEPT ![s] = "answer"]
    /\ Goes(s, "done")
    /\ UNCHANGED workerUnchanged

\* _call_invoke with (payload) alone, which does not fit a tool that needs both:
\* what the caller is told is that, not what its body had raised.
RecallMismatch(s) ==
    /\ state[s] = "recall" /\ signature = "two"
    /\ result' = [result EXCEPT ![s] = "mismatch"]
    /\ Goes(s, "done")
    /\ UNCHANGED <<runs, workerUnchanged>>

RecallReturns(s) ==
    /\ state[s] = "recall" /\ signature # "two"
    /\ Enters(s)
    /\ \E r \in {"answer", "odd"} : result' = [result EXCEPT ![s] = r]
    /\ Goes(s, "done")
    /\ UNCHANGED workerUnchanged

\* The packet says to whom the result goes.
ReplyTo(s) == Packet(s).ids \/ Packet(s).args = "addressed"

\* signal_user carries the reply if the bridge stands; an error of it is logged.
Reply(s) ==
    /\ state[s] = "done" /\ result[s] # "odd"
    /\ ReplyTo(s)
    /\ Settles(s, IF link = "up" THEN "replied" ELSE "unheard")
    /\ UNCHANGED <<mainVars, signature, quiet>>

\* The packet cannot be encoded, in signal_user, which is logged, or in the
\* log's own line before, which ends the thread.
ReplyRaises(s) ==
    /\ state[s] = "done" /\ result[s] = "odd"
    /\ ReplyTo(s)
    /\ Settles(s, "unsaid")
    /\ UNCHANGED <<mainVars, signature, quiet>>

\* There is nobody to reply to; or the arguments are no object and the look for
\* an address in them raises, which ends the thread as well.
NoReply(s) ==
    /\ state[s] = "done"
    /\ ~ReplyTo(s)
    /\ Settles(s, "silent")
    /\ UNCHANGED <<mainVars, signature, quiet>>

-----------------------------------------------------------------------------

MainThread ==
    NoGateway \/ ConnectFails \/ Connect \/ RunOnceOffline \/ Register \/ Announce
    \/ LoopEnds \/ Close \/ Exit

Worker(s) ==
    \/ LoadTool(s) \/ FallBack(s)
    \/ CallReturns(s) \/ CallMismatch(s) \/ CallRaisesTypeError(s)
    \/ RecallMismatch(s) \/ RecallReturns(s)
    \/ Reply(s) \/ ReplyRaises(s) \/ NoReply(s)

Reader(s) == OnSignal(s) \/ OnSignalIgnores(s) \/ NobodyListens(s)

Next ==
    \/ MainThread
    \/ LinkLost \/ NodeTerminates \/ Tick
    \/ \E s \in Signals : Push(s) \/ Reader(s) \/ Worker(s)

Spec == Init /\ [][Next]_vars

\* The threads are scheduled, time passes, and a tool comes back from its
\* invocation: the shipped ones bound each request they make.  Nothing is
\* assumed of the node or the senders.
FairSpec ==
    /\ Spec
    /\ WF_vars(MainThread) /\ WF_vars(Tick)
    /\ \A s \in Signals : WF_vars(Reader(s)) /\ WF_vars(Worker(s))

-----------------------------------------------------------------------------
(* Properties *)

Places == {"unsent", "early", "flight", "ignored", "dropped", "accepted", "call", "recall",
           "done", "replied", "unheard", "unsaid", "silent", "cut", "killed"}

TypeOK ==
    /\ pc \in {"connect", "once", "register", "announce", "loop", "leave", "closed", "exited"}
    /\ attempt \in 0..attempts
    /\ link \in {"none", "up", "down"} /\ listening \in BOOLEAN
    /\ quiet \in 0..idle_timeout
    /\ signature \in {"two", "one", "optional"}
    /\ data \in [Signals -> Data]
    /\ state \in [Signals -> Places]
    /\ result \in [Signals -> {"none", "answer", "odd", "mismatch"}]
    /\ runs \in [Signals -> 0..2] /\ age \in [Signals -> 0..idle_timeout]
    /\ late \subseteq Signals

\* Leaving for idleness costs no young invocation: one that the exit cuts off
\* had run for a whole idle window, or came in after the last look at the clock
\* (_serve counts the window from the last arrival, not from the last reply).
CutOnlyIfOld ==
    \A s \in Signals : state[s] = "cut" => age[s] = idle_timeout \/ s \in late

\* _call_invoke's second call never runs the body a second time, unless the tool
\* takes its payload as optional (vercel_sandbox and sandbox_pc do), and an
\* error that is not the tool's own comes only after the body has raised.
RunsOnce ==
    \A s \in Signals :
        /\ runs[s] > 1 => signature = "optional"
        /\ result[s] = "mismatch" => runs[s] = 1

\* An invocation that says to whom the result goes is worked off to the reply,
\* whatever the layers it came in, if it was sent once the creature had announced
\* itself (the callers wait for TOOL_SERVE_READY in its logs) or meets the handler
\* before.  The caller hears nothing only if the connection is lost, the process
\* ends, or the result has no form in JSON.
Answered ==
    \A s \in Signals :
        Addressed(s) /\ (state[s] = "flight" \/ (state[s] = "early" /\ listening))
            ~> \/ state[s] \in {"replied", "unheard", "unsaid", "cut", "killed"}
               \/ state[s] \in {"early", "flight"} /\ link = "down"

=============================================================================
