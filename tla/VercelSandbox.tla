--------------------------- MODULE VercelSandbox ---------------------------
(***************************************************************************)
(* The vercel_sandbox tool creature (tools/vercel_sandbox/tool.py): worker *)
(* threads of the tool runtime work on the sandbox of one space.  They     *)
(* share a cache of the session id, which is neither locked nor told when  *)
(* a session ends: a command that finds its session gone forgets the       *)
(* cached id, resolves the session anew and tries once more.               *)
(*                                                                         *)
(* The service is external: a named sandbox that exists or not, and its    *)
(* live session, which ends by itself after a timeout.  Its sandboxes are  *)
(* independent, and a name belongs to one space, so one space is enough.   *)
(***************************************************************************)
EXTENDS Integers

CONSTANTS
    Workers,      \* threads that run _handle_invoke
    MaxOps,       \* bound: operations in all
    MaxSessions   \* bound: sessions the service starts

ASSUME SandboxAssumption == MaxOps \in Nat /\ MaxSessions \in Nat

Sessions == 1..MaxSessions

\* The actions of invoke.  "file" stands for write, read and mkdir; "list" touches
\* no state.
Ops == {"exec", "file", "create", "start", "info", "stop", "delete"}

\* Those that go through _with_session.
Scoped == {"exec", "file"}

VARIABLES
    exists,     \* the service: the sandbox of this name exists
    live,       \* the service: its live session, 0 when it is stopped
    sessions,   \* the service: sessions started so far
    cache,      \* _SESSIONS for this name, 0 when absent or past its deadline
    op, at,     \* each worker: its operation and where it is in it
    sid,        \* each worker: the session id it holds, 0 for none
    retried,    \* each worker: _with_session is in its second attempt
    result,     \* each worker: how its last operation ended
    ran,        \* history: how often the command of this operation was run
    deleted,    \* history: the sandbox was deleted during this operation
    ended,      \* history: a session ended during this operation
    shared,     \* history: another worker was at work during this operation
    ops         \* operations begun

service == <<exists, live, sessions>>
history == <<ran, deleted, ended, shared>>
vars == <<service, cache, op, at, sid, retried, result, history, ops>>

Init ==
    /\ exists = FALSE /\ live = 0 /\ sessions = 0
    /\ cache = 0
    /\ op = [w \in Workers |-> "info"]
    /\ at = [w \in Workers |-> "idle"]
    /\ sid = [w \in Workers |-> 0]
    /\ retried = [w \in Workers |-> FALSE]
    /\ result = [w \in Workers |-> "none"]
    /\ ran = [w \in Workers |-> 0]
    /\ deleted = [w \in Workers |-> FALSE]
    /\ ended = [w \in Workers |-> FALSE]
    /\ shared = [w \in Workers |-> FALSE]
    /\ ops = 0

-----------------------------------------------------------------------------
(* Steps of a worker *)

Go(w, place) == at' = [at EXCEPT ![w] = place]

End(w, how) == Go(w, "idle") /\ result' = [result EXCEPT ![w] = how]

\* The answer of the service comes, or is lost or in time out: then requests
\* raises, and invoke reports the service unreachable.
Answered(w, place) ==
    \/ Go(w, place) /\ result' = result
    \/ End(w, "unreachable")

\* The operations that begin with _forget_session drop the cached id first.
Begin(w, o) ==
    /\ at[w] = "idle"
    /\ ops < MaxOps
    /\ ops' = ops + 1
    /\ op' = [op EXCEPT ![w] = o]
    /\ sid' = [sid EXCEPT ![w] = 0]
    /\ retried' = [retried EXCEPT ![w] = FALSE]
    /\ ran' = [ran EXCEPT ![w] = 0]
    /\ deleted' = [deleted EXCEPT ![w] = FALSE]
    /\ ended' = [ended EXCEPT ![w] = FALSE]
    /\ shared' = [u \in Workers |-> IF u = w THEN \E x \in Workers : at[x] # "idle"
                                              ELSE shared[u] \/ at[u] # "idle"]
    /\ cache' = IF o \in {"create", "start"} THEN 0 ELSE cache
    /\ Go(w, CASE o \in Scoped -> "lookup"
               [] o = "create" -> "create"
               [] o = "start"  -> "get"
               [] o = "info"   -> "info"
               [] o = "stop"   -> "peek"
               [] o = "delete" -> "destroy")
    /\ UNCHANGED <<service, result>>

\* A request fails without effect: no connection, or an error status, which
\* _action_delete looks at only after it has forgotten the session.
Fails(w) ==
    /\ at[w] \in {"get", "create", "adopt", "call", "info", "peek", "stop", "destroy"}
    /\ End(w, "unreachable")
    /\ cache' \in IF at[w] = "destroy" THEN {cache, 0} ELSE {cache}
    /\ UNCHANGED <<service, op, sid, retried, history, ops>>

\* Seeded fault: the call is made with whatever the cache has.
Lookup_Unchecked(w) ==
    /\ at[w] = "lookup"
    /\ sid' = [sid EXCEPT ![w] = cache]
    /\ Go(w, "call")
    /\ UNCHANGED <<service, cache, op, retried, result, history, ops>>

\* _session: a cached id that is still fresh is taken for the live session.
Lookup(w) ==
    /\ at[w] = "lookup"
    /\ sid' = [sid EXCEPT ![w] = cache]
    /\ Go(w, IF cache # 0 THEN "call" ELSE "get")
    /\ UNCHANGED <<service, cache, op, retried, result, history, ops>>

\* The service gives the sandbox a live session, a new one if it was stopped.
Resume ==
    IF live # 0 THEN UNCHANGED <<live, sessions>>
    ELSE /\ sessions < MaxSessions
         /\ sessions' = sessions + 1
         /\ live' = sessions'

\* Where a worker goes that has been given a session: _session stores its id, or
\* raises when the answer names none, create and start are done.
Resolved(w) ==
    /\ sid' = [sid EXCEPT ![w] = live']
    /\ IF op[w] \in Scoped THEN Answered(w, "store")
       ELSE End(w, "ok") \/ End(w, "unreachable")

\* _get_sandbox with resume, in _session and _action_start.
Get(w) ==
    /\ at[w] = "get"
    /\ IF exists THEN Resume /\ Resolved(w)
       ELSE Answered(w, "create") /\ UNCHANGED <<live, sessions, sid>>
    /\ UNCHANGED <<exists, cache, op, retried, history, ops>>

\* Seeded fault: a name that is taken is an error.
Create_NoAdopt(w) ==
    /\ at[w] = "create"
    /\ IF exists THEN End(w, "gone") /\ UNCHANGED <<service, sid>>
       ELSE exists' = TRUE /\ Resume /\ Resolved(w)
    /\ UNCHANGED <<cache, op, retried, history, ops>>

\* _create: POST, and 409 when the name is taken.
Create(w) ==
    /\ at[w] = "create"
    /\ IF exists THEN Answered(w, "adopt") /\ UNCHANGED <<service, sid>>
       ELSE exists' = TRUE /\ Resume /\ Resolved(w)
    /\ UNCHANGED <<cache, op, retried, history, ops>>

\* _create after a 409: the existing sandbox is resumed; it may be gone again.
Adopt(w) ==
    /\ at[w] = "adopt"
    /\ IF exists THEN Resume /\ Resolved(w)
       ELSE End(w, "gone") /\ UNCHANGED <<live, sessions, sid>>
    /\ UNCHANGED <<exists, cache, op, retried, history, ops>>

\* The end of _session.
Store(w) ==
    /\ at[w] = "store"
    /\ cache' = sid[w]
    /\ Go(w, "call")
    /\ UNCHANGED <<service, op, sid, retried, result, history, ops>>

\* Seeded fault: any failure of the call is retried.
Call_RetryAlways(w) ==
    /\ at[w] = "call"
    /\ IF sid[w] = live
       THEN /\ ran' = [ran EXCEPT ![w] = @ + 1]
            /\ \/ End(w, "ok")
               \/ IF retried[w] THEN End(w, "unreachable")
                  ELSE Go(w, "forget") /\ result' = result
       ELSE /\ UNCHANGED ran
            /\ IF retried[w] THEN End(w, "gone") ELSE Go(w, "forget") /\ result' = result
    /\ UNCHANGED <<service, cache, op, sid, retried, deleted, ended, shared, ops>>

\* A refusal by 404, 409 or 410 is tried again, once.
Refused(w, how) ==
    /\ UNCHANGED ran
    /\ IF retried[w] THEN End(w, how) ELSE Go(w, "forget") /\ result' = result

\* A session-scoped request is refused if its session is not live, and runs if it
\* is; but one for a file that is not there, or a directory that is, is refused
\* with the same status by a live session.
Call(w) ==
    /\ at[w] = "call"
    /\ \/ /\ sid[w] = live
          /\ ran' = [ran EXCEPT ![w] = @ + 1]
          /\ End(w, "ok") \/ End(w, "unreachable")
       \/ sid[w] = live /\ op[w] = "file" /\ Refused(w, "refused")
       \/ sid[w] # live /\ Refused(w, "gone")
    /\ UNCHANGED <<service, cache, op, sid, retried, deleted, ended, shared, ops>>

\* Seeded fault: the second attempt does not forget the session.
Forget_Keeps(w) ==
    /\ at[w] = "forget"
    /\ retried' = [retried EXCEPT ![w] = TRUE]
    /\ Go(w, "lookup")
    /\ UNCHANGED <<service, cache, op, sid, result, history, ops>>

\* _forget_session between the two attempts of _with_session.
Forget(w) ==
    /\ at[w] = "forget"
    /\ cache' = 0
    /\ retried' = [retried EXCEPT ![w] = TRUE]
    /\ Go(w, "lookup")
    /\ UNCHANGED <<service, op, sid, result, history, ops>>

\* _action_info, which resumes if it is asked to.
Info(w) ==
    /\ at[w] = "info"
    /\ \/ exists /\ Resume
       \/ UNCHANGED <<live, sessions>>
    /\ End(w, IF exists THEN "ok" ELSE "absent") \/ End(w, "unreachable")
    /\ UNCHANGED <<exists, cache, op, sid, retried, history, ops>>

\* _action_stop looks the sandbox up without resuming it.
Peek(w) ==
    /\ at[w] = "peek"
    /\ sid' = [sid EXCEPT ![w] = live]
    /\ IF exists THEN Answered(w, IF live # 0 THEN "stop" ELSE "drop")
       ELSE End(w, "ok") \/ End(w, "unreachable")
    /\ UNCHANGED <<service, cache, op, retried, history, ops>>

\* Whoever works meanwhile sees that a session ended, or the sandbox went.
Noted(flag) == [w \in Workers |-> flag[w] \/ at[w] # "idle"]

\* _action_stop stops the session it saw; one that is not live is no error.
Stop(w) ==
    /\ at[w] = "stop"
    /\ IF sid[w] = live THEN live' = 0 /\ ended' = Noted(ended) ELSE UNCHANGED <<live, ended>>
    /\ Answered(w, "drop")
    /\ UNCHANGED <<exists, sessions, cache, op, sid, retried, ran, deleted, shared, ops>>

\* _action_delete
Destroy(w) ==
    /\ at[w] = "destroy"
    /\ exists' = FALSE
    /\ live' = 0
    /\ ended' = IF live # 0 THEN Noted(ended) ELSE ended
    /\ deleted' = IF exists THEN Noted(deleted) ELSE deleted
    /\ Answered(w, "drop")
    /\ UNCHANGED <<sessions, cache, op, sid, retried, ran, shared, ops>>

\* _forget_session at the end of stop and delete.
Drop(w) ==
    /\ at[w] = "drop"
    /\ cache' = 0
    /\ End(w, "ok")
    /\ UNCHANGED <<service, op, sid, retried, history, ops>>

Worker(w) ==
    \/ Lookup(w) \/ Get(w) \/ Create(w) \/ Adopt(w) \/ Store(w)
    \/ Call(w) \/ Forget(w) \/ Info(w)
    \/ Peek(w) \/ Stop(w) \/ Destroy(w) \/ Drop(w) \/ Fails(w)

-----------------------------------------------------------------------------
(* Time *)

\* The session ends by its timeout; the sandbox is snapshotted and stays.
SessionEnds ==
    /\ live # 0
    /\ live' = 0
    /\ ended' = Noted(ended)
    /\ UNCHANGED <<exists, sessions, cache, op, at, sid, retried, result, ran, deleted, shared, ops>>

\* The cached id reaches its deadline.
CacheExpires ==
    /\ cache # 0
    /\ cache' = 0
    /\ UNCHANGED <<service, op, at, sid, retried, result, history, ops>>

Next ==
    \/ \E w \in Workers : Worker(w) \/ \E o \in Ops : Begin(w, o)
    \/ SessionEnds \/ CacheExpires

Spec == Init /\ [][Next]_vars

-----------------------------------------------------------------------------
(* Properties *)

Places == {"idle", "lookup", "get", "create", "adopt", "store", "call", "forget",
           "info", "peek", "stop", "destroy", "drop"}

TypeOK ==
    /\ exists \in BOOLEAN
    /\ sessions \in 0..MaxSessions /\ live \in 0..MaxSessions /\ cache \in 0..MaxSessions
    /\ op \in [Workers -> Ops]
    /\ at \in [Workers -> Places]
    /\ sid \in [Workers -> 0..MaxSessions]
    /\ \A w \in Workers : at[w] = "call" => sid[w] # 0
    /\ retried \in [Workers -> BOOLEAN]
    /\ result \in [Workers -> {"none", "ok", "gone", "refused", "absent", "unreachable"}]
    /\ ran \in [Workers -> 0..2]
    /\ \A flag \in {deleted, ended, shared} : flag \in [Workers -> BOOLEAN]
    /\ ops \in 0..MaxOps

\* The retry of _with_session never runs a command twice, and the outcome it
\* reports is true: "ok" ran once, "gone" and "refused" never ran.  A command whose
\* answer was lost may have run.
RunsAtMostOnce ==
    \A w \in Workers :
        /\ ran[w] <= 1
        /\ at[w] = "idle" /\ op[w] \in Scoped /\ result[w] = "ok" => ran[w] = 1
        /\ at[w] = "idle" /\ op[w] \in Scoped /\ result[w] \in {"gone", "refused"} => ran[w] = 0

\* "a name that already exists is a success, not an error" (_create): creating
\* and starting race with each other and with every other operation, and only
\* a delete in the meantime makes them report that the sandbox is gone.
CreateAdopts ==
    \A w \in Workers :
        at[w] = "idle" /\ op[w] \in {"create", "start"} /\ result[w] = "gone" => deleted[w]

\* "the next call must resume from the snapshot rather than fail ... so that
\* recovery is automatic" (_with_session).  The cached id may be as stale as it
\* likes, whatever operations there were before: a command only fails for want of
\* a session if a session ended after it had begun, or if another worker was at
\* work beside it, whose late store may bring a dead id back.
RecoversAlone ==
    \A w \in Workers :
        at[w] = "idle" /\ op[w] \in Scoped /\ result[w] = "gone"
            => ended[w] \/ deleted[w] \/ shared[w]

=============================================================================
