------------------------------- MODULE Bridge -------------------------------
(***************************************************************************)
(* CasparBridgeClient (davinci/caspar_bridge.py): host calls of several    *)
(* threads multiplexed over one socket.  A caller registers a correlation  *)
(* id, sends its request, and waits with a timeout for the reader thread   *)
(* to complete it.  The reader reassembles the frames that the node sends  *)
(* (large messages come in chunks) and wakes the caller; when it exits it  *)
(* wakes everyone who is waiting.                                          *)
(*                                                                         *)
(* The node is external: it answers any request it received, in any order, *)
(* at any time, in one frame or several, the frames of different answers   *)
(* interleaved.  The answer to request c is identified by c.               *)
(***************************************************************************)
EXTENDS Integers, Sequences, FiniteSets

CONSTANTS
    Callers,     \* the threads that make host calls
    Main,        \* the one that runs connect()
    MaxId,       \* bound: ids the client allocates
    MaxChunks    \* bound: frames of one answer

ASSUME BridgeAssumption ==
    /\ Main \in Callers
    /\ MaxId \in Nat
    /\ MaxChunks \in Nat \ {0}

Ids == 1..MaxId

VARIABLES
    session,   \* "none" until the handshake succeeded, "failed" if it did not
    sock,      \* "open", or "none" after close() (self._sock)
    closed,    \* the _closed event
    link,      \* whether the connection is "up"; the environment's
    reader,    \* "reading" at the head of its loop, "receiving" in a round, "exited"
    next_id,   \* _next_id
    pending,   \* the keys of _pending
    woken,     \* the ids whose event is set
    results,   \* _results: Absent, Null, or the chunks of an answer
    partials,  \* _partials: the chunks received of an answer not yet whole
    pc,        \* where each caller is in call(), ping() or _handshake()
    op,        \* which of them it is in
    corr,      \* its correlation id
    outcome,   \* what its last call came to
    asked,     \* node: requests received and not yet taken up
    answering, \* node: answers being sent: chunks in all and chunks sent
    wire,      \* frames on their way to the client
    abandoned, \* history: ids whose caller left without _take
    exit_id    \* history: next_id when the reader exited, 0 before

callerVars == <<pc, op, corr, outcome>>
clientVars == <<session, sock, closed, reader, next_id, pending, woken, results, partials>>
nodeVars   == <<asked, answering>>
history    == <<abandoned, exit_id>>
vars == <<clientVars, link, callerVars, nodeVars, wire, history>>

Absent == [kind |-> "absent", id |-> 0, chunks |-> {}]
Null   == [kind |-> "null", id |-> 0, chunks |-> {}]
Answer(c, chunks) == [kind |-> "answer", id |-> c, chunks |-> chunks]
Results == {Absent, Null} \cup {Answer(c, s) : c \in Ids, s \in SUBSET (0..(MaxChunks - 1))}

Frame == [id : Ids, seq : 0..(MaxChunks - 1), total : 1..MaxChunks]

NoOutcome == [kind |-> "none", id |-> 0, value |-> Absent]

\* Seeded fault: ids start at zero.
FirstId_Zero == 0

\* The first id that _alloc_id returns.
FirstId == 1

\* An answer of one frame has no entry in _partials; an answer taken up by the
\* node has total > 0.
Init ==
    /\ session = "none" /\ sock = "open" /\ closed = FALSE /\ link = "up"
    /\ reader = "reading"
    /\ next_id = FirstId /\ pending = {} /\ woken = {}
    /\ results = [c \in Ids |-> Absent]
    /\ partials = [c \in Ids |-> {}]
    /\ pc = [t \in Callers |-> "idle"]
    /\ op = [t \in Callers |-> "request"]
    /\ corr = [t \in Callers |-> 0]
    /\ outcome = [t \in Callers |-> NoOutcome]
    /\ asked = {}
    /\ answering = [c \in Ids |-> [total |-> 0, sent |-> 0]]
    /\ wire = <<>>
    /\ abandoned = {} /\ exit_id = 0

-----------------------------------------------------------------------------
(* Callers: call() and ping(), and _handshake() where it differs *)

\* _alloc_id and _register.  Before the handshake only connect() has the client.
Begin(t) ==
    /\ pc[t] = "idle"
    /\ next_id < MaxId
    /\ \/ session = "none" /\ t = Main /\ op' = [op EXCEPT ![t] = "hello"]
       \/ session = "up" /\ op' = [op EXCEPT ![t] = "request"]
    /\ corr' = [corr EXCEPT ![t] = next_id]
    /\ next_id' = next_id + 1
    /\ pending' = pending \cup {next_id}
    /\ pc' = [pc EXCEPT ![t] = "send"]
    /\ UNCHANGED <<session, sock, closed, link, reader, woken, results, partials,
                   outcome, nodeVars, wire, history>>

\* _send raises: the socket is gone before it is written, or it fails or times
\* out while it is written, with an id already taken for the message, which the
\* node never has whole.  Nothing takes the caller's id back out of _pending.
SendFails(t) ==
    /\ pc[t] = "send"
    /\ next_id' \in {next_id + 1} \cup (IF sock = "none" THEN {next_id} ELSE {})
    /\ pc' = [pc EXCEPT ![t] = "idle"]
    /\ session' = IF op[t] = "hello" THEN "failed" ELSE session
    /\ outcome' = [outcome EXCEPT ![t] = [kind |-> "raised", id |-> corr[t], value |-> Absent]]
    /\ abandoned' = abandoned \cup {corr[t]}
    /\ UNCHANGED <<sock, closed, link, reader, pending, woken, results, partials,
                   op, corr, nodeVars, wire, exit_id>>

\* _send succeeds, taking one more id for the message; on a connection that
\* the peer has dropped a write may still succeed and be lost.
Send(t) ==
    /\ pc[t] = "send"
    /\ sock = "open"
    /\ next_id' = next_id + 1
    /\ asked' = IF link = "up" THEN asked \cup {corr[t]} ELSE asked
    /\ pc' = [pc EXCEPT ![t] = "waiting"]
    /\ UNCHANGED <<session, sock, closed, link, reader, pending, woken, results, partials,
                   op, corr, outcome, answering, wire, history>>

\* ev.wait returns True.
Wake(t) ==
    /\ pc[t] = "waiting"
    /\ corr[t] \in woken
    /\ pc' = [pc EXCEPT ![t] = "taking"]
    /\ UNCHANGED <<clientVars, link, op, corr, outcome, nodeVars, wire, history>>

\* Seeded fault: the wait has no timeout.
TimeOut_Never(t) == FALSE /\ UNCHANGED vars

\* ev.wait returns False; the event may still be set before _take.
TimeOut(t) ==
    /\ pc[t] = "waiting"
    /\ corr[t] \notin woken
    /\ pc' = [pc EXCEPT ![t] = "expired"]
    /\ UNCHANGED <<clientVars, link, op, corr, outcome, nodeVars, wire, history>>

\* _take, without what it returns.
Take(c) ==
    /\ pending' = pending \ {c}
    /\ results' = [results EXCEPT ![c] = Absent]

\* _take after the event: call() returns, the handshake looks at the answer.
\* A WELCOME that says no, or no WELCOME at all, fails the handshake.
Return(t) ==
    LET ended(kind) == outcome' = [outcome EXCEPT ![t] =
                           [kind |-> kind, id |-> corr[t], value |-> results[corr[t]]]]
    IN  /\ pc[t] = "taking"
        /\ Take(corr[t])
        /\ pc' = [pc EXCEPT ![t] = "idle"]
        /\ \/ op[t] = "request" /\ session' = session /\ ended("returned")
           \/ /\ op[t] = "hello" /\ results[corr[t]].kind = "answer"
              /\ session' = "up" /\ ended("returned")
           \/ op[t] = "hello" /\ session' = "failed" /\ ended("raised")
        /\ UNCHANGED <<sock, closed, link, reader, next_id, woken, partials, op, corr,
                       nodeVars, wire, history>>

\* _take after the timeout drops a late answer; the handshake does not _take.
Expire(t) ==
    /\ pc[t] = "expired"
    /\ \/ op[t] = "request" /\ Take(corr[t]) /\ UNCHANGED <<session, history>>
       \/ /\ op[t] = "hello"
          /\ session' = "failed"
          /\ abandoned' = abandoned \cup {corr[t]}
          /\ UNCHANGED <<pending, results>>
    /\ pc' = [pc EXCEPT ![t] = "idle"]
    /\ outcome' = [outcome EXCEPT ![t] = [kind |-> "raised", id |-> corr[t], value |-> Absent]]
    /\ UNCHANGED <<sock, closed, link, reader, next_id, woken, partials, op, corr,
                   nodeVars, wire, exit_id>>

\* close()
Close ==
    /\ session \in {"up", "failed"}
    /\ ~closed
    /\ closed' = TRUE
    /\ sock' = "none"
    /\ link' = "down"
    /\ UNCHANGED <<session, reader, next_id, pending, woken, results, partials,
                   callerVars, nodeVars, wire, history>>

-----------------------------------------------------------------------------
(* The reader thread *)

\* Seeded fault: an answer is stored whether or not its caller still waits.
Complete_Always(c, value) ==
    /\ results' = [results EXCEPT ![c] = value]
    /\ woken' = woken \cup {c}

\* _complete: an answer whose caller is gone is dropped.
Complete(c, value) ==
    IF c \in pending
    THEN /\ results' = [results EXCEPT ![c] = value]
         /\ woken' = woken \cup {c}
    ELSE UNCHANGED <<results, woken>>

\* Seeded fault: a message is taken for whole one chunk early.
Whole_OneEarly(chunks, total) == Cardinality(chunks) + 1 >= total

\* All chunks of a message are there.
Whole(chunks, total) == Cardinality(chunks) >= total

\* The head of _read_loop.
Receive ==
    /\ reader = "reading"
    /\ ~closed
    /\ reader' = "receiving"
    /\ UNCHANGED <<session, sock, closed, link, next_id, pending, woken, results, partials,
                   callerVars, nodeVars, wire, history>>

\* A frame is there: _dispatch_frame and _on_message.  It is worked off even
\* if the client was closed, or the connection lost, meanwhile.
ReadFrame ==
    /\ reader = "receiving"
    /\ reader' = "reading"
    /\ wire # <<>>
    /\ wire' = Tail(wire)
    /\ LET f == Head(wire)
           chunks == partials[f.id] \cup {f.seq}
       IN  IF f.total <= 1
           THEN Complete(f.id, Answer(f.id, {f.seq})) /\ UNCHANGED partials
           ELSE IF Whole(chunks, f.total)
           THEN /\ Complete(f.id, Answer(f.id, chunks))
                /\ partials' = [partials EXCEPT ![f.id] = {}]
           ELSE /\ partials' = [partials EXCEPT ![f.id] = chunks]
                /\ UNCHANGED <<results, woken>>
    /\ UNCHANGED <<session, sock, closed, link, next_id, pending, callerVars,
                   nodeVars, history>>

\* The loop ends at its head because the client is closed, or in a round
\* because recv finds the connection gone, whatever was on its way.
LoopEnds ==
    \/ reader = "reading" /\ closed
    \/ reader = "receiving" /\ link = "down"

\* When the loop ends the reader wakes all who wait at that moment.
ReaderExit ==
    /\ LoopEnds
    /\ reader' = "exited"
    /\ exit_id' = next_id
    /\ woken' = woken \cup pending
    /\ results' = [c \in Ids |-> IF c \in pending /\ results[c] = Absent THEN Null ELSE results[c]]
    /\ UNCHANGED <<session, sock, closed, link, next_id, pending, partials, callerVars,
                   nodeVars, wire, abandoned>>

-----------------------------------------------------------------------------
(* The node and the network, external *)

NodeTakesUp(c, total) ==
    /\ link = "up"
    /\ c \in asked
    /\ asked' = asked \ {c}
    /\ answering' = [answering EXCEPT ![c] = [total |-> total, sent |-> 0]]
    /\ UNCHANGED <<clientVars, link, callerVars, wire, history>>

NodeSendsFrame(c) ==
    /\ link = "up"
    /\ answering[c].sent < answering[c].total
    /\ wire' = Append(wire, [id |-> c, seq |-> answering[c].sent, total |-> answering[c].total])
    /\ answering' = [answering EXCEPT ![c] = [total |-> @.total, sent |-> @.sent + 1]]
    /\ UNCHANGED <<clientVars, link, callerVars, asked, history>>

LinkDown ==
    /\ link = "up"
    /\ link' = "down"
    /\ UNCHANGED <<clientVars, callerVars, nodeVars, wire, history>>

-----------------------------------------------------------------------------
Caller(t) == Send(t) \/ SendFails(t) \/ Wake(t) \/ TimeOut(t) \/ Return(t) \/ Expire(t)

Reader == Receive \/ ReadFrame \/ ReaderExit

Next ==
    \/ \E t \in Callers : Begin(t) \/ Caller(t)
    \/ Close \/ Reader \/ LinkDown
    \/ \E c \in Ids : NodeSendsFrame(c) \/ \E n \in 1..MaxChunks : NodeTakesUp(c, n)

Spec == Init /\ [][Next]_vars

\* Every thread is scheduled, and every wait of a caller has a timeout.
FairSpec ==
    /\ Spec
    /\ \A t \in Callers : WF_vars(Caller(t))
    /\ WF_vars(Reader)
-----------------------------------------------------------------------------
(* Properties *)

TypeOK ==
    /\ session \in {"none", "up", "failed"}
    /\ sock \in {"open", "none"}
    /\ closed \in BOOLEAN
    /\ link \in {"up", "down"}
    /\ reader \in {"reading", "receiving", "exited"}
    /\ next_id \in Nat \ {0}
    /\ pending \subseteq Ids /\ woken \subseteq Ids
    /\ results \in [Ids -> Results]
    /\ partials \in [Ids -> SUBSET (0..(MaxChunks - 1))]
    /\ pc \in [Callers -> {"idle", "send", "waiting", "taking", "expired"}]
    /\ op \in [Callers -> {"hello", "request"}]
    /\ corr \in [Callers -> 0..MaxId]
    /\ outcome \in [Callers -> [kind : {"none", "returned", "raised"},
                                id : 0..MaxId, value : Results]]
    /\ asked \subseteq Ids
    /\ answering \in [Ids -> [total : 0..MaxChunks, sent : 0..MaxChunks]]
    /\ wire \in Seq(Frame)
    /\ abandoned \subseteq Ids
    /\ exit_id \in Nat

\* What call() returns is never taken from another call, never assembled from
\* part of the frames, and never nothing at all: it is the whole answer to
\* this call, or the null that the exiting reader leaves.  Late answers to
\* calls that timed out, answers out of order and interleaved chunks included.
OwnWholeAnswer ==
    \A t \in Callers : outcome[t].kind = "returned" =>
        \/ outcome[t].value = Null /\ reader = "exited"
        \/ outcome[t].value = Answer(outcome[t].id, 0..(answering[outcome[t].id].total - 1))

\* _pending and _results do not accumulate: a result is only kept for an id
\* that is pending, and an id is only pending while its caller is in the call,
\* or if its caller left by an exception of _send or of the handshake.  Nor is a
\* waiter left behind: whoever registered before the reader exited has been
\* woken by its exit ("Wake any waiters", _read_loop).
NoOrphans ==
    /\ \A c \in Ids : results[c] # Absent => c \in pending
    /\ pending \subseteq {corr[t] : t \in {u \in Callers : pc[u] # "idle"}} \cup abandoned
    /\ \A t \in Callers :
           reader = "exited" /\ pc[t] \in {"send", "waiting"} /\ corr[t] < exit_id
               => corr[t] \in woken

\* Every call returns or raises, whatever the node and the network do.
CallsEnd == \A t \in Callers : pc[t] # "idle" ~> pc[t] = "idle"

=============================================================================
