-------------------------- MODULE SignalingClient --------------------------
(***************************************************************************)
(* The signalling client (davinci/caspar_signaling.py): requests and       *)
(* awaited signals over one socket that one thread uses.  A response names *)
(* no request that send or _signal_await_result would look at: the packet  *)
(* id is skipped, and what comes next is taken for the answer.             *)
(*                                                                         *)
(* The node is external: it answers each request at some time or never,    *)
(* pushes updates at any time, and writes a frame's length before its      *)
(* body, which may be late.  A length is read whole or not at all.         *)
(***************************************************************************)
EXTENDS Integers, Sequences, FiniteSets

CONSTANT MaxRequests  \* bound: requests in a process

ASSUME SignalingAssumption == MaxRequests \in Nat \ {0}

Requests == 1..MaxRequests

\* "send": the lifecycle methods, which raise on a code that is not 0, and signal
\* and read_vm_logs, which do not look at it; "await": _signal_await_result.
Kinds == {"send", "await"}

\* A frame: its tag, the response's code, the request that a response answers
\* (0 in an update), and the correlation ids of an update's nested envelopes.
Response(n, code) == [tag |-> "response", code |-> code, of |-> n, ids |-> <<>>]
Update(ids) == [tag |-> "update", code |-> 0, of |-> 0, ids |-> ids]
EmptyFrame == [tag |-> "empty", code |-> 0, of |-> 0, ids |-> <<>>]

Envelopes == {<<0>>} \cup {<<0, n>> : n \in Requests}

Frames ==
    {Response(n, code) : n \in Requests, code \in {0, 1}}
        \cup {Update(ids) : ids \in Envelopes} \cup {EmptyFrame}

\* The bytes on the connection: the length of a frame, and its body.
Token == [part : {"length", "body"}, frame : Frames]

VARIABLES
    sock,     \* "none", "open", or "dead" (the node has closed it)
    stream,   \* what the node has written and the client has not read
    writing,  \* the frames whose bodies the node has still to write, at most one
    owed,     \* requests that the node has to answer
    due,      \* awaited signals whose result the creature has not signalled
    op,       \* requests made
    kind,     \* what the one under way is, "none" for none
    pc,       \* "idle", or what is read: "length", "body", "misread"
    frame,    \* the frame whose length was read last
    late,     \* the deadline of the await has passed
    last,     \* what the last request returned: how, and of which request
    acked,    \* history: the await under way has read the response to it
    left      \* history: requests that came back without the response to them

client == <<op, kind, pc, frame, late, last, acked, left>>
node == <<writing, owed, due>>
vars == <<sock, stream, node, client>>

Init ==
    /\ sock = "none" /\ stream = <<>> /\ writing = {} /\ owed = {} /\ due = {}
    /\ op = 0 /\ kind = "none"
    /\ pc = "idle" /\ frame = EmptyFrame /\ late = FALSE
    /\ last = [how |-> "none", of |-> 0]
    /\ acked = FALSE /\ left = {}

\* Bound: what happens once the last request is back is no one's concern.
Running == pc # "idle" \/ op < MaxRequests

-----------------------------------------------------------------------------
(* The connection *)

Connect ==
    /\ pc = "idle" /\ sock = "none" /\ Running
    /\ sock' = "open"
    /\ UNCHANGED <<stream, node, client>>

\* close: what was still to come on the connection is gone.  (A result that
\* comes on a later connection is an update like any other.)
Close ==
    /\ pc = "idle" /\ sock # "none" /\ Running
    /\ sock' = "none"
    /\ stream' = <<>> /\ writing' = {} /\ owed' = {} /\ due' = {}
    /\ left' = {}
    /\ UNCHANGED <<op, kind, pc, frame, late, last, acked>>

\* The node closes the connection, or it breaks.
NodeCloses ==
    /\ sock = "open" /\ Running
    /\ sock' = "dead"
    /\ writing' = {} /\ owed' = {} /\ due' = {}
    /\ UNCHANGED <<stream, client>>

-----------------------------------------------------------------------------
(* Requests *)

\* send and _signal_await_result write the request.
Request(k) ==
    /\ pc = "idle" /\ sock \in {"open", "dead"} /\ op < MaxRequests
    /\ op' = op + 1
    /\ kind' = k
    /\ pc' = "length"
    /\ last' = [how |-> "none", of |-> 0]
    /\ owed' = IF sock = "open" THEN owed \cup {op'} ELSE owed
    /\ due' = IF sock = "open" /\ k = "await" THEN due \cup {op'} ELSE due
    /\ UNCHANGED <<sock, stream, writing, frame, late, acked, left>>

\* The write raises, or there is no socket.
RequestRaises(k) ==
    /\ pc = "idle" /\ sock # "open" /\ op < MaxRequests
    /\ op' = op + 1
    /\ last' = [how |-> "raised", of |-> 0]
    /\ UNCHANGED <<sock, stream, node, kind, pc, frame, late, acked, left>>

\* The request under way comes back; of is the request whose response that took,
\* or whose result it is, 0 for neither.
Returns(how, of) ==
    /\ last' = [how |-> how, of |-> of]
    /\ pc' = "idle" /\ kind' = "none" /\ frame' = EmptyFrame /\ late' = FALSE
    /\ acked' = FALSE
    /\ LET read == IF how \in {"response", "failed", "rejected"} THEN {of}
                   ELSE IF acked THEN {op} ELSE {}
       IN  left' = (left \cup {op}) \ read

StaysAt(there) == pc' = there /\ UNCHANGED <<kind, late, last>>

Awaits == kind = "await"

\* _signal_await_result looks at the clock before it reads a length.
MayRead == pc = "length" /\ stream # <<>> /\ ~(Awaits /\ late)

\* Seeded fault: a length of 0 is not looked at.
ReadLength_AnyLength ==
    /\ MayRead
    /\ Head(stream).part = "length"
    /\ stream' = Tail(stream)
    /\ frame' = Head(stream).frame
    /\ StaysAt("body")
    /\ UNCHANGED <<sock, node, op, acked, left>>

\* A frame's length; one of 0 is no frame to an await and an empty result to send.
ReadLength ==
    /\ MayRead
    /\ Head(stream).part = "length"
    /\ stream' = Tail(stream)
    /\ LET next == Head(stream).frame
       IN  IF next.tag # "empty"
           THEN StaysAt("body") /\ frame' = next /\ UNCHANGED <<acked, left>>
           ELSE IF Awaits THEN StaysAt("length") /\ UNCHANGED <<frame, acked, left>>
           ELSE Returns("empty", 0)
    /\ UNCHANGED <<sock, node, op>>

\* The rest of a frame whose body was given up is read as a length.  Its first
\* byte is the tag: the length is of 16 MB and more.
Misread ==
    /\ MayRead
    /\ Head(stream).part = "body"
    /\ stream' = Tail(stream)
    /\ StaysAt("misread")
    /\ UNCHANGED <<sock, node, op, frame, acked, left>>

\* Everything that comes is taken for the body of that length.
Swallow ==
    /\ pc = "misread" /\ stream # <<>>
    /\ stream' = Tail(stream)
    /\ UNCHANGED <<sock, node, client>>

\* That length is used up, with a token or in the middle of one.  The bytes begin
\* with the rest of a key's or an id's length, which is no tag: they are ignored.
SwallowEnds ==
    /\ pc = "misread" /\ stream # <<>>
    /\ stream' \in {Tail(stream), [stream EXCEPT ![1] = [part |-> "body", frame |-> @.frame]]}
    /\ StaysAt("length") /\ frame' = EmptyFrame
    /\ UNCHANGED <<sock, node, op, acked, left>>

\* send returns the response that comes first, a refusal as well; the lifecycle
\* methods raise on that.
TakeResponse ==
    /\ pc = "body" /\ stream # <<>> /\ frame.tag = "response" /\ ~Awaits
    /\ stream' = Tail(stream)
    /\ Returns(IF frame.code # 0 THEN "failed" ELSE "response", frame.of)
    /\ UNCHANGED <<sock, node, op>>

\* An await goes on after the response; one with another code than 0 ends it.
TakeAck ==
    /\ pc = "body" /\ stream # <<>> /\ frame.tag = "response" /\ Awaits
    /\ stream' = Tail(stream)
    /\ IF frame.code # 0 THEN Returns("rejected", frame.of)
       ELSE /\ StaysAt("length")
            /\ frame' = EmptyFrame
            /\ acked' = (acked \/ frame.of = op)
            /\ left' = left \ {frame.of}
    /\ UNCHANGED <<sock, node, op>>

\* Seeded fault: an update with a correlation id is a result, whosever it is.
Correlated_Any(ids, n) == \E i \in DOMAIN ids : ids[i] # 0

\* _find_correlated_signal walks through the nested envelopes.
Correlated(ids, n) == \E i \in DOMAIN ids : ids[i] = n

\* send skips updates; an await returns the one that carries its correlation id,
\* whether its response has come or not.
TakeUpdate ==
    /\ pc = "body" /\ stream # <<>> /\ frame.tag = "update"
    /\ stream' = Tail(stream)
    /\ IF Awaits /\ Correlated(frame.ids, op) THEN Returns("result", frame.ids[Len(frame.ids)])
       ELSE StaysAt("length") /\ frame' = EmptyFrame /\ UNCHANGED <<acked, left>>
    /\ UNCHANGED <<sock, node, op>>

\* Nothing comes in time, or the connection is down.  An await catches this
\* for a length, and says timeout; for a body it raises, as send always does.
ReadFails ==
    /\ pc # "idle" /\ stream = <<>>
    /\ Awaits /\ pc = "length" => late \/ sock = "dead"
    /\ Returns(IF Awaits /\ pc = "length" THEN "timeout" ELSE "raised", 0)
    /\ UNCHANGED <<sock, stream, node, op>>

\* Seeded fault: an await looks at the clock only when nothing comes.
DeadlineOver_WhenQuiet ==
    /\ pc = "length" /\ Awaits /\ late /\ stream = <<>> /\ writing = {}
    /\ Returns("timeout", 0)
    /\ UNCHANGED <<sock, stream, node, op>>

\* The loop of an await ends.
DeadlineOver ==
    /\ pc = "length" /\ Awaits /\ late
    /\ Returns("timeout", 0)
    /\ UNCHANGED <<sock, stream, node, op>>

DeadlinePasses ==
    /\ pc # "idle" /\ Awaits /\ ~late
    /\ late' = TRUE
    /\ UNCHANGED <<sock, stream, node, op, kind, pc, frame, last, acked, left>>

-----------------------------------------------------------------------------
(* The node and the creatures *)

Length(f) == [part |-> "length", frame |-> f]
Body(f) == [part |-> "body", frame |-> f]

\* The node writes a frame.
Writes(f) ==
    /\ sock = "open" /\ writing = {} /\ Running
    /\ stream' = stream \o <<Length(f), Body(f)>>
    /\ UNCHANGED <<sock, writing, client>>

\* It writes the length, and the body some time later: of responses, to bound
\* the interleavings.
WritesLength(f) ==
    /\ sock = "open" /\ writing = {} /\ Running
    /\ stream' = Append(stream, Length(f)) /\ writing' = {f}
    /\ UNCHANGED <<sock, client>>

WritesBody ==
    /\ Running
    /\ \E f \in writing : stream' = Append(stream, Body(f))
    /\ writing' = {}
    /\ UNCHANGED <<sock, owed, due, client>>

\* The node answers a request, in any order.
Answers ==
    \E n \in owed :
        /\ \E code \in {0, 1} : Writes(Response(n, code)) \/ WritesLength(Response(n, code))
        /\ owed' = owed \ {n}
        /\ UNCHANGED due

\* A creature signals its result, in the envelope of the node.
Results ==
    \E n \in due :
        /\ Writes(Update(<<0, n>>))
        /\ due' = due \ {n}
        /\ UNCHANGED owed

\* Other updates, and empty frames.
Chatters ==
    /\ sock = "open" /\ writing = {} /\ Running
    /\ stream = <<>>
    /\ stream' \in {<<Length(EmptyFrame)>>, <<Length(Update(<<0>>)), Body(Update(<<0>>))>>}
    /\ UNCHANGED <<sock, node, client>>

-----------------------------------------------------------------------------

\* What the client's thread does while a request is under way.
Reading ==
    ReadLength \/ Misread \/ Swallow \/ SwallowEnds \/ TakeResponse \/ TakeAck \/ TakeUpdate
    \/ ReadFails \/ DeadlineOver

Next ==
    \/ Connect \/ Close \/ NodeCloses
    \/ \E k \in Kinds : Request(k) \/ RequestRaises(k)
    \/ Reading \/ DeadlinePasses
    \/ WritesBody \/ Answers \/ Results \/ Chatters

Spec == Init /\ [][Next]_vars

\* The thread is scheduled and time passes, and a misread length is finite: bytes
\* that go on coming use it up.  Nothing is assumed of the node.
FairSpec ==
    Spec /\ WF_vars(Reading) /\ WF_vars(DeadlinePasses) /\ SF_vars(SwallowEnds)

-----------------------------------------------------------------------------
(* Properties *)

Hows == {"none", "response", "failed", "empty", "rejected", "result", "timeout", "raised"}

TypeOK ==
    /\ sock \in {"none", "open", "dead"}
    /\ stream \in Seq(Token)
    /\ writing \subseteq Frames /\ Cardinality(writing) <= 1
    /\ owed \subseteq Requests /\ due \subseteq Requests
    /\ op \in 0..MaxRequests /\ kind \in Kinds \cup {"none"}
    /\ pc \in {"idle", "length", "body", "misread"} /\ (pc = "idle" <=> kind = "none")
    /\ pc = "body" => frame.tag # "empty"
    /\ frame \in Frames /\ late \in BOOLEAN
    /\ last \in [how : Hows, of : 0..MaxRequests]
    /\ acked \in BOOLEAN /\ left \subseteq Requests

\* The client stays in step: the response that a request returns is the one to
\* it, or to an earlier request of this connection that came back without its
\* own (it timed out, or its result overtook the response); and an awaited
\* result is always that of the await's own correlation id.
InStep ==
    [][pc # "idle" /\ pc' = "idle" =>
          /\ last'.how \in {"response", "failed", "rejected"} => last'.of \in left \cup {op}
          /\ last'.how = "result" => last'.of = op]_vars

\* An await comes back at its deadline, or when the read then under way ends: with
\* the socket's time-out if nothing comes, and if a length was misread not before
\* the node has sent that many bytes.  (send has no deadline: a node that keeps
\* pushing updates and never answers keeps it reading.)
AwaitEnds == pc # "idle" /\ Awaits ~> pc = "idle"

=============================================================================
