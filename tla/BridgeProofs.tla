---------------------------- MODULE BridgeProofs ----------------------------
(***************************************************************************)
(* What is proved of the bridge client for any number of threads, ids and  *)
(* chunks: its types, that a call returns its own answer and all of it,    *)
(* and that _pending, _results and the waiters are cleaned up after.       *)
(***************************************************************************)
EXTENDS Bridge, FiniteSetTheorems, TLAPS

-----------------------------------------------------------------------------
(* The inductive invariant *)

InCall(t) == pc[t] # "idle"

\* Every call has an id of its own, which stays registered until it returns;
\* ids are allocated upwards and none is used before it is allocated.
IdsInv ==
    /\ \A t \in Callers : InCall(t) => corr[t] \in pending
    /\ \A t, u \in Callers : t # u /\ InCall(t) /\ InCall(u) => corr[t] # corr[u]
    /\ \A c \in pending \cup woken \cup asked : c < next_id
    /\ exit_id <= next_id

\* The node takes up a request at most once: no answer to it is under way before
\* it was sent, or while the node has it still before itself.
AskedInv ==
    /\ \A c \in Ids : c >= next_id \/ c \in asked => answering[c].total = 0
    /\ \A t \in Callers :
           pc[t] = "send" => corr[t] \notin asked /\ answering[corr[t]].total = 0

\* Frames on the wire, and chunks that were put together, are of the answer that
\* the node is giving.
FramesInv ==
    /\ \A i \in DOMAIN wire : /\ wire[i].total = answering[wire[i].id].total
                              /\ wire[i].seq < wire[i].total
    /\ \A c \in Ids : partials[c] \subseteq 0..(answering[c].total - 1)

\* What a call with id c may return when its answer has that many frames and the
\* reader is there.
Good(c, value, total, there) ==
    \/ value = Null /\ there = "exited"
    \/ value = Answer(c, 0..(total - 1)) /\ total > 0

\* Only good results are kept, for ids that are pending, and whoever is woken
\* finds one.
ResultsInv ==
    /\ \A c \in Ids : results[c] # Absent =>
           c \in pending /\ Good(c, results[c], answering[c].total, reader)
    /\ \A c \in woken \cap pending : results[c] # Absent
    /\ \A t \in Callers : pc[t] = "taking" => corr[t] \in woken
    /\ \A t \in Callers : outcome[t].kind = "returned" =>
           /\ outcome[t].id \in Ids
           /\ Good(outcome[t].id, outcome[t].value, answering[outcome[t].id].total, reader)

Inv == TypeOK /\ IdsInv /\ AskedInv /\ FramesInv /\ ResultsInv /\ NoOrphans

-----------------------------------------------------------------------------
(* Results and chunks *)

LEMMA ResultType ==
    /\ Absent \in Results /\ Null \in Results /\ Absent # Null
    /\ \A c \in Ids, s \in SUBSET (0..(MaxChunks - 1)) :
           Answer(c, s) \in Results /\ Answer(c, s) # Absent /\ Answer(c, s) # Null
<1>1. \A c \in Ids, s \in SUBSET (0..(MaxChunks - 1)) : Answer(c, s).kind = "answer"
  BY DEF Answer
<1>2. Absent.kind = "absent" /\ Null.kind = "null"
  BY DEF Absent, Null
<1>3. QED
  BY <1>1, <1>2 DEF Results

\* A message of which there are as many chunks as it has is whole.
LEMMA WholeIsAll ==
    ASSUME NEW total \in Nat, NEW chunks \in SUBSET (0..(total - 1)), Whole(chunks, total)
    PROVE  chunks = 0..(total - 1)
<1>0. 0 \in Int /\ total - 1 \in Int
  OBVIOUS
<1>1. IsFiniteSet(0..(total - 1)) /\ Cardinality(0..(total - 1)) = total
  <2>1. /\ IsFiniteSet(0..(total - 1))
        /\ Cardinality(0..(total - 1)) = IF 0 > total - 1 THEN 0 ELSE (total - 1) - 0 + 1
    BY <1>0, FS_Interval
  <2>2. QED
    BY <2>1
<1>2. Cardinality(chunks) \in Nat /\ Cardinality(chunks) <= total
  BY <1>1, FS_Subset, FS_CardinalityType
<1>3. Cardinality(chunks) = total
  BY <1>2 DEF Whole
<1>4. QED
  BY <1>1, <1>3, FS_Subset

LEMMA InitInv == Init => Inv
<1> SUFFICES ASSUME Init PROVE Inv
  OBVIOUS
<1> USE BridgeAssumption
<1>1. TypeOK
  <2>1. results \in [Ids -> Results]
    BY ResultType DEF Init
  <2>2. outcome \in [Callers -> [kind : {"none", "returned", "raised"},
                                 id : 0..MaxId, value : Results]]
    BY ResultType DEF Init, NoOutcome
  <2>3. wire \in Seq(Frame) /\ answering \in [Ids -> [total : 0..MaxChunks, sent : 0..MaxChunks]]
    BY DEF Init
  <2>4. corr \in [Callers -> 0..MaxId] /\ partials \in [Ids -> SUBSET (0..(MaxChunks - 1))]
    BY DEF Init
  <2>5. pc \in [Callers -> {"idle", "send", "waiting", "taking", "expired"}]
        /\ op \in [Callers -> {"hello", "request"}]
    BY DEF Init
  <2>6. /\ next_id \in Nat \ {0} /\ pending \subseteq Ids /\ woken \subseteq Ids
        /\ asked \subseteq Ids /\ abandoned \subseteq Ids /\ exit_id \in Nat
    BY DEF Init, FirstId
  <2>7. session = "none" /\ sock = "open" /\ closed = FALSE /\ link = "up" /\ reader = "reading"
    BY DEF Init
  <2>8. QED
    BY <2>1, <2>2, <2>3, <2>4, <2>5, <2>6, <2>7 DEF TypeOK
<1>2. IdsInv /\ AskedInv
  BY DEF Init, IdsInv, AskedInv, InCall, FirstId
<1>3. FramesInv /\ ResultsInv /\ NoOrphans
  BY DEF Init, FramesInv, ResultsInv, NoOrphans, NoOutcome, Absent
<1>4. QED
  BY <1>1, <1>2, <1>3 DEF Inv

-----------------------------------------------------------------------------
(* Types *)

\* A caller that is in a call has an id.
LEMMA CallId ==
    ASSUME Inv, NEW t \in Callers, InCall(t)
    PROVE  corr[t] \in Ids /\ corr[t] \in pending /\ corr[t] < next_id
BY DEF Inv, TypeOK, IdsInv

\* The frame that is read next, with the chunks there were of its message.
LEMMA FrameType ==
    ASSUME Inv, wire # <<>>
    PROVE  /\ Head(wire) \in Frame /\ Tail(wire) \in Seq(Frame)
           /\ Head(wire) = wire[1] /\ 1 \in DOMAIN wire
           /\ Head(wire).total = answering[Head(wire).id].total
           /\ Head(wire).seq < Head(wire).total
           /\ \A i \in DOMAIN Tail(wire) : i + 1 \in DOMAIN wire /\ Tail(wire)[i] = wire[i + 1]
<1>1. wire \in Seq(Frame)
  BY DEF Inv, TypeOK
<1>2. Head(wire) = wire[1] /\ 1 \in DOMAIN wire
  BY <1>1
<1>3. QED
  BY <1>1, <1>2 DEF Inv, FramesInv

LEMMA NextType ==
    ASSUME Inv, [Next]_vars
    PROVE  TypeOK'
<1> USE BridgeAssumption
<1> USE DEF callerVars, clientVars, nodeVars, history
<1>0. TypeOK
  BY DEF Inv
<1>1. ASSUME NEW t \in Callers, Begin(t) PROVE TypeOK'
  <2>1. next_id \in Ids
    BY <1>0, <1>1 DEF Begin, TypeOK, Ids
  <2>2. corr' \in [Callers -> 0..MaxId]
    BY <1>0, <1>1, <2>1 DEF Begin, TypeOK, Ids
  <2>3. op' \in [Callers -> {"hello", "request"}]
        /\ pc' \in [Callers -> {"idle", "send", "waiting", "taking", "expired"}]
    BY <1>0, <1>1 DEF Begin, TypeOK
  <2>4. next_id' \in Nat \ {0} /\ pending' \subseteq Ids
    BY <1>0, <1>1, <2>1 DEF Begin, TypeOK
  <2>5. QED
    BY <1>0, <1>1, <2>2, <2>3, <2>4 DEF Begin, TypeOK
<1>2. ASSUME NEW t \in Callers, Caller(t) PROVE TypeOK'
  <2>1. InCall(t)
    BY <1>2 DEF Caller, InCall, Send, SendFails, Wake, TimeOut, Return, Expire
  <2>2. corr[t] \in Ids /\ results[corr[t]] \in Results
    BY <1>0, <2>1, CallId DEF TypeOK
  <2>3. pc' \in [Callers -> {"idle", "send", "waiting", "taking", "expired"}]
    BY <1>0, <1>2 DEF TypeOK, Caller, Send, SendFails, Wake, TimeOut, Return, Expire
  <2>4. ASSUME NEW kind \in {"returned", "raised"}, NEW value \in Results,
               outcome' = [outcome EXCEPT ![t] = [kind |-> kind, id |-> corr[t], value |-> value]]
        PROVE  outcome' \in [Callers -> [kind : {"none", "returned", "raised"},
                                          id : 0..MaxId, value : Results]]
    <3>1. corr[t] \in 0..MaxId
      BY <2>2 DEF Ids
    <3>2. QED
      BY <1>0, <2>4, <3>1 DEF TypeOK
  <2>5. ASSUME Take(corr[t])
        PROVE  pending' \subseteq Ids /\ results' \in [Ids -> Results]
    BY <1>0, <2>2, <2>5, ResultType DEF TypeOK, Take
  <2>6. CASE Send(t)
    BY <1>0, <2>2, <2>3, <2>6 DEF TypeOK, Send
  <2>7. CASE SendFails(t)
    <3>1. next_id' \in Nat \ {0} /\ abandoned' \subseteq Ids /\ session' \in {"none", "up", "failed"}
      BY <1>0, <2>2, <2>7 DEF TypeOK, SendFails
    <3>2. QED
      BY <1>0, <2>3, <2>4, <2>7, <3>1, ResultType DEF TypeOK, SendFails
  <2>8. CASE Wake(t) \/ TimeOut(t)
    BY <1>0, <2>3, <2>8 DEF TypeOK, Wake, TimeOut
  <2>9. CASE Return(t)
    <3>1. outcome' \in [Callers -> [kind : {"none", "returned", "raised"},
                                    id : 0..MaxId, value : Results]]
      BY <2>2, <2>4, <2>9 DEF Return
    <3>2. session' \in {"none", "up", "failed"}
      BY <1>0, <2>9 DEF TypeOK, Return
    <3>3. QED
      BY <1>0, <2>3, <2>5, <2>9, <3>1, <3>2 DEF TypeOK, Return
  <2>10. CASE Expire(t)
    <3>1. session' \in {"none", "up", "failed"} /\ abandoned' \subseteq Ids
      BY <1>0, <2>2, <2>10 DEF TypeOK, Expire
    <3>2. pending' \subseteq Ids /\ results' \in [Ids -> Results]
      BY <1>0, <2>5, <2>10 DEF TypeOK, Expire
    <3>3. QED
      BY <1>0, <2>3, <2>4, <2>10, <3>1, <3>2, ResultType DEF TypeOK, Expire
  <2>11. QED
    BY <1>2, <2>6, <2>7, <2>8, <2>9, <2>10 DEF Caller
<1>3. CASE Close \/ Receive \/ LinkDown
  BY <1>0, <1>3 DEF TypeOK, Close, Receive, LinkDown
<1>4. CASE ReadFrame
  <2> DEFINE f == Head(wire)
             chunks == partials[f.id] \cup {f.seq}
  <2>1. f \in Frame /\ wire' \in Seq(Frame)
    BY <1>4, FrameType DEF ReadFrame
  <2>2. f.id \in Ids /\ f.seq \in 0..(MaxChunks - 1)
    BY <2>1 DEF Frame
  <2>3. chunks \in SUBSET (0..(MaxChunks - 1)) /\ {f.seq} \in SUBSET (0..(MaxChunks - 1))
    BY <1>0, <2>2 DEF TypeOK
  <2>4. Answer(f.id, chunks) \in Results /\ Answer(f.id, {f.seq}) \in Results
    BY <2>2, <2>3, ResultType
  <2>5. partials' \in [Ids -> SUBSET (0..(MaxChunks - 1))]
    BY <1>0, <1>4, <2>2, <2>3 DEF TypeOK, ReadFrame
  <2>6. results' \in [Ids -> Results] /\ woken' \subseteq Ids
    <3>1. \A c \in Ids, value \in Results : Complete(c, value) =>
              results' \in [Ids -> Results] /\ woken' \subseteq Ids
      BY <1>0 DEF TypeOK, Complete
    <3>2. \/ Complete(f.id, Answer(f.id, {f.seq})) \/ Complete(f.id, Answer(f.id, chunks))
          \/ UNCHANGED <<results, woken>>
      BY <1>4 DEF ReadFrame
    <3>3. QED
      BY <1>0, <2>2, <2>4, <3>1, <3>2 DEF TypeOK
  <2>7. QED
    BY <1>0, <1>4, <2>1, <2>5, <2>6 DEF TypeOK, ReadFrame
<1>5. CASE ReaderExit
  <2>1. results' \in [Ids -> Results]
    BY <1>0, <1>5, ResultType DEF TypeOK, ReaderExit
  <2>2. QED
    BY <1>0, <1>5, <2>1 DEF TypeOK, ReaderExit
<1>6. ASSUME NEW c \in Ids, NEW n \in 1..MaxChunks, NodeTakesUp(c, n) PROVE TypeOK'
  <2>1. answering' \in [Ids -> [total : 0..MaxChunks, sent : 0..MaxChunks]]
    BY <1>0, <1>6 DEF TypeOK, NodeTakesUp
  <2>2. QED
    BY <1>0, <1>6, <2>1 DEF TypeOK, NodeTakesUp
<1>7. ASSUME NEW c \in Ids, NodeSendsFrame(c) PROVE TypeOK'
  <2> DEFINE a == answering[c]
             f == [id |-> c, seq |-> a.sent, total |-> a.total]
  <2>1. a \in [total : 0..MaxChunks, sent : 0..MaxChunks] /\ a.sent < a.total
    BY <1>0, <1>7 DEF TypeOK, NodeSendsFrame
  <2>2. f \in Frame
    BY <2>1 DEF Frame
  <2>3. wire' \in Seq(Frame)
    BY <1>0, <1>7, <2>2 DEF TypeOK, NodeSendsFrame
  <2>4. answering' \in [Ids -> [total : 0..MaxChunks, sent : 0..MaxChunks]]
    BY <1>0, <1>7, <2>1 DEF TypeOK, NodeSendsFrame
  <2>5. QED
    BY <1>0, <1>7, <2>3, <2>4 DEF TypeOK, NodeSendsFrame
<1>8. CASE UNCHANGED vars
  BY <1>0, <1>8 DEF TypeOK, vars
<1>9. QED
  BY <1>1, <1>2, <1>3, <1>4, <1>5, <1>6, <1>7, <1>8 DEF Next, Reader

-----------------------------------------------------------------------------
(* Ids *)

LEMMA NextIds ==
    ASSUME Inv, [Next]_vars
    PROVE  IdsInv'
<1> USE DEF callerVars, clientVars, nodeVars, history
<1>0. TypeOK /\ IdsInv
  BY DEF Inv
<1>1. ASSUME NEW t \in Callers, Begin(t) PROVE IdsInv'
  <2>1. corr'[t] = next_id /\ \A u \in Callers \ {t} : corr'[u] = corr[u] /\ pc'[u] = pc[u]
    BY <1>0, <1>1 DEF Begin, TypeOK
  <2>2. /\ pending' = pending \cup {next_id} /\ next_id' = next_id + 1 /\ next_id \in Nat
        /\ UNCHANGED <<woken, asked, exit_id>>
    BY <1>0, <1>1 DEF Begin, TypeOK
  <2>3. \A u \in Callers : InCall(u) => corr[u] # next_id
    BY <1>0, CallId DEF TypeOK, IdsInv
  <2>4. \A c \in pending' \cup woken' \cup asked' : c < next_id'
    BY <1>0, <2>2 DEF TypeOK, IdsInv, Ids
  <2>5. \A u \in Callers : InCall(u)' => corr'[u] \in pending'
    BY <1>0, <2>1, <2>2 DEF IdsInv, InCall
  <2>6. \A u, v \in Callers : u # v /\ InCall(u)' /\ InCall(v)' => corr'[u] # corr'[v]
    BY <1>0, <2>1, <2>3 DEF IdsInv, InCall
  <2>7. exit_id' <= next_id'
    BY <1>0, <2>2 DEF IdsInv, TypeOK
  <2>8. QED
    BY <2>4, <2>5, <2>6, <2>7 DEF IdsInv
<1>2. ASSUME NEW t \in Callers, Send(t) \/ SendFails(t) PROVE IdsInv'
  <2>1. corr[t] \in Ids /\ corr[t] < next_id
    BY <1>2, CallId DEF InCall, Send, SendFails
  <2>2. /\ next_id' \in Nat /\ next_id' >= next_id /\ asked' \subseteq asked \cup {corr[t]}
        /\ UNCHANGED <<pending, woken, corr, exit_id>>
    BY <1>0, <1>2 DEF Send, SendFails, TypeOK
  <2>3. \A u \in Callers : InCall(u)' => InCall(u)
    BY <1>0, <1>2 DEF TypeOK, InCall, Send, SendFails
  <2>4. \A c \in pending' \cup woken' \cup asked' : c < next_id'
    BY <1>0, <2>1, <2>2 DEF TypeOK, IdsInv, Ids
  <2>5. QED
    BY <1>0, <2>2, <2>3, <2>4 DEF IdsInv, TypeOK
<1>3. ASSUME NEW t \in Callers, Wake(t) \/ TimeOut(t) PROVE IdsInv'
  <2>1. \A u \in Callers : InCall(u)' => InCall(u)
    BY <1>0, <1>3 DEF TypeOK, InCall, Wake, TimeOut
  <2>2. QED
    BY <1>0, <1>3, <2>1 DEF IdsInv, Wake, TimeOut
<1>4. ASSUME NEW t \in Callers, Return(t) \/ Expire(t) PROVE IdsInv'
  <2>1. InCall(t) /\ pending \ {corr[t]} \subseteq pending' /\ pending' \subseteq pending
    BY <1>4 DEF InCall, Return, Expire, Take
  <2>2. \A u \in Callers : InCall(u)' => InCall(u) /\ u # t
    BY <1>0, <1>4 DEF TypeOK, InCall, Return, Expire
  <2>3. UNCHANGED <<corr, next_id, woken, asked, exit_id>>
    BY <1>4 DEF Return, Expire
  <2>4. QED
    BY <1>0, <2>1, <2>2, <2>3 DEF IdsInv
<1>5. CASE Close \/ Receive \/ LinkDown \/ UNCHANGED vars
  BY <1>0, <1>5 DEF IdsInv, InCall, Close, Receive, LinkDown, vars
<1>6. CASE ReadFrame
  <2>1. woken' \subseteq woken \cup pending
    BY <1>6 DEF ReadFrame, Complete
  <2>2. QED
    BY <1>0, <1>6, <2>1 DEF IdsInv, InCall, ReadFrame
<1>7. CASE ReaderExit
  BY <1>0, <1>7 DEF IdsInv, InCall, ReaderExit, TypeOK
<1>8. ASSUME NEW c \in Ids, NodeSendsFrame(c) \/ \E n \in 1..MaxChunks : NodeTakesUp(c, n)
      PROVE  IdsInv'
  BY <1>0, <1>8 DEF IdsInv, InCall, NodeSendsFrame, NodeTakesUp
<1>9. QED
  BY <1>1, <1>2, <1>3, <1>4, <1>5, <1>6, <1>7, <1>8 DEF Next, Caller, Reader

LEMMA NextAsked ==
    ASSUME Inv, [Next]_vars
    PROVE  AskedInv'
<1> USE DEF callerVars, clientVars, nodeVars, history
<1>0. TypeOK /\ IdsInv /\ AskedInv
  BY DEF Inv
<1>1. ASSUME NEW t \in Callers, Begin(t) PROVE AskedInv'
  <2>1. corr'[t] = next_id /\ \A u \in Callers \ {t} : corr'[u] = corr[u] /\ pc'[u] = pc[u]
    BY <1>0, <1>1 DEF Begin, TypeOK
  <2>2. /\ next_id \in Ids /\ next_id' = next_id + 1
        /\ UNCHANGED <<asked, answering>>
    BY <1>0, <1>1, BridgeAssumption DEF Begin, TypeOK, Ids
  <2>3. next_id \notin asked /\ answering[next_id].total = 0
    BY <1>0, <2>2 DEF IdsInv, AskedInv, Ids
  <2>4. QED
    BY <1>0, <2>1, <2>2, <2>3 DEF AskedInv, Ids
<1>2. ASSUME NEW t \in Callers, Send(t) \/ SendFails(t) PROVE AskedInv'
  <2>1. corr[t] \in Ids /\ InCall(t) /\ pc[t] = "send"
    BY <1>2, CallId DEF InCall, Send, SendFails
  <2>2. /\ next_id' \in Nat /\ next_id' >= next_id /\ asked' \subseteq asked \cup {corr[t]}
        /\ UNCHANGED <<corr, answering>>
    BY <1>0, <1>2 DEF Send, SendFails, TypeOK
  <2>3. \A u \in Callers : pc'[u] = "send" => pc[u] = "send" /\ u # t
    BY <1>0, <1>2 DEF TypeOK, Send, SendFails
  <2>4. \A u \in Callers : pc'[u] = "send" => corr[u] # corr[t]
    BY <1>0, <2>1, <2>3 DEF IdsInv, InCall
  <2>5. QED
    BY <1>0, <2>1, <2>2, <2>3, <2>4 DEF AskedInv, TypeOK, Ids
<1>3. ASSUME NEW t \in Callers, Wake(t) \/ TimeOut(t) \/ Return(t) \/ Expire(t) PROVE AskedInv'
  <2>1. \A u \in Callers : pc'[u] = "send" => pc[u] = "send"
    BY <1>0, <1>3 DEF TypeOK, Wake, TimeOut, Return, Expire
  <2>2. UNCHANGED <<next_id, asked, answering, corr>>
    BY <1>3 DEF Wake, TimeOut, Return, Expire
  <2>3. QED
    BY <1>0, <2>1, <2>2 DEF AskedInv
<1>4. CASE Close \/ Receive \/ LinkDown \/ ReadFrame \/ ReaderExit \/ UNCHANGED vars
  BY <1>0, <1>4 DEF AskedInv, Close, Receive, LinkDown, ReadFrame, ReaderExit, vars
<1>5. ASSUME NEW c \in Ids, NEW n \in 1..MaxChunks, NodeTakesUp(c, n) PROVE AskedInv'
  <2>1. /\ c < next_id /\ c \in asked /\ asked' = asked \ {c}
        /\ \A d \in Ids \ {c} : answering'[d] = answering[d]
        /\ UNCHANGED <<next_id, corr, pc>>
    BY <1>0, <1>5 DEF NodeTakesUp, IdsInv, TypeOK
  <2>2. \A u \in Callers : pc[u] = "send" => corr[u] # c /\ corr[u] \in Ids
    BY <1>0, <2>1, CallId DEF AskedInv, InCall
  <2>3. QED
    BY <1>0, <2>1, <2>2 DEF AskedInv, TypeOK, Ids
<1>6. ASSUME NEW c \in Ids, NodeSendsFrame(c) PROVE AskedInv'
  <2>1. \A d \in Ids : answering'[d].total = answering[d].total
    BY <1>0, <1>6 DEF NodeSendsFrame, TypeOK
  <2>2. \A u \in Callers : pc[u] = "send" => corr[u] \in Ids
    BY CallId DEF InCall
  <2>3. QED
    BY <1>0, <1>6, <2>1, <2>2 DEF AskedInv, NodeSendsFrame
<1>7. QED
  BY <1>1, <1>2, <1>3, <1>4, <1>5, <1>6 DEF Next, Caller, Reader

-----------------------------------------------------------------------------
(* Answers *)

\* The number of frames of an answer is settled when the node takes it up.
LEMMA TotalsSettled ==
    ASSUME Inv, [Next]_vars, NEW c \in Ids
    PROVE  answering'[c].total = answering[c].total \/ answering[c].total = 0
<1> USE DEF callerVars, clientVars, nodeVars, history
<1>0. TypeOK /\ AskedInv
  BY DEF Inv
<1>1. ASSUME NEW d \in Ids, NEW n \in 1..MaxChunks, NodeTakesUp(d, n)
      PROVE  answering'[c].total = answering[c].total \/ answering[c].total = 0
  <2>1. answering[d].total = 0
    BY <1>0, <1>1 DEF NodeTakesUp, AskedInv
  <2>2. c # d => answering'[c] = answering[c]
    BY <1>0, <1>1 DEF NodeTakesUp, TypeOK
  <2>3. QED
    BY <2>1, <2>2
<1>2. ASSUME NEW d \in Ids, NodeSendsFrame(d)
      PROVE  answering'[c].total = answering[c].total
  BY <1>0, <1>2 DEF NodeSendsFrame, TypeOK
<1>3. ASSUME NEW t \in Callers, Begin(t) \/ Caller(t)
      PROVE  answering' = answering
  BY <1>3 DEF Begin, Caller, Send, SendFails, Wake, TimeOut, Return, Expire
<1>4. CASE Close \/ Reader \/ LinkDown \/ UNCHANGED vars
  BY <1>4 DEF Close, Reader, Receive, ReadFrame, ReaderExit, LinkDown, vars
<1>5. QED
  BY <1>1, <1>2, <1>3, <1>4 DEF Next

\* The reader does not come back, so what is good stays good.
LEMMA GoodStays ==
    ASSUME Inv, [Next]_vars, NEW c \in Ids, NEW value,
           Good(c, value, answering[c].total, reader)
    PROVE  Good(c, value, answering'[c].total, reader')
<1> USE DEF callerVars, clientVars, nodeVars, history
<1>1. reader = "exited" => reader' = "exited"
  <2>1. ASSUME NEW t \in Callers, Begin(t) \/ Caller(t)
        PROVE  reader' = reader
    BY <2>1 DEF Begin, Caller, Send, SendFails, Wake, TimeOut, Return, Expire
  <2>2. CASE Close \/ LinkDown \/ UNCHANGED vars
    BY <2>2 DEF Close, LinkDown, vars
  <2>3. CASE Reader
    BY <2>3 DEF Reader, Receive, ReadFrame, ReaderExit
  <2>4. ASSUME NEW d \in Ids, NodeSendsFrame(d) \/ \E n \in 1..MaxChunks : NodeTakesUp(d, n)
        PROVE  reader' = reader
    BY <2>4 DEF NodeSendsFrame, NodeTakesUp
  <2>5. QED
    BY <2>1, <2>2, <2>3, <2>4 DEF Next
<1>2. answering'[c].total = answering[c].total \/ answering[c].total = 0
  BY TotalsSettled
<1>3. QED
  BY <1>1, <1>2 DEF Good

LEMMA NextFrames ==
    ASSUME Inv, [Next]_vars
    PROVE  FramesInv'
<1> USE DEF callerVars, clientVars, nodeVars, history
<1>0. TypeOK /\ FramesInv /\ AskedInv
  BY DEF Inv
<1>1. ASSUME NEW c \in Ids, NEW n \in 1..MaxChunks, NodeTakesUp(c, n) PROVE FramesInv'
  <2>1. /\ answering[c].total = 0
        /\ \A d \in Ids \ {c} : answering'[d] = answering[d]
        /\ UNCHANGED <<wire, partials>>
    BY <1>0, <1>1 DEF NodeTakesUp, AskedInv, TypeOK
  <2>2. \A i \in DOMAIN wire : wire[i].total \in 1..MaxChunks /\ wire[i].id \in Ids
    <3>1. wire \in Seq(Frame)
      BY <1>0 DEF TypeOK
    <3>2. \A i \in DOMAIN wire : wire[i] \in Frame
      BY <3>1
    <3>3. QED
      BY <3>2 DEF Frame
  <2>3. \A i \in DOMAIN wire : wire[i].id # c
    BY <1>0, <2>1, <2>2 DEF FramesInv
  <2>4. partials[c] = {}
    <3>1. 0..(answering[c].total - 1) = {}
      BY <2>1
    <3>2. QED
      BY <1>0, <3>1 DEF FramesInv
  <2>5. QED
    BY <1>0, <2>1, <2>2, <2>3, <2>4 DEF FramesInv
<1>2. ASSUME NEW c \in Ids, NodeSendsFrame(c) PROVE FramesInv'
  <2> DEFINE a == answering[c]
             f == [id |-> c, seq |-> a.sent, total |-> a.total]
  <2>1. a \in [total : 0..MaxChunks, sent : 0..MaxChunks] /\ a.sent < a.total
    BY <1>0, <1>2 DEF TypeOK, NodeSendsFrame
  <2>2. \A d \in Ids : answering'[d].total = answering[d].total
    BY <1>0, <1>2 DEF NodeSendsFrame, TypeOK
  <2>3. wire' = Append(wire, f) /\ wire \in Seq(Frame) /\ f \in Frame
    <3>1. f \in Frame
      BY <2>1, BridgeAssumption DEF Frame
    <3>2. wire \in Seq(Frame)
      BY <1>0 DEF TypeOK
    <3>3. QED
      BY <1>2, <3>1, <3>2 DEF NodeSendsFrame
  <2>4. /\ DOMAIN wire' = 1..(Len(wire) + 1) /\ DOMAIN wire = 1..Len(wire)
        /\ \A i \in DOMAIN wire : wire'[i] = wire[i] /\ wire[i] \in Frame
        /\ wire'[Len(wire) + 1] = f
    BY <2>3
  <2>5. f.id = c /\ f.total = a.total /\ f.seq < f.total
    BY <2>1
  <2>6. ASSUME NEW i \in DOMAIN wire'
        PROVE  wire'[i].total = answering'[wire'[i].id].total /\ wire'[i].seq < wire'[i].total
    <3>1. CASE i \in DOMAIN wire
      <4>1. wire[i].id \in Ids
        BY <2>4, <3>1 DEF Frame
      <4>2. QED
        BY <1>0, <2>2, <2>4, <3>1, <4>1 DEF FramesInv
    <3>2. CASE i = Len(wire) + 1
      BY <2>2, <2>4, <2>5, <3>2
    <3>3. QED
      BY <2>3, <2>4, <3>1, <3>2
  <2>7. UNCHANGED partials
    BY <1>2 DEF NodeSendsFrame
  <2>8. QED
    BY <1>0, <2>2, <2>6, <2>7 DEF FramesInv
<1>3. CASE ReadFrame
  <2> DEFINE f == Head(wire)
  <2>1. /\ f.id \in Ids /\ f.seq \in Nat /\ f.total \in Nat
        /\ f.total = answering[f.id].total /\ f.seq < f.total
        /\ \A i \in DOMAIN Tail(wire) : i + 1 \in DOMAIN wire /\ Tail(wire)[i] = wire[i + 1]
    BY <1>3, FrameType DEF ReadFrame, Frame
  <2>2. partials[f.id] \cup {f.seq} \subseteq 0..(answering[f.id].total - 1)
    BY <1>0, <2>1 DEF FramesInv
  <2>3. wire' = Tail(wire) /\ UNCHANGED answering
    BY <1>3 DEF ReadFrame
  <2>4. \A c \in Ids : \/ partials'[c] = partials[c] \/ partials'[c] = {}
                       \/ c = f.id /\ partials'[c] = partials[f.id] \cup {f.seq}
    BY <1>0, <1>3, <2>1 DEF ReadFrame, TypeOK
  <2>5. QED
    BY <1>0, <2>1, <2>2, <2>3, <2>4 DEF FramesInv
<1>4. ASSUME NEW t \in Callers, Begin(t) \/ Caller(t) PROVE FramesInv'
  <2>1. UNCHANGED <<wire, partials, answering>>
    BY <1>4 DEF Begin, Caller, Send, SendFails, Wake, TimeOut, Return, Expire
  <2>2. QED
    BY <1>0, <2>1 DEF FramesInv
<1>5. CASE Close \/ Receive \/ ReaderExit \/ LinkDown \/ UNCHANGED vars
  BY <1>0, <1>5 DEF FramesInv, Close, Receive, ReaderExit, LinkDown, vars
<1>6. QED
  BY <1>1, <1>2, <1>3, <1>4, <1>5 DEF Next, Reader

\* What _complete does for an id, if the value is one that the call may return.
LEMMA CompleteResults ==
    ASSUME Inv, [Next]_vars, NEW c \in Ids, NEW value \in Results, Complete(c, value),
           Good(c, value, answering'[c].total, reader'), value # Absent,
           UNCHANGED <<pending, pc, corr, outcome>>
    PROVE  ResultsInv'
<1>0. TypeOK /\ ResultsInv
  BY DEF Inv
<1>1. \A d \in Ids : results'[d] # results[d] => d = c /\ c \in pending /\ results'[d] = value
  <2>1. results \in [Ids -> Results]
    BY <1>0 DEF TypeOK
  <2>2. CASE c \in pending
    BY <2>1, <2>2 DEF Complete
  <2>3. CASE c \notin pending
    BY <2>3 DEF Complete
  <2>4. QED
    BY <2>2, <2>3
<1>2. \A d \in Ids : results'[d] # Absent => d \in pending' /\ Good(d, results'[d], answering'[d].total, reader')
  <2> SUFFICES ASSUME NEW d \in Ids, results'[d] # Absent
               PROVE  d \in pending' /\ Good(d, results'[d], answering'[d].total, reader')
    OBVIOUS
  <2>1. CASE results'[d] = results[d]
    <3>1. d \in pending /\ Good(d, results[d], answering[d].total, reader)
      BY <1>0, <2>1 DEF ResultsInv
    <3>2. Good(d, results[d], answering'[d].total, reader')
      BY <3>1, GoodStays
    <3>3. QED
      BY <2>1, <3>1, <3>2
  <2>2. CASE d = c /\ c \in pending /\ results'[d] = value
    BY <2>2
  <2>3. QED
    BY <1>1, <2>1, <2>2
<1>3. \A d \in woken' \cap pending' : results'[d] # Absent
  BY <1>0 DEF Complete, TypeOK, ResultsInv
<1>4. woken \subseteq woken'
  BY DEF Complete
<1>5. \A t \in Callers : outcome'[t].kind = "returned" =>
          /\ outcome'[t].id \in Ids
          /\ Good(outcome'[t].id, outcome'[t].value, answering'[outcome'[t].id].total, reader')
  BY <1>0, GoodStays DEF ResultsInv
<1>6. QED
  BY <1>0, <1>2, <1>3, <1>4, <1>5 DEF ResultsInv

\* A step in which the results are only taken away, or made null when the reader
\* ends, and in which nobody returns.
LEMMA KeptResults ==
    ASSUME Inv, [Next]_vars,
           \A c \in Ids : results'[c] # Absent =>
               /\ c \in pending'
               /\ results'[c] = results[c] \/ (results'[c] = Null /\ reader' = "exited"),
           \A c \in woken' \cap pending' : results'[c] # Absent,
           woken \subseteq woken',
           \A t \in Callers : pc'[t] = "taking" =>
               (pc[t] = "taking" /\ corr'[t] = corr[t]) \/ corr'[t] \in woken',
           \A t \in Callers : outcome'[t] = outcome[t] \/ outcome'[t].kind = "raised"
    PROVE  ResultsInv'
<1>0. TypeOK /\ ResultsInv
  BY DEF Inv
<1>1. \A c \in Ids : results'[c] # Absent => c \in pending' /\ Good(c, results'[c], answering'[c].total, reader')
  <2> SUFFICES ASSUME NEW c \in Ids, results'[c] # Absent
               PROVE  c \in pending' /\ Good(c, results'[c], answering'[c].total, reader')
    OBVIOUS
  <2>1. CASE results'[c] = results[c]
    <3>1. Good(c, results[c], answering[c].total, reader)
      BY <1>0, <2>1 DEF ResultsInv
    <3>2. Good(c, results[c], answering'[c].total, reader')
      BY <3>1, GoodStays
    <3>3. QED
      BY <2>1, <3>2
  <2>2. CASE results'[c] = Null /\ reader' = "exited"
    BY <2>2 DEF Good
  <2>3. QED
    BY <2>1, <2>2
<1>2. \A t \in Callers : outcome'[t].kind = "returned" =>
          /\ outcome'[t].id \in Ids
          /\ Good(outcome'[t].id, outcome'[t].value, answering'[outcome'[t].id].total, reader')
  BY <1>0, GoodStays DEF ResultsInv
<1>3. \A t \in Callers : pc'[t] = "taking" => corr'[t] \in woken'
  BY <1>0 DEF ResultsInv
<1>4. QED
  BY <1>1, <1>2, <1>3 DEF ResultsInv

LEMMA NextResults ==
    ASSUME Inv, [Next]_vars
    PROVE  ResultsInv'
<1> USE DEF callerVars, clientVars, nodeVars, history
<1>0. TypeOK /\ IdsInv /\ ResultsInv
  BY DEF Inv
<1>1. ASSUME NEW t \in Callers, Begin(t) PROVE ResultsInv'
  <2>1. pending' = pending \cup {next_id} /\ UNCHANGED <<results, woken, outcome>>
    BY <1>1 DEF Begin
  <2>2. next_id \notin woken
    BY <1>0 DEF IdsInv, TypeOK
  <2>3. \A u \in Callers : pc'[u] = "taking" => pc[u] = "taking" /\ corr'[u] = corr[u]
    BY <1>0, <1>1 DEF Begin, TypeOK
  <2>4. QED
    BY <1>0, <2>1, <2>2, <2>3, KeptResults DEF ResultsInv
<1>2. ASSUME NEW t \in Callers, Send(t) \/ SendFails(t) \/ TimeOut(t) PROVE ResultsInv'
  <2>1. UNCHANGED <<results, woken, pending, corr>>
    BY <1>2 DEF Send, SendFails, TimeOut
  <2>2. \A u \in Callers : pc'[u] = "taking" => pc[u] = "taking"
    BY <1>0, <1>2 DEF Send, SendFails, TimeOut, TypeOK
  <2>3. \A u \in Callers : outcome'[u] = outcome[u] \/ outcome'[u].kind = "raised"
    BY <1>0, <1>2 DEF Send, SendFails, TimeOut, TypeOK
  <2>4. QED
    BY <1>0, <2>1, <2>2, <2>3, KeptResults DEF ResultsInv
<1>3. ASSUME NEW t \in Callers, Wake(t) PROVE ResultsInv'
  <2>1. UNCHANGED <<results, woken, pending, corr, outcome>>
    BY <1>3 DEF Wake
  <2>2. \A u \in Callers : pc'[u] = "taking" => pc[u] = "taking" \/ corr[u] \in woken
    BY <1>0, <1>3 DEF Wake, TypeOK
  <2>3. QED
    BY <1>0, <2>1, <2>2, KeptResults DEF ResultsInv
<1>4. ASSUME NEW t \in Callers, Return(t) PROVE ResultsInv'
  <2> DEFINE c == corr[t]
  <2>1. c \in Ids /\ c \in pending /\ pc[t] = "taking"
    BY <1>4, CallId DEF Return, InCall
  <2>2. Good(c, results[c], answering[c].total, reader) /\ UNCHANGED <<answering, reader, woken, corr>>
    BY <1>0, <1>4, <2>1 DEF ResultsInv, Return
  <2>3. /\ pending' = pending \ {c}
        /\ \A d \in Ids : results'[d] = IF d = c THEN Absent ELSE results[d]
    BY <1>0, <1>4, <2>1 DEF Return, Take, TypeOK
  <2>4. \A u \in Callers : pc'[u] = "taking" => pc[u] = "taking"
    BY <1>0, <1>4 DEF Return, TypeOK
  <2>5. \A u \in Callers \ {t} : outcome'[u] = outcome[u]
    BY <1>0, <1>4 DEF Return, TypeOK
  <2>6. outcome'[t].kind = "returned" => outcome'[t].id = c /\ outcome'[t].value = results[c]
    BY <1>0, <1>4 DEF Return, TypeOK
  <2>7. \A u \in Callers : outcome'[u].kind = "returned" =>
            /\ outcome'[u].id \in Ids
            /\ Good(outcome'[u].id, outcome'[u].value, answering'[outcome'[u].id].total, reader')
    BY <1>0, <2>1, <2>2, <2>5, <2>6 DEF ResultsInv
  <2>8. \A d \in Ids : results'[d] # Absent =>
            d \in pending' /\ Good(d, results'[d], answering'[d].total, reader')
    BY <1>0, <2>2, <2>3 DEF ResultsInv
  <2>9. \A d \in woken' \cap pending' : results'[d] # Absent
    BY <1>0, <2>2, <2>3 DEF ResultsInv, TypeOK
  <2>10. QED
    BY <1>0, <2>2, <2>4, <2>7, <2>8, <2>9 DEF ResultsInv
<1>5. ASSUME NEW t \in Callers, Expire(t) PROVE ResultsInv'
  <2>1. corr[t] \in Ids
    BY <1>5, CallId DEF Expire, InCall
  <2>2. UNCHANGED <<woken, corr>>
    BY <1>5 DEF Expire
  <2>3. \A u \in Callers : pc'[u] = "taking" => pc[u] = "taking"
    BY <1>0, <1>5 DEF Expire, TypeOK
  <2>4. \A u \in Callers : outcome'[u] = outcome[u] \/ outcome'[u].kind = "raised"
    BY <1>0, <1>5 DEF Expire, TypeOK
  <2>5. pending' \subseteq pending
    BY <1>5 DEF Expire, Take
  <2>6. \A c \in Ids : /\ results'[c] # Absent => c \in pending' /\ results'[c] = results[c]
                       /\ c \in pending' => results'[c] = results[c]
    BY <1>0, <1>5, <2>1 DEF Expire, Take, TypeOK, ResultsInv
  <2>7. QED
    BY <1>0, <2>2, <2>3, <2>4, <2>5, <2>6, KeptResults DEF ResultsInv, TypeOK
<1>6. CASE ReadFrame
  <2> DEFINE f == Head(wire)
             chunks == partials[f.id] \cup {f.seq}
  <2>1. /\ f.id \in Ids /\ f.seq \in 0..(MaxChunks - 1) /\ f.total \in 1..MaxChunks
        /\ f.total = answering[f.id].total /\ f.seq < f.total
    BY <1>6, FrameType DEF ReadFrame, Frame
  <2>2. UNCHANGED <<pending, pc, corr, outcome, answering>>
    BY <1>6 DEF ReadFrame
  <2>3. answering'[f.id].total = f.total /\ f.total > 0
    BY <2>1, <2>2
  <2>4. chunks \subseteq 0..(f.total - 1) /\ {f.seq} \subseteq 0..(f.total - 1)
    BY <2>1 DEF Inv, FramesInv
  <2>5. chunks \in SUBSET (0..(MaxChunks - 1)) /\ {f.seq} \in SUBSET (0..(MaxChunks - 1))
    BY <2>1, <1>0 DEF TypeOK
  <2>6. CASE f.total <= 1
    <3>1. {f.seq} = 0..(f.total - 1)
      BY <2>1, <2>6
    <3>2. Good(f.id, Answer(f.id, {f.seq}), answering'[f.id].total, reader')
      BY <2>3, <3>1 DEF Good
    <3>3. Complete(f.id, Answer(f.id, {f.seq}))
      BY <1>6, <2>6 DEF ReadFrame
    <3>4. QED
      BY <2>1, <2>2, <2>5, <3>2, <3>3, ResultType, CompleteResults
  <2>7. CASE f.total > 1 /\ Whole(chunks, f.total)
    <3>1. chunks = 0..(f.total - 1)
      <4>1. f.total \in Nat /\ chunks \in SUBSET (0..(f.total - 1)) /\ Whole(chunks, f.total)
        BY <2>1, <2>4, <2>7
      <4> HIDE DEF f, chunks
      <4>2. QED
        BY <4>1, WholeIsAll
    <3>2. Good(f.id, Answer(f.id, chunks), answering'[f.id].total, reader')
      BY <2>3, <3>1 DEF Good
    <3>3. Complete(f.id, Answer(f.id, chunks))
      BY <1>6, <2>1, <2>7 DEF ReadFrame
    <3>4. QED
      BY <2>1, <2>2, <2>5, <3>2, <3>3, ResultType, CompleteResults
  <2>8. CASE f.total > 1 /\ ~Whole(chunks, f.total)
    <3>1. UNCHANGED <<results, woken>>
      BY <1>6, <2>1, <2>8 DEF ReadFrame
    <3>2. QED
      BY <1>0, <2>2, <3>1, KeptResults DEF ResultsInv
  <2>9. QED
    BY <2>1, <2>6, <2>7, <2>8
<1>7. CASE ReaderExit
  <2>1. \A c \in Ids : results'[c] = IF c \in pending /\ results[c] = Absent THEN Null ELSE results[c]
    BY <1>7 DEF ReaderExit
  <2>2. reader' = "exited" /\ woken' = woken \cup pending /\ UNCHANGED <<pending, pc, corr, outcome>>
    BY <1>7 DEF ReaderExit
  <2>3. \A c \in woken' \cap pending' : results'[c] # Absent
    BY <1>0, <2>1, <2>2, ResultType DEF TypeOK
  <2>4. QED
    BY <1>0, <2>1, <2>2, <2>3, KeptResults DEF ResultsInv
<1>8. CASE Close \/ Receive \/ LinkDown \/ UNCHANGED vars
  <2>1. UNCHANGED <<results, woken, pending, pc, corr, outcome>>
    BY <1>8 DEF Close, Receive, LinkDown, vars
  <2>2. QED
    BY <1>0, <2>1, KeptResults DEF ResultsInv
<1>9. ASSUME NEW c \in Ids, NodeSendsFrame(c) \/ \E n \in 1..MaxChunks : NodeTakesUp(c, n)
      PROVE  ResultsInv'
  <2>1. UNCHANGED <<results, woken, pending, pc, corr, outcome>>
    BY <1>9 DEF NodeSendsFrame, NodeTakesUp
  <2>2. QED
    BY <1>0, <2>1, KeptResults DEF ResultsInv
<1>10. QED
  BY <1>1, <1>2, <1>3, <1>4, <1>5, <1>6, <1>7, <1>8, <1>9 DEF Next, Caller, Reader

-----------------------------------------------------------------------------
(* Nothing is left behind *)

LEMMA NextOrphans ==
    ASSUME Inv, [Next]_vars, ResultsInv'
    PROVE  NoOrphans'
<1> USE DEF callerVars, clientVars, nodeVars, history
<1> DEFINE Held == {corr[t] : t \in {u \in Callers : pc[u] # "idle"}}
           Woken(t) == reader = "exited" /\ pc[t] \in {"send", "waiting"} /\ corr[t] < exit_id
                           => corr[t] \in woken
<1>0. TypeOK /\ IdsInv /\ NoOrphans
  BY DEF Inv
<1>1. \A c \in Ids : results'[c] # Absent => c \in pending'
  BY DEF ResultsInv
<1>2. ASSUME NEW t \in Callers, Begin(t)
      PROVE  pending' \subseteq (Held \cup abandoned)' /\ \A u \in Callers : Woken(u)'
  <2>1. /\ corr'[t] = next_id /\ pc'[t] # "idle" /\ pc[t] = "idle"
        /\ \A u \in Callers \ {t} : corr'[u] = corr[u] /\ pc'[u] = pc[u]
        /\ pending' = pending \cup {next_id}
        /\ UNCHANGED <<reader, woken, exit_id, abandoned>>
    BY <1>0, <1>2 DEF Begin, TypeOK
  <2>2. ~(corr'[t] < exit_id)
    BY <1>0, <2>1 DEF IdsInv, TypeOK
  <2>3. \A u \in Callers : Woken(u)'
    BY <1>0, <2>1, <2>2 DEF NoOrphans
  <2>4. next_id \in Held'
    BY <2>1
  <2>5. Held \subseteq Held'
    BY <2>1
  <2>6. QED
    BY <1>0, <2>1, <2>3, <2>4, <2>5 DEF NoOrphans
<1>3. ASSUME NEW t \in Callers, Caller(t)
      PROVE  pending' \subseteq (Held \cup abandoned)' /\ \A u \in Callers : Woken(u)'
  <2>1. /\ UNCHANGED <<reader, woken, exit_id, corr>>
        /\ \A u \in Callers \ {t} : pc'[u] = pc[u]
        /\ pending' \subseteq pending /\ abandoned \subseteq abandoned'
    BY <1>0, <1>3 DEF Caller, Send, SendFails, Wake, TimeOut, Return, Expire, Take, TypeOK
  <2>2. pc'[t] \in {"send", "waiting"} => pc[t] \in {"send", "waiting"}
    BY <1>0, <1>3 DEF Caller, Send, SendFails, Wake, TimeOut, Return, Expire, TypeOK
  <2>3. pc'[t] = "idle" => corr[t] \in abandoned' \/ corr[t] \notin pending'
    BY <1>0, <1>3 DEF Caller, Send, SendFails, Wake, TimeOut, Return, Expire, Take, TypeOK
  <2>4. \A u \in Callers : Woken(u)'
    BY <1>0, <2>1, <2>2 DEF NoOrphans
  <2>5. \A c \in pending' : c \in Held' \/ c \in abandoned'
    BY <1>0, <2>1, <2>3 DEF NoOrphans
  <2>6. QED
    BY <2>4, <2>5
<1>4. CASE ReaderExit
  <2>1. \A u \in Callers : Woken(u)'
    BY <1>0, <1>4 DEF ReaderExit, IdsInv, InCall
  <2>2. QED
    BY <1>0, <1>4, <2>1 DEF ReaderExit, NoOrphans
<1>5. CASE ReadFrame
  <2>1. woken \subseteq woken' /\ reader = "receiving" /\ reader' = "reading"
    BY <1>5 DEF ReadFrame, Complete
  <2>2. UNCHANGED <<pending, pc, corr, abandoned>>
    BY <1>5 DEF ReadFrame
  <2>3. QED
    BY <1>0, <1>1, <2>1, <2>2 DEF NoOrphans
<1>6. CASE Close \/ Receive \/ LinkDown \/ UNCHANGED vars
  BY <1>0, <1>6 DEF NoOrphans, Close, Receive, LinkDown, vars
<1>7. ASSUME NEW c \in Ids, NodeSendsFrame(c) \/ \E n \in 1..MaxChunks : NodeTakesUp(c, n)
      PROVE  pending' \subseteq (Held \cup abandoned)' /\ \A u \in Callers : Woken(u)'
  BY <1>0, <1>7 DEF NoOrphans, NodeSendsFrame, NodeTakesUp
<1>8. pending' \subseteq (Held \cup abandoned)' /\ \A u \in Callers : Woken(u)'
  BY <1>2, <1>3, <1>4, <1>5, <1>6, <1>7 DEF Next, Reader, NoOrphans
<1>9. QED
  BY <1>1, <1>8 DEF NoOrphans

-----------------------------------------------------------------------------
(* Theorems *)

LEMMA NextInv == Inv /\ [Next]_vars => Inv'
BY NextType, NextIds, NextAsked, NextFrames, NextResults, NextOrphans DEF Inv

LEMMA Invariance == Spec => []Inv
<1>1. Init => Inv
  BY InitInv
<1>2. QED
  BY <1>1, NextInv, PTL DEF Spec

\* Every variable of the bridge client keeps its type, for any number of threads,
\* ids and chunks.
THEOREM TypeCorrect == Spec => []TypeOK
<1>1. Inv => TypeOK
  BY DEF Inv
<1>2. QED
  BY <1>1, Invariance, PTL

\* A call returns its own answer and all of it, or null if the reader is gone
\* (_complete, _on_message, _take).
THEOREM OwnWholeAnswerHolds == Spec => []OwnWholeAnswer
<1>1. Inv => OwnWholeAnswer
  BY DEF Inv, ResultsInv, Good, OwnWholeAnswer
<1>2. QED
  BY <1>1, Invariance, PTL

\* _pending and _results hold nothing of calls that are over, except of those that
\* left by an exception, and the reader's exit wakes all who wait (_read_loop).
THEOREM NoOrphansHolds == Spec => []NoOrphans
<1>1. Inv => NoOrphans
  BY DEF Inv
<1>2. QED
  BY <1>1, Invariance, PTL

=============================================================================
