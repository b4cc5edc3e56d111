------------------------- MODULE ToolRuntimeProofs -------------------------
(***************************************************************************)
(* What is proved of ToolRuntime for any signals, number of attempts and   *)
(* idle window: its types, that the second call of _call_invoke runs no    *)
(* body twice by accident, and that leaving for idleness cuts off nothing  *)
(* young.                                                                  *)
(***************************************************************************)
EXTENDS ToolRuntime, TLAPS

-----------------------------------------------------------------------------
(* The inductive invariant *)

\* While it connects, an attempt is left.
Connecting == pc = "connect" => attempt < attempts

\* Where the worker of signal s is tells how often the body of the tool has
\* begun: never before the first call, and in a second call only if the first
\* one was refused (one argument) or raised a TypeError (the others).
WorkerInv(s) ==
    /\ state[s] \notin {"recall", "done", "cut", "killed"} => runs[s] = 0 /\ result[s] = "none"
    /\ state[s] = "recall" => /\ runs[s] = IF signature = "one" THEN 0 ELSE 1
                              /\ result[s] = "none"
    /\ runs[s] > 1 => signature = "optional"
    /\ result[s] = "mismatch" => runs[s] = 1

RunsInv == \A s \in Signals : WorkerInv(s)

\* No invocation is younger than the last arrival, so that all are old when the
\* loop ends, except those that come in after it; once the bridge is closed none
\* comes in.
AgeInv(s) ==
    /\ AtWork(s) => age[s] >= quiet
    /\ AtWork(s) /\ pc \in {"leave", "closed"} => age[s] = idle_timeout \/ s \in late
    /\ state[s] = "cut" => age[s] = idle_timeout \/ s \in late

IdleInv ==
    /\ pc = "closed" => link # "up"
    /\ \A s \in Signals : AgeInv(s)

Inv == TypeOK /\ Connecting /\ RunsInv /\ IdleInv

-----------------------------------------------------------------------------
(* Types *)

\* What arrives are objects of JSON with their layers, and so is what is left
\* when a signal is over.
LEMMA DataType == Arriving \subseteq Data /\ Nothing \in Data
<1>1. \A a \in {"none", "plain", "addressed", "text"}, i \in BOOLEAN :
         Invoke(a, i) \in Layer /\ Bare(a, i) \in Layer
  BY DEF Invoke, Bare, Layer, Kinds
<1>2. Echo \in Layer /\ Empty \in Layer
  BY DEF Echo, Empty, Layer, Kinds
<1>3. \A o, i, c \in Layer : [outer |-> o, inner |-> i, core |-> c] \in Data
  BY DEF Data
<1>4. Nothing \in Data
  BY <1>2, <1>3 DEF Nothing
<1>5. /\ Invoke("plain", TRUE) \in Layer /\ Invoke("addressed", FALSE) \in Layer
      /\ Bare("plain", TRUE) \in Layer /\ Bare("text", FALSE) \in Layer
      /\ Bare("none", FALSE) \in Layer
  BY <1>1
<1>6. \A d \in Arriving : d \in Data
  BY <1>2, <1>3, <1>4, <1>5 DEF Arriving
<1>7. QED
  BY <1>4, <1>6

\* A signal that is over leaves variables of the declared types.
LEMMA SettlesType ==
    ASSUME TypeOK, NEW s \in Signals, NEW end \in Places, Settles(s, end)
    PROVE  /\ state' \in [Signals -> Places]
           /\ data' \in [Signals -> Data]
           /\ result' \in [Signals -> {"none", "answer", "odd", "mismatch"}]
           /\ runs' \in [Signals -> 0..2]
           /\ age' \in [Signals -> 0..idle_timeout]
           /\ late' \subseteq Signals
<1>1. 0 \in 0..2 /\ 0 \in 0..idle_timeout
  BY ToolRuntimeAssumption
<1>2. Nothing \in Data
  BY DataType
<1>3. QED
  BY <1>1, <1>2 DEF TypeOK, Settles

\* The initial states.
LEMMA InitInv == Init => Inv
<1> SUFFICES ASSUME Init PROVE Inv
  OBVIOUS
<1>1. TypeOK
  <2>1. data \in [Signals -> Data]
    BY DataType DEF Init
  <2>2. 0 \in 0..2 /\ 0 \in 0..idle_timeout /\ 0 \in 0..attempts
    BY ToolRuntimeAssumption
  <2>3. QED
    BY <2>1, <2>2 DEF Init, TypeOK, Places
<1>2. Connecting
  BY ToolRuntimeAssumption DEF Init, Connecting
<1>3. RunsInv /\ IdleInv
  BY DEF Init, RunsInv, WorkerInv, IdleInv, AgeInv, AtWork
<1>4. QED
  BY <1>1, <1>2, <1>3 DEF Inv

\* Every step keeps the types.
LEMMA NextType ==
    ASSUME Inv, [Next]_vars
    PROVE  TypeOK' /\ Connecting'
<1> USE ToolRuntimeAssumption
<1> USE DEF mainVars, time, worker, workerUnchanged
<1>0. TypeOK /\ Connecting
  BY DEF Inv
<1>1. CASE NoGateway
  BY <1>0, <1>1 DEF TypeOK, Connecting, NoGateway
<1>2. CASE ConnectFails
  BY <1>0, <1>2 DEF TypeOK, Connecting, ConnectFails
<1>3. CASE Connect
  BY <1>0, <1>3 DEF TypeOK, Connecting, Connect
<1>4. CASE RunOnceOffline \/ Announce \/ LoopEnds \/ Close
  BY <1>0, <1>4 DEF TypeOK, Connecting, RunOnceOffline, Announce, LoopEnds, Close
<1>5. CASE Register
  BY <1>0, <1>5 DEF TypeOK, Connecting, Register
<1>6. CASE Exit \/ NodeTerminates
  <2>1. PICK fate \in Places : Ends(fate)
    BY <1>6 DEF Exit, NodeTerminates, Places
  <2>2. state' \in [Signals -> Places]
    BY <1>0, <2>1 DEF TypeOK, Ends
  <2>3. QED
    BY <1>0, <2>1, <2>2 DEF TypeOK, Connecting, Ends
<1>7. CASE LinkLost
  BY <1>0, <1>7 DEF TypeOK, Connecting, LinkLost
<1>8. CASE Tick
  <2>1. age' \in [Signals -> 0..idle_timeout] /\ quiet' \in 0..idle_timeout
    BY <1>0, <1>8 DEF TypeOK, Tick
  <2>2. QED
    BY <1>0, <1>8, <2>1 DEF TypeOK, Connecting, Tick
<1>9. ASSUME NEW s \in Signals, Push(s) PROVE TypeOK' /\ Connecting'
  <2>1. data' \in [Signals -> Data]
    BY <1>0, <1>9, DataType DEF TypeOK, Push
  <2>2. state' \in [Signals -> Places]
    BY <1>0, <1>9 DEF TypeOK, Push, Places
  <2>3. QED
    BY <1>0, <1>9, <2>1, <2>2 DEF TypeOK, Connecting, Push
<1>10. ASSUME NEW s \in Signals, Reader(s) PROVE TypeOK' /\ Connecting'
  <2>1. CASE OnSignal(s)
    BY <1>0, <2>1 DEF TypeOK, Connecting, OnSignal, Places
  <2>2. CASE OnSignalIgnores(s) \/ NobodyListens(s)
    <3>1. PICK end \in Places : Settles(s, end)
      BY <2>2 DEF OnSignalIgnores, NobodyListens, Places
    <3>2. QED
      BY <1>0, <2>2, <3>1, SettlesType DEF TypeOK, Connecting, OnSignalIgnores, NobodyListens
  <2>3. QED
    BY <1>10, <2>1, <2>2 DEF Reader
<1>11. ASSUME NEW s \in Signals, Worker(s) PROVE TypeOK' /\ Connecting'
  <2>1. CASE LoadTool(s) \/ CallMismatch(s)
    BY <1>0, <2>1 DEF TypeOK, Connecting, LoadTool, CallMismatch, Goes, Places
  <2>2. CASE FallBack(s) \/ RecallMismatch(s)
    BY <1>0, <2>2 DEF TypeOK, Connecting, FallBack, RecallMismatch, Goes, Places
  <2>3. CASE CallReturns(s) \/ CallRaisesTypeError(s) \/ RecallReturns(s)
    <3>1. runs[s] \in 0..1
      BY <2>3 DEF Inv, RunsInv, WorkerInv, CallReturns, CallRaisesTypeError, RecallReturns
    <3>2. runs' \in [Signals -> 0..2]
      <4>1. Enters(s)
        BY <2>3 DEF CallReturns, CallRaisesTypeError, RecallReturns
      <4>2. runs[s] + 1 \in 0..2
        BY <3>1
      <4>3. QED
        BY <1>0, <4>1, <4>2 DEF TypeOK, Enters
    <3>3. /\ state' \in [Signals -> Places]
          /\ result' \in [Signals -> {"none", "answer", "odd", "mismatch"}]
      BY <1>0, <2>3 DEF TypeOK, CallReturns, CallRaisesTypeError, RecallReturns, Goes, Places
    <3>4. UNCHANGED <<mainVars, signature, data, time, late>>
      BY <2>3 DEF CallReturns, CallRaisesTypeError, RecallReturns
    <3>5. QED
      BY <1>0, <3>2, <3>3, <3>4 DEF TypeOK, Connecting
  <2>4. CASE Reply(s) \/ ReplyRaises(s) \/ NoReply(s)
    <3>1. PICK end \in Places : Settles(s, end)
      BY <2>4 DEF Reply, ReplyRaises, NoReply, Places
    <3>2. QED
      BY <1>0, <2>4, <3>1, SettlesType DEF TypeOK, Connecting, Reply, ReplyRaises, NoReply
  <2>5. QED
    BY <1>11, <2>1, <2>2, <2>3, <2>4 DEF Worker
<1>12. CASE UNCHANGED vars
  BY <1>0, <1>12 DEF TypeOK, Connecting, vars
<1>13. QED
  BY <1>1, <1>2, <1>3, <1>4, <1>5, <1>6, <1>7, <1>8, <1>9, <1>10, <1>11, <1>12
     DEF Next, MainThread

-----------------------------------------------------------------------------
(* The second call *)

\* Every step keeps the count of the calls.
LEMMA NextRuns ==
    ASSUME Inv, [Next]_vars
    PROVE  RunsInv'
<1> USE DEF mainVars, time, worker, workerUnchanged
<1>0. TypeOK /\ RunsInv
  BY DEF Inv
<1>1. CASE UNCHANGED <<signature, state, result, runs>>
  BY <1>0, <1>1 DEF RunsInv, WorkerInv
<1>2. CASE Exit \/ NodeTerminates
  <2>1. PICK fate \in {"cut", "killed"} : Ends(fate)
    BY <1>2 DEF Exit, NodeTerminates
  <2>2. QED
    BY <1>0, <2>1 DEF TypeOK, RunsInv, WorkerInv, Ends, AtWork
<1>3. ASSUME NEW s \in Signals, Push(s) \/ OnSignal(s) PROVE RunsInv'
  BY <1>0, <1>3 DEF TypeOK, RunsInv, WorkerInv, Push, OnSignal
<1>4. ASSUME NEW s \in Signals,
             OnSignalIgnores(s) \/ NobodyListens(s) \/ Reply(s) \/ ReplyRaises(s) \/ NoReply(s)
      PROVE  RunsInv'
  <2>1. PICK end \in {"ignored", "dropped", "replied", "unheard", "unsaid", "silent"} : Settles(s, end)
    BY <1>4 DEF OnSignalIgnores, NobodyListens, Reply, ReplyRaises, NoReply
  <2>2. UNCHANGED signature
    BY <1>4 DEF OnSignalIgnores, NobodyListens, Reply, ReplyRaises, NoReply
  <2>3. QED
    BY <1>0, <2>1, <2>2 DEF TypeOK, RunsInv, WorkerInv, Settles
<1>5. ASSUME NEW s \in Signals, Worker(s), ~Reply(s), ~ReplyRaises(s), ~NoReply(s) PROVE RunsInv'
  <2>1. CASE LoadTool(s)
    BY <1>0, <2>1 DEF TypeOK, RunsInv, WorkerInv, LoadTool, Goes
  <2>2. CASE FallBack(s)
    BY <1>0, <2>2 DEF TypeOK, RunsInv, WorkerInv, FallBack, Goes
  <2>3. CASE CallReturns(s)
    BY <1>0, <2>3 DEF TypeOK, RunsInv, WorkerInv, CallReturns, Enters, Goes
  <2>4. CASE CallMismatch(s)
    BY <1>0, <2>4 DEF TypeOK, RunsInv, WorkerInv, CallMismatch, Goes
  <2>5. CASE CallRaisesTypeError(s)
    BY <1>0, <2>5 DEF TypeOK, RunsInv, WorkerInv, CallRaisesTypeError, Enters, Goes
  <2>6. CASE RecallMismatch(s)
    BY <1>0, <2>6 DEF TypeOK, RunsInv, WorkerInv, RecallMismatch, Goes
  <2>7. CASE RecallReturns(s)
    BY <1>0, <2>7 DEF TypeOK, RunsInv, WorkerInv, RecallReturns, Enters, Goes
  <2>8. QED
    BY <1>5, <2>1, <2>2, <2>3, <2>4, <2>5, <2>6, <2>7 DEF Worker
<1>6. CASE UNCHANGED vars \/ LinkLost \/ Tick \/ (MainThread /\ ~Exit)
  BY <1>1, <1>6 DEF vars, LinkLost, Tick, MainThread, NoGateway, ConnectFails, Connect,
     RunOnceOffline, Register, Announce, LoopEnds, Close
<1>7. QED
  BY <1>2, <1>3, <1>4, <1>5, <1>6 DEF Next, Reader

-----------------------------------------------------------------------------
(* Leaving for idleness *)

\* Every step keeps the ages in order.
LEMMA NextIdle ==
    ASSUME Inv, [Next]_vars
    PROVE  IdleInv'
<1> USE ToolRuntimeAssumption
<1> USE DEF mainVars, time, worker, workerUnchanged
<1>0. TypeOK /\ IdleInv
  BY DEF Inv
<1>1. CASE NoGateway \/ ConnectFails \/ Connect \/ RunOnceOffline \/ Announce
  BY <1>0, <1>1 DEF TypeOK, IdleInv, AgeInv, AtWork, NoGateway, ConnectFails, Connect,
     RunOnceOffline, Announce
<1>2. CASE Register
  BY <1>0, <1>2 DEF TypeOK, IdleInv, AgeInv, AtWork, Register
<1>3. CASE LoopEnds
  BY <1>0, <1>3 DEF TypeOK, IdleInv, AgeInv, AtWork, LoopEnds
<1>4. CASE Close
  BY <1>0, <1>4 DEF TypeOK, IdleInv, AgeInv, AtWork, Close
<1>5. CASE Exit
  BY <1>0, <1>5 DEF TypeOK, IdleInv, AgeInv, AtWork, Exit, Ends
<1>6. CASE NodeTerminates
  BY <1>0, <1>6 DEF TypeOK, IdleInv, AgeInv, AtWork, NodeTerminates, Ends
<1>7. CASE LinkLost
  BY <1>0, <1>7 DEF TypeOK, IdleInv, AgeInv, AtWork, LinkLost
<1>8. CASE Tick
  BY <1>0, <1>8 DEF TypeOK, IdleInv, AgeInv, AtWork, Tick
<1>9. ASSUME NEW s \in Signals, Push(s) PROVE IdleInv'
  BY <1>0, <1>9 DEF TypeOK, IdleInv, AgeInv, AtWork, Push
<1>10. ASSUME NEW s \in Signals, OnSignal(s) PROVE IdleInv'
  BY <1>0, <1>10 DEF TypeOK, IdleInv, AgeInv, AtWork, OnSignal
<1>11. ASSUME NEW s \in Signals,
              OnSignalIgnores(s) \/ NobodyListens(s) \/ Reply(s) \/ ReplyRaises(s) \/ NoReply(s)
       PROVE  IdleInv'
  <2>1. PICK end \in {"ignored", "dropped", "replied", "unheard", "unsaid", "silent"} : Settles(s, end)
    BY <1>11 DEF OnSignalIgnores, NobodyListens, Reply, ReplyRaises, NoReply
  <2>2. UNCHANGED <<mainVars, quiet>>
    BY <1>11 DEF OnSignalIgnores, NobodyListens, Reply, ReplyRaises, NoReply
  <2>3. QED
    BY <1>0, <2>1, <2>2 DEF TypeOK, IdleInv, AgeInv, AtWork, Settles
<1>12. ASSUME NEW s \in Signals, Worker(s), ~Reply(s), ~ReplyRaises(s), ~NoReply(s) PROVE IdleInv'
  <2>1. PICK there \in {"call", "recall", "done"} : Goes(s, there)
    BY <1>12 DEF Worker, LoadTool, FallBack, CallReturns, CallMismatch, CallRaisesTypeError,
       RecallMismatch, RecallReturns
  <2>2. AtWork(s) /\ UNCHANGED <<mainVars, time, late>>
    BY <1>12 DEF Worker, AtWork, LoadTool, FallBack, CallReturns, CallMismatch,
       CallRaisesTypeError, RecallMismatch, RecallReturns
  <2>3. QED
    BY <1>0, <2>1, <2>2 DEF TypeOK, IdleInv, AgeInv, AtWork, Goes
<1>13. CASE UNCHANGED vars
  BY <1>0, <1>13 DEF IdleInv, AgeInv, AtWork, vars
<1>14. QED
  BY <1>1, <1>2, <1>3, <1>4, <1>5, <1>6, <1>7, <1>8, <1>9, <1>10, <1>11, <1>12, <1>13
     DEF Next, MainThread, Reader

-----------------------------------------------------------------------------
(* The theorems *)

\* The invariant holds.
LEMMA Invariant == Spec => []Inv
<1>1. Inv /\ [Next]_vars => Inv'
  BY NextType, NextRuns, NextIdle DEF Inv
<1>2. QED
  BY InitInv, <1>1, PTL DEF Spec

\* Every variable of the runtime keeps its type; no body begins a third time and
\* no more attempts to connect are made than configured.
THEOREM TypeCorrect == Spec => []TypeOK
<1>1. Inv => TypeOK
  BY DEF Inv
<1>2. QED
  BY Invariant, <1>1, PTL

\* The second call of _call_invoke runs a body again only if the tool takes its
\* payload as optional.
THEOREM RunsOnceHolds == Spec => []RunsOnce
<1>1. Inv => RunsOnce
  BY DEF Inv, RunsInv, WorkerInv, RunsOnce
<1>2. QED
  BY Invariant, <1>1, PTL

\* Leaving for idleness cuts off nothing that is younger than the idle window
\* and had come in before the last look at the clock.
THEOREM CutHolds == Spec => []CutOnlyIfOld
<1>1. Inv => CutOnlyIfOld
  BY DEF Inv, IdleInv, AgeInv, CutOnlyIfOld
<1>2. QED
  BY Invariant, <1>1, PTL

=============================================================================
