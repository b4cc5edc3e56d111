-------------------------- MODULE ServeLoopProofs --------------------------
(***************************************************************************)
(* What is proved of the serve loop for any number of tasks, tool calls    *)
(* and events: its types, that a tool call returns its own reply, and that *)
(* the stream of every requester is well formed.                           *)
(***************************************************************************)
EXTENDS ServeLoop, TLAPS

-----------------------------------------------------------------------------
(* The inductive invariant *)

\* Main works on a task, and waits for a tool in it.
Work == {"setup", "run", "signal", "tool", "collect", "expired", "reply"}
InCall == {"signal", "tool", "collect", "expired"}

\* Nothing comes before there is a handler; a tool that is waited for was called;
\* the event is set for a task.
WaitInv ==
    /\ handler = "none" => pc = "listen" /\ inbound = <<>> /\ tools = {}
    /\ pc \in InCall => call # 0
    /\ ev => box # 0

\* A reply is kept under its own id; the tables hold the call under way, and calls
\* whose signal failed.
ToolInv ==
    /\ \A c \in Calls : arrived[c] \in {0, c}
    /\ pc = "run" => used \in {0, call}
    /\ \A c \in Calls : c \in waiters \/ arrived[c] # 0
           => (pc \in InCall /\ c = call) \/ c \in failed

IsTask(i) == inbound[i].kind = "task"

\* The last task is on its way to main, or in the box that main waits on.
Coming == (pc = "waiting" /\ ev) \/ \E i \in DOMAIN inbound : IsTask(i)

\* What main has said: it was delivered, or will be late.
Said == {log[k] : k \in DOMAIN log} \cup late

\* A message is late or delivered, not both; and a result that is late keeps the
\* backend waiting.
LateInv ==
    /\ late \subseteq overdue
    /\ \A k \in DOMAIN log : log[k] \notin late
    /\ \A m \in late : m.kind = "result" => m.task = sent /\ awaiting = sent

\* The backend awaits the last task it sent or none, so one task at most is under
\* way, in one place; nothing of it is said before main works on it, and no result
\* of it before main has replied.
TaskInv ==
    /\ awaiting \in {0, sent}
    /\ \A m \in Said : m.task <= sent
    /\ Coming => awaiting = sent /\ \A m \in Said : m.task < sent
    /\ \A i \in DOMAIN inbound : IsTask(i) =>
           /\ inbound[i].id = sent
           /\ \A j \in DOMAIN inbound : IsTask(j) => j = i
           /\ ~(pc = "waiting" /\ ev) /\ pc \notin Work
    /\ pc = "waiting" /\ ev => box = sent
    /\ pc \in Work => /\ task = sent /\ awaiting = sent
                      /\ \A m \in Said : m.task = task =>
                             pc # "setup" /\ m.kind = "step" /\ m.seq <= events

Inv == TypeOK /\ WaitInv /\ ToolInv /\ LateInv /\ TaskInv /\ StreamWellFormed

-----------------------------------------------------------------------------
(* Types *)

LEMMA InitInv == Init => Inv
<1> SUFFICES ASSUME Init PROVE Inv
  OBVIOUS
<1> USE ServeAssumption
<1>1. TypeOK
  <2>1. /\ box \in 0..MaxTasks /\ task \in 0..MaxTasks /\ events \in 0..MaxEvents
        /\ call \in 0..MaxCalls /\ used \in 0..MaxCalls /\ awaiting \in 0..MaxTasks
        /\ sent \in 0..MaxTasks
    BY DEF Init
  <2>2. arrived \in [Calls -> 0..MaxCalls]
    BY DEF Init
  <2>3. inbound \in Seq(Signal) /\ log \in Seq(Message)
    BY DEF Init
  <2>4. QED
    BY <2>1, <2>2, <2>3 DEF Init, TypeOK
<1>2. WaitInv /\ ToolInv
  BY DEF Init, WaitInv, ToolInv, InCall
<1>3. LateInv /\ TaskInv /\ StreamWellFormed
  BY DEF Init, LateInv, TaskInv, Said, Coming, IsTask, Work, StreamWellFormed
<1>4. QED
  BY <1>1, <1>2, <1>3 DEF Inv

\* The signal that the reader takes next.
LEMMA HeadSignal ==
    ASSUME TypeOK, inbound # <<>>
    PROVE  /\ Head(inbound) \in Signal /\ Tail(inbound) \in Seq(Signal)
           /\ Head(inbound) = inbound[1] /\ 1 \in DOMAIN inbound
           /\ \A i \in DOMAIN Tail(inbound) :
                  i + 1 \in DOMAIN inbound /\ i + 1 # 1 /\ Tail(inbound)[i] = inbound[i + 1]
<1>1. inbound \in Seq(Signal)
  BY DEF TypeOK
<1>2. QED
  BY <1>1

LEMMA SignalType ==
    /\ \A m \in Signal : /\ m.kind = "task" => m.id \in Tasks
                         /\ m.kind = "tools/result" => m.id \in Calls
    /\ \A n \in Tasks : [kind |-> "task", id |-> n] \in Signal
    /\ \A c \in Calls : [kind |-> "tools/result", id |-> c] \in Signal
BY DEF Signal

\* The numbers of tasks and calls.
LEMMA Numbers ==
    ASSUME TypeOK
    PROVE  /\ \A n : n \in Tasks <=> n \in 0..MaxTasks /\ n # 0
           /\ \A c : c \in Calls <=> c \in 0..MaxCalls /\ c # 0
BY ServeAssumption DEF Tasks, Calls

\* A message that main says, however the host call ends.
LEMMA SayType ==
    ASSUME TypeOK, NEW m \in Message, Delivered(m) \/ Delayed(m) \/ Lost
    PROVE  /\ log' \in Seq(Message)
           /\ late' \subseteq Message /\ overdue' \subseteq Message
<1>1. log \in Seq(Message) /\ late \subseteq Message /\ overdue \subseteq Message
  BY DEF TypeOK
<1>2. CASE Delivered(m)
  BY <1>1, <1>2 DEF Delivered
<1>3. CASE Delayed(m)
  BY <1>1, <1>3 DEF Delayed
<1>4. CASE Lost
  BY <1>1, <1>4 DEF Lost, stream
<1>5. QED
  BY <1>2, <1>3, <1>4

LEMMA NextType ==
    ASSUME Inv, [Next]_vars
    PROVE  TypeOK'
<1> USE ServeAssumption
<1> USE DEF mainVars, history, execVars, stream
<1>0. TypeOK /\ WaitInv
  BY DEF Inv
<1>1. CASE Listen
  <2>1. box' \in 0..MaxTasks /\ handler' = "task" /\ pc' = "waiting"
    BY <1>1 DEF Listen
  <2>2. ev' \in BOOLEAN
    BY <1>1 DEF Listen
  <2>3. QED
    BY <1>0, <1>1, <2>1, <2>2 DEF TypeOK, Listen
<1>2. CASE TakeTask
  BY <1>0, <1>2 DEF TypeOK, TakeTask, WaitInv
<1>3. CASE IdleTimeout \/ SetupRaises \/ StartRaises \/ EndRun \/ Acknowledged
  BY <1>0, <1>3 DEF TypeOK, IdleTimeout, SetupRaises, StartRaises, EndRun, Acknowledged
<1>4. CASE StartRun
  <2>1. arrived' \in [Calls -> 0..MaxCalls] /\ used' \in 0..MaxCalls /\ events' \in 0..MaxEvents
    BY <1>0, <1>4 DEF StartRun
  <2>2. QED
    BY <1>0, <1>4, <2>1 DEF TypeOK, StartRun
<1>5. CASE StreamStep
  <2>1. Step(task, events') \in Message /\ events' \in 0..MaxEvents
    <3>1. task \in Tasks /\ events' \in 1..MaxEvents
      <4>1. task \in 0..MaxTasks /\ task # 0 /\ events \in 0..MaxEvents /\ events < MaxEvents
            /\ events' = events + 1
        BY <1>0, <1>5 DEF TypeOK, StreamStep
      <4>2. QED
        BY <4>1 DEF Tasks
    <3>2. QED
      BY <3>1 DEF Message, Step
  <2>2. /\ log' \in Seq(Message) /\ late' \subseteq Message /\ overdue' \subseteq Message
    BY <1>0, <1>5, <2>1, SayType DEF StreamStep
  <2>3. QED
    BY <1>0, <1>5, <2>1, <2>2 DEF TypeOK, StreamStep
<1>6. CASE Invoke
  <2>1. call' \in Calls
    BY <1>0, <1>6 DEF TypeOK, Invoke, Calls
  <2>2. call' \in 0..MaxCalls
    BY <2>1 DEF Calls
  <2>3. QED
    BY <1>0, <1>6, <2>1, <2>2 DEF TypeOK, Invoke
<1>7. CASE InvokeFails
  <2>1. call \in Calls
    BY <1>0, <1>7, Numbers DEF TypeOK, InvokeFails, WaitInv, InCall
  <2>2. QED
    BY <1>0, <1>7, <2>1 DEF TypeOK, InvokeFails
<1>8. CASE ToolAnswered \/ ToolTimesOut
  BY <1>0, <1>8 DEF TypeOK, ToolAnswered, ToolTimesOut
<1>9. CASE Collect
  <2>1. call \in Calls
    BY <1>0, <1>9, Numbers DEF TypeOK, Collect, WaitInv, InCall
  <2>2. arrived' \in [Calls -> 0..MaxCalls] /\ used' \in 0..MaxCalls
    BY <1>0, <1>9, <2>1 DEF TypeOK, Collect
  <2>3. QED
    BY <1>0, <1>9, <2>2 DEF TypeOK, Collect
<1>10. CASE Reply \/ ReplyFails
  <2>1. Result(task) \in Message
    BY <1>0, <1>10, Numbers DEF TypeOK, Reply, ReplyFails, Message, Result
  <2>2. /\ log' \in Seq(Message) /\ late' \subseteq Message /\ overdue' \subseteq Message
    BY <1>0, <1>10, <2>1, SayType DEF Reply, ReplyFails
  <2>3. QED
    BY <1>0, <1>10, <2>2 DEF TypeOK, Reply, ReplyFails
<1>11. CASE NextRound
  BY <1>0, <1>11 DEF TypeOK, NextRound
<1>12. CASE DeliverTask
  <2>1. /\ Head(inbound).id \in Tasks /\ inbound' \in Seq(Signal) /\ handler # "none"
        /\ inbound # <<>>
    BY <1>0, <1>12, HeadSignal, SignalType DEF DeliverTask, WaitInv
  <2>2. Head(inbound).id \in 0..MaxTasks
    BY <2>1 DEF Tasks
  <2>3. ev => box \in Tasks
    BY <1>0, Numbers DEF WaitInv, TypeOK
  <2>4. handler \in {"task", "exec"}
    BY <1>0, <2>1 DEF TypeOK
  <2>5. box' \in 0..MaxTasks /\ ev' \in BOOLEAN
    BY <1>0, <1>12, <2>2 DEF TypeOK, DeliverTask
  <2>6. dropped' \subseteq [task : Tasks, by : {"task", "exec"}]
    <3>1. CASE handler = "task"
      BY <1>0, <1>12, <2>1, <2>3, <3>1 DEF TypeOK, DeliverTask
    <3>2. CASE handler # "task"
      BY <1>0, <1>12, <2>1, <2>4, <3>2 DEF TypeOK, DeliverTask
    <3>3. QED
      BY <3>1, <3>2
  <2>7. QED
    BY <1>0, <1>12, <2>1, <2>5, <2>6 DEF TypeOK, DeliverTask
<1>13. CASE DeliverResult
  <2>1. Head(inbound).id \in Calls /\ inbound' \in Seq(Signal)
    BY <1>0, <1>13, HeadSignal, SignalType DEF DeliverResult
  <2>2. arrived' \in [Calls -> 0..MaxCalls]
    <3>1. Head(inbound).id \in 0..MaxCalls
      BY <2>1 DEF Calls
    <3>2. arrived' = arrived \/ arrived' = [arrived EXCEPT ![Head(inbound).id] = Head(inbound).id]
      BY <1>13 DEF DeliverResult, HandleResult
    <3>3. QED
      BY <1>0, <2>1, <3>1, <3>2 DEF TypeOK
  <2>3. QED
    BY <1>0, <1>13, <2>1, <2>2 DEF TypeOK, DeliverResult
<1>14. CASE BackendSends
  <2>1. sent' \in Tasks /\ awaiting' = sent' /\ sent' \in 0..MaxTasks
    BY <1>0, <1>14 DEF TypeOK, BackendSends, Tasks
  <2>2. [kind |-> "task", id |-> sent'] \in Signal
    BY <2>1, SignalType
  <2>3. inbound' \in Seq(Signal)
    BY <1>0, <1>14, <2>2 DEF TypeOK, BackendSends
  <2>4. QED
    BY <1>0, <1>14, <2>1, <2>3 DEF TypeOK, BackendSends
<1>15. CASE BackendReceives
  BY <1>0, <1>15 DEF TypeOK, BackendReceives
<1>16. ASSUME NEW c \in Calls, ToolReplies(c) PROVE TypeOK'
  <2>1. inbound' \in Seq(Signal)
    BY <1>0, <1>16, SignalType DEF TypeOK, ToolReplies
  <2>2. QED
    BY <1>0, <1>16, <2>1 DEF TypeOK, ToolReplies
<1>17. CASE UNCHANGED vars
  BY <1>0, <1>17 DEF TypeOK, vars
<1>18. ASSUME NEW m \in late, CarriedOutLate(m) PROVE TypeOK'
  <2>1. m \in Message
    BY <1>0 DEF TypeOK
  <2>2. log' \in Seq(Message) /\ late' \subseteq Message
    BY <1>0, <1>18, <2>1 DEF TypeOK, CarriedOutLate
  <2>3. QED
    BY <1>0, <1>18, <2>2 DEF TypeOK, CarriedOutLate
<1>19. QED
  BY <1>1, <1>2, <1>3, <1>4, <1>5, <1>6, <1>7, <1>8, <1>9, <1>10, <1>11, <1>12, <1>13, <1>14,
     <1>15, <1>16, <1>17, <1>18 DEF Next, MainThread, ReaderThread

-----------------------------------------------------------------------------
(* Handlers and tool calls *)

LEMMA NextWait ==
    ASSUME Inv, [Next]_vars
    PROVE  WaitInv'
<1> USE DEF mainVars, history, execVars, stream, InCall
<1>0. TypeOK /\ WaitInv
  BY DEF Inv
<1>1. CASE Listen
  BY <1>0, <1>1 DEF WaitInv, Listen
<1>2. CASE \/ TakeTask \/ IdleTimeout \/ SetupRaises \/ StartRaises \/ EndRun \/ ReplyFails
           \/ Acknowledged \/ ToolAnswered \/ ToolTimesOut \/ Reply \/ NextRound
           \/ StreamStep \/ InvokeFails \/ Collect
  <2>1. /\ UNCHANGED <<handler, inbound, tools, box, ev, call>>
        /\ pc # "listen"
        /\ pc' \in InCall => pc \in InCall
    BY <1>2 DEF TakeTask, IdleTimeout, SetupRaises, StartRaises, EndRun, ReplyFails, Acknowledged,
       ToolAnswered, ToolTimesOut, Reply, NextRound, StreamStep, InvokeFails, Collect
  <2>2. QED
    BY <1>0, <2>1 DEF WaitInv
<1>3. CASE StartRun
  BY <1>0, <1>3 DEF WaitInv, StartRun
<1>4. CASE Invoke
  BY <1>0, <1>4 DEF WaitInv, Invoke, TypeOK
<1>5. CASE DeliverTask
  <2>1. Head(inbound).id # 0 /\ inbound # <<>>
    BY <1>0, <1>5, HeadSignal, SignalType, Numbers DEF DeliverTask
  <2>2. ev' => box' # 0
    BY <1>0, <1>5, <2>1 DEF WaitInv, DeliverTask
  <2>3. UNCHANGED <<pc, handler, call, tools>>
    BY <1>5 DEF DeliverTask
  <2>4. QED
    BY <1>0, <2>1, <2>2, <2>3 DEF WaitInv
<1>6. CASE DeliverResult
  BY <1>0, <1>6 DEF WaitInv, DeliverResult
<1>7. CASE BackendSends \/ BackendReceives \/ UNCHANGED vars
  BY <1>0, <1>7 DEF WaitInv, BackendSends, BackendReceives, vars
<1>8. ASSUME NEW c \in Calls, ToolReplies(c) PROVE WaitInv'
  BY <1>0, <1>8 DEF WaitInv, ToolReplies
<1>9. ASSUME NEW m \in late, CarriedOutLate(m) PROVE WaitInv'
  BY <1>0, <1>9 DEF WaitInv, CarriedOutLate
<1>10. QED
  BY <1>1, <1>2, <1>3, <1>4, <1>5, <1>6, <1>7, <1>8, <1>9 DEF Next, MainThread, ReaderThread

LEMMA NextTool ==
    ASSUME Inv, [Next]_vars
    PROVE  ToolInv'
<1> USE DEF mainVars, history, execVars, stream, InCall
<1>0. TypeOK /\ WaitInv /\ ToolInv
  BY DEF Inv
<1>1. CASE \/ Listen \/ TakeTask \/ IdleTimeout \/ SetupRaises \/ StartRaises
           \/ StreamStep \/ EndRun \/ Reply \/ ReplyFails \/ NextRound
           \/ DeliverTask \/ BackendSends \/ BackendReceives
  <2>1. /\ UNCHANGED <<call, waiters, arrived, used, failed>>
        /\ pc' = "run" => pc = "run"
        /\ pc' \in InCall <=> pc \in InCall
    BY <1>1 DEF Listen, TakeTask, IdleTimeout, SetupRaises, StartRaises, StreamStep, EndRun, Reply,
       ReplyFails, NextRound, DeliverTask, BackendSends, BackendReceives
  <2>2. QED
    BY <1>0, <2>1 DEF ToolInv
<1>2. CASE StartRun
  BY <1>0, <1>2 DEF ToolInv, StartRun
<1>3. CASE Invoke
  <2>1. UNCHANGED <<arrived, failed>> /\ waiters' = waiters \cup {call'} /\ pc = "run" /\ pc' = "signal"
    BY <1>3 DEF Invoke
  <2>2. QED
    BY <1>0, <2>1 DEF ToolInv
<1>4. CASE Acknowledged \/ ToolAnswered \/ ToolTimesOut
  <2>1. UNCHANGED <<call, waiters, arrived, failed>> /\ pc \in InCall /\ pc' \in InCall
    BY <1>4 DEF Acknowledged, ToolAnswered, ToolTimesOut
  <2>2. QED
    BY <1>0, <2>1 DEF ToolInv
<1>5. CASE InvokeFails
  BY <1>0, <1>5 DEF ToolInv, InvokeFails
<1>6. CASE Collect
  <2>1. call \in Calls
    BY <1>0, <1>6, Numbers DEF TypeOK, Collect, WaitInv
  <2>2. /\ UNCHANGED <<call, failed>> /\ pc' = "run"
        /\ waiters' = waiters \ {call}
        /\ \A c \in Calls : arrived'[c] = IF c = call THEN 0 ELSE arrived[c]
        /\ used' \in {0, arrived[call]}
    BY <1>0, <1>6, <2>1 DEF Collect, TypeOK
  <2>3. QED
    BY <1>0, <2>1, <2>2 DEF ToolInv
<1>7. CASE DeliverResult
  <2> DEFINE n == Head(inbound).id
  <2>1. n \in Calls
    BY <1>0, <1>7, HeadSignal, SignalType DEF DeliverResult
  <2>2. \A c \in Calls : arrived'[c] = arrived[c] \/ (c = n /\ c \in waiters /\ arrived'[c] = n)
    BY <1>0, <1>7, <2>1 DEF DeliverResult, HandleResult, TypeOK
  <2>3. UNCHANGED <<pc, call, waiters, used, failed>>
    BY <1>7 DEF DeliverResult
  <2>4. QED
    BY <1>0, <2>2, <2>3 DEF ToolInv
<1>8. ASSUME NEW c \in Calls, ToolReplies(c) PROVE ToolInv'
  BY <1>0, <1>8 DEF ToolInv, ToolReplies
<1>9. CASE UNCHANGED vars
  BY <1>0, <1>9 DEF ToolInv, vars
<1>10. ASSUME NEW m \in late, CarriedOutLate(m) PROVE ToolInv'
  BY <1>0, <1>10 DEF ToolInv, CarriedOutLate
<1>11. QED
  BY <1>1, <1>2, <1>3, <1>4, <1>5, <1>6, <1>7, <1>8, <1>9, <1>10 DEF Next, MainThread, ReaderThread

-----------------------------------------------------------------------------
(* Tasks and the stream *)

\* What is appended to the stream comes last.
LEMMA LogAppend ==
    ASSUME TypeOK, NEW m \in Message, log' = Append(log, m)
    PROVE  /\ DOMAIN log = 1..Len(log) /\ DOMAIN log' = 1..(Len(log) + 1) /\ Len(log) \in Nat
           /\ \A k \in DOMAIN log : log'[k] = log[k] /\ log[k] \in Message
           /\ log'[Len(log) + 1] = m
           /\ \A k \in DOMAIN log' : k \in DOMAIN log \/ k = Len(log) + 1
<1>1. log \in Seq(Message)
  BY DEF TypeOK
<1>2. QED
  BY <1>1

\* A message that is appended leaves the stream well formed if it is a new one, in
\* its place or late.
LEMMA StreamAppend ==
    ASSUME TypeOK, StreamWellFormed, NEW m \in Message,
           log' = Append(log, m), overdue \subseteq overdue',
           \A k \in DOMAIN log : /\ log[k] # m
                                 /\ SaidBefore(log[k], m) \/ m \in overdue'
                                 /\ m.kind = "result" => log[k].task <= m.task
    PROVE  StreamWellFormed'
<1>1. /\ DOMAIN log = 1..Len(log) /\ DOMAIN log' = 1..(Len(log) + 1) /\ Len(log) \in Nat
      /\ \A k \in DOMAIN log : log'[k] = log[k]
      /\ log'[Len(log) + 1] = m
      /\ \A k \in DOMAIN log' : k \in DOMAIN log \/ k = Len(log) + 1
  BY LogAppend
<1> SUFFICES ASSUME NEW i \in DOMAIN log', NEW j \in DOMAIN log', i < j
             PROVE  /\ log'[i] # log'[j]
                    /\ SaidBefore(log'[i], log'[j]) \/ log'[j] \in overdue'
                    /\ log'[j].kind = "result" => log'[i].task <= log'[j].task
  BY DEF StreamWellFormed, SaidBefore
<1>2. i \in DOMAIN log /\ log'[i] = log[i]
  BY <1>1
<1>3. CASE j \in DOMAIN log
  <2>1. log'[j] = log[j]
    BY <1>1, <1>3
  <2>2. QED
    BY <1>2, <1>3, <2>1 DEF StreamWellFormed
<1>4. CASE j = Len(log) + 1
  <2>1. log'[i] = log[i] /\ log'[j] = m
    BY <1>1, <1>2, <1>4
  <2>2. QED
    BY <1>2, <2>1 DEF SaidBefore
<1>5. QED
  BY <1>1, <1>3, <1>4

\* Main says something new while it works on a task.
LEMMA SayInv ==
    ASSUME Inv, pc \in Work, NEW m \in Message, m.task = task, m \notin Said,
           Delivered(m) \/ Delayed(m),
           \A n \in Said : n.task = task => SaidBefore(n, m),
           events' \in Nat, events <= events',
           m.kind = "step" => pc' = "run" /\ m.seq <= events',
           m.kind = "result" => pc' = "replied",
           UNCHANGED <<task, inbound, awaiting, sent>>
    PROVE  LateInv' /\ TaskInv' /\ StreamWellFormed'
<1>0. TypeOK /\ LateInv /\ TaskInv /\ StreamWellFormed
  BY DEF Inv
<1>1. task = sent /\ awaiting = sent /\ task \in Nat /\ events \in Nat
      /\ \A n \in Said : n.task = task => n.kind = "step" /\ n.seq <= events
  BY <1>0, ServeAssumption DEF TaskInv, TypeOK
<1>2. /\ DOMAIN log \subseteq DOMAIN log' /\ \A k \in DOMAIN log : log'[k] = log[k] /\ log[k] \in Message
      /\ Said' = Said \cup {m}
      /\ Delivered(m) => \A k \in DOMAIN log' : log'[k] = m \/ k \in DOMAIN log
  <2>1. CASE Delivered(m)
    <3>1. log' = Append(log, m) /\ late' = late
      BY <2>1 DEF Delivered
    <3>2. /\ DOMAIN log = 1..Len(log) /\ DOMAIN log' = 1..(Len(log) + 1) /\ Len(log) \in Nat
          /\ \A k \in DOMAIN log : log'[k] = log[k] /\ log[k] \in Message
          /\ log'[Len(log) + 1] = m
          /\ \A k \in DOMAIN log' : k \in DOMAIN log \/ k = Len(log) + 1
      BY <1>0, <3>1, LogAppend
    <3>3. {log'[k] : k \in DOMAIN log'} = {log[k] : k \in DOMAIN log} \cup {m}
      BY <3>2
    <3>4. DOMAIN log \subseteq DOMAIN log'
      BY <3>2
    <3>5. QED
      BY <3>1, <3>2, <3>3, <3>4 DEF Said
  <2>2. CASE Delayed(m)
    <3>1. log' = log /\ late' = late \cup {m}
      BY <2>2 DEF Delayed
    <3>2. \A k \in DOMAIN log : log[k] \in Message
      BY <1>0 DEF TypeOK
    <3>3. Delivered(m) => \A k \in DOMAIN log' : log'[k] = m \/ k \in DOMAIN log
      BY <3>1
    <3>4. Said' = Said \cup {m}
      BY <3>1 DEF Said
    <3>5. QED
      BY <3>1, <3>2, <3>3, <3>4
  <2>3. QED
    BY <2>1, <2>2
<1>3. \A k \in DOMAIN log : log[k] \in Said
  BY DEF Said
<1>4. LateInv'
  <2>1. late' \subseteq overdue'
    BY <1>0 DEF LateInv, Delivered, Delayed
  <2>2. \A k \in DOMAIN log' : log'[k] \notin late'
    <3>1. CASE Delivered(m)
      <4>1. late' = late /\ m \notin late
        BY <3>1 DEF Delivered, Said
      <4>2. QED
        BY <1>0, <1>2, <3>1, <4>1 DEF LateInv
    <3>2. CASE Delayed(m)
      <4>1. late' = late \cup {m} /\ log' = log
        BY <3>2 DEF Delayed
      <4>2. QED
        BY <1>0, <1>3, <4>1 DEF LateInv
    <3>3. QED
      BY <3>1, <3>2
  <2>3. \A n \in late' : n \in late \/ n = m
    BY DEF Delivered, Delayed
  <2>4. QED
    BY <1>0, <1>1, <2>1, <2>2, <2>3 DEF LateInv
<1>5. TaskInv'
  <2>1. \A i \in DOMAIN inbound' : ~IsTask(i)'
    BY <1>0 DEF TaskInv, IsTask
  <2>2. pc' # "waiting"
    BY DEF Message
  <2>3. ~Coming'
    BY <2>1, <2>2 DEF Coming
  <2>4. \A n \in Said' : n.task <= sent'
    BY <1>0, <1>1, <1>2 DEF TaskInv
  <2>5. pc' \in Work => \A n \in Said' : n.task = task' =>
            pc' # "setup" /\ n.kind = "step" /\ n.seq <= events'
    <3>1. pc' \in Work => m.kind = "step" /\ pc' = "run"
      BY DEF Message, Work
    <3>2. \A n \in Said : n.task = task => n.kind = "step" /\ n.seq \in Nat /\ n.seq <= events
      <4>1. Said \subseteq Message
        BY <1>0, <1>2 DEF Said, TypeOK
      <4>2. QED
        BY <1>1, <4>1, ServeAssumption DEF Message
    <3>4. QED
      BY <1>1, <1>2, <3>1, <3>2
  <2>6. QED
    BY <1>1, <2>1, <2>2, <2>3, <2>4, <2>5 DEF TaskInv
<1>6. StreamWellFormed'
  <2>1. CASE Delivered(m)
    <3>1. \A k \in DOMAIN log : /\ log[k] # m
                                /\ SaidBefore(log[k], m)
                                /\ log[k].task <= m.task
      <4> SUFFICES ASSUME NEW k \in DOMAIN log
                   PROVE  /\ log[k] # m /\ SaidBefore(log[k], m) /\ log[k].task <= m.task
        OBVIOUS
      <4>1. log[k] # m /\ log[k].task <= sent /\ log[k].task \in Int
        BY <1>0, <1>2, <1>3 DEF TaskInv, Message, Tasks
      <4>2. CASE log[k].task = task
        BY <1>1, <1>3, <4>1, <4>2
      <4>3. CASE log[k].task # task
        BY <1>1, <4>1, <4>3 DEF SaidBefore
      <4>4. QED
        BY <4>2, <4>3
    <3>2. log' = Append(log, m) /\ overdue' = overdue
      BY <2>1 DEF Delivered
    <3>3. QED
      BY <1>0, <3>1, <3>2, StreamAppend
  <2>2. CASE Delayed(m)
    BY <1>0, <2>2 DEF Delayed, StreamWellFormed, SaidBefore
  <2>3. QED
    BY <2>1, <2>2
<1>7. QED
  BY <1>4, <1>5, <1>6

LEMMA NextTask ==
    ASSUME Inv, [Next]_vars
    PROVE  LateInv' /\ TaskInv' /\ StreamWellFormed'
<1> USE DEF mainVars, history, execVars
<1>0. TypeOK /\ WaitInv /\ LateInv /\ TaskInv /\ StreamWellFormed
  BY DEF Inv
<1>1. UNCHANGED stream => StreamWellFormed' /\ Said' = Said
  BY <1>0 DEF StreamWellFormed, SaidBefore, Said, stream
<1>2. UNCHANGED <<stream, awaiting, sent>> => LateInv'
  BY <1>0 DEF LateInv, stream
<1>10. CASE StreamStep /\ ~Lost
  <2> DEFINE m == Step(task, events')
  <2>1. /\ pc = "run" /\ pc' = "run" /\ events \in Nat /\ events' = events + 1
        /\ UNCHANGED <<task, inbound, awaiting, sent>>
        /\ Delivered(m) \/ Delayed(m)
    BY <1>0, <1>10, ServeAssumption DEF StreamStep, TypeOK
  <2>2. m \in Message
    <3>1. task \in Tasks /\ events' \in 1..MaxEvents
      <4>1. task \in 0..MaxTasks /\ task # 0 /\ events \in 0..MaxEvents /\ events < MaxEvents
            /\ events' = events + 1
        BY <1>0, <1>10 DEF TypeOK, StreamStep
      <4>2. QED
        BY <4>1, ServeAssumption DEF Tasks
    <3>2. QED
      BY <3>1 DEF Message, Step
  <2>3. m.task = task /\ m.kind = "step" /\ m.seq = events + 1
    BY <2>1 DEF Step
  <2>4. \A n \in Said : n.task = task => n.kind = "step" /\ n.seq <= events /\ n.seq \in Nat
    <3>1. \A n \in Said : n.task = task => n.kind = "step" /\ n.seq <= events
      BY <1>0, <2>1 DEF TaskInv, Work
    <3>2. Said \subseteq Message
      BY <1>0 DEF TypeOK, Said
    <3>3. QED
      BY <3>1, <3>2, ServeAssumption DEF Message
  <2>5. m \notin Said /\ \A n \in Said : n.task = task => SaidBefore(n, m)
    BY <2>1, <2>3, <2>4 DEF SaidBefore
  <2>6. pc \in Work /\ events <= events' /\ events' \in Nat /\ m.seq <= events'
    BY <2>1, <2>3 DEF Work
  <2>7. QED
    BY <2>1, <2>2, <2>3, <2>5, <2>6, SayInv DEF SaidBefore, Delivered, Delayed
<1>11. CASE Reply \/ (ReplyFails /\ ~Lost)
  <2> DEFINE m == Result(task)
  <2>1. /\ pc = "reply" /\ pc' = "replied" /\ events \in Nat /\ events' = events
        /\ UNCHANGED <<task, inbound, awaiting, sent>>
        /\ Delivered(m) \/ Delayed(m)
    BY <1>0, <1>11, ServeAssumption DEF Reply, ReplyFails, TypeOK
  <2>2. m \in Message
    BY <1>0, <2>1, Numbers DEF TypeOK, Message, Result
  <2>3. m.task = task /\ m.kind = "result"
    BY DEF Result
  <2>4. \A n \in Said : n.task = task => n.kind = "step"
    BY <1>0, <2>1 DEF TaskInv, Work
  <2>5. m \notin Said /\ \A n \in Said : n.task = task => SaidBefore(n, m)
    BY <2>3, <2>4 DEF SaidBefore
  <2>6. pc \in Work /\ events <= events' /\ events' \in Nat
    BY <2>1 DEF Work
  <2>7. QED
    BY <2>1, <2>2, <2>3, <2>5, <2>6, SayInv DEF SaidBefore, Delivered, Delayed
<1>12. CASE StreamStep /\ Lost
  <2>1. /\ UNCHANGED <<pc, box, ev, task, inbound, awaiting, sent, stream>>
        /\ pc = "run" /\ events \in Nat /\ events' = events + 1
    BY <1>0, <1>12, ServeAssumption DEF StreamStep, Lost, TypeOK
  <2>2. ~Coming' /\ \A i \in DOMAIN inbound' : ~IsTask(i)'
    BY <1>0, <2>1 DEF TaskInv, Coming, IsTask, Work
  <2>3. \A n \in Said : n.task = task => n.kind = "step" /\ n.seq <= events /\ n.seq \in Nat
    <3>1. \A n \in Said : n.task = task => n.kind = "step" /\ n.seq <= events
      BY <1>0, <2>1 DEF TaskInv, Work
    <3>2. Said \subseteq Message
      BY <1>0 DEF TypeOK, Said
    <3>3. QED
      BY <3>1, <3>2, ServeAssumption DEF Message
  <2>4. TaskInv'
    <3>1. \A n \in Said' : n.task = task' => pc' # "setup" /\ n.kind = "step" /\ n.seq <= events'
      BY <1>1, <2>1, <2>3
    <3>2. task' = sent' /\ awaiting' = sent' /\ pc' # "waiting"
      BY <1>0, <2>1 DEF TaskInv, Work
    <3>3. \A n \in Said' : n.task <= sent'
      BY <1>0, <1>1, <2>1 DEF TaskInv
    <3>4. QED
      BY <2>2, <3>1, <3>2, <3>3 DEF TaskInv
  <2>5. QED
    BY <1>1, <1>2, <2>1, <2>4
<1>13. ASSUME NEW m \in late, CarriedOutLate(m) PROVE LateInv' /\ TaskInv' /\ StreamWellFormed'
  <2>1. /\ log' = Append(log, m) /\ late' = late \ {m} /\ m \in Message
        /\ UNCHANGED <<pc, box, ev, task, events, inbound, awaiting, sent, overdue>>
    BY <1>0, <1>13 DEF CarriedOutLate, TypeOK
  <2>2. /\ DOMAIN log = 1..Len(log) /\ DOMAIN log' = 1..(Len(log) + 1) /\ Len(log) \in Nat
        /\ \A k \in DOMAIN log : log'[k] = log[k] /\ log[k] \in Message
        /\ log'[Len(log) + 1] = m
        /\ \A k \in DOMAIN log' : k \in DOMAIN log \/ k = Len(log) + 1
    BY <1>0, <2>1, LogAppend
  <2>3. Said' = Said
    <3>1. {log'[k] : k \in DOMAIN log'} = {log[k] : k \in DOMAIN log} \cup {m}
      BY <2>2
    <3>2. QED
      BY <2>1, <3>1 DEF Said
  <2>4. LateInv'
    <3>1. \A k \in DOMAIN log' : log'[k] \notin late'
      BY <1>0, <2>1, <2>2 DEF LateInv
    <3>2. QED
      BY <1>0, <2>1, <3>1 DEF LateInv
  <2>5. TaskInv'
    BY <1>0, <2>1, <2>3 DEF TaskInv, Coming, IsTask
  <2>6. \A k \in DOMAIN log : log[k] # m /\ m \in overdue' /\ (m.kind = "result" => log[k].task <= m.task)
    <3>1. \A k \in DOMAIN log : log[k].task <= sent /\ log[k] # m
      BY <1>0, <2>1 DEF TaskInv, LateInv, Said
    <3>2. m \in overdue' /\ (m.kind = "result" => m.task = sent)
      BY <1>0, <2>1 DEF LateInv
    <3>3. QED
      BY <3>1, <3>2
  <2>7. StreamWellFormed'
    BY <1>0, <2>1, <2>6, StreamAppend
  <2>8. QED
    BY <2>4, <2>5, <2>7
<1>3. CASE \/ Listen \/ IdleTimeout \/ SetupRaises \/ StartRun \/ StartRaises \/ Invoke
           \/ Acknowledged \/ InvokeFails \/ ToolAnswered \/ ToolTimesOut \/ Collect \/ EndRun
           \/ (ReplyFails /\ Lost) \/ NextRound
  <2>1. /\ UNCHANGED <<inbound, stream, awaiting, sent>>
        /\ ~(pc' = "waiting" /\ ev')
        /\ pc' \in Work => pc \in Work /\ task' = task /\ pc' # "setup"
                           /\ (events' = events \/ pc = "setup")
    BY <1>3 DEF Listen, IdleTimeout, SetupRaises, StartRun, StartRaises, Invoke, Acknowledged,
       InvokeFails, ToolAnswered, ToolTimesOut, Collect, EndRun, ReplyFails, Lost, NextRound, Work
  <2>2. Coming' => Coming
    BY <2>1 DEF Coming, IsTask
  <2>3. TaskInv'
    BY <1>0, <1>1, <2>1, <2>2 DEF TaskInv, IsTask
  <2>4. QED
    BY <1>1, <1>2, <2>1, <2>3
<1>4. CASE TakeTask
  <2>1. /\ Coming /\ awaiting = sent /\ box = sent /\ task' = box /\ pc' = "setup"
        /\ \A m \in Said : m.task < sent
        /\ UNCHANGED <<inbound, stream, awaiting, sent>>
    BY <1>0, <1>4 DEF TakeTask, TaskInv, Coming
  <2>2. \A i \in DOMAIN inbound : ~IsTask(i)
    BY <1>0, <1>4 DEF TakeTask, TaskInv
  <2>3. \A m \in Said : m.task # sent
    <3>1. sent \in Nat
      BY <1>0 DEF TypeOK
    <3>2. QED
      BY <2>1, <3>1
  <2>4. TaskInv'
    BY <1>0, <1>1, <2>1, <2>2, <2>3 DEF TaskInv, Coming, IsTask
  <2>5. QED
    BY <1>1, <1>2, <2>1, <2>4
<1>5. CASE DeliverTask \/ DeliverResult
  <2>1. /\ inbound # <<>> /\ inbound' = Tail(inbound)
        /\ UNCHANGED <<pc, task, events, stream, awaiting, sent>>
        /\ \A i \in DOMAIN inbound' : i + 1 \in DOMAIN inbound /\ i + 1 # 1 /\ inbound'[i] = inbound[i + 1]
        /\ 1 \in DOMAIN inbound /\ Head(inbound) = inbound[1]
    BY <1>0, <1>5, HeadSignal DEF DeliverTask, DeliverResult
  <2>2. \A i \in DOMAIN inbound' : IsTask(i)' <=> IsTask(i + 1)
    BY <2>1 DEF IsTask
  <2>3. CASE DeliverTask
    <3>1. IsTask(1) /\ inbound[1].id = sent /\ Coming
      BY <1>0, <2>1, <2>3 DEF DeliverTask, IsTask, TaskInv, Coming
    <3>2. \A i \in DOMAIN inbound' : ~IsTask(i)'
      BY <1>0, <2>1, <2>2, <3>1 DEF TaskInv
    <3>3. pc' = "waiting" /\ ev' => box' = sent
      <4>1. ~(pc = "waiting" /\ ev)
        BY <1>0, <2>1, <3>1 DEF TaskInv
      <4>2. QED
        BY <2>1, <2>3, <3>1, <4>1 DEF DeliverTask
    <3>4. TaskInv'
      BY <1>0, <1>1, <2>1, <3>1, <3>2, <3>3 DEF TaskInv, Coming
    <3>5. QED
      BY <1>1, <1>2, <2>1, <3>4
  <2>4. CASE DeliverResult
    <3>1. UNCHANGED <<box, ev>>
      BY <2>4 DEF DeliverResult
    <3>2. Coming' => Coming
      BY <2>1, <2>2, <3>1 DEF Coming
    <3>3. \A i \in DOMAIN inbound' : IsTask(i)' =>
           /\ inbound'[i].id = sent
           /\ \A j \in DOMAIN inbound' : IsTask(j)' => j = i
           /\ ~(pc = "waiting" /\ ev) /\ pc \notin Work
      <4> SUFFICES ASSUME NEW i \in DOMAIN inbound', IsTask(i)'
                   PROVE  /\ inbound'[i].id = sent
                          /\ \A j \in DOMAIN inbound' : IsTask(j)' => j = i
                          /\ ~(pc = "waiting" /\ ev) /\ pc \notin Work
        OBVIOUS
      <4>1. IsTask(i + 1) /\ i + 1 \in DOMAIN inbound
        BY <2>1, <2>2
      <4>2. inbound'[i].id = sent /\ ~(pc = "waiting" /\ ev) /\ pc \notin Work
        BY <1>0, <2>1, <4>1 DEF TaskInv
      <4>3. \A j \in DOMAIN inbound' : IsTask(j)' => j + 1 = i + 1
        BY <1>0, <2>1, <2>2, <4>1 DEF TaskInv
      <4>4. \A j \in DOMAIN inbound' : j \in Int
        <5>1. inbound' \in Seq(Signal)
          BY <1>0, <2>1, HeadSignal
        <5>2. QED
          BY <5>1
      <4>5. QED
        BY <4>2, <4>3, <4>4
    <3>4. TaskInv'
      BY <1>0, <1>1, <2>1, <3>1, <3>2, <3>3 DEF TaskInv
    <3>5. QED
      BY <1>1, <1>2, <2>1, <3>4
  <2>5. QED
    BY <1>5, <2>3, <2>4
<1>6. CASE BackendSends
  <2> DEFINE m == [kind |-> "task", id |-> sent']
  <2>1. /\ sent \in Nat /\ sent' = sent + 1 /\ awaiting' = sent' /\ awaiting = 0
        /\ inbound' = Append(inbound, m) /\ inbound \in Seq(Signal) /\ m \in Signal
        /\ UNCHANGED <<pc, box, ev, task, events, stream>>
    <3>1. sent \in Nat /\ sent' = sent + 1 /\ sent' \in Tasks
      BY <1>0, <1>6, ServeAssumption DEF BackendSends, TypeOK, Tasks
    <3>2. m \in Signal
      BY <3>1, SignalType
    <3>3. QED
      BY <1>0, <1>6, <3>1, <3>2 DEF BackendSends, TypeOK
  <2>2. ~Coming /\ pc \notin Work
    <3>1. pc \in Work => FALSE
      BY <1>0, <2>1 DEF TaskInv, TypeOK, Work
    <3>2. Coming => FALSE
      <4>1. SUFFICES ASSUME Coming PROVE FALSE
        OBVIOUS
      <4>2. sent = 0
        BY <1>0, <2>1, <4>1 DEF TaskInv
      <4>3. CASE pc = "waiting" /\ ev
        BY <1>0, <4>2, <4>3 DEF TaskInv, WaitInv
      <4>4. CASE \E i \in DOMAIN inbound : IsTask(i)
        <5>1. PICK i \in DOMAIN inbound : IsTask(i)
          BY <4>4
        <5>2. inbound[i] \in Signal
          BY <2>1
        <5>3. inbound[i].id # 0
          BY <1>0, <5>1, <5>2, SignalType, Numbers DEF IsTask
        <5>4. QED
          BY <1>0, <4>2, <5>1, <5>3 DEF TaskInv
      <4>5. QED
        BY <4>1, <4>3, <4>4 DEF Coming
    <3>3. QED
      BY <3>1, <3>2
  <2>3. /\ DOMAIN inbound' = 1..(Len(inbound) + 1) /\ DOMAIN inbound = 1..Len(inbound)
        /\ \A i \in DOMAIN inbound : inbound'[i] = inbound[i]
        /\ inbound'[Len(inbound) + 1] = m
    BY <2>1
  <2>4. \A i \in DOMAIN inbound' : IsTask(i)' => i = Len(inbound) + 1
    BY <2>2, <2>3 DEF Coming, IsTask
  <2>5. Said \subseteq Message /\ \A n \in Said : n.task \in Nat /\ n.task # 0
    <3>1. Said \subseteq Message
      BY <1>0 DEF TypeOK, Said
    <3>2. QED
      BY <3>1 DEF Message, Tasks
  <2>6. \A n \in Said : n.task < sent' /\ n.task <= sent'
    BY <1>0, <2>1, <2>5 DEF TaskInv
  <2>7. ~(pc = "waiting" /\ ev)
    BY <2>2 DEF Coming
  <2>8. \A i \in DOMAIN inbound' : IsTask(i)' =>
           /\ inbound'[i].id = sent'
           /\ \A j \in DOMAIN inbound' : IsTask(j)' => j = i
    BY <2>3, <2>4
  <2>9. TaskInv'
    BY <1>1, <2>1, <2>2, <2>6, <2>7, <2>8 DEF TaskInv
  <2>10. LateInv'
    <3>1. \A n \in late : n.kind # "result"
      BY <1>0, <2>1, <2>5 DEF LateInv, Said
    <3>2. QED
      BY <1>0, <2>1, <3>1 DEF LateInv, stream
  <2>11. QED
    BY <1>1, <2>1, <2>9, <2>10
<1>7. CASE BackendReceives
  <2>1. /\ UNCHANGED <<pc, box, ev, task, events, inbound, sent, stream>> /\ awaiting' = 0
        /\ awaiting # 0 /\ \E k \in DOMAIN log : log[k] = Result(awaiting)
    BY <1>7 DEF BackendReceives
  <2>2. awaiting = sent /\ sent \in Nat
    BY <1>0, <2>1 DEF TaskInv, TypeOK
  <2>3. PICK k \in DOMAIN log : log[k] = Result(sent)
    BY <2>1, <2>2
  <2>4. log[k] \in Said /\ log[k].kind = "result" /\ log[k].task = sent /\ Result(sent) \notin late
    BY <1>0, <2>3 DEF Said, Result, LateInv
  <2>5. ~Coming /\ pc \notin Work
    BY <1>0, <2>2, <2>4 DEF TaskInv
  <2>6. TaskInv'
    BY <1>0, <1>1, <2>1, <2>5 DEF TaskInv, Coming, IsTask
  <2>7. \A m \in late : m.kind # "result"
    <3> SUFFICES ASSUME NEW m \in late, m.kind = "result" PROVE FALSE
      OBVIOUS
    <3>1. m.task = sent /\ m \in Message
      BY <1>0 DEF LateInv, TypeOK
    <3>2. m = Result(sent)
      BY <3>1 DEF Message, Result
    <3>3. QED
      BY <2>4, <3>2
  <2>8. LateInv'
    BY <1>0, <2>1, <2>7 DEF LateInv, stream
  <2>9. QED
    BY <1>1, <2>1, <2>6, <2>8
<1>8. ASSUME NEW c \in Calls, ToolReplies(c) PROVE LateInv' /\ TaskInv' /\ StreamWellFormed'
  <2> DEFINE m == [kind |-> "tools/result", id |-> c]
  <2>1. /\ inbound' = Append(inbound, m) /\ inbound \in Seq(Signal) /\ m \in Signal
        /\ UNCHANGED <<pc, box, ev, task, events, stream, awaiting, sent>>
    BY <1>0, <1>8, SignalType DEF ToolReplies, TypeOK
  <2>2. /\ DOMAIN inbound' = 1..(Len(inbound) + 1) /\ DOMAIN inbound = 1..Len(inbound)
        /\ \A i \in DOMAIN inbound : inbound'[i] = inbound[i]
        /\ inbound'[Len(inbound) + 1] = m
    BY <2>1
  <2>3. \A i \in DOMAIN inbound' : IsTask(i)' => i \in DOMAIN inbound /\ IsTask(i)
    BY <2>2 DEF IsTask
  <2>4. TaskInv'
    BY <1>0, <1>1, <2>1, <2>2, <2>3 DEF TaskInv, Coming
  <2>5. QED
    BY <1>1, <1>2, <2>1, <2>4
<1>9. CASE UNCHANGED vars
  BY <1>0, <1>1, <1>2, <1>9 DEF TaskInv, Coming, IsTask, vars
<1>14. QED
  BY <1>10, <1>11, <1>12, <1>13, <1>3, <1>4, <1>5, <1>6, <1>7, <1>8, <1>9 DEF Next, MainThread, ReaderThread

-----------------------------------------------------------------------------
(* Theorems *)

LEMMA NextInv == Inv /\ [Next]_vars => Inv'
BY NextType, NextWait, NextTool, NextTask DEF Inv

LEMMA Invariance == Spec => []Inv
<1>1. Init => Inv
  BY InitInv
<1>2. QED
  BY <1>1, NextInv, PTL DEF Spec

\* Every variable of the serve loop keeps its type; main has a task while it works.
THEOREM TypeCorrect == Spec => []TypeOK
<1>1. Inv => TypeOK
  BY DEF Inv
<1>2. QED
  BY <1>1, Invariance, PTL

\* A tool call returns the reply to it, and the executor's tables are cleaned up
\* (BridgeCreatureExecutor.execute, handle_signal).
THEOREM OwnToolResultHolds == Spec => []OwnToolResult
<1>1. Inv => OwnToolResult
  BY DEF Inv, ToolInv, InCall, OwnToolResult
<1>2. QED
  BY <1>1, Invariance, PTL

\* The stream of each requester is its steps and then its result, but for what the
\* node carries out late (main, _run_agent, CasparBridgeClient.call).
THEOREM StreamHolds == Spec => []StreamWellFormed
<1>1. Inv => StreamWellFormed
  BY DEF Inv
<1>2. QED
  BY <1>1, Invariance, PTL

=============================================================================
