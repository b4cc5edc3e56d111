----------------------- MODULE SandboxSessionProofs ------------------------
(***************************************************************************)
(* What is proved of SandboxSession for every set of sessions and worker   *)
(* threads, and for any number of runs, operations and late calls: its     *)
(* types, that the VM of a session is off between runs, and that the       *)
(* record tells what the VM is once an operation on it has gone through.   *)
(***************************************************************************)
EXTENDS SandboxSession, TLAPS

(***************************************************************************)
(* The inductive invariant.                                                *)
(***************************************************************************)

\* A client inside an operation knows which it is, and one that writes a file
\* records nothing; the runtime only starts and suspends.
PlaceInv ==
    /\ \A c \in Clients :
          /\ at[c] \in {"host", "record"} => op[c] \in Actions
          /\ at[c] = "record" => Records(op[c])
          /\ c # Runtime => at[c] # "run"
    /\ at[Runtime] \in {"host", "record"} => op[Runtime] \in {"start", "suspend"}
    /\ \A call \in late : call.what = "record" => Records(call.action)

\* What was switched on in a run is off again, unless that run is still on or
\* its suspend got lost.
WakeInv ==
    \A s \in Sessions : woken[s] /\ vm[s] = "running" => s \in missed \/ InRun(s)

\* What a record of action a says about the power state of the VM.
Told(a, power) ==
    /\ a \in {"start", "exec"}  => power = "running"
    /\ a = "suspend"            => power # "running"
    /\ a \in {"delete", "none"} => power = "none"

\* The operation that made VM v clean has it for itself, and nothing that was
\* given up is still to come; once its host call is carried out, the record it
\* is about to write will be true, and until then the one there is if it is not
\* going to write one.
CleanInv ==
    \A v \in VMs : clean[v] =>
        /\ \A call \in late : call.vm # v
        /\ \A c, d \in Busy(v) : c = d
        /\ Busy(v) = {} => Told(record[v], vm[v])
        /\ \A c \in Busy(v) :
              /\ at[c] = "record" => Told(op[c], vm[v])
              /\ at[c] = "host" /\ ~Records(op[c]) => Told(record[v], vm[v])

Inv == TypeOK /\ PlaceInv /\ WakeInv /\ CleanInv

(***************************************************************************)
(* What the parts of an action do to a client and to the node.             *)
(***************************************************************************)

\* A client that starts an operation, and only that client, is on its way to
\* the node with it.
LEMMA StartDoes ==
    ASSUME TypeOK, PlaceInv, NEW c \in Clients, NEW a \in Actions, NEW v \in VMs,
           Start(c, a, v), c = Runtime => a \in {"start", "suspend"}
    PROVE  /\ at' \in [Clients -> {"idle", "host", "record", "run"}]
           /\ op' \in [Clients -> Actions \cup {"none"}] /\ key' \in [Clients -> VMs]
           /\ clean' \in [VMs -> BOOLEAN]
           /\ at'[c] = "host" /\ op'[c] = a /\ key'[c] = v
           /\ \A d \in Clients \ {c} :
                 at'[d] = at[d] /\ op'[d] = op[d] /\ key'[d] = key[d]
           /\ \A u \in VMs \ {v} : clean'[u] => clean[u]
           /\ clean'[v] => /\ Busy(v) = {} /\ \A call \in late : call.vm # v
                           /\ Records(a) \/ clean[v]
<1>1. /\ at' \in [Clients -> {"idle", "host", "record", "run"}]
      /\ op' \in [Clients -> Actions \cup {"none"}] /\ key' \in [Clients -> VMs]
      /\ at'[c] = "host" /\ op'[c] = a /\ key'[c] = v
      /\ \A d \in Clients \ {c} :
            at'[d] = at[d] /\ op'[d] = op[d] /\ key'[d] = key[d]
  BY DEF Start, TypeOK
<1> DEFINE alone == /\ Busy(v) = {} /\ ~\E call \in late : call.vm = v
                    /\ Records(a) \/ clean[v]
<1>2. clean' = [clean EXCEPT ![v] = alone]
  BY DEF Start
<1>3. alone \in BOOLEAN
  OBVIOUS
<1> HIDE DEF alone
<1>4. /\ clean' \in [VMs -> BOOLEAN] /\ clean'[v] = alone
      /\ \A u \in VMs \ {v} : clean'[u] = clean[u]
  BY <1>2, <1>3 DEF TypeOK
<1>5. QED
  BY <1>1, <1>4 DEF alone

\* Where a client goes on to keeps its operation and its VM unless it is over.
LEMMA GoDoes ==
    ASSUME TypeOK, PlaceInv, NEW c \in Clients, NEW place \in {"idle", "record", "run"},
           Go(c, place)
    PROVE  /\ at' \in [Clients -> {"idle", "host", "record", "run"}]
           /\ op' \in [Clients -> Actions \cup {"none"}] /\ key' \in [Clients -> VMs]
           /\ at'[c] = place
           /\ place # "idle" => op'[c] = op[c] /\ key'[c] = key[c]
           /\ \A d \in Clients \ {c} :
                 at'[d] = at[d] /\ op'[d] = op[d] /\ key'[d] = key[d]
  BY DEF Go, TypeOK, VMs

\* An operation that is over leaves the runtime in its run or idle, a worker idle.
LEMMA OverIs ==
    ASSUME NEW c \in Clients
    PROVE  /\ Over(c) \in {"idle", "run"}
           /\ Over(c) = "run" <=> c = Runtime /\ op[c] = "start"
  BY DEF Over

\* What the node does with an operation concerns the VM of that operation, and
\* leaves it in the state the operation is recorded with.
LEMMA CarriedDoes ==
    ASSUME TypeOK, NEW a \in Actions, NEW v \in VMs, Carried(a, v)
    PROVE  /\ vm' \in [VMs -> {"none", "running", "suspended"}]
           /\ woken' \in [VMs -> BOOLEAN]
           /\ \A u \in VMs \ {v} : vm'[u] = vm[u] /\ (woken'[u] => woken[u])
           /\ a \in {"start", "exec"} /\ woken'[v] => InRun(v)
           /\ a \notin {"start", "exec"} /\ woken'[v] => woken[v]
           /\ a = "write" => vm'[v] = vm[v]
           /\ a # "write" => Told(a, vm'[v])
           /\ a \in {"suspend", "delete"} => vm'[v] # "running"
<1> DEFINE power == CASE a \in {"start", "exec"}         -> "running"
                      [] a = "write"                     -> vm[v]
                      [] a \in {"suspend", "delete"}     ->
                            IF Purges(a) \/ vm[v] = "none" THEN "none" ELSE "suspended"
           wakes == IF a \in {"start", "exec"} THEN InRun(v) ELSE woken[v]
<1>1. vm' = [vm EXCEPT ![v] = power] /\ woken' = [woken EXCEPT ![v] = wakes]
  BY DEF Carried
<1>2. /\ power \in {"none", "running", "suspended"}
      /\ a = "write" => power = vm[v]
      /\ a # "write" => Told(a, power)
      /\ a \in {"suspend", "delete"} => power # "running"
  BY DEF TypeOK, Actions, Purges, Told
<1>3. wakes \in BOOLEAN
  BY DEF TypeOK, InRun
<1> HIDE DEF power
<1>4. /\ vm' \in [VMs -> {"none", "running", "suspended"}] /\ vm'[v] = power
      /\ \A u \in VMs \ {v} : vm'[u] = vm[u]
  BY <1>1, <1>2 DEF TypeOK
<1>5. /\ a \in {"start", "exec"} => wakes = InRun(v)
      /\ a \notin {"start", "exec"} => wakes = woken[v]
  OBVIOUS
<1> HIDE DEF wakes
<1>6. /\ woken' \in [VMs -> BOOLEAN] /\ woken'[v] = wakes
      /\ \A u \in VMs \ {v} : woken'[u] = woken[u]
  BY <1>1, <1>3 DEF TypeOK
<1>7. QED
  BY <1>2, <1>4, <1>5, <1>6

\* A call that is given up is the caller's own, and its VM is not clean any more.
LEMMA GivenUpDoes ==
    ASSUME TypeOK, NEW what \in {"vm", "record"}, NEW c \in Clients, GivenUp(what, c),
           op[c] \in Actions
    PROVE  /\ late' \subseteq Calls
           /\ \A call \in late' : \/ call \in late
                                  \/ call = [what |-> what, action |-> op[c], vm |-> key[c]]
           /\ clean' \in [VMs -> BOOLEAN] /\ key[c] \in VMs /\ ~clean'[key[c]]
           /\ \A u \in VMs \ {key[c]} : clean'[u] = clean[u]
<1>1. key[c] \in VMs
  BY DEF TypeOK
<1>2. [what |-> what, action |-> op[c], vm |-> key[c]] \in Calls
  BY <1>1 DEF Calls
<1>3. /\ late' \subseteq late \cup {[what |-> what, action |-> op[c], vm |-> key[c]]}
      /\ clean' = [clean EXCEPT ![key[c]] = FALSE]
  BY DEF GivenUp
<1>4. /\ clean' \in [VMs -> BOOLEAN] /\ ~clean'[key[c]]
      /\ \A u \in VMs \ {key[c]} : clean'[u] = clean[u]
  BY <1>1, <1>3 DEF TypeOK
<1>5. QED
  BY <1>1, <1>2, <1>3, <1>4 DEF TypeOK

(***************************************************************************)
(* Types and places.                                                       *)
(***************************************************************************)

LEMMA InitInv == Init => Inv
<1> SUFFICES ASSUME Init PROVE Inv
  OBVIOUS
<1>1. TypeOK
  <2>1. clean \in [VMs -> BOOLEAN] /\ woken \in [VMs -> BOOLEAN]
    BY Zenon DEF Init
  <2>2. runs \in 0..MaxRuns /\ ops \in 0..MaxOps
    BY SandboxAssumption DEF Init
  <2>3. /\ vm \in [VMs -> {"none", "running", "suspended"}]
        /\ record \in [VMs -> (Actions \ {"write"}) \cup {"none"}]
        /\ at \in [Clients -> {"idle", "host", "record", "run"}]
        /\ op \in [Clients -> Actions \cup {"none"}] /\ key \in [Clients -> VMs]
        /\ at[Runtime] = "run" => op[Runtime] = "start"
    BY DEF Init, VMs, Clients
  <2>4. QED
    BY <2>1, <2>2, <2>3 DEF Init, TypeOK
<1>2. PlaceInv /\ WakeInv
  BY SandboxAssumption DEF Init, PlaceInv, WakeInv, Clients, VMs
<1>3. CleanInv
  BY DEF Init, CleanInv
<1>4. QED
  BY <1>1, <1>2, <1>3 DEF Inv

\* A host call that is over, carried out or not, leaves its client in a place
\* that agrees with its operation.
LEMMA AfterHostDoes ==
    ASSUME TypeOK, PlaceInv, NEW c \in Clients, at[c] = "host", AfterHost(c)
    PROVE  /\ at' \in [Clients -> {"idle", "host", "record", "run"}]
           /\ op' \in [Clients -> Actions \cup {"none"}] /\ key' \in [Clients -> VMs]
           /\ at'[Runtime] = "run" => op'[Runtime] = "start"
           /\ at'[c] = IF Records(op[c]) THEN "record" ELSE "idle"
           /\ at'[c] # "idle" => op'[c] = op[c] /\ key'[c] = key[c]
           /\ \A d \in Clients \ {c} :
                 at'[d] = at[d] /\ op'[d] = op[d] /\ key'[d] = key[d]
<1> DEFINE place == IF Records(op[c]) THEN "record" ELSE Over(c)
<1>1. place = IF Records(op[c]) THEN "record" ELSE "idle"
  BY OverIs DEF PlaceInv, Records
<1>2. Go(c, place) /\ place \in {"idle", "record", "run"}
  BY <1>1 DEF AfterHost
<1> HIDE DEF place
<1>3. /\ at' \in [Clients -> {"idle", "host", "record", "run"}]
      /\ op' \in [Clients -> Actions \cup {"none"}] /\ key' \in [Clients -> VMs]
      /\ at'[c] = place
      /\ place # "idle" => op'[c] = op[c] /\ key'[c] = key[c]
      /\ \A d \in Clients \ {c} :
            at'[d] = at[d] /\ op'[d] = op[d] /\ key'[d] = key[d]
  BY <1>2, GoDoes
<1>4. QED
  BY <1>1, <1>3 DEF TypeOK, Clients

\* The same when its record is written, or given up.
LEMMA AfterRecordDoes ==
    ASSUME TypeOK, PlaceInv, NEW c \in Clients, at[c] = "record", Go(c, Over(c))
    PROVE  /\ at' \in [Clients -> {"idle", "host", "record", "run"}]
           /\ op' \in [Clients -> Actions \cup {"none"}] /\ key' \in [Clients -> VMs]
           /\ at'[Runtime] = "run" => op'[Runtime] = "start"
           /\ at'[c] \in {"idle", "run"}
           /\ at'[c] = "run" <=> c = Runtime /\ op[c] = "start"
           /\ at'[c] # "idle" => op'[c] = op[c] /\ key'[c] = key[c]
           /\ \A d \in Clients \ {c} :
                 at'[d] = at[d] /\ op'[d] = op[d] /\ key'[d] = key[d]
<1>1. Over(c) \in {"idle", "record", "run"}
  BY OverIs
<1>2. /\ at' \in [Clients -> {"idle", "host", "record", "run"}]
      /\ op' \in [Clients -> Actions \cup {"none"}] /\ key' \in [Clients -> VMs]
      /\ at'[c] = Over(c)
      /\ Over(c) # "idle" => op'[c] = op[c] /\ key'[c] = key[c]
      /\ \A d \in Clients \ {c} :
            at'[d] = at[d] /\ op'[d] = op[d] /\ key'[d] = key[d]
  BY <1>1, GoDoes
<1>3. QED
  BY <1>2, OverIs DEF TypeOK, Clients

\* No step of either process or of the node leaves the types, or puts a client
\* in a place that does not go with its operation.
LEMMA NextType == TypeOK /\ PlaceInv /\ [Next]_vars => TypeOK' /\ PlaceInv'
<1> SUFFICES ASSUME TypeOK, PlaceInv, [Next]_vars PROVE TypeOK' /\ PlaceInv'
  OBVIOUS
<1> USE DEF node, clients, history
<1>a. Runtime \in Clients
  BY DEF Clients
<1>1. ASSUME NEW c \in Clients, HostCall(c)
      PROVE  TypeOK' /\ PlaceInv'
  <2>1. /\ at[c] = "host" /\ op[c] \in Actions /\ key[c] \in VMs
        /\ Carried(op[c], key[c]) /\ AfterHost(c)
        /\ missed' \subseteq VMs
        /\ UNCHANGED <<record, late, inbox, runs, ops, clean>>
    BY <1>1 DEF HostCall, PlaceInv, TypeOK
  <2>2. /\ vm' \in [VMs -> {"none", "running", "suspended"}]
        /\ woken' \in [VMs -> BOOLEAN]
    BY <2>1, CarriedDoes
  <2>3. /\ at' \in [Clients -> {"idle", "host", "record", "run"}]
        /\ op' \in [Clients -> Actions \cup {"none"}] /\ key' \in [Clients -> VMs]
        /\ at'[Runtime] = "run" => op'[Runtime] = "start"
        /\ at'[c] = IF Records(op[c]) THEN "record" ELSE "idle"
        /\ at'[c] # "idle" => op'[c] = op[c] /\ key'[c] = key[c]
        /\ \A d \in Clients \ {c} :
              at'[d] = at[d] /\ op'[d] = op[d] /\ key'[d] = key[d]
    BY <2>1, AfterHostDoes
  <2>4. TypeOK'
    BY <2>1, <2>2, <2>3 DEF TypeOK
  <2>5. PlaceInv'
    BY <1>a, <2>1, <2>3 DEF PlaceInv, Records
  <2>6. QED
    BY <2>4, <2>5
<1>2. ASSUME NEW c \in Clients, HostCallFails(c)
      PROVE  TypeOK' /\ PlaceInv'
  <2>1. /\ at[c] = "host" /\ op[c] \in Actions /\ key[c] \in VMs
        /\ GivenUp("vm", c) /\ AfterHost(c)
        /\ missed' \subseteq VMs
        /\ UNCHANGED <<vm, record, inbox, runs, ops, woken>>
    BY <1>2 DEF HostCallFails, PlaceInv, TypeOK
  <2>2. /\ late' \subseteq Calls
        /\ \A call \in late' : \/ call \in late
                               \/ call = [what |-> "vm", action |-> op[c], vm |-> key[c]]
        /\ clean' \in [VMs -> BOOLEAN]
    BY <2>1, GivenUpDoes
  <2>3. /\ at' \in [Clients -> {"idle", "host", "record", "run"}]
        /\ op' \in [Clients -> Actions \cup {"none"}] /\ key' \in [Clients -> VMs]
        /\ at'[Runtime] = "run" => op'[Runtime] = "start"
        /\ at'[c] = IF Records(op[c]) THEN "record" ELSE "idle"
        /\ at'[c] # "idle" => op'[c] = op[c] /\ key'[c] = key[c]
        /\ \A d \in Clients \ {c} :
              at'[d] = at[d] /\ op'[d] = op[d] /\ key'[d] = key[d]
    BY <2>1, AfterHostDoes
  <2>4. TypeOK'
    BY <2>1, <2>2, <2>3 DEF TypeOK
  <2>5. PlaceInv'
    BY <1>a, <2>1, <2>2, <2>3 DEF PlaceInv, Records
  <2>6. QED
    BY <2>4, <2>5
<1>3. ASSUME NEW c \in Clients, RecordCall(c)
      PROVE  TypeOK' /\ PlaceInv'
  <2>1. /\ at[c] = "record" /\ op[c] \in Actions /\ key[c] \in VMs /\ Records(op[c])
        /\ Go(c, Over(c))
        /\ UNCHANGED <<vm, inbox, runs, ops, woken, missed>>
    BY <1>3 DEF RecordCall, PlaceInv, TypeOK
  <2>2. /\ record' \in [VMs -> (Actions \ {"write"}) \cup {"none"}]
        /\ late' \subseteq Calls
        /\ \A call \in late' : \/ call \in late
                               \/ call = [what |-> "record", action |-> op[c], vm |-> key[c]]
        /\ clean' \in [VMs -> BOOLEAN]
    <3>1. CASE Put(op[c], key[c]) /\ UNCHANGED <<late, clean>>
      BY <2>1, <3>1 DEF Put, TypeOK, Records
    <3>2. CASE GivenUp("record", c) /\ UNCHANGED record
      BY <2>1, <3>2, GivenUpDoes DEF TypeOK
    <3>3. QED
      BY <1>3, <3>1, <3>2 DEF RecordCall
  <2>3. /\ at' \in [Clients -> {"idle", "host", "record", "run"}]
        /\ op' \in [Clients -> Actions \cup {"none"}] /\ key' \in [Clients -> VMs]
        /\ at'[Runtime] = "run" => op'[Runtime] = "start"
        /\ at'[c] \in {"idle", "run"}
        /\ at'[c] = "run" <=> c = Runtime /\ op[c] = "start"
        /\ \A d \in Clients \ {c} :
              at'[d] = at[d] /\ op'[d] = op[d] /\ key'[d] = key[d]
    BY <2>1, AfterRecordDoes
  <2>4. TypeOK'
    BY <2>1, <2>2, <2>3 DEF TypeOK
  <2>5. PlaceInv'
    BY <1>a, <2>1, <2>2, <2>3 DEF PlaceInv
  <2>6. QED
    BY <2>4, <2>5
<1>b. ASSUME NEW c \in Clients, NEW a \in Actions, NEW v \in VMs, Start(c, a, v),
             c = Runtime => a \in {"start", "suspend"},
             UNCHANGED <<node, woken, missed>>,
             inbox' \subseteq [action : Actions, vm : VMs],
             runs' \in 0..MaxRuns, ops' = ops
      PROVE  TypeOK' /\ PlaceInv'
  <2>1. /\ at' \in [Clients -> {"idle", "host", "record", "run"}]
        /\ op' \in [Clients -> Actions \cup {"none"}] /\ key' \in [Clients -> VMs]
        /\ clean' \in [VMs -> BOOLEAN]
        /\ at'[c] = "host" /\ op'[c] = a /\ key'[c] = v
        /\ \A d \in Clients \ {c} :
              at'[d] = at[d] /\ op'[d] = op[d] /\ key'[d] = key[d]
    BY <1>b, StartDoes
  <2>2. at'[Runtime] = "run" => op'[Runtime] = "start"
    BY <1>a, <2>1 DEF TypeOK
  <2>3. TypeOK'
    BY <1>b, <2>1, <2>2 DEF TypeOK
  <2>4. PlaceInv'
    BY <1>a, <1>b, <2>1 DEF PlaceInv
  <2>5. QED
    BY <2>3, <2>4
<1>4. ASSUME NEW s \in Sessions, Enter(s)
      PROVE  TypeOK' /\ PlaceInv'
  <2>1. runs' \in 0..MaxRuns
    BY <1>4, SandboxAssumption DEF Enter, TypeOK
  <2>2. /\ "start" \in Actions /\ s \in VMs /\ Start(Runtime, "start", s)
        /\ UNCHANGED <<node, woken, missed>> /\ inbox' = inbox /\ ops' = ops
    BY <1>4 DEF Enter, Actions, VMs
  <2>3. inbox' \subseteq [action : Actions, vm : VMs]
    BY <2>2 DEF TypeOK
  <2>4. QED
    BY <1>a, <1>b, <2>1, <2>2, <2>3
<1>5. ASSUME NEW a \in Actions, NEW v \in VMs, AskTool(a, v)
      PROVE  TypeOK' /\ PlaceInv'
  <2>1. ops' \in 0..MaxOps
    BY <1>5, SandboxAssumption DEF AskTool, TypeOK
  <2>2. inbox' \subseteq [action : Actions, vm : VMs]
    BY <1>5 DEF AskTool, TypeOK
  <2>3. UNCHANGED <<node, clients, runs, history>>
    BY <1>5 DEF AskTool
  <2>4. QED
    BY <2>1, <2>2, <2>3 DEF TypeOK, PlaceInv
<1>6. CASE Exit
  <2>1. /\ "suspend" \in Actions /\ key[Runtime] \in VMs
        /\ Start(Runtime, "suspend", key[Runtime])
        /\ UNCHANGED <<node, woken, missed>> /\ inbox' = inbox /\ runs' = runs /\ ops' = ops
    BY <1>a, <1>6 DEF Exit, Actions, TypeOK
  <2>2. inbox' \subseteq [action : Actions, vm : VMs] /\ runs' \in 0..MaxRuns
    BY <2>1 DEF TypeOK
  <2>3. QED
    BY <1>a, <1>b, <2>1, <2>2
<1>7. ASSUME NEW w \in Workers, TakeOp(w)
      PROVE  TypeOK' /\ PlaceInv'
  <2>1. PICK request \in inbox : /\ inbox' = inbox \ {request}
                                 /\ Start(w, request.action, request.vm)
    BY <1>7 DEF TakeOp
  <2>2. /\ request.action \in Actions /\ request.vm \in VMs
        /\ inbox' \subseteq [action : Actions, vm : VMs]
    BY <2>1 DEF TypeOK
  <2>3. w \in Clients /\ w # Runtime
    BY SandboxAssumption DEF Clients
  <2>4. /\ UNCHANGED <<node, woken, missed>> /\ ops' = ops
        /\ runs' \in 0..MaxRuns
    BY <1>7 DEF TakeOp, TypeOK
  <2>5. QED
    BY <1>b, <2>1, <2>2, <2>3, <2>4
<1>8. ASSUME NEW call \in late, LateCall(call)
      PROVE  TypeOK' /\ PlaceInv'
  <2>1. /\ call \in Calls /\ late' = late \ {call}
        /\ clean' = [clean EXCEPT ![call.vm] = FALSE]
        /\ UNCHANGED <<clients, inbox, runs, ops, missed>>
    BY <1>8 DEF LateCall, TypeOK
  <2>2. /\ call.action \in Actions /\ call.vm \in VMs
        /\ call.what = "record" => Records(call.action)
    BY <2>1 DEF Calls, PlaceInv
  <2>3. clean' \in [VMs -> BOOLEAN]
    BY <2>1, <2>2 DEF TypeOK
  <2>4. /\ vm' \in [VMs -> {"none", "running", "suspended"}]
        /\ woken' \in [VMs -> BOOLEAN]
        /\ record' \in [VMs -> (Actions \ {"write"}) \cup {"none"}]
    <3>1. CASE call.what = "vm" /\ Carried(call.action, call.vm) /\ UNCHANGED record
      BY <2>2, <3>1, CarriedDoes DEF TypeOK
    <3>2. CASE call.what = "record" /\ Put(call.action, call.vm) /\ UNCHANGED <<vm, woken>>
      BY <2>2, <3>2 DEF Put, TypeOK, Records
    <3>3. CASE UNCHANGED <<vm, record, woken>>
      BY <3>3 DEF TypeOK
    <3>4. QED
      BY <1>8, <3>1, <3>2, <3>3 DEF LateCall
  <2>5. TypeOK'
    BY <2>1, <2>3, <2>4 DEF TypeOK
  <2>6. PlaceInv'
    BY <2>1 DEF PlaceInv
  <2>7. QED
    BY <2>5, <2>6
<1>9. ASSUME NEW v \in VMs, KeepAliveEnds(v)
      PROVE  TypeOK' /\ PlaceInv'
  <2>1. clean' \in [VMs -> BOOLEAN] /\ vm' \in [VMs -> {"none", "running", "suspended"}]
    BY <1>9 DEF KeepAliveEnds, TypeOK
  <2>2. UNCHANGED <<record, late, clients, inbox, runs, ops, woken, missed>>
    BY <1>9 DEF KeepAliveEnds
  <2>3. QED
    BY <2>1, <2>2 DEF TypeOK, PlaceInv
<1>10. CASE UNCHANGED vars
  BY <1>10 DEF vars, TypeOK, PlaceInv
<1>11. QED
  BY <1>1, <1>2, <1>3, <1>4, <1>5, <1>6, <1>7, <1>8, <1>9, <1>10 DEF Next, Operation

\* Whatever the two processes do and the node loses, every variable has its type:
\* no record says what is never recorded, and the runtime's run is one it started.
THEOREM TypeCorrect == Spec => []TypeOK
<1>1. Init => TypeOK /\ PlaceInv
  BY InitInv DEF Inv
<1>2. QED
  BY <1>1, NextType, PTL DEF Spec

(***************************************************************************)
(* The VM between runs.  The property says nothing of the time inside a    *)
(* run; the invariant does: there the VM that was woken is the one whose   *)
(* suspend is still ahead.                                                 *)
(***************************************************************************)

\* Which sessions' runs are on is decided by the place of the runtime alone.
LEMMA InRunIs ==
    ASSUME NEW s \in Sessions
    PROVE  InRun(s) <=> /\ at[Runtime] # "idle"
                        /\ at[Runtime] = "record" => op[Runtime] = "start"
                        /\ key[Runtime] = s
  BY SandboxAssumption DEF InRun

LEMMA NextWake == TypeOK /\ PlaceInv /\ WakeInv /\ [Next]_vars => WakeInv'
<1> SUFFICES ASSUME TypeOK, PlaceInv, WakeInv, [Next]_vars,
                    NEW s \in Sessions, woken'[s], vm'[s] = "running"
             PROVE  s \in missed' \/ InRun(s)'
  BY DEF WakeInv
<1> USE DEF node, clients, history
<1>a. Runtime \in Clients /\ s \in VMs /\ s # ToolKey
  BY SandboxAssumption DEF Clients, VMs
<1>b. InRun(s)' <=> /\ at'[Runtime] # "idle"
                    /\ at'[Runtime] = "record" => op'[Runtime] = "start"
                    /\ key'[Runtime] = s
  BY SandboxAssumption DEF InRun
<1>c. woken[s] /\ vm[s] = "running" => s \in missed \/ InRun(s)
  BY DEF WakeInv
\* A step that leaves the runtime in its place, by which a VM is on that was off
\* only if it was switched on in a run.
<1>d. ASSUME at'[Runtime] = at[Runtime], op'[Runtime] = op[Runtime],
             key'[Runtime] = key[Runtime], missed' = missed,
             InRun(s) \/ (woken[s] /\ vm[s] = "running")
      PROVE  s \in missed' \/ InRun(s)'
  BY <1>b, <1>c, <1>d, InRunIs
<1>1. ASSUME NEW c \in Clients, HostCall(c)
      PROVE  s \in missed' \/ InRun(s)'
  <2>1. /\ at[c] = "host" /\ op[c] \in Actions /\ key[c] \in VMs
        /\ Carried(op[c], key[c]) /\ AfterHost(c)
        /\ missed' = IF c = Runtime THEN missed \ {key[c]} ELSE missed
    BY <1>1 DEF HostCall, PlaceInv, TypeOK
  <2>2. /\ s # key[c] => woken[s] /\ vm'[s] = vm[s]
        /\ s = key[c] =>
              /\ op[c] \in {"start", "exec"} => InRun(s)
              /\ op[c] \notin {"start", "exec"} => woken[s]
              /\ op[c] = "write" => vm'[s] = vm[s]
              /\ op[c] \in {"suspend", "delete"} => vm'[s] # "running"
    <3>1. CASE s # key[c]
      BY <1>a, <2>1, <3>1, CarriedDoes
    <3>2. CASE s = key[c]
      <4>1. Carried(op[c], s)
        BY <2>1, <3>2
      <4>2. QED
        BY <1>a, <2>1, <4>1, CarriedDoes
    <3>3. QED
      BY <3>1, <3>2
  <2>3. /\ at'[c] = IF Records(op[c]) THEN "record" ELSE "idle"
        /\ at'[c] # "idle" => op'[c] = op[c] /\ key'[c] = key[c]
        /\ \A d \in Clients \ {c} :
              at'[d] = at[d] /\ op'[d] = op[d] /\ key'[d] = key[d]
    BY <2>1, AfterHostDoes
  <2>4. InRun(s) \/ (woken[s] /\ vm[s] = "running")
    BY <2>1, <2>2 DEF Actions
  <2>5. CASE c # Runtime
    BY <1>a, <1>d, <2>1, <2>3, <2>4, <2>5
  <2>6. CASE c = Runtime
    <3>1. op[c] \in {"start", "suspend"} /\ Records(op[c])
      BY <2>1, <2>6 DEF PlaceInv, Records
    <3>2. CASE s = key[c]
      BY <1>b, <2>2, <2>3, <2>6, <3>1, <3>2
    <3>3. CASE s # key[c]
      BY <1>c, <2>1, <2>2, <2>6, <3>3, InRunIs
    <3>4. QED
      BY <3>2, <3>3
  <2>7. QED
    BY <2>5, <2>6
<1>2. ASSUME NEW c \in Clients, HostCallFails(c)
      PROVE  s \in missed' \/ InRun(s)'
  <2>1. /\ at[c] = "host" /\ AfterHost(c)
        /\ missed' = IF c = Runtime /\ op[c] = "suspend" THEN missed \cup {key[c]} ELSE missed
        /\ UNCHANGED <<vm, woken>>
    BY <1>2 DEF HostCallFails
  <2>2. /\ at'[c] = IF Records(op[c]) THEN "record" ELSE "idle"
        /\ at'[c] # "idle" => op'[c] = op[c] /\ key'[c] = key[c]
        /\ \A d \in Clients \ {c} :
              at'[d] = at[d] /\ op'[d] = op[d] /\ key'[d] = key[d]
    BY <2>1, AfterHostDoes
  <2>3. CASE c # Runtime
    BY <1>a, <1>d, <2>1, <2>2, <2>3
  <2>4. CASE c = Runtime
    <3>1. op[c] \in {"start", "suspend"} /\ Records(op[c])
      BY <2>1, <2>4 DEF PlaceInv, Records
    <3>2. QED
      BY <1>b, <1>c, <2>1, <2>2, <2>4, <3>1, InRunIs
  <2>5. QED
    BY <2>3, <2>4
<1>3. ASSUME NEW c \in Clients, RecordCall(c)
      PROVE  s \in missed' \/ InRun(s)'
  <2>1. /\ at[c] = "record" /\ Go(c, Over(c))
        /\ UNCHANGED <<vm, woken, missed>>
    BY <1>3 DEF RecordCall
  <2>2. /\ at'[c] = "run" <=> c = Runtime /\ op[c] = "start"
        /\ at'[c] \in {"idle", "run"}
        /\ at'[c] # "idle" => op'[c] = op[c] /\ key'[c] = key[c]
        /\ \A d \in Clients \ {c} :
              at'[d] = at[d] /\ op'[d] = op[d] /\ key'[d] = key[d]
    BY <2>1, AfterRecordDoes
  <2>3. CASE c # Runtime
    BY <1>a, <1>d, <2>1, <2>2, <2>3
  <2>4. CASE c = Runtime
    BY <1>b, <1>c, <2>1, <2>2, <2>4, InRunIs
  <2>5. QED
    BY <2>3, <2>4
<1>4. ASSUME NEW r \in Sessions, Enter(r)
      PROVE  s \in missed' \/ InRun(s)'
  BY <1>4, <1>c, InRunIs DEF Enter
<1>5. ASSUME NEW a \in Actions, NEW v \in VMs, AskTool(a, v)
      PROVE  s \in missed' \/ InRun(s)'
  BY <1>5, <1>d DEF AskTool
<1>6. CASE Exit
  <2>1. /\ Start(Runtime, "suspend", key[Runtime]) /\ at[Runtime] = "run"
        /\ "suspend" \in Actions /\ key[Runtime] \in VMs
        /\ UNCHANGED <<vm, woken, missed>>
    BY <1>a, <1>6 DEF Exit, Actions, TypeOK
  <2>2. at'[Runtime] = "host" /\ key'[Runtime] = key[Runtime]
    BY <1>a, <2>1, StartDoes
  <2>3. QED
    BY <1>b, <1>c, <2>1, <2>2, InRunIs
<1>7. ASSUME NEW w \in Workers, TakeOp(w)
      PROVE  s \in missed' \/ InRun(s)'
  <2>1. PICK request \in inbox : Start(w, request.action, request.vm)
    BY <1>7 DEF TakeOp
  <2>2. request.action \in Actions /\ request.vm \in VMs
    BY <2>1 DEF TypeOK
  <2>3. w \in Clients /\ w # Runtime
    BY SandboxAssumption DEF Clients
  <2>4. at'[Runtime] = at[Runtime] /\ op'[Runtime] = op[Runtime] /\ key'[Runtime] = key[Runtime]
    BY <1>a, <2>1, <2>2, <2>3, StartDoes
  <2>5. QED
    BY <1>7, <1>d, <2>4 DEF TakeOp
<1>8. ASSUME NEW call \in late, LateCall(call)
      PROVE  s \in missed' \/ InRun(s)'
  <2>1. call.action \in Actions /\ call.vm \in VMs
    BY <1>8 DEF TypeOK, Calls
  <2>2. UNCHANGED <<clients, missed>>
    BY <1>8 DEF LateCall
  <2>3. CASE Carried(call.action, call.vm)
    <3>1. /\ s # call.vm => woken[s] /\ vm'[s] = vm[s]
          /\ s = call.vm =>
                /\ call.action \in {"start", "exec"} => InRun(s)
                /\ call.action \notin {"start", "exec"} => woken[s]
                /\ call.action = "write" => vm'[s] = vm[s]
                /\ call.action \in {"suspend", "delete"} => vm'[s] # "running"
      <4>1. CASE s # call.vm
        BY <1>a, <2>1, <2>3, <4>1, CarriedDoes
      <4>2. CASE s = call.vm
        <5>1. Carried(call.action, s)
          BY <2>3, <4>2
        <5>2. QED
          BY <1>a, <2>1, <4>2, <5>1, CarriedDoes
      <4>3. QED
        BY <4>1, <4>2
    <3>2. InRun(s) \/ (woken[s] /\ vm[s] = "running")
      BY <2>1, <3>1 DEF Actions
    <3>3. QED
      BY <1>d, <2>2, <3>2
  <2>4. CASE UNCHANGED <<vm, woken>>
    BY <1>d, <2>2, <2>4
  <2>5. QED
    BY <1>8, <2>3, <2>4 DEF LateCall
<1>9. ASSUME NEW v \in VMs, KeepAliveEnds(v)
      PROVE  s \in missed' \/ InRun(s)'
  <2>1. woken[s] /\ vm[s] = "running"
    BY <1>a, <1>9 DEF KeepAliveEnds, TypeOK
  <2>2. QED
    BY <1>9, <1>d, <2>1 DEF KeepAliveEnds
<1>10. CASE UNCHANGED vars
  BY <1>10, <1>d DEF vars
<1>11. QED
  BY <1>1, <1>2, <1>3, <1>4, <1>5, <1>6, <1>7, <1>8, <1>9, <1>10 DEF Next, Operation

(***************************************************************************)
(* The record of a VM.  While the operation that made it clean is under    *)
(* way the record is not true: what the invariant keeps is what the        *)
(* operation is about to make of it.                                       *)
(***************************************************************************)

\* A step by which a VM that stays clean keeps its state, its record and the
\* clients that work on it.
LEMMA CleanKept ==
    ASSUME CleanInv, NEW v \in VMs, clean[v],
           \A call \in late' : call \in late \/ call.vm # v,
           \A c \in Clients : /\ c \in Busy(v)' <=> c \in Busy(v)
                              /\ c \in Busy(v) => at'[c] = at[c] /\ op'[c] = op[c],
           vm'[v] = vm[v], record'[v] = record[v]
    PROVE  /\ \A call \in late' : call.vm # v
           /\ \A c, d \in Busy(v)' : c = d
           /\ Busy(v)' = {} => Told(record'[v], vm'[v])
           /\ \A c \in Busy(v)' :
                 /\ at'[c] = "record" => Told(op'[c], vm'[v])
                 /\ at'[c] = "host" /\ ~Records(op'[c]) => Told(record'[v], vm'[v])
<1>1. Busy(v) \subseteq Clients /\ Busy(v)' \subseteq Clients
  BY DEF Busy
<1>2. Busy(v)' = Busy(v)
  BY <1>1
<1>3. QED
  BY <1>1, <1>2 DEF CleanInv

LEMMA NextClean == TypeOK /\ PlaceInv /\ CleanInv /\ [Next]_vars => CleanInv'
<1> SUFFICES ASSUME TypeOK, PlaceInv, CleanInv, [Next]_vars, NEW v \in VMs, clean'[v]
             PROVE  /\ \A call \in late' : call.vm # v
                    /\ \A c, d \in Busy(v)' : c = d
                    /\ Busy(v)' = {} => Told(record'[v], vm'[v])
                    /\ \A c \in Busy(v)' :
                          /\ at'[c] = "record" => Told(op'[c], vm'[v])
                          /\ at'[c] = "host" /\ ~Records(op'[c]) => Told(record'[v], vm'[v])
  BY DEF CleanInv
<1> DEFINE Goal == /\ \A call \in late' : call.vm # v
                   /\ \A c, d \in Busy(v)' : c = d
                   /\ Busy(v)' = {} => Told(record'[v], vm'[v])
                   /\ \A c \in Busy(v)' :
                         /\ at'[c] = "record" => Told(op'[c], vm'[v])
                         /\ at'[c] = "host" /\ ~Records(op'[c]) => Told(record'[v], vm'[v])
<1> USE DEF node, clients, history
<1>a. Runtime \in Clients
  BY DEF Clients
<1>1. ASSUME NEW c \in Clients, HostCall(c)
      PROVE  Goal
  <2>1. /\ at[c] = "host" /\ op[c] \in Actions /\ key[c] \in VMs
        /\ Carried(op[c], key[c]) /\ AfterHost(c)
        /\ UNCHANGED <<record, late, clean>>
    BY <1>1 DEF HostCall, PlaceInv, TypeOK
  <2>2. /\ v # key[c] => vm'[v] = vm[v]
        /\ op[c] = "write" => vm'[v] = vm[v]
        /\ v = key[c] /\ op[c] # "write" => Told(op[c], vm'[v])
    BY <2>1, CarriedDoes
  <2>3. /\ at'[c] = IF Records(op[c]) THEN "record" ELSE "idle"
        /\ at'[c] # "idle" => op'[c] = op[c] /\ key'[c] = key[c]
        /\ \A d \in Clients \ {c} :
              at'[d] = at[d] /\ op'[d] = op[d] /\ key'[d] = key[d]
    BY <2>1, AfterHostDoes
  <2>4. CASE v # key[c]
    BY <2>1, <2>2, <2>3, <2>4, CleanKept DEF Busy
  <2>5. CASE v = key[c]
    <3>1. Busy(v) = {c}
      BY <2>1, <2>5 DEF CleanInv, Busy
    <3>2. CASE Records(op[c])
      <4>1. Busy(v)' = {c}
        BY <2>3, <2>5, <3>1, <3>2 DEF Busy
      <4>2. QED
        BY <2>1, <2>2, <2>3, <2>5, <3>2, <4>1 DEF CleanInv, Records
    <3>3. CASE ~Records(op[c])
      <4>1. Busy(v)' = {}
        BY <2>3, <2>5, <3>1, <3>3 DEF Busy
      <4>2. Told(record[v], vm[v])
        BY <2>1, <3>1, <3>3 DEF CleanInv
      <4>3. QED
        BY <2>1, <2>2, <3>3, <4>1, <4>2 DEF CleanInv, Records
    <3>4. QED
      BY <3>2, <3>3
  <2>6. QED
    BY <2>4, <2>5
<1>2. ASSUME NEW c \in Clients, HostCallFails(c)
      PROVE  Goal
  <2>1. /\ at[c] = "host" /\ op[c] \in Actions /\ GivenUp("vm", c) /\ AfterHost(c)
        /\ UNCHANGED <<vm, record>>
    BY <1>2 DEF HostCallFails, PlaceInv
  <2>2. /\ \A call \in late' : \/ call \in late
                               \/ call = [what |-> "vm", action |-> op[c], vm |-> key[c]]
        /\ v # key[c] /\ clean'[v] = clean[v]
    BY <2>1, GivenUpDoes
  <2>3. /\ at'[c] \in {"record", "idle"}
        /\ at'[c] # "idle" => op'[c] = op[c] /\ key'[c] = key[c]
        /\ \A d \in Clients \ {c} :
              at'[d] = at[d] /\ op'[d] = op[d] /\ key'[d] = key[d]
    BY <2>1, AfterHostDoes
  <2>4. QED
    BY <2>1, <2>2, <2>3, CleanKept DEF Busy
<1>3. ASSUME NEW c \in Clients, RecordCall(c)
      PROVE  Goal
  <2>1. at[c] = "record" /\ op[c] \in Actions /\ key[c] \in VMs /\ Go(c, Over(c)) /\ vm' = vm
    BY <1>3 DEF RecordCall, PlaceInv, TypeOK
  <2>2. /\ at'[c] \in {"idle", "run"}
        /\ \A d \in Clients \ {c} :
              at'[d] = at[d] /\ op'[d] = op[d] /\ key'[d] = key[d]
    BY <2>1, AfterRecordDoes
  <2>3. CASE Put(op[c], key[c]) /\ UNCHANGED <<late, clean>>
    <3>1. record'[key[c]] = op[c] /\ \A u \in VMs \ {key[c]} : record'[u] = record[u]
      BY <2>1, <2>3 DEF Put, TypeOK
    <3>2. CASE v # key[c]
      BY <2>1, <2>2, <2>3, <3>1, <3>2, CleanKept DEF Busy
    <3>3. CASE v = key[c]
      <4>1. Busy(v) = {c} /\ Told(op[c], vm[v])
        BY <2>1, <2>3, <3>3 DEF CleanInv, Busy
      <4>2. Busy(v)' = {}
        BY <2>2, <4>1 DEF Busy
      <4>3. QED
        BY <2>1, <2>3, <3>1, <3>3, <4>1, <4>2 DEF CleanInv
    <3>4. QED
      BY <3>2, <3>3
  <2>4. CASE GivenUp("record", c) /\ UNCHANGED record
    <3>1. /\ \A call \in late' : \/ call \in late
                                 \/ call = [what |-> "record", action |-> op[c], vm |-> key[c]]
          /\ v # key[c] /\ clean'[v] = clean[v]
      BY <2>1, <2>4, GivenUpDoes
    <3>2. QED
      BY <2>1, <2>2, <2>4, <3>1, CleanKept DEF Busy
  <2>5. QED
    BY <1>3, <2>3, <2>4 DEF RecordCall
<1>b. ASSUME NEW c \in Clients, NEW a \in Actions, NEW u \in VMs, Start(c, a, u),
             c = Runtime => a \in {"start", "suspend"},
             at[c] \in {"idle", "run"}, UNCHANGED node
      PROVE  Goal
  <2>1. /\ at'[c] = "host" /\ op'[c] = a /\ key'[c] = u
        /\ \A d \in Clients \ {c} :
              at'[d] = at[d] /\ op'[d] = op[d] /\ key'[d] = key[d]
        /\ v # u => clean[v]
        /\ v = u => /\ Busy(v) = {} /\ \A call \in late : call.vm # v
                    /\ Records(a) \/ clean[v]
    <3>1. CASE v # u
      BY <1>b, <3>1, StartDoes
    <3>2. CASE v = u
      <4>1. Start(c, a, v)
        BY <1>b, <3>2
      <4>2. QED
        BY <1>b, <3>2, <4>1, StartDoes
    <3>3. QED
      BY <3>1, <3>2
  <2>2. CASE v # u
    BY <1>b, <2>1, <2>2, CleanKept DEF Busy
  <2>3. CASE v = u
    <3>1. Busy(v)' = {c}
      BY <2>1, <2>3 DEF Busy
    <3>2. ~Records(a) => Told(record[v], vm[v])
      BY <2>1, <2>3 DEF CleanInv
    <3>3. QED
      BY <1>b, <2>1, <2>3, <3>1, <3>2
  <2>4. QED
    BY <2>2, <2>3
<1>4. ASSUME NEW s \in Sessions, Enter(s)
      PROVE  Goal
  <2>1. "start" \in Actions /\ s \in VMs
    BY DEF Actions, VMs
  <2>2. QED
    BY <1>4, <1>a, <1>b, <2>1 DEF Enter
<1>5. ASSUME NEW a \in Actions, NEW u \in VMs, AskTool(a, u)
      PROVE  Goal
  BY <1>5, CleanKept DEF AskTool, Busy
<1>6. CASE Exit
  <2>1. "suspend" \in Actions /\ key[Runtime] \in VMs
    BY <1>a DEF Actions, TypeOK
  <2>2. QED
    BY <1>6, <1>a, <1>b, <2>1 DEF Exit
<1>7. ASSUME NEW w \in Workers, TakeOp(w)
      PROVE  Goal
  <2>1. PICK request \in inbox : Start(w, request.action, request.vm)
    BY <1>7 DEF TakeOp
  <2>2. request.action \in Actions /\ request.vm \in VMs
    BY <2>1 DEF TypeOK
  <2>3. w \in Clients /\ w # Runtime /\ at[w] = "idle" /\ UNCHANGED node
    BY <1>7, SandboxAssumption DEF Clients, TakeOp
  <2>4. QED
    BY <1>b, <2>1, <2>2, <2>3
<1>8. ASSUME NEW call \in late, LateCall(call)
      PROVE  Goal
  <2>1. call.action \in Actions /\ call.vm \in VMs
    BY <1>8 DEF TypeOK, Calls
  <2>2. /\ UNCHANGED clients /\ late' \subseteq late
        /\ v # call.vm /\ clean'[v] = clean[v]
    BY <1>8, <2>1 DEF LateCall, TypeOK
  <2>3. vm'[v] = vm[v] /\ record'[v] = record[v]
    <3>1. CASE Carried(call.action, call.vm) /\ UNCHANGED record
      BY <2>1, <2>2, <3>1, CarriedDoes
    <3>2. CASE Put(call.action, call.vm) /\ UNCHANGED vm
      BY <2>2, <3>2 DEF Put, TypeOK
    <3>3. CASE UNCHANGED <<vm, record>>
      BY <3>3
    <3>4. QED
      BY <1>8, <3>1, <3>2, <3>3 DEF LateCall
  <2>4. QED
    BY <2>2, <2>3, CleanKept DEF Busy
<1>9. ASSUME NEW u \in VMs, KeepAliveEnds(u)
      PROVE  Goal
  <2>1. v # u /\ clean'[v] = clean[v] /\ vm'[v] = vm[v] /\ UNCHANGED <<record, late, clients>>
    BY <1>9 DEF KeepAliveEnds, TypeOK
  <2>2. QED
    BY <2>1, CleanKept DEF Busy
<1>10. CASE UNCHANGED vars
  BY <1>10, CleanKept DEF vars, Busy
<1>11. QED
  BY <1>1, <1>2, <1>3, <1>4, <1>5, <1>6, <1>7, <1>8, <1>9, <1>10 DEF Next, Operation

(***************************************************************************)
(* The theorems.                                                           *)
(***************************************************************************)

LEMMA Invariant == Spec => []Inv
<1>1. Inv /\ [Next]_vars => Inv'
  BY NextType, NextWake, NextClean DEF Inv
<1>2. QED
  BY InitInv, <1>1, PTL DEF Spec

\* Between runs the VM of a session is off: a run that has switched it on
\* suspends it at its end, whatever the tool's threads did to it meanwhile, unless
\* that suspend was lost (__exit__ of _SessionSandbox).
THEOREM IdleVmIsOffHolds == Spec => []IdleVmIsOff
<1>1. Inv => IdleVmIsOff
  BY InRunIs DEF Inv, WakeInv, IdleVmIsOff
<1>2. QED
  BY Invariant, <1>1, PTL

\* The record that status reports is true of a VM once an operation on it has gone
\* through that nothing overlapped, however wrong it was before.
THEOREM StatusTrueHolds == Spec => []StatusTrue
<1>1. Inv => StatusTrue
  BY DEF Inv, CleanInv, StatusTrue, Told
<1>2. QED
  BY Invariant, <1>1, PTL
=============================================================================
