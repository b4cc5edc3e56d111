------------------------ MODULE VercelSandboxProofs ------------------------
(***************************************************************************)
(* What is proved of the sandbox tool for any number of worker threads,    *)
(* operations and sessions: its types, that the retry never runs a command *)
(* twice, and that creating and running only fail for the reasons that     *)
(* they may fail for.                                                      *)
(***************************************************************************)
EXTENDS VercelSandbox, TLAPS

USE DEF Scoped

-----------------------------------------------------------------------------
(* The inductive invariant *)

\* Which operations pass through a place.
Passing(place) ==
    CASE place \in {"lookup", "store", "call", "forget"} -> Scoped
      [] place = "get"                -> Scoped \cup {"start"}
      [] place \in {"create", "adopt"} -> Scoped \cup {"create", "start"}
      [] place = "info"               -> {"info"}
      [] place \in {"peek", "stop"}    -> {"stop"}
      [] place = "destroy"            -> {"delete"}
      [] place = "drop"               -> {"stop", "delete"}
      [] place = "idle"               -> Ops

\* A session id is at hand where it is needed.
PlaceInv(w) ==
    /\ op[w] \in Passing(at[w])
    /\ at[w] = "store" => sid[w] # 0

\* A command ends the operation in which it ran.
RunInv(w) ==
    /\ at[w] # "idle" => ran[w] = 0
    /\ ran[w] <= 1
    /\ at[w] = "idle" /\ op[w] \in Scoped /\ result[w] = "ok"   => ran[w] = 1
    /\ at[w] = "idle" /\ op[w] \in Scoped /\ result[w] \in {"gone", "refused"} => ran[w] = 0

\* The sandbox that made the creation fail is there until someone deletes it.
AdoptInv(w) ==
    /\ at[w] = "adopt" => exists \/ deleted[w]
    /\ at[w] = "idle" /\ op[w] \in {"create", "start"} /\ result[w] = "gone" => deleted[w]

\* A worker that nobody works beside finds in its second attempt what it left
\* there itself: no cached id, and then the live session.
RecoverInv(w) ==
    /\ at[w] # "idle" /\ ~shared[w] => \A u \in Workers \ {w} : at[u] = "idle"
    /\ ~shared[w] /\ ~ended[w] /\ retried[w] =>
           /\ at[w] = "lookup" => cache = 0
           /\ at[w] \in {"store", "call"} => sid[w] = live
    /\ at[w] = "idle" /\ op[w] \in Scoped /\ result[w] = "gone"
           => ended[w] \/ deleted[w] \/ shared[w]

WorkerInv(w) == PlaceInv(w) /\ RunInv(w) /\ AdoptInv(w) /\ RecoverInv(w)

Inv == TypeOK /\ \A w \in Workers : WorkerInv(w)

-----------------------------------------------------------------------------
(* Types *)

LEMMA PassingOps == \A place \in Places : Passing(place) \subseteq Ops
BY DEF Passing, Places, Ops

LEMMA InitInv == Init => Inv
<1> SUFFICES ASSUME Init PROVE Inv
  OBVIOUS
<1>1. TypeOK
  <2>0. exists \in BOOLEAN
    BY DEF Init
  <2>1. /\ ops \in 0..MaxOps
        /\ sessions \in 0..MaxSessions /\ live \in 0..MaxSessions /\ cache \in 0..MaxSessions
        /\ sid \in [Workers -> 0..MaxSessions] /\ ran \in [Workers -> 0..2]
    BY SandboxAssumption DEF Init
  <2>2. /\ op \in [Workers -> Ops] /\ at \in [Workers -> Places]
        /\ \A w \in Workers : at[w] = "call" => sid[w] # 0
        /\ result \in [Workers -> {"none", "ok", "gone", "refused", "absent", "unreachable"}]
    BY DEF Init, Ops, Places
  <2>3. /\ retried \in [Workers -> BOOLEAN] /\ deleted \in [Workers -> BOOLEAN]
        /\ ended \in [Workers -> BOOLEAN] /\ shared \in [Workers -> BOOLEAN]
    BY DEF Init
  <2>4. QED
    BY <2>0, <2>1, <2>2, <2>3 DEF TypeOK
<1>2. ASSUME NEW w \in Workers PROVE WorkerInv(w)
  BY DEF Init, WorkerInv, PlaceInv, RunInv, AdoptInv, RecoverInv, Passing, Ops
<1>3. QED
  BY <1>1, <1>2 DEF Inv

\* What the helpers of the actions leave of the types.
LEMMA GoType ==
    ASSUME TypeOK, NEW w \in Workers, NEW place \in Places
    PROVE  /\ Go(w, place) => at' \in [Workers -> Places] /\ at'[w] = place
           /\ \A how \in {"ok", "gone", "refused", "absent", "unreachable"} : End(w, how) =>
                  /\ at' \in [Workers -> Places] /\ at'[w] = "idle"
                  /\ result' \in [Workers -> {"none", "ok", "gone", "refused", "absent", "unreachable"}]
           /\ Answered(w, place) =>
                  /\ at' \in [Workers -> Places] /\ at'[w] \in {place, "idle"}
                  /\ result' \in [Workers -> {"none", "ok", "gone", "refused", "absent", "unreachable"}]
BY DEF TypeOK, Go, End, Answered, Places

LEMMA ResumeType ==
    ASSUME TypeOK, Resume
    PROVE  /\ sessions' \in 0..MaxSessions /\ live' \in 0..MaxSessions /\ live' # 0
           /\ live # 0 => live' = live
BY SandboxAssumption DEF TypeOK, Resume

\* A worker at a place has an operation that passes there.
LEMMA AtOp ==
    ASSUME Inv, NEW w \in Workers
    PROVE  /\ at[w] \in {"lookup", "store", "call", "forget"} => op[w] \in Scoped
           /\ at[w] = "get" => op[w] \in Scoped \cup {"start"}
           /\ at[w] \in {"create", "adopt"} => op[w] \in Scoped \cup {"create", "start"}
           /\ at[w] = "info" => op[w] = "info"
           /\ at[w] \in {"peek", "stop"} => op[w] = "stop"
           /\ at[w] = "destroy" => op[w] = "delete"
           /\ at[w] = "drop" => op[w] \in {"stop", "delete"}
<1>1. op[w] \in Passing(at[w])
  BY DEF Inv, WorkerInv, PlaceInv
<1>2. QED
  BY <1>1 DEF Passing

\* What a worker leaves that was given a session.
LEMMA ResolvedType ==
    ASSUME TypeOK, NEW w \in Workers, Resume, Resolved(w), op[w] \in Scoped \cup {"create", "start"}
    PROVE  /\ sid' \in [Workers -> 0..MaxSessions] /\ sid'[w] = live' /\ live' # 0
           /\ at' \in [Workers -> Places]
           /\ result' \in [Workers -> {"none", "ok", "gone", "refused", "absent", "unreachable"}]
           /\ at'[w] = "store" => op[w] \in Scoped /\ result' = result
           /\ at'[w] \in {"store", "idle"}
           /\ at'[w] = "idle" => result'[w] \in {"ok", "unreachable"}
           /\ at'[w] = "idle" /\ op[w] \in Scoped => result'[w] = "unreachable"
           /\ \A u \in Workers \ {w} : sid'[u] = sid[u] /\ at'[u] = at[u] /\ result'[u] = result[u]
<1>1. live' \in 0..MaxSessions /\ live' # 0
  BY ResumeType
<1>2. sid' = [sid EXCEPT ![w] = live']
  BY DEF Resolved
<1>3. sid' \in [Workers -> 0..MaxSessions] /\ sid'[w] = live'
      /\ \A u \in Workers \ {w} : sid'[u] = sid[u]
  BY <1>1, <1>2 DEF TypeOK
<1>4. CASE op[w] \in Scoped /\ Go(w, "store") /\ result' = result
  BY <1>1, <1>3, <1>4 DEF TypeOK, Go, Places
<1>5. CASE End(w, "unreachable") \/ (op[w] \notin Scoped /\ End(w, "ok"))
  BY <1>1, <1>3, <1>5 DEF TypeOK, End, Go, Places
<1>6. QED
  BY <1>4, <1>5 DEF Resolved, Answered

\* Noted marks those that are at work.
LEMMA NotedType ==
    ASSUME TypeOK, NEW flag \in [Workers -> BOOLEAN]
    PROVE  Noted(flag) \in [Workers -> BOOLEAN]
BY DEF TypeOK, Noted

LEMMA NextType ==
    ASSUME Inv, [Next]_vars
    PROVE  TypeOK'
<1> USE SandboxAssumption
<1> USE DEF service, history
<1>0. TypeOK
  BY DEF Inv
<1> DEFINE Hows == {"none", "ok", "gone", "refused", "absent", "unreachable"}
<1>1. ASSUME NEW w \in Workers, NEW o \in Ops, Begin(w, o) PROVE TypeOK'
  <2>1. at' \in [Workers -> Places] /\ at'[w] # "call"
    BY <1>0, <1>1 DEF TypeOK, Begin, Go, Places, Ops
  <2>2. /\ op' \in [Workers -> Ops] /\ sid' \in [Workers -> 0..MaxSessions]
        /\ ran' \in [Workers -> 0..2] /\ retried' \in [Workers -> BOOLEAN]
        /\ deleted' \in [Workers -> BOOLEAN] /\ ended' \in [Workers -> BOOLEAN]
    BY <1>0, <1>1 DEF TypeOK, Begin
  <2>3. shared' \in [Workers -> BOOLEAN]
    BY <1>0, <1>1 DEF TypeOK, Begin
  <2>4. cache' \in 0..MaxSessions /\ ops' \in 0..MaxOps
    BY <1>0, <1>1 DEF TypeOK, Begin
  <2>5. \A u \in Workers : at'[u] = "call" => at[u] = "call" /\ sid'[u] = sid[u]
    BY <1>0, <1>1, <2>1 DEF TypeOK, Begin, Go
  <2>6. UNCHANGED <<service, result>>
    BY <1>1 DEF Begin
  <2>7. QED
    BY <1>0, <2>1, <2>2, <2>3, <2>4, <2>5, <2>6 DEF TypeOK
<1>2. ASSUME NEW w \in Workers, Worker(w) PROVE TypeOK'
  <2>1. CASE Lookup(w)
    BY <1>0, <2>1 DEF TypeOK, Lookup, Go, Places
  <2>2. CASE Get(w) \/ Create(w) \/ Adopt(w)
    <3>1. op[w] \in Scoped \cup {"create", "start"}
      BY <2>2, AtOp DEF Get, Create, Adopt
    <3>2. exists' \in BOOLEAN /\ UNCHANGED <<cache, op, retried, history, ops>>
      BY <1>0, <2>2 DEF TypeOK, Get, Create, Adopt
    <3>3. CASE Resume /\ Resolved(w)
      <4>1. sessions' \in 0..MaxSessions /\ live' \in 0..MaxSessions
        BY <1>0, <3>3, ResumeType
      <4>2. \A u \in Workers : at'[u] = "call" => at[u] = "call" /\ sid'[u] = sid[u]
        BY <1>0, <3>1, <3>3, ResolvedType
      <4>3. QED
        BY <1>0, <3>1, <3>2, <3>3, <4>1, <4>2, ResolvedType DEF TypeOK
    <3>4. CASE /\ Answered(w, "create") \/ Answered(w, "adopt") \/ End(w, "gone")
               /\ UNCHANGED <<live, sessions, sid>>
      <4>1. /\ at' \in [Workers -> Places] /\ result' \in [Workers -> Hows]
            /\ \A u \in Workers : at'[u] = "call" => at[u] = "call"
        BY <1>0, <3>4 DEF TypeOK, Answered, End, Go, Places
      <4>2. QED
        BY <1>0, <3>2, <3>4, <4>1 DEF TypeOK
    <3>5. QED
      BY <2>2, <3>3, <3>4 DEF Get, Create, Adopt
  <2>3. CASE Store(w)
    BY <1>0, <2>3 DEF TypeOK, Store, Go, Places, Inv, WorkerInv, PlaceInv
  <2>4. CASE Call(w)
    <3>1. ran[w] = 0
      BY <2>4 DEF Call, Inv, WorkerInv, RunInv
    <3>2. ran' \in [Workers -> 0..2]
      BY <1>0, <2>4, <3>1 DEF TypeOK, Call, Refused
    <3>3. /\ at' \in [Workers -> Places] /\ result' \in [Workers -> Hows]
          /\ \A u \in Workers : at'[u] = "call" => at[u] = "call"
      BY <1>0, <2>4 DEF TypeOK, Call, Refused, End, Go, Places
    <3>4. QED
      BY <1>0, <2>4, <3>2, <3>3 DEF TypeOK, Call
  <2>5. CASE Forget(w)
    BY <1>0, <2>5 DEF TypeOK, Forget, Go, Places
  <2>6. CASE Info(w) \/ Peek(w) \/ Stop(w) \/ Destroy(w) \/ Drop(w) \/ Fails(w)
    <3>1. /\ at' \in [Workers -> Places] /\ result' \in [Workers -> Hows]
          /\ \A u \in Workers : at'[u] = "call" => at[u] = "call" /\ u # w
      BY <1>0, <2>6 DEF TypeOK, Info, Peek, Stop, Destroy, Drop, Fails, Answered, End, Go, Places
    <3>2. /\ sid' \in [Workers -> 0..MaxSessions]
          /\ \A u \in Workers \ {w} : sid'[u] = sid[u]
      BY <1>0, <2>6 DEF TypeOK, Info, Peek, Stop, Destroy, Drop, Fails
    <3>3. exists' \in BOOLEAN /\ cache' \in 0..MaxSessions
      <4>1. exists' = exists \/ exists' = FALSE
        BY <2>6 DEF Info, Peek, Stop, Destroy, Drop, Fails
      <4>2. cache' = cache \/ cache' = 0
        BY <2>6 DEF Info, Peek, Stop, Destroy, Drop, Fails
      <4>3. cache' \in 0..MaxSessions
        BY <1>0, <4>2 DEF TypeOK
      <4>4. exists' \in BOOLEAN
        BY <1>0, <4>1, Zenon DEF TypeOK
      <4>5. QED
        BY <4>3, <4>4
    <3>4. sessions' \in 0..MaxSessions /\ live' \in 0..MaxSessions
      BY <1>0, <2>6, ResumeType DEF TypeOK, Info, Peek, Stop, Destroy, Drop, Fails
    <3>5. deleted' \in [Workers -> BOOLEAN] /\ ended' \in [Workers -> BOOLEAN]
      BY <1>0, <2>6, NotedType DEF TypeOK, Info, Peek, Stop, Destroy, Drop, Fails
    <3>6. UNCHANGED <<op, retried, shared, ran, ops>>
      BY <2>6 DEF Info, Peek, Stop, Destroy, Drop, Fails
    <3>7. QED
      BY <1>0, <3>1, <3>2, <3>3, <3>4, <3>5, <3>6 DEF TypeOK
  <2>7. QED
    BY <1>2, <2>1, <2>2, <2>3, <2>4, <2>5, <2>6 DEF Worker
<1>3. CASE SessionEnds
  BY <1>0, <1>3, NotedType DEF TypeOK, SessionEnds
<1>4. CASE CacheExpires \/ UNCHANGED vars
  BY <1>0, <1>4 DEF TypeOK, CacheExpires, vars
<1>5. QED
  BY <1>1, <1>2, <1>3, <1>4 DEF Next

-----------------------------------------------------------------------------
(* The invariant of a worker *)

\* An operation begins: nothing has happened in it, and the others see the worker.
LEMMA BeginInv ==
    ASSUME Inv, NEW w \in Workers, NEW o \in Ops, Begin(w, o), NEW u \in Workers
    PROVE  WorkerInv(u)'
<1> USE DEF service, history
<1>0. TypeOK /\ WorkerInv(u)
  BY DEF Inv
<1>1. CASE u = w
  <2>0. op'[w] = o /\ retried'[w] = FALSE /\ ran'[w] = 0
    BY <1>0 DEF TypeOK, Begin
  <2>1. /\ at'[w] = CASE o \in Scoped -> "lookup"
                      [] o = "create" -> "create"
                      [] o = "start"  -> "get"
                      [] o = "info"   -> "info"
                      [] o = "stop"   -> "peek"
                      [] o = "delete" -> "destroy"
        /\ \A x \in Workers \ {w} : at'[x] = at[x]
    BY <1>0 DEF TypeOK, Begin, Go
  <2>2. shared'[w] = \E x \in Workers : at[x] # "idle"
    BY <1>0 DEF TypeOK, Begin
  <2>3. PlaceInv(w)' /\ at'[w] \notin {"idle", "adopt", "store", "call"}
    BY <2>0, <2>1 DEF PlaceInv, Passing, Ops
  <2>4. RunInv(w)' /\ AdoptInv(w)'
    BY <2>0, <2>3 DEF RunInv, AdoptInv
  <2>5. RecoverInv(w)'
    BY <2>0, <2>1, <2>2, <2>3 DEF RecoverInv
  <2>6. QED
    BY <1>1, <2>3, <2>4, <2>5 DEF WorkerInv
<1>2. CASE u # w
  <2>1. /\ op'[u] = op[u] /\ sid'[u] = sid[u] /\ retried'[u] = retried[u] /\ ran'[u] = ran[u]
        /\ at'[u] = at[u] /\ result'[u] = result[u] /\ deleted'[u] = deleted[u]
        /\ ended'[u] = ended[u] /\ cache' \in {0, cache} /\ UNCHANGED <<exists, live>>
    BY <1>0, <1>2 DEF TypeOK, Begin, Go
  <2>2. shared'[u] = (shared[u] \/ at[u] # "idle")
    BY <1>0, <1>2 DEF TypeOK, Begin
  <2>3. PlaceInv(u)' /\ RunInv(u)' /\ AdoptInv(u)'
    BY <1>0, <2>1 DEF WorkerInv, PlaceInv, RunInv, AdoptInv
  <2>4. RecoverInv(u)'
    <3>1. at'[u] # "idle" => shared'[u]
      BY <2>1, <2>2
    <3>2. shared[u] => shared'[u]
      BY <2>2
    <3>3. QED
      BY <1>0, <2>1, <3>1, <3>2 DEF WorkerInv, RecoverInv, TypeOK
  <2>5. QED
    BY <2>3, <2>4 DEF WorkerInv
<1>3. QED
  BY <1>1, <1>2

\* A step of another worker.  Whoever it worked beside is shared; a session or a
\* sandbox that it ends is noted.
LEMMA OtherInv ==
    ASSUME Inv, NEW w \in Workers, Worker(w), NEW u \in Workers, u # w
    PROVE  WorkerInv(u)'
<1> USE DEF service, history
<1>0. TypeOK /\ WorkerInv(u) /\ WorkerInv(w)
  BY DEF Inv
<1>1. at[w] # "idle"
  BY DEF Worker, Lookup, Get, Create, Adopt, Store, Call, Forget, Info, Peek, Stop, Destroy, Drop, Fails
<1>2. at'[u] = at[u] /\ result'[u] = result[u]
  BY <1>0 DEF TypeOK, Worker, Lookup, Get, Create, Adopt, Store, Call, Refused, Forget, Info, Peek, Stop,
     Destroy, Drop, Fails, Resolved, Answered, End, Go
<1>3. /\ op'[u] = op[u] /\ sid'[u] = sid[u] /\ retried'[u] = retried[u] /\ ran'[u] = ran[u]
      /\ shared'[u] = shared[u]
  BY <1>0 DEF TypeOK, Worker, Lookup, Get, Create, Adopt, Store, Call, Refused, Forget, Info, Peek, Stop,
     Destroy, Drop, Fails, Resolved
<1>4. /\ at[u] # "idle" /\ exists => exists' \/ deleted'[u]
      /\ deleted[u] => deleted'[u]
      /\ ended[u] => ended'[u]
  BY <1>0 DEF TypeOK, Worker, Lookup, Get, Create, Adopt, Store, Call, Refused, Forget, Info, Peek, Stop,
     Destroy, Drop, Fails, Noted
<1>5. at[u] # "idle" => shared[u]
  BY <1>0, <1>1 DEF WorkerInv, RecoverInv
<1>6. PlaceInv(u)' /\ RunInv(u)'
  BY <1>0, <1>2, <1>3 DEF WorkerInv, PlaceInv, RunInv
<1>7. AdoptInv(u)'
  BY <1>0, <1>2, <1>3, <1>4 DEF WorkerInv, AdoptInv
<1>8. RecoverInv(u)'
  BY <1>0, <1>2, <1>3, <1>4, <1>5 DEF WorkerInv, RecoverInv
<1>9. QED
  BY <1>6, <1>7, <1>8 DEF WorkerInv

\* The worker's own steps.
LEMMA OwnInv ==
    ASSUME Inv, NEW w \in Workers, Worker(w)
    PROVE  WorkerInv(w)'
<1> USE DEF service, history
<1> DEFINE Alone == \A u \in Workers \ {w} : at'[u] = at[u]
<1>0. TypeOK /\ WorkerInv(w)
  BY DEF Inv
<1>1. CASE Lookup(w)
  <2>1. /\ at'[w] = IF cache # 0 THEN "call" ELSE "get"
        /\ sid'[w] = cache /\ Alone
        /\ UNCHANGED <<op, retried, result, ran, deleted, ended, shared, exists, live, cache>>
    BY <1>0, <1>1 DEF TypeOK, Lookup, Go
  <2>2. PlaceInv(w)' /\ RunInv(w)' /\ AdoptInv(w)'
    BY <1>0, <1>1, <2>1 DEF Lookup, WorkerInv, PlaceInv, RunInv, AdoptInv, Passing
  <2>3. RecoverInv(w)'
    BY <1>0, <1>1, <2>1 DEF Lookup, WorkerInv, RecoverInv
  <2>4. QED
    BY <2>2, <2>3 DEF WorkerInv
<1>2. CASE Get(w) \/ Create(w) \/ Adopt(w)
  <2>1. op[w] \in Scoped \cup {"create", "start"} /\ at[w] # "idle"
    BY <1>2, AtOp DEF Get, Create, Adopt
  <2>2. /\ UNCHANGED <<cache, op, retried, ran, deleted, ended, shared>>
        /\ exists => exists'
    BY <1>2 DEF Get, Create, Adopt
  <2>3. CASE Resume /\ Resolved(w)
    <3>1. /\ sid'[w] = live' /\ live' # 0 /\ Alone
          /\ at'[w] \in {"store", "idle"} /\ (at'[w] = "store" => op[w] \in Scoped)
          /\ at'[w] = "idle" => result'[w] \in {"ok", "unreachable"}
          /\ at'[w] = "idle" /\ op[w] \in Scoped => result'[w] = "unreachable"
      BY <1>0, <2>1, <2>3, ResolvedType
    <3>2. PlaceInv(w)' /\ RunInv(w)' /\ AdoptInv(w)'
      BY <1>0, <2>1, <2>2, <3>1 DEF WorkerInv, PlaceInv, RunInv, AdoptInv, Passing, Ops
    <3>3. RecoverInv(w)'
      BY <1>0, <2>1, <2>2, <3>1 DEF WorkerInv, RecoverInv
    <3>4. QED
      BY <3>2, <3>3 DEF WorkerInv
  <2>4. CASE \/ Get(w) /\ ~exists /\ Answered(w, "create")
             \/ Create(w) /\ exists /\ Answered(w, "adopt")
             \/ Adopt(w) /\ ~exists /\ End(w, "gone")
    <3>1. /\ Alone
          /\ \/ at'[w] = "create" \/ (at'[w] = "adopt" /\ exists)
             \/ (at'[w] = "idle" /\ result'[w] = "unreachable")
             \/ (at'[w] = "idle" /\ result'[w] = "gone" /\ deleted[w])
      BY <1>0, <2>4 DEF TypeOK, Answered, End, Go, Adopt, WorkerInv, AdoptInv
    <3>2. PlaceInv(w)' /\ RunInv(w)' /\ AdoptInv(w)'
      BY <1>0, <2>1, <2>2, <3>1 DEF WorkerInv, PlaceInv, RunInv, AdoptInv, Passing, Ops
    <3>3. RecoverInv(w)'
      BY <1>0, <2>1, <2>2, <3>1 DEF WorkerInv, RecoverInv
    <3>4. QED
      BY <3>2, <3>3 DEF WorkerInv
  <2>5. QED
    BY <1>2, <2>3, <2>4 DEF Get, Create, Adopt
<1>3. CASE Store(w)
  <2>1. /\ at'[w] = "call" /\ Alone
        /\ UNCHANGED <<op, sid, retried, result, ran, deleted, ended, shared, exists, live>>
    BY <1>0, <1>3 DEF TypeOK, Store, Go
  <2>2. PlaceInv(w)' /\ RunInv(w)' /\ AdoptInv(w)' /\ RecoverInv(w)'
    BY <1>0, <1>3, <2>1 DEF Store, WorkerInv, PlaceInv, RunInv, AdoptInv, RecoverInv, Passing
  <2>3. QED
    BY <2>2 DEF WorkerInv
<1>4. CASE Call(w)
  <2>1. /\ Alone /\ UNCHANGED <<op, sid, retried, deleted, ended, shared, exists, live, cache>>
        /\ op[w] \in Scoped /\ ran[w] = 0 /\ at[w] = "call"
    BY <1>0, <1>4, AtOp DEF TypeOK, Call, Refused, End, Go, WorkerInv, RunInv
  <2>2. CASE sid[w] = live /\ ran'[w] = 1
    <3>1. at'[w] = "idle" /\ result'[w] \in {"ok", "unreachable"}
      BY <1>0, <1>4, <2>1, <2>2 DEF TypeOK, Call, Refused, End, Go
    <3>2. PlaceInv(w)' /\ RunInv(w)' /\ AdoptInv(w)' /\ RecoverInv(w)'
      BY <2>1, <2>2, <3>1 DEF PlaceInv, RunInv, AdoptInv, RecoverInv, Passing, Ops
    <3>3. QED
      BY <3>2 DEF WorkerInv
  <2>3. CASE Refused(w, "gone") \/ Refused(w, "refused")
    <3>1. CASE ~retried[w]
      <4>1. ran'[w] = 0 /\ at'[w] = "forget"
        BY <1>0, <2>1, <2>3, <3>1 DEF TypeOK, Refused, Go
      <4>2. PlaceInv(w)' /\ RunInv(w)' /\ AdoptInv(w)' /\ RecoverInv(w)'
        BY <1>0, <2>1, <3>1, <4>1 DEF WorkerInv, PlaceInv, RunInv, AdoptInv, RecoverInv, Passing
      <4>3. QED
        BY <4>2 DEF WorkerInv
    <3>2. CASE retried[w]
      <4>1. ran'[w] = 0 /\ at'[w] = "idle" /\ result'[w] \in {"gone", "refused"}
        BY <1>0, <2>1, <2>3, <3>2 DEF TypeOK, Refused, End, Go
      <4>2. result'[w] = "gone" => sid[w] # live
        BY <1>0, <1>4, <2>1, <4>1 DEF TypeOK, Call, Refused, End, Go
      <4>3. result'[w] = "gone" => ended[w] \/ shared[w]
        BY <1>0, <2>1, <3>2, <4>2 DEF WorkerInv, RecoverInv
      <4>4. PlaceInv(w)' /\ RunInv(w)' /\ AdoptInv(w)' /\ RecoverInv(w)'
        BY <2>1, <4>1, <4>3 DEF PlaceInv, RunInv, AdoptInv, RecoverInv, Passing, Ops
      <4>5. QED
        BY <4>4 DEF WorkerInv
    <3>3. QED
      BY <3>1, <3>2
  <2>4. \/ sid[w] = live /\ ran'[w] = 1
        \/ Refused(w, "gone") \/ Refused(w, "refused")
    BY <1>0, <1>4, <2>1 DEF TypeOK, Call
  <2>5. QED
    BY <2>2, <2>3, <2>4
<1>5. CASE Forget(w)
  <2>1. /\ at'[w] = "lookup" /\ cache' = 0 /\ Alone
        /\ UNCHANGED <<op, sid, result, ran, deleted, ended, shared, exists, live>>
    BY <1>0, <1>5 DEF TypeOK, Forget, Go
  <2>2. PlaceInv(w)' /\ RunInv(w)' /\ AdoptInv(w)' /\ RecoverInv(w)'
    BY <1>0, <1>5, <2>1 DEF Forget, WorkerInv, PlaceInv, RunInv, AdoptInv, RecoverInv, Passing
  <2>3. QED
    BY <2>2 DEF WorkerInv
<1>6. CASE Info(w) \/ Peek(w) \/ Stop(w) \/ Destroy(w) \/ Drop(w)
  <2>1. op[w] \in {"info", "stop", "delete"} /\ at[w] # "idle"
    BY <1>6, AtOp DEF Info, Peek, Stop, Destroy, Drop
  <2>2. /\ Alone /\ UNCHANGED <<op, retried, ran, shared>>
        /\ \/ at'[w] = "idle"
           \/ (at'[w] = "stop" /\ op[w] = "stop")
           \/ (at'[w] = "drop" /\ op[w] \in {"stop", "delete"})
    BY <1>0, <1>6, AtOp DEF TypeOK, Info, Peek, Stop, Destroy, Drop, Answered, End, Go
  <2>3. PlaceInv(w)' /\ RunInv(w)' /\ AdoptInv(w)'
    BY <1>0, <2>1, <2>2 DEF WorkerInv, PlaceInv, RunInv, AdoptInv, Passing, Ops
  <2>4. RecoverInv(w)'
    BY <1>0, <2>1, <2>2 DEF WorkerInv, RecoverInv
  <2>5. QED
    BY <2>3, <2>4 DEF WorkerInv
<1>7. CASE Fails(w)
  <2>1. /\ at'[w] = "idle" /\ result'[w] = "unreachable"
        /\ at[w] # "idle"
        /\ UNCHANGED <<op, ran>>
    BY <1>0, <1>7 DEF TypeOK, Fails, End, Go
  <2>2. PlaceInv(w)' /\ RunInv(w)' /\ AdoptInv(w)' /\ RecoverInv(w)'
    BY <1>0, <2>1 DEF TypeOK, WorkerInv, PlaceInv, RunInv, AdoptInv, RecoverInv, Passing
  <2>3. QED
    BY <2>2 DEF WorkerInv
<1>8. QED
  BY <1>1, <1>2, <1>3, <1>4, <1>5, <1>6, <1>7 DEF Worker

\* A session ends, which whoever is at work notes, or a cached id grows old.
LEMMA TimeInv ==
    ASSUME Inv, SessionEnds \/ CacheExpires, NEW u \in Workers
    PROVE  WorkerInv(u)'
<1> USE DEF service, history
<1>0. TypeOK /\ WorkerInv(u)
  BY DEF Inv
<1>1. /\ UNCHANGED <<exists, op, at, sid, retried, result, ran, deleted, shared>>
      /\ live' = live \/ (at[u] # "idle" => ended'[u])
      /\ ended[u] => ended'[u]
      /\ cache' \in {0, cache}
  BY <1>0 DEF TypeOK, SessionEnds, CacheExpires, Noted
<1>2. PlaceInv(u)' /\ RunInv(u)' /\ AdoptInv(u)'
  BY <1>0, <1>1 DEF WorkerInv, PlaceInv, RunInv, AdoptInv
<1>3. RecoverInv(u)'
  BY <1>0, <1>1 DEF WorkerInv, RecoverInv
<1>4. QED
  BY <1>2, <1>3 DEF WorkerInv

LEMMA NextInv == Inv /\ [Next]_vars => Inv'
<1> SUFFICES ASSUME Inv, [Next]_vars PROVE Inv'
  OBVIOUS
<1>1. TypeOK'
  BY NextType
<1>2. ASSUME NEW u \in Workers PROVE WorkerInv(u)'
  <2>1. ASSUME NEW w \in Workers, Worker(w) PROVE WorkerInv(u)'
    BY <2>1, OwnInv, OtherInv
  <2>2. ASSUME NEW w \in Workers, NEW o \in Ops, Begin(w, o) PROVE WorkerInv(u)'
    BY <2>2, BeginInv
  <2>3. CASE UNCHANGED vars
    BY <2>3 DEF Inv, WorkerInv, PlaceInv, RunInv, AdoptInv, RecoverInv, vars, service, history
  <2>4. QED
    BY <2>1, <2>2, <2>3, TimeInv DEF Next
<1>3. QED
  BY <1>1, <1>2 DEF Inv

-----------------------------------------------------------------------------
(* Theorems *)

LEMMA Invariance == Spec => []Inv
<1>1. Init => Inv
  BY InitInv
<1>2. QED
  BY <1>1, NextInv, PTL DEF Spec

\* Every variable of the sandbox tool keeps its type; a session-scoped call is made
\* with a session id.
THEOREM TypeCorrect == Spec => []TypeOK
<1>1. Inv => TypeOK
  BY DEF Inv
<1>2. QED
  BY <1>1, Invariance, PTL

\* The retry of _with_session never runs a command twice and tells the truth.
THEOREM RunsAtMostOnceHolds == Spec => []RunsAtMostOnce
<1>1. Inv => RunsAtMostOnce
  BY DEF Inv, WorkerInv, RunInv, RunsAtMostOnce
<1>2. QED
  BY <1>1, Invariance, PTL

\* Creating or starting (_create, _action_start) fails only if somebody deletes.
THEOREM CreateAdoptsHolds == Spec => []CreateAdopts
<1>1. Inv => CreateAdopts
  BY DEF Inv, WorkerInv, AdoptInv, CreateAdopts
<1>2. QED
  BY <1>1, Invariance, PTL

\* A command of a worker alone recovers from any stale cached id (_with_session).
THEOREM RecoversAloneHolds == Spec => []RecoversAlone
<1>1. Inv => RecoversAlone
  BY DEF Inv, WorkerInv, RecoverInv, RecoversAlone
<1>2. QED
  BY <1>1, Invariance, PTL

=============================================================================
