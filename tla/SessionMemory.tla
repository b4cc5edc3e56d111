--------------------------- MODULE SessionMemory ---------------------------
(***************************************************************************)
(* The conversations a served agent remembers: SessionMemory of            *)
(* davinci/memory.py, an LRU of threads with a window of turns each, and   *)
(* the part of _run_agent (davinci/caspar_runtime.py) that resolves the    *)
(* conversation of a task and records its turn.                            *)
(*                                                                         *)
(* The orchestrator is external.  It owns the durable record of a thread   *)
(* and may or may not send it along; the record may already hold the       *)
(* current prompt (the race that _run_agent provides for).                 *)
(***************************************************************************)
EXTENDS Integers, Sequences, SequencesExt, FiniteSets, Selections

CONSTANTS
    Threads,        \* session ids
    Prompts,        \* what users ask
    max_messages, max_sessions,
    MaxRuns         \* bound: tasks served

ASSUME MemoryAssumption ==
    /\ max_messages \in Nat \ {0} /\ max_sessions \in Nat \ {0}
    /\ MaxRuns \in Nat

VARIABLES
    order,      \* the keys of _sessions, least recently used first
    msgs,       \* the turns kept of each thread, <<>> for one that is not kept
    pc,         \* "idle" or "running"
    run,        \* the task being served, counted from 1
    thread, objective,   \* its session id and its prompt
    context,    \* the conversation it is run with
    talk,       \* the orchestrator's record of each thread
    used,       \* history: the last run of each thread that stored something
    raised      \* history: the runs that raised

memory == <<order, msgs>>
task == <<run, thread, objective>>
vars_memory == <<memory, pc, task, context, talk, used, raised>>

\* A turn is known by the run it belongs to.
User(p, n) == [role |-> "user", content |-> p, run |-> n]
Agent(n) == [role |-> "assistant", content |-> n, run |-> n]

InitMemory ==
    /\ order = <<>>
    /\ msgs = [t \in Threads |-> <<>>]
    /\ pc = "idle"
    /\ run = 0
    /\ thread \in Threads /\ objective \in Prompts
    /\ context = <<>>
    /\ talk = [t \in Threads |-> <<>>]
    /\ used = [t \in Threads |-> 0]
    /\ raised = {}

-----------------------------------------------------------------------------
(* SessionMemory *)

\* Seeded fault: one turn too many is kept.
Window_OneMore(turns) ==
    IF Len(turns) <= max_messages THEN turns
    ELSE SubSeq(turns, Len(turns) - max_messages, Len(turns))

\* The last max_messages turns.
Window(turns) ==
    IF Len(turns) <= max_messages THEN turns
    ELSE SubSeq(turns, Len(turns) - max_messages + 1, Len(turns))

\* Seeded fault: a thread keeps its place when it is used again.
Touched_InPlace(t) ==
    LET moved == IF t \in Range(order) THEN order ELSE Append(order, t)
    IN  IF Len(moved) > max_sessions THEN Tail(moved) ELSE moved

\* _touch: thread t becomes the most recently used; the least recently used is
\* evicted when there are too many.
Touched(t) ==
    LET moved == Append(Filtered(order, Threads \ {t}), t)
    IN  IF Len(moved) > max_sessions THEN Tail(moved) ELSE moved

\* append (twice) and replace: in run n the turns of t become turns.
Keep(t, turns, n) ==
    /\ order' = Touched(t)
    /\ msgs' = [u \in Threads |->
                  IF u = t THEN Window(turns)
                  ELSE IF u \in Range(order') THEN msgs[u] ELSE <<>>]
    /\ used' = [used EXCEPT ![t] = n]

-----------------------------------------------------------------------------
(* _run_agent *)

\* A trailing user turn identical to the objective is dropped.
WithoutStray(turns, p) ==
    IF turns # <<>> /\ Last(turns).role = "user" /\ Last(turns).content = p
    THEN Front(turns) ELSE turns

\* A task comes; early says that its prompt is in the record already, sent that
\* the record is sent along.  A history that was sent is authoritative,
\* otherwise the memory is used.
Begin(t, p, early, sent) ==
    LET record == IF early THEN Append(talk[t], User(p, run + 1)) ELSE talk[t]
    IN  /\ pc = "idle"
        /\ run < MaxRuns
        /\ run' = run + 1
        /\ thread' = t /\ objective' = p
        /\ talk' = [talk EXCEPT ![t] = record]
        /\ IF sent /\ record # <<>>
           THEN Keep(t, record, run + 1) /\ context' = WithoutStray(record, p)
           ELSE UNCHANGED <<memory, used>> /\ context' = WithoutStray(msgs[t], p)
        /\ pc' = "running"
        /\ UNCHANGED raised

\* The turns of a run: its prompt, and its answer if it has one.
Turns(answered) ==
    IF answered THEN <<User(objective, run), Agent(run)>> ELSE <<User(objective, run)>>

\* The orchestrator brings its record up to date; it has the prompt perhaps.
Recorded(answered) ==
    [talk EXCEPT ![thread] =
        IF @ # <<>> /\ Last(@).run = run THEN Front(@) \o Turns(answered)
        ELSE @ \o Turns(answered)]

\* Seeded fault: the turn goes to the thread that was used last.
EndRun_LastThread(answered) ==
    /\ pc = "running"
    /\ LET t == IF order = <<>> THEN thread ELSE Last(order)
       IN  Keep(t, msgs[t] \o Turns(answered), run)
    /\ talk' = Recorded(answered)
    /\ pc' = "idle"
    /\ UNCHANGED <<task, context, raised>>

\* The run returned, with an answer or with none: its turns are appended.
EndRun(answered) ==
    /\ pc = "running"
    /\ Keep(thread, msgs[thread] \o Turns(answered), run)
    /\ talk' = Recorded(answered)
    /\ pc' = "idle"
    /\ UNCHANGED <<task, context, raised>>

\* The run raised: nothing is recorded.
RunRaises ==
    /\ pc = "running"
    /\ pc' = "idle"
    /\ raised' = raised \cup {run}
    /\ UNCHANGED <<memory, used, task, context, talk>>

NextMemory ==
    \/ \E t \in Threads, p \in Prompts, early, sent \in BOOLEAN : Begin(t, p, early, sent)
    \/ \E answered \in BOOLEAN : EndRun(answered)
    \/ RunRaises

SpecMemory == InitMemory /\ [][NextMemory]_vars_memory

-----------------------------------------------------------------------------
(* Properties *)

Turn == [role : {"user"}, content : Prompts, run : 1..MaxRuns]
        \cup [role : {"assistant"}, content : 1..MaxRuns, run : 1..MaxRuns]

\* The bounds of the memory are part of its type.
MemoryTypeOK ==
    /\ order \in Seq(Threads) /\ Len(order) <= max_sessions /\ IsInjective(order)
    /\ msgs \in [Threads -> Seq(Turn)]
    /\ \A t \in Threads : Len(msgs[t]) <= max_messages
    /\ \A t \in Threads : msgs[t] # <<>> <=> t \in Range(order)
    /\ pc \in {"idle", "running"}
    /\ run \in 0..MaxRuns /\ thread \in Threads /\ objective \in Prompts
    /\ context \in Seq(Turn)
    /\ talk \in [Threads -> Seq(Turn)]
    /\ used \in [Threads -> 0..MaxRuns]
    /\ raised \subseteq 1..MaxRuns

\* turns less those of some runs.
Less(turns, runs) == Filtered(turns, {turn \in Turn : turn.run \notin runs})

\* The record of the thread as it was before this run.
Earlier == Less(talk[thread], {run})

\* turns less the prompts of runs that raised, which the memory may lack.
Served(turns) == Less(turns, raised)

\* turns without those that are there twice in a row.
Undoubled(turns) ==
    LET once[n \in 0..Len(turns)] ==
            IF n = 0 THEN <<>>
            ELSE IF n > 1 /\ turns[n] = turns[n - 1] THEN once[n - 1]
            ELSE Append(once[n - 1], turns[n])
    IN  once[Len(turns)]

\* A run never sees another thread, a gap, a wrong order or its own prompt ("drop
\* it so objective is the sole current turn", _run_agent): what it is given,
\* doubled turns apart, is the end of its own conversation before it, less perhaps
\* a last prompt that is the same as the current one.
ContextInOrder ==
    pc = "running" =>
        LET record == Served(Earlier)
        IN  \/ IsSuffix(Served(Undoubled(context)), record)
            \/ IsSuffix(Served(Undoubled(context)), WithoutStray(record, objective))

\* LRU: a thread is only forgotten when max_sessions others were used since.
RecentThreadsKept ==
    \A t \in Threads :
        used[t] # 0 /\ Cardinality({u \in Threads : used[u] > used[t]}) < max_sessions
            => t \in Range(order)

=============================================================================
