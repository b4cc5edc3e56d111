----------------------- MODULE SignalingClientProofs -----------------------
(***************************************************************************)
(* What is proved of SignalingClient for any number of requests: its       *)
(* types, and that the client stays in step with the node as far as the    *)
(* code promises.                                                          *)
(***************************************************************************)
EXTENDS SignalingClient, SequenceTheorems, FiniteSetTheorems, TLAPS

(***************************************************************************)
(* The inductive invariant.                                                *)
(***************************************************************************)

\* The requests whose response the client has still to read, or has given up.
Missing == left \cup (IF pc # "idle" /\ ~acked THEN {op} ELSE {})

\* The places in the bytes s where a response begins.
Coming(s) == {i \in DOMAIN s : s[i].part = "length" /\ s[i].frame.tag = "response"}

\* A request that is under way has a number, and has not come back before.
RequestInv ==
    /\ pc # "idle" => op # 0 /\ op \notin left
    /\ pc = "idle" => ~acked
    /\ \A n \in left : n <= op

\* Of the responses that begin in s none is owed as well, none comes twice, and
\* they and the owed ones are all missing.
Orderly(missing, debts, s) ==
    /\ debts \subseteq missing
    /\ \A i \in Coming(s) : s[i].frame.of \in missing \ debts
    /\ \A i, j \in Coming(s) : s[i].frame.of = s[j].frame.of => i = j

\* f is a response that neither is owed nor begins in s: it is being read.
Apart(f, missing, debts, s) ==
    /\ f.of \in missing \ debts
    /\ \A i \in Coming(s) : s[i].frame.of # f.of

\* A response is on its way once: the node owes it, or its frame is in the stream,
\* or its length has been read.  It is then one that the client still misses.
AnswersInv ==
    /\ Orderly(Missing, owed, stream)
    /\ pc = "body" /\ frame.tag = "response" => Apart(frame, Missing, owed, stream)

Inv == TypeOK /\ RequestInv /\ AnswersInv

(***************************************************************************)
(* Frames and the bytes on the connection.                                 *)
(***************************************************************************)

LEMMA FrameType ==
    /\ EmptyFrame \in Frames
    /\ \A n \in Requests, code \in {0, 1} : Response(n, code) \in Frames
    /\ \A ids \in Envelopes : Update(ids) \in Frames
    /\ \A f \in Frames : /\ Length(f) \in Token /\ Body(f) \in Token
                         /\ f.of \in 0..MaxRequests /\ f.code \in {0, 1}
                         /\ f.tag \in {"response", "update", "empty"}
                         /\ f.tag = "response" => f.of \in Requests
                         /\ f.tag = "update" => f.ids \in Envelopes
<1>1. /\ EmptyFrame \in Frames
      /\ \A n \in Requests, code \in {0, 1} : Response(n, code) \in Frames
      /\ \A ids \in Envelopes : Update(ids) \in Frames
  BY DEF Frames
<1>2. ASSUME NEW f \in Frames
      PROVE  /\ f.of \in 0..MaxRequests /\ f.code \in {0, 1}
             /\ f.tag \in {"response", "update", "empty"}
             /\ f.tag = "response" => f.of \in Requests
             /\ f.tag = "update" => f.ids \in Envelopes
  <2>1. CASE \E n \in Requests, code \in {0, 1} : f = Response(n, code)
    BY <2>1, SignalingAssumption DEF Response, Requests
  <2>2. CASE \E ids \in Envelopes : f = Update(ids)
    BY <2>2, SignalingAssumption DEF Update
  <2>3. CASE f = EmptyFrame
    BY <2>3, SignalingAssumption DEF EmptyFrame
  <2>4. QED
    BY <2>1, <2>2, <2>3 DEF Frames
<1>3. \A f \in Frames : Length(f) \in Token /\ Body(f) \in Token
  BY DEF Token, Length, Body
<1>4. QED
  BY <1>1, <1>2, <1>3

\* An update that an await takes for its result is the result of that await.
LEMMA ResultType ==
    ASSUME NEW ids \in Envelopes, NEW n \in Requests, Correlated(ids, n)
    PROVE  ids[Len(ids)] = n
<1>1. CASE ids = <<0>>
  BY <1>1, SignalingAssumption DEF Correlated, Requests
<1>2. CASE \E m \in Requests : ids = <<0, m>>
  BY <1>2, SignalingAssumption DEF Correlated, Requests
<1>3. QED
  BY <1>1, <1>2 DEF Envelopes

\* Reading a token takes nothing from what is orderly but the response it begins.
LEMMA TailOrderly ==
    ASSUME NEW missing, NEW debts, NEW s \in Seq(Token), s # <<>>,
           Orderly(missing, debts, s)
    PROVE  /\ Tail(s) \in Seq(Token) /\ Head(s) \in Token
           /\ Orderly(missing, debts, Tail(s))
           /\ Head(s).part = "length" /\ Head(s).frame.tag = "response" =>
                 Apart(Head(s).frame, missing, debts, Tail(s))
           /\ \A f : Apart(f, missing, debts, s) => Apart(f, missing, debts, Tail(s))
<1>1. /\ Tail(s) \in Seq(Token) /\ Head(s) \in Token /\ Head(s) = s[1]
      /\ 1 \in DOMAIN s
      /\ \A i \in DOMAIN Tail(s) : i + 1 \in DOMAIN s /\ Tail(s)[i] = s[i + 1] /\ i \in Nat \ {0}
  OBVIOUS
<1>2. \A i \in Coming(Tail(s)) : /\ i + 1 \in Coming(s) /\ Tail(s)[i] = s[i + 1]
                                 /\ i + 1 # 1 /\ i \in Nat
  BY <1>1 DEF Coming
<1>3. Orderly(missing, debts, Tail(s))
  <2>1. ASSUME NEW i \in Coming(Tail(s)), NEW j \in Coming(Tail(s)),
               Tail(s)[i].frame.of = Tail(s)[j].frame.of
        PROVE  i = j
    <3>1. \A k, l \in Coming(s) : s[k].frame.of = s[l].frame.of => k = l
      BY DEF Orderly
    <3>2. /\ i + 1 \in Coming(s) /\ j + 1 \in Coming(s) /\ i \in Nat /\ j \in Nat
          /\ Tail(s)[i] = s[i + 1] /\ Tail(s)[j] = s[j + 1]
      BY <1>2
    <3>3. s[i + 1].frame.of = s[j + 1].frame.of
      BY <2>1, <3>2
    <3>4. i + 1 = j + 1
      BY <3>1, <3>2, <3>3
    <3>5. QED
      BY <3>2, <3>4
  <2>2. debts \subseteq missing /\ \A i \in Coming(Tail(s)) : Tail(s)[i].frame.of \in missing \ debts
    BY <1>2 DEF Orderly
  <2>3. QED
    BY <2>1, <2>2 DEF Orderly
<1>4. Head(s).part = "length" /\ Head(s).frame.tag = "response" =>
         Apart(Head(s).frame, missing, debts, Tail(s))
  <2>1. Head(s).part = "length" /\ Head(s).frame.tag = "response" => 1 \in Coming(s)
    BY <1>1 DEF Coming
  <2>2. QED
    BY <1>1, <1>2, <2>1 DEF Orderly, Apart
<1>5. \A f : Apart(f, missing, debts, s) => Apart(f, missing, debts, Tail(s))
  BY <1>2 DEF Apart
<1>6. QED
  BY <1>1, <1>3, <1>4, <1>5

\* Nor does losing the first bytes of a token.
LEMMA TornOrderly ==
    ASSUME NEW missing, NEW debts, NEW s \in Seq(Token), s # <<>>,
           Orderly(missing, debts, s)
    PROVE  LET torn == [s EXCEPT ![1] = [part |-> "body", frame |-> @.frame]]
           IN  torn \in Seq(Token) /\ Orderly(missing, debts, torn)
<1> DEFINE torn == [s EXCEPT ![1] = [part |-> "body", frame |-> @.frame]]
<1>1. 1 \in DOMAIN s /\ s[1] \in Token
  OBVIOUS
<1>2. [part |-> "body", frame |-> s[1].frame] \in Token
  BY <1>1 DEF Token
<1>3. torn \in Seq(Token) /\ DOMAIN torn = DOMAIN s /\ torn[1].part = "body"
  BY <1>1, <1>2
<1>4. \A i \in Coming(torn) : i \in Coming(s) /\ torn[i] = s[i]
  BY <1>3 DEF Coming
<1>5. Orderly(missing, debts, torn)
  BY <1>4 DEF Orderly
<1>6. QED
  BY <1>3, <1>5

\* Writing a token that begins no response leaves what is orderly as it was.
LEMMA AppendOther ==
    ASSUME NEW missing, NEW debts, NEW s \in Seq(Token), NEW t \in Token,
           ~(t.part = "length" /\ t.frame.tag = "response")
    PROVE  /\ Append(s, t) \in Seq(Token)
           /\ Orderly(missing, debts, s) => Orderly(missing, debts, Append(s, t))
           /\ \A f : Apart(f, missing, debts, s) => Apart(f, missing, debts, Append(s, t))
<1>1. \A i \in Coming(Append(s, t)) : i \in Coming(s) /\ Append(s, t)[i] = s[i]
  BY DEF Coming
<1>2. Orderly(missing, debts, s) => Orderly(missing, debts, Append(s, t))
  BY <1>1 DEF Orderly
<1>3. \A f : Apart(f, missing, debts, s) => Apart(f, missing, debts, Append(s, t))
  BY <1>1 DEF Apart
<1>4. QED
  BY <1>2, <1>3

\* The node begins a response that it owes: it owes it no more.
LEMMA AppendOwed ==
    ASSUME NEW missing, NEW debts, NEW s \in Seq(Token), NEW t \in Token,
           t.part = "length", t.frame.tag = "response", t.frame.of \in debts
    PROVE  /\ Append(s, t) \in Seq(Token)
           /\ Orderly(missing, debts, s) =>
                 Orderly(missing, debts \ {t.frame.of}, Append(s, t))
           /\ \A f : Apart(f, missing, debts, s) =>
                        Apart(f, missing, debts \ {t.frame.of}, Append(s, t))
<1>1. \A i \in Coming(Append(s, t)) : \/ i \in Coming(s) /\ Append(s, t)[i] = s[i]
                                      \/ i = Len(s) + 1 /\ Append(s, t)[i] = t
  BY DEF Coming
<1>2. Orderly(missing, debts, s) =>
         Orderly(missing, debts \ {t.frame.of}, Append(s, t))
  BY <1>1 DEF Orderly
<1>3. \A f : Apart(f, missing, debts, s) =>
                Apart(f, missing, debts \ {t.frame.of}, Append(s, t))
  BY <1>1 DEF Apart
<1>4. Append(s, t) \in Seq(Token)
  OBVIOUS
<1>5. QED
  BY <1>2, <1>3, <1>4

\* Nothing begins in a stream that is gone.
LEMMA EmptyOrderly ==
    ASSUME NEW missing, NEW s, s = <<>>
    PROVE  Orderly(missing, {}, s)
  BY DEF Orderly, Coming

\* What is orderly stays so when more is missing, and when the response that is
\* being read is not missing any more.
LEMMA MissingOrderly ==
    ASSUME NEW missing, NEW debts, NEW s, Orderly(missing, debts, s)
    PROVE  /\ \A more : missing \subseteq more =>
                 /\ Orderly(more, debts, s)
                 /\ \A f : Apart(f, missing, debts, s) => Apart(f, more, debts, s)
           /\ \A f : Apart(f, missing, debts, s) => Orderly(missing \ {f.of}, debts, s)
  BY DEF Orderly, Apart

\* It stays so when the node owes less.
LEMMA DebtsOrderly ==
    ASSUME NEW missing, NEW debts, NEW fewer, NEW s, fewer \subseteq debts
    PROVE  /\ Orderly(missing, debts, s) => Orderly(missing, fewer, s)
           /\ \A f : Apart(f, missing, debts, s) => Apart(f, missing, fewer, s)
  BY DEF Orderly, Apart

\* What the node writes of a frame, a token at a time.
LEMMA WritesTokens ==
    ASSUME NEW s \in Seq(Token), NEW f \in Frames
    PROVE  s \o <<Length(f), Body(f)>> = Append(Append(s, Length(f)), Body(f))
  BY FrameType

(***************************************************************************)
(* Requests that come back.                                                *)
(***************************************************************************)

\* A request that comes back leaves the client idle, and the response to it
\* missing unless that is what it has read.
LEMMA ReturnsDoes ==
    ASSUME TypeOK, RequestInv, pc # "idle", NEW how \in Hows, NEW of \in 0..MaxRequests,
           Returns(how, of), op' = op
    PROVE  /\ pc' = "idle" /\ kind' = "none" /\ frame' = EmptyFrame /\ late' = FALSE
           /\ acked' = FALSE /\ left' \subseteq Requests
           /\ last' = [how |-> how, of |-> of] /\ last' \in [how : Hows, of : 0..MaxRequests]
           /\ RequestInv'
           /\ Missing \ {of} \subseteq Missing'
           /\ how \notin {"response", "failed", "rejected"} => Missing \subseteq Missing'
<1> DEFINE read == IF how \in {"response", "failed", "rejected"} THEN {of}
                   ELSE IF acked THEN {op} ELSE {}
<1>1. /\ pc' = "idle" /\ kind' = "none" /\ frame' = EmptyFrame /\ late' = FALSE
      /\ acked' = FALSE /\ last' = [how |-> how, of |-> of]
      /\ left' = (left \cup {op}) \ read
  BY DEF Returns
<1>2. op \in Requests /\ op \notin left
  BY SignalingAssumption DEF TypeOK, RequestInv, Requests
<1>3. left' \subseteq Requests
  BY <1>1, <1>2 DEF TypeOK
<1>4. RequestInv'
  <2>1. \A n \in left : n <= op
    BY DEF RequestInv
  <2>2. \A n \in left' : n <= op'
    BY <1>1, <1>2, <2>1 DEF Requests
  <2>3. QED
    BY <1>1, <2>2 DEF RequestInv
<1>5. Missing' = left'
  BY <1>1 DEF Missing
<1>6. Missing \subseteq left \cup {op} /\ (acked => Missing = left)
  BY DEF Missing
<1>7. /\ Missing \ {of} \subseteq left'
      /\ how \notin {"response", "failed", "rejected"} => Missing \subseteq left'
  BY <1>1, <1>2, <1>6
<1>8. QED
  BY <1>1, <1>3, <1>4, <1>5, <1>7

\* The invariant when a request comes back, whatever of the stream was read.
LEMMA ReturnsInv ==
    ASSUME TypeOK, RequestInv, pc # "idle", NEW how \in Hows, NEW of \in 0..MaxRequests,
           Returns(how, of), UNCHANGED <<sock, node, op>>, stream' \in Seq(Token),
           Orderly(Missing, owed, stream'),
           how \in {"response", "failed", "rejected"} =>
              \E f : f.of = of /\ Apart(f, Missing, owed, stream')
    PROVE  Inv'
<1>1. /\ pc' = "idle" /\ kind' = "none" /\ frame' = EmptyFrame /\ late' = FALSE
      /\ acked' = FALSE /\ left' \subseteq Requests
      /\ last' \in [how : Hows, of : 0..MaxRequests]
      /\ RequestInv'
      /\ Missing \ {of} \subseteq Missing'
      /\ how \notin {"response", "failed", "rejected"} => Missing \subseteq Missing'
  BY ReturnsDoes
<1>2. TypeOK'
  BY <1>1, FrameType DEF TypeOK, node
<1>3. Orderly(Missing', owed, stream')
  <2>1. CASE how \in {"response", "failed", "rejected"}
    <3>1. Orderly(Missing \ {of}, owed, stream')
      BY <2>1, MissingOrderly
    <3>2. QED
      BY <1>1, <3>1, MissingOrderly
  <2>2. CASE how \notin {"response", "failed", "rejected"}
    BY <1>1, <2>2, MissingOrderly
  <2>3. QED
    BY <2>1, <2>2
<1>4. AnswersInv'
  BY <1>1, <1>3 DEF AnswersInv, node
<1>5. QED
  BY <1>1, <1>2, <1>4 DEF Inv

\* The invariant when the thread goes on reading.
LEMMA StaysInv ==
    ASSUME TypeOK, RequestInv, pc # "idle", NEW there \in {"length", "body", "misread"},
           StaysAt(there), UNCHANGED <<sock, node, op, acked, left>>,
           stream' \in Seq(Token), frame' \in Frames,
           there = "body" => frame'.tag # "empty",
           Orderly(Missing, owed, stream'),
           there = "body" /\ frame'.tag = "response" => Apart(frame', Missing, owed, stream')
    PROVE  Inv'
<1>1. /\ pc' = there /\ UNCHANGED <<kind, late, last>>
  BY DEF StaysAt
<1>2. TypeOK'
  BY <1>1 DEF TypeOK, node
<1>3. RequestInv'
  BY <1>1 DEF RequestInv
<1>4. Missing' = Missing
  BY <1>1 DEF Missing
<1>5. AnswersInv'
  BY <1>1, <1>4 DEF AnswersInv, node
<1>6. QED
  BY <1>2, <1>3, <1>5 DEF Inv

\* The invariant when the node does something.
LEMMA NodeInv ==
    ASSUME TypeOK, RequestInv, UNCHANGED client, sock' \in {"none", "open", "dead"},
           stream' \in Seq(Token), writing' \subseteq Frames, Cardinality(writing') <= 1,
           owed' \subseteq Requests, due' \subseteq Requests,
           Orderly(Missing, owed', stream'),
           pc = "body" /\ frame.tag = "response" => Apart(frame, Missing, owed', stream')
    PROVE  Inv'
<1>1. TypeOK'
  BY DEF TypeOK, client
<1>2. RequestInv'
  BY DEF RequestInv, client
<1>3. Missing' = Missing
  BY DEF Missing, client
<1>4. AnswersInv'
  BY <1>3 DEF AnswersInv, client
<1>5. QED
  BY <1>1, <1>2, <1>4 DEF Inv

(***************************************************************************)
(* The steps.                                                              *)
(***************************************************************************)

LEMMA InitInv == Init => Inv
<1> SUFFICES ASSUME Init PROVE Inv
  OBVIOUS
<1>1. TypeOK
  <2>1. writing = {} /\ Cardinality(writing) = 0
    BY FS_EmptySet DEF Init
  <2>2. frame \in Frames /\ frame.tag = "empty"
    BY FrameType DEF Init, EmptyFrame
  <2>3. op \in 0..MaxRequests /\ last \in [how : Hows, of : 0..MaxRequests]
    BY SignalingAssumption DEF Init, Hows
  <2>4. /\ sock \in {"none", "open", "dead"} /\ stream \in Seq(Token)
        /\ owed = {} /\ due = {} /\ left = {} /\ kind = "none" /\ pc = "idle"
    BY DEF Init
  <2>5. late \in BOOLEAN /\ acked \in BOOLEAN
    BY Zenon DEF Init
  <2>6. QED
    BY <2>1, <2>2, <2>3, <2>4, <2>5 DEF TypeOK
<1>2. RequestInv
  BY DEF Init, RequestInv
<1>3. AnswersInv
  BY EmptyOrderly DEF Init, AnswersInv
<1>4. QED
  BY <1>1, <1>2, <1>3 DEF Inv

\* What the thread does outside a request, and what it writes.
LEMMA ClientInv ==
    ASSUME Inv,
           Connect \/ Close \/ DeadlinePasses
              \/ \E k \in Kinds : Request(k) \/ RequestRaises(k)
    PROVE  Inv'
<1> USE DEF Inv
<1>1. CASE Connect
  BY <1>1, NodeInv DEF Connect, TypeOK, AnswersInv, node
<1>2. CASE Close
  <2>1. /\ pc = "idle" /\ sock' = "none" /\ stream' = <<>> /\ writing' = {} /\ owed' = {}
        /\ due' = {} /\ left' = {}
        /\ UNCHANGED <<op, kind, pc, frame, late, last, acked>>
    BY <1>2 DEF Close
  <2>2. Cardinality(writing') <= 1
    BY <2>1, FS_EmptySet
  <2>3. TypeOK'
    BY <2>1, <2>2 DEF TypeOK
  <2>4. RequestInv'
    BY <2>1 DEF RequestInv
  <2>5. AnswersInv'
    <3>1. Orderly(Missing', {}, stream')
      BY <2>1, EmptyOrderly
    <3>2. QED
      BY <2>1, <3>1 DEF AnswersInv
  <2>6. QED
    BY <2>3, <2>4, <2>5
<1>3. CASE DeadlinePasses
  <2>1. /\ late' = TRUE
        /\ UNCHANGED <<sock, stream, node, op, kind, pc, frame, last, acked, left>>
    BY <1>3 DEF DeadlinePasses
  <2>2. TypeOK'
    BY <2>1 DEF TypeOK, node
  <2>3. QED
    BY <2>1, <2>2 DEF RequestInv, AnswersInv, Missing, node
<1>4. ASSUME NEW k \in Kinds, Request(k)
      PROVE  Inv'
  <2>1. /\ pc = "idle" /\ op' = op + 1 /\ kind' = k /\ pc' = "length"
        /\ last' = [how |-> "none", of |-> 0]
        /\ owed' = IF sock = "open" THEN owed \cup {op'} ELSE owed
        /\ due' = IF sock = "open" /\ k = "await" THEN due \cup {op'} ELSE due
        /\ UNCHANGED <<sock, stream, writing, frame, late, acked, left>>
    BY <1>4 DEF Request
  <2>2. /\ op \in Nat /\ op' \in Requests /\ op' \in 0..MaxRequests
        /\ \A n \in left : n <= op /\ n \in Nat
    BY <1>4, <2>1, SignalingAssumption DEF Request, Requests, TypeOK, RequestInv
  <2>3. TypeOK'
    <3>1. last' \in [how : Hows, of : 0..MaxRequests]
      BY <2>1, SignalingAssumption DEF Hows
    <3>2. owed' \subseteq Requests /\ due' \subseteq Requests
      BY <2>1, <2>2 DEF TypeOK
    <3>3. kind' # "none" /\ kind' \in Kinds
      BY <2>1 DEF Kinds
    <3>4. QED
      BY <2>1, <2>2, <3>1, <3>2, <3>3 DEF TypeOK
  <2>4. RequestInv'
    BY <2>1, <2>2 DEF RequestInv, Requests
  <2>5. AnswersInv'
    <3>1. Missing = left /\ Missing' = left \cup {op'} /\ op' \notin left
      BY <2>1, <2>2 DEF Missing, RequestInv
    <3>2. Orderly(left, owed, stream)
      BY <3>1 DEF AnswersInv
    <3>3. Orderly(left \cup {op'}, owed', stream)
      BY <2>1, <3>1, <3>2 DEF Orderly
    <3>4. QED
      BY <2>1, <3>1, <3>3 DEF AnswersInv
  <2>6. QED
    BY <2>3, <2>4, <2>5
<1>5. ASSUME NEW k \in Kinds, RequestRaises(k)
      PROVE  Inv'
  <2>1. /\ pc = "idle" /\ op' = op + 1 /\ last' = [how |-> "raised", of |-> 0]
        /\ UNCHANGED <<sock, stream, node, kind, pc, frame, late, acked, left>>
    BY <1>5 DEF RequestRaises
  <2>2. op \in Nat /\ op' \in 0..MaxRequests
    BY <1>5, <2>1, SignalingAssumption DEF RequestRaises, TypeOK
  <2>3. TypeOK'
    <3>1. last' \in [how : Hows, of : 0..MaxRequests]
      BY <2>1, SignalingAssumption DEF Hows
    <3>2. QED
      BY <2>1, <2>2, <3>1 DEF TypeOK, node
  <2>4. RequestInv'
    BY <2>1, <2>2 DEF RequestInv, TypeOK, Requests
  <2>5. AnswersInv'
    BY <2>1 DEF AnswersInv, Missing, node
  <2>6. QED
    BY <2>3, <2>4, <2>5
<1>6. QED
  BY <1>1, <1>2, <1>3, <1>4, <1>5

\* What the thread does while a request is under way.
LEMMA ReadingInv ==
    ASSUME Inv, Reading
    PROVE  Inv'
<1> USE DEF Inv
<1>a. /\ stream \in Seq(Token) /\ frame \in Frames
      /\ Orderly(Missing, owed, stream)
      /\ pc = "body" /\ frame.tag = "response" => Apart(frame, Missing, owed, stream)
      /\ 0 \in 0..MaxRequests
  BY SignalingAssumption DEF TypeOK, AnswersInv
<1>b. ASSUME stream # <<>>, stream' = Tail(stream)
      PROVE  /\ stream' \in Seq(Token) /\ Head(stream) \in Token
             /\ Orderly(Missing, owed, stream')
             /\ Head(stream).part = "length" /\ Head(stream).frame.tag = "response" =>
                   Apart(Head(stream).frame, Missing, owed, stream')
             /\ pc = "body" /\ frame.tag = "response" => Apart(frame, Missing, owed, stream')
  BY <1>a, <1>b, TailOrderly
<1>1. CASE ReadLength
  <2>1. /\ pc = "length" /\ stream # <<>> /\ stream' = Tail(stream)
        /\ Head(stream).part = "length" /\ UNCHANGED <<sock, node, op>>
    BY <1>1 DEF ReadLength, MayRead
  <2>2. Head(stream).frame \in Frames
    BY <1>b, <2>1 DEF Token
  <2>3. CASE Head(stream).frame.tag # "empty"
    <3>1. StaysAt("body") /\ frame' = Head(stream).frame /\ UNCHANGED <<acked, left>>
      BY <1>1, <2>3 DEF ReadLength
    <3>2. QED
      BY <1>b, <2>1, <2>2, <2>3, <3>1, StaysInv
  <2>4. CASE Head(stream).frame.tag = "empty" /\ Awaits
    <3>1. StaysAt("length") /\ UNCHANGED <<frame, acked, left>>
      BY <1>1, <2>4 DEF ReadLength
    <3>2. QED
      BY <1>a, <1>b, <2>1, <3>1, StaysInv
  <2>5. CASE Head(stream).frame.tag = "empty" /\ ~Awaits
    <3>1. Returns("empty", 0)
      BY <1>1, <2>5 DEF ReadLength
    <3>2. "empty" \in Hows
      BY DEF Hows
    <3>3. QED
      BY <1>a, <1>b, <2>1, <3>1, <3>2, ReturnsInv
  <2>6. QED
    BY <2>3, <2>4, <2>5
<1>2. CASE Misread
  <2>1. /\ pc = "length" /\ stream # <<>> /\ stream' = Tail(stream) /\ StaysAt("misread")
        /\ UNCHANGED <<sock, node, op, frame, acked, left>>
    BY <1>2 DEF Misread, MayRead
  <2>2. QED
    BY <1>a, <1>b, <2>1, StaysInv
<1>3. CASE Swallow
  <2>1. /\ pc = "misread" /\ stream # <<>> /\ stream' = Tail(stream)
        /\ UNCHANGED <<sock, node, client>>
    BY <1>3 DEF Swallow
  <2>2. QED
    BY <1>b, <2>1, NodeInv DEF TypeOK, node
<1>3a. CASE SwallowEnds
  <2>1. /\ pc = "misread" /\ stream # <<>> /\ frame' = EmptyFrame
        /\ StaysAt("length") /\ UNCHANGED <<sock, node, op, acked, left>>
    BY <1>3a DEF SwallowEnds
  <2>2. stream' \in Seq(Token) /\ Orderly(Missing, owed, stream')
    BY <1>a, <1>b, <1>3a, <2>1, TornOrderly DEF SwallowEnds
  <2>3. QED
    BY <2>1, <2>2, FrameType, StaysInv
<1>4. CASE TakeResponse
  <2>1. /\ pc = "body" /\ stream # <<>> /\ frame.tag = "response" /\ stream' = Tail(stream)
        /\ Returns(IF frame.code # 0 THEN "failed" ELSE "response", frame.of)
        /\ UNCHANGED <<sock, node, op>>
    BY <1>4 DEF TakeResponse
  <2>2. frame.of \in 0..MaxRequests
    BY <1>a, FrameType
  <2>3. (IF frame.code # 0 THEN "failed" ELSE "response") \in Hows
    BY DEF Hows
  <2>4. QED
    BY <1>b, <2>1, <2>2, <2>3, ReturnsInv
<1>5. CASE TakeAck
  <2>1. /\ pc = "body" /\ stream # <<>> /\ frame.tag = "response" /\ stream' = Tail(stream)
        /\ UNCHANGED <<sock, node, op>>
    BY <1>5 DEF TakeAck
  <2>2. frame.of \in 0..MaxRequests
    BY <1>a, FrameType
  <2>3. CASE frame.code # 0
    <3>1. Returns("rejected", frame.of)
      BY <1>5, <2>3 DEF TakeAck
    <3>2. "rejected" \in Hows
      BY DEF Hows
    <3>3. QED
      BY <1>b, <2>1, <2>2, <3>1, <3>2, ReturnsInv
  <2>4. CASE frame.code = 0
    <3>1. /\ pc' = "length" /\ UNCHANGED <<kind, late, last>> /\ frame' = EmptyFrame
          /\ acked' = (acked \/ frame.of = op) /\ left' = left \ {frame.of}
      BY <1>5, <2>4 DEF TakeAck, StaysAt
    <3>2. TypeOK'
      <4>1. acked' \in BOOLEAN
        BY <3>1 DEF TypeOK
      <4>2. left' \subseteq Requests /\ frame' \in Frames
        BY <3>1, FrameType DEF TypeOK
      <4>3. QED
        BY <1>b, <2>1, <3>1, <4>1, <4>2 DEF TypeOK, node
    <3>3. RequestInv'
      BY <2>1, <3>1 DEF RequestInv
    <3>4. Missing \ {frame.of} \subseteq Missing'
      BY <2>1, <3>1 DEF Missing
    <3>5. Orderly(Missing \ {frame.of}, owed, stream')
      BY <1>b, <2>1, MissingOrderly
    <3>6. Orderly(Missing', owed, stream')
      BY <3>4, <3>5, MissingOrderly
    <3>7. AnswersInv'
      BY <2>1, <3>1, <3>6 DEF AnswersInv, node
    <3>8. QED
      BY <3>2, <3>3, <3>7
  <2>5. QED
    BY <2>3, <2>4
<1>6. CASE TakeUpdate
  <2>1. /\ pc = "body" /\ stream # <<>> /\ frame.tag = "update" /\ stream' = Tail(stream)
        /\ UNCHANGED <<sock, node, op>>
    BY <1>6 DEF TakeUpdate
  <2>2. CASE Awaits /\ Correlated(frame.ids, op)
    <3>1. Returns("result", frame.ids[Len(frame.ids)])
      BY <1>6, <2>2 DEF TakeUpdate
    <3>2. op \in Requests /\ frame.ids \in Envelopes
      BY <1>a, <2>1, FrameType DEF TypeOK, RequestInv, Requests
    <3>3. frame.ids[Len(frame.ids)] \in 0..MaxRequests /\ "result" \in Hows
      BY <2>2, <3>2, ResultType DEF Requests, Hows
    <3>4. QED
      BY <1>b, <2>1, <3>1, <3>3, ReturnsInv
  <2>3. CASE ~(Awaits /\ Correlated(frame.ids, op))
    <3>1. StaysAt("length") /\ frame' = EmptyFrame /\ UNCHANGED <<acked, left>>
      BY <1>6, <2>3 DEF TakeUpdate
    <3>2. QED
      BY <1>b, <2>1, <3>1, FrameType, StaysInv
  <2>4. QED
    BY <2>2, <2>3
<1>7. CASE ReadFails \/ DeadlineOver
  <2>1. PICK how \in {"timeout", "raised"} : Returns(how, 0)
    BY <1>7 DEF ReadFails, DeadlineOver
  <2>2. pc # "idle" /\ UNCHANGED <<sock, stream, node, op>> /\ how \in Hows
    BY <1>7 DEF ReadFails, DeadlineOver, Hows
  <2>3. QED
    BY <1>a, <2>1, <2>2, ReturnsInv
<1>8. QED
  BY <1>1, <1>2, <1>3, <1>4, <1>5, <1>6, <1>7, <1>3a DEF Reading

\* What the node and the creatures do.
LEMMA OthersInv ==
    ASSUME Inv, NodeCloses \/ WritesBody \/ Answers \/ Results \/ Chatters
    PROVE  Inv'
<1> USE DEF Inv
<1>a. /\ stream \in Seq(Token) /\ writing \subseteq Frames /\ Cardinality(writing) <= 1
      /\ owed \subseteq Requests /\ due \subseteq Requests /\ sock \in {"none", "open", "dead"}
      /\ Orderly(Missing, owed, stream)
      /\ pc = "body" /\ frame.tag = "response" => Apart(frame, Missing, owed, stream)
      /\ Cardinality({}) <= 1 /\ \A f : Cardinality({f}) <= 1
  <2>1. Cardinality({}) <= 1
    BY FS_EmptySet
  <2>2. ASSUME NEW f
        PROVE  Cardinality({f}) <= 1
    <3>1. Cardinality({f}) = 1
      BY FS_Singleton
    <3>2. QED
      BY <3>1
  <2>3. QED
    BY <2>1, <2>2 DEF TypeOK, AnswersInv
<1>1. CASE NodeCloses
  <2>1. /\ sock' = "dead" /\ writing' = {} /\ owed' = {} /\ due' = {}
        /\ UNCHANGED <<stream, client>>
    BY <1>1 DEF NodeCloses
  <2>2. QED
    BY <1>a, <2>1, DebtsOrderly, NodeInv
<1>2. CASE WritesBody
  <2>1. PICK f \in writing : stream' = Append(stream, Body(f))
    BY <1>2 DEF WritesBody
  <2>2. /\ writing' = {} /\ UNCHANGED <<sock, owed, due, client>>
        /\ Body(f) \in Token /\ Body(f).part = "body"
    BY <1>2, <1>a, FrameType DEF WritesBody, Body
  <2>3. QED
    BY <1>a, <2>1, <2>2, AppendOther, NodeInv
\* A whole frame that is no response.
<1>b. ASSUME NEW f \in Frames, f.tag # "response"
      PROVE  LET s == stream \o <<Length(f), Body(f)>>
             IN  /\ s \in Seq(Token) /\ Orderly(Missing, owed, s)
                 /\ pc = "body" /\ frame.tag = "response" => Apart(frame, Missing, owed, s)
  <2> DEFINE l == Append(stream, Length(f))
             b == Append(l, Body(f))
  <2>1. /\ Length(f) \in Token /\ Body(f) \in Token
        /\ Length(f).frame = f /\ Body(f).part = "body"
    BY FrameType DEF Length, Body
  <2>2. /\ l \in Seq(Token) /\ Orderly(Missing, owed, l)
        /\ pc = "body" /\ frame.tag = "response" => Apart(frame, Missing, owed, l)
    BY <1>a, <1>b, <2>1, AppendOther
  <2> HIDE DEF l
  <2>3. /\ b \in Seq(Token) /\ Orderly(Missing, owed, b)
        /\ pc = "body" /\ frame.tag = "response" => Apart(frame, Missing, owed, b)
    BY <2>1, <2>2, AppendOther
  <2>4. stream \o <<Length(f), Body(f)>> = b
    BY <1>a, WritesTokens DEF l
  <2>5. QED
    BY <2>3, <2>4
<1>3. CASE Answers
  <2>1. PICK n \in owed :
           /\ \E code \in {0, 1} : Writes(Response(n, code)) \/ WritesLength(Response(n, code))
           /\ owed' = owed \ {n} /\ UNCHANGED due
    BY <1>3 DEF Answers
  <2>2. PICK code \in {0, 1} : Writes(Response(n, code)) \/ WritesLength(Response(n, code))
    BY <2>1
  <2> DEFINE f == Response(n, code)
             l == Append(stream, Length(f))
             b == Append(l, Body(f))
  <2>3. f \in Frames /\ f.tag = "response" /\ f.of = n
    BY <1>a, FrameType DEF Response
  <2> HIDE DEF f
  <2>4. /\ Length(f) \in Token /\ Body(f) \in Token /\ Length(f).part = "length"
        /\ Length(f).frame = f /\ Body(f).part = "body"
    BY <2>3, FrameType DEF Length, Body
  <2>5. /\ l \in Seq(Token) /\ Orderly(Missing, owed', l)
        /\ pc = "body" /\ frame.tag = "response" => Apart(frame, Missing, owed', l)
    BY <1>a, <2>1, <2>3, <2>4, AppendOwed
  <2>6. owed' \subseteq Requests /\ due' \subseteq Requests
    BY <1>a, <2>1
  <2>7. CASE WritesLength(f)
    <3>1. stream' = l /\ writing' = {f} /\ UNCHANGED <<sock, client>>
      BY <2>7 DEF WritesLength
    <3> HIDE DEF l
    <3>2. QED
      BY <1>a, <2>3, <2>5, <2>6, <3>1, NodeInv
  <2>8. CASE Writes(f)
    <3>1. stream' = b /\ UNCHANGED <<sock, writing, client>>
      BY <1>a, <2>3, <2>8, WritesTokens DEF Writes
    <3> HIDE DEF l
    <3>2. /\ b \in Seq(Token) /\ Orderly(Missing, owed', b)
          /\ pc = "body" /\ frame.tag = "response" => Apart(frame, Missing, owed', b)
      BY <2>4, <2>5, AppendOther
    <3> HIDE DEF b
    <3>3. QED
      BY <1>a, <2>6, <3>1, <3>2, NodeInv
  <2>9. QED
    BY <2>2, <2>7, <2>8 DEF f
<1>4. CASE Results
  <2>1. PICK n \in due : /\ Writes(Update(<<0, n>>))
                         /\ due' = due \ {n} /\ UNCHANGED owed
    BY <1>4 DEF Results
  <2>2. Update(<<0, n>>) \in Frames /\ Update(<<0, n>>).tag # "response"
    BY <1>a, FrameType DEF Envelopes, Update
  <2>3. /\ stream' = stream \o <<Length(Update(<<0, n>>)), Body(Update(<<0, n>>))>>
        /\ UNCHANGED <<sock, writing, client>>
    BY <2>1 DEF Writes
  <2>4. QED
    BY <1>a, <1>b, <2>1, <2>2, <2>3, NodeInv
<1>5. CASE Chatters
  <2>1. /\ stream = <<>> /\ UNCHANGED <<sock, node, client>>
        /\ stream' \in {<<Length(EmptyFrame)>>, <<Length(Update(<<0>>)), Body(Update(<<0>>))>>}
    BY <1>5 DEF Chatters
  <2>2. CASE stream' = <<Length(EmptyFrame)>>
    <3>1. /\ stream' = Append(stream, Length(EmptyFrame)) /\ Length(EmptyFrame) \in Token
          /\ Length(EmptyFrame).frame.tag = "empty"
      BY <2>1, <2>2, FrameType DEF Length, EmptyFrame
    <3>2. QED
      BY <1>a, <2>1, <3>1, AppendOther, NodeInv DEF node
  <2>3. CASE stream' = <<Length(Update(<<0>>)), Body(Update(<<0>>))>>
    <3>1. Update(<<0>>) \in Frames /\ Update(<<0>>).tag # "response"
      BY FrameType DEF Envelopes, Update
    <3>2. /\ Length(Update(<<0>>)) \in Token /\ Body(Update(<<0>>)) \in Token
      BY <3>1, FrameType
    <3>3. stream' = stream \o <<Length(Update(<<0>>)), Body(Update(<<0>>))>>
      BY <2>1, <2>3, <3>2
    <3>4. QED
      BY <1>a, <1>b, <2>1, <3>1, <3>3, NodeInv DEF node
  <2>4. QED
    BY <2>1, <2>2, <2>3
<1>6. QED
  BY <1>1, <1>2, <1>3, <1>4, <1>5

LEMMA NextInv == Inv /\ [Next]_vars => Inv'
<1>1. CASE UNCHANGED vars
  BY <1>1 DEF vars, node, client, Inv, TypeOK, RequestInv, AnswersInv, Missing
<1>2. QED
  BY <1>1, ClientInv, ReadingInv, OthersInv DEF Next

(***************************************************************************)
(* The theorems.                                                           *)
(***************************************************************************)

LEMMA Invariant == Spec => []Inv
<1>1. QED
  BY InitInv, NextInv, PTL DEF Spec

\* Whatever the node writes and in whatever pieces it comes, every variable of the
\* client has its type: a body is read only for a frame that has one.
THEOREM TypeCorrect == Spec => []TypeOK
<1>1. Inv => TypeOK
  BY DEF Inv
<1>2. QED
  BY Invariant, <1>1, PTL

\* Only the actions in which a request comes back leave the reading of one.
LEMMA ComesBack ==
    ASSUME Inv, [Next]_vars, pc # "idle", pc' = "idle"
    PROVE  /\ last'.how \in {"response", "failed", "rejected"} => last'.of \in left \cup {op}
           /\ last'.how = "result" => last'.of = op
<1> DEFINE Goal == /\ last'.how \in {"response", "failed", "rejected"} =>
                         last'.of \in left \cup {op}
                   /\ last'.how = "result" => last'.of = op
<1> USE DEF Inv
<1>1. ASSUME pc = "body", frame.tag = "response",
             NEW how \in {"response", "failed", "rejected"}, Returns(how, frame.of)
      PROVE  Goal
  <2>1. frame.of \in Missing
    BY <1>1 DEF AnswersInv, Apart
  <2>2. last'.how = how /\ last'.of = frame.of
    BY <1>1 DEF Returns
  <2>3. QED
    BY <1>1, <2>1, <2>2 DEF Missing
<1>2. ASSUME NEW how \in {"empty", "timeout", "raised"}, Returns(how, 0)
      PROVE  Goal
  BY <1>2 DEF Returns
<1>3. CASE TakeResponse
  <2>1. Returns(IF frame.code # 0 THEN "failed" ELSE "response", frame.of)
    BY <1>3 DEF TakeResponse
  <2>2. QED
    BY <1>1, <1>3, <2>1 DEF TakeResponse
<1>4. CASE TakeAck
  BY <1>1, <1>4 DEF TakeAck, StaysAt
<1>5. CASE TakeUpdate
  <2>1. /\ frame.tag = "update" /\ Correlated(frame.ids, op)
        /\ Returns("result", frame.ids[Len(frame.ids)])
    BY <1>5 DEF TakeUpdate, StaysAt
  <2>2. op \in Requests /\ frame.ids \in Envelopes
    BY <2>1, FrameType DEF TypeOK, RequestInv, Requests
  <2>3. frame.ids[Len(frame.ids)] = op
    BY <2>1, <2>2, ResultType
  <2>4. QED
    BY <2>1, <2>3 DEF Returns
<1>6. CASE ReadLength
  BY <1>2, <1>6 DEF ReadLength, StaysAt
<1>7. CASE ReadFails \/ DeadlineOver
  BY <1>2, <1>7 DEF ReadFails, DeadlineOver
<1>8. CASE UNCHANGED pc
  BY <1>8
<1>9. (Misread => pc' = "misread") /\ (SwallowEnds => pc' = "length")
  BY DEF Misread, SwallowEnds, StaysAt
<1>10. Connect \/ Close \/ (\E k \in Kinds : Request(k) \/ RequestRaises(k)) => pc = "idle"
  BY DEF Connect, Close, Request, RequestRaises
<1>11. NodeCloses \/ WritesBody \/ Answers \/ Results \/ Chatters \/ Swallow \/ DeadlinePasses
          => UNCHANGED pc
  BY DEF NodeCloses, WritesBody, Answers, Results, Chatters, Swallow, DeadlinePasses,
     Writes, WritesLength, client
<1>12. QED
  BY <1>3, <1>4, <1>5, <1>6, <1>7, <1>8, <1>9, <1>10, <1>11 DEF Next, Reading, vars, client

\* The client stays in step with the node: what a request returns is the response to
\* it or to an earlier one of the connection that came back without its own, and an
\* awaited result is the await's own.
THEOREM InStepHolds == Spec => InStep
<1>1. Inv /\ [Next]_vars =>
        [pc # "idle" /\ pc' = "idle" =>
          /\ last'.how \in {"response", "failed", "rejected"} => last'.of \in left \cup {op}
          /\ last'.how = "result" => last'.of = op]_vars
  BY ComesBack
<1>2. QED
  BY Invariant, <1>1, PTL DEF Spec, InStep
=============================================================================
