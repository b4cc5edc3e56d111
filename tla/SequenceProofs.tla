--------------------------- MODULE SequenceProofs ---------------------------
(***************************************************************************)
(* What is proved of the components whose data are sequences, by induction *)
(* over them: the reasoner and the LLM client under it, the session        *)
(* memory, and the orchestrator.                                           *)
(*                                                                         *)
(* For any number of models, attempts, attachments, listed and failed      *)
(* steps, the models are tried in order, each until nothing more can be    *)
(* had of it, with every attachment there is; and whatever they write, the *)
(* engine can rely on the plans and the reflections made of it.  For any   *)
(* threads, bounds and number of runs, a run is given the end of its own   *)
(* conversation, and the threads that were used last are kept.  For any    *)
(* templates, tools and requests, plans whose packets stay in their order  *)
(* find their machines on and leave none on, and plans are whole and       *)
(* without risk if they ask for no review.                                 *)
(***************************************************************************)
EXTENDS Reasoner, SessionMemory, Orchestrator, FiniteSetTheorems, WellFoundedInduction,
        SequenceTheorems, TLAPS

-----------------------------------------------------------------------------
(* Induction.  The library's induction theorems take a predicate as a        *)
(* parameter, which the provers cannot instantiate; that the natural numbers *)
(* are well ordered they can take from the finite sets, which are.           *)

\* A set of natural numbers that is not empty has a least element.
LEMMA LeastNumber ==
    ASSUME NEW T, T \subseteq Nat, T # {}
    PROVE  \E n \in T : \A m \in T : n <= m
<1> DEFINE Upto(n) == 0..n
           U == {Upto(n) : n \in T}
<1>1. IsWellFoundedOn(StrictSubsetOrdering(Nat), FiniteSubsetsOf(Nat))
  BY FS_StrictSubsetOrderingWellFounded
<1>2. U \subseteq FiniteSubsetsOf(Nat) /\ U # {}
  <2>1. \A n \in T : IsFiniteSet(Upto(n)) /\ Upto(n) \subseteq Nat
    BY FS_Interval
  <2>2. QED
    BY <2>1 DEF FiniteSubsetsOf
<1> HIDE DEF U
<1>3. \E x \in U : \A y \in U : ~(<<y, x>> \in StrictSubsetOrdering(Nat))
  BY <1>1, <1>2, WFMin
<1>4. PICK n \in T : \A m \in T : ~(<<Upto(m), Upto(n)>> \in StrictSubsetOrdering(Nat))
  BY <1>3 DEF U
<1>5. ASSUME NEW m \in T, ~(n <= m)
      PROVE  FALSE
  <2>1. m \in Nat /\ n \in Nat /\ m < n
    BY <1>5
  <2>2. Upto(m) \subseteq Upto(n) /\ Upto(n) \subseteq Nat /\ Upto(m) # Upto(n)
    BY <2>1
  <2> HIDE DEF Upto
  <2>3. <<Upto(m), Upto(n)>> \in StrictSubsetOrdering(Nat)
    BY <2>2 DEF StrictSubsetOrdering
  <2>4. QED
    BY <1>4, <2>3
<1>6. QED
  BY <1>5

\* Induction over the natural numbers up to a limit, with a set for the predicate.
LEMMA SetInduction ==
    ASSUME NEW limit \in Nat, NEW S,
           0 \in S, \A n \in 0..(limit - 1) : n \in S => n + 1 \in S
    PROVE  0..limit \subseteq S
<1> SUFFICES ASSUME (0..limit) \ S # {} PROVE FALSE
  OBVIOUS
<1> DEFINE T == (0..limit) \ S
<1>1. PICK n \in T : \A m \in T : n <= m
  <2>1. T \subseteq Nat /\ T # {}
    OBVIOUS
  <2> HIDE DEF T
  <2>2. QED
    BY <2>1, LeastNumber
<1>2. n # 0 /\ n - 1 \in 0..(limit - 1) /\ n - 1 \in S
  BY <1>1
<1>3. QED
  BY <1>1, <1>2

\* Induction over the sequences of a set, which are made by appending.
LEMMA SeqInduction ==
    ASSUME NEW S, NEW T, <<>> \in T,
           \A s \in Seq(S), x \in S : s \in T => Append(s, x) \in T
    PROVE  Seq(S) \subseteq T
<1> SUFFICES ASSUME NEW s \in Seq(S) PROVE s \in T
  OBVIOUS
<1> DEFINE N == {n \in 0..Len(s) : SubSeq(s, 1, n) \in T}
<1>1. Len(s) \in Nat
  OBVIOUS
<1>2. 0 \in N
  <2>1. SubSeq(s, 1, 0) = <<>>
    BY SubSeqEmpty
  <2>2. SubSeq(s, 1, 0) \in T
    BY <2>1, Zenon
  <2>3. 0 \in 0..Len(s)
    BY <1>1
  <2>4. QED
    BY <2>2, <2>3
<1>3. ASSUME NEW n \in 0..(Len(s) - 1), n \in N
      PROVE  n + 1 \in N
  <2>1. n \in Nat /\ n + 1 \in 1..Len(s) /\ s[n + 1] \in S
    OBVIOUS
  <2>2. SubSeq(s, 1, n) \in Seq(S)
    <3>1. \A i \in 1..n : s[i] \in S
      BY <2>1
    <3>2. QED
      BY <2>1, <3>1, SubSeqProperties
  <2>3. SubSeq(s, 1, n + 1) = Append(SubSeq(s, 1, n), s[n + 1])
    <3> DEFINE u == SubSeq(s, 1, n)  v == SubSeq(s, 1, n + 1)  w == Append(u, s[n + 1])
    <3>1. /\ u \in Seq(S) /\ Len(u) = n /\ \A i \in 1..n : u[i] = s[i]
          /\ v \in Seq(S) /\ Len(v) = n + 1 /\ \A i \in 1..(n + 1) : v[i] = s[i]
      BY <2>1
    <3> HIDE DEF u, v
    <3>2. w \in Seq(S) /\ Len(w) = n + 1 /\ \A i \in 1..(n + 1) : w[i] = s[i]
      BY <2>1, <3>1
    <3> HIDE DEF w
    <3>3. v = w
      BY <3>1, <3>2
    <3>4. QED
      BY <3>3 DEF u, v, w
  <2>4. SubSeq(s, 1, n + 1) \in T
    BY <1>3, <2>1, <2>2, <2>3
  <2>5. QED
    BY <2>1, <2>4
<1>4. 0..Len(s) \subseteq N
  <2> HIDE DEF N
  <2>1. QED
    BY <1>1, <1>2, <1>3, SetInduction
<1>5. Len(s) \in N /\ SubSeq(s, 1, Len(s)) = s
  BY <1>1, <1>4
<1>6. QED
  BY <1>5

\* f is defined by recursion over 0..limit.
Computes(f, V, limit, base, step) ==
    /\ f \in [0..limit -> V] /\ f[0] = base
    /\ \A n \in 1..limit : f[n] = step[<<f[n - 1], n>>]

\* A function that is defined by recursion exists.
LEMMA RecursiveFunction ==
    ASSUME NEW V, NEW limit \in Nat, NEW base \in V, NEW step \in [V \X (1..limit) -> V]
    PROVE  \E f : Computes(f, V, limit, base, step)
<1> DEFINE Value(f, n) == IF n = 0 THEN base ELSE step[<<f[n - 1], n>>]
           N == {m \in 0..limit : \E f \in [0..m -> V] : \A n \in 0..m : f[n] = Value(f, n)}
<1>1. 0 \in N
  <2> DEFINE f == [n \in 0..0 |-> base]
  <2>1. f \in [0..0 -> V] /\ \A n \in 0..0 : f[n] = Value(f, n)
    OBVIOUS
  <2> HIDE DEF f, Value
  <2>2. QED
    BY <2>1
<1>2. ASSUME NEW m \in 0..(limit - 1), m \in N
      PROVE  m + 1 \in N
  <2>1. PICK f \in [0..m -> V] : \A n \in 0..m : f[n] = Value(f, n)
    BY <1>2
  <2> DEFINE v == step[<<f[m], m + 1>>]
             g == [n \in 0..(m + 1) |-> IF n = m + 1 THEN v ELSE f[n]]
  <2>2. m + 1 \in 1..limit /\ f[m] \in V
    OBVIOUS
  <2>3. v \in V
    BY <2>2
  <2> HIDE DEF v
  <2>4. g \in [0..(m + 1) -> V]
    BY <2>3
  <2>5. g[m + 1] = v /\ \A n \in 0..m : g[n] = f[n]
    OBVIOUS
  <2> HIDE DEF g
  <2>6. ASSUME NEW n \in 0..m PROVE g[n] = Value(g, n)
    <3>1. CASE n = 0
      BY <2>1, <2>5, <3>1
    <3>2. CASE n # 0
      <4>1. n - 1 \in 0..m
        BY <3>2
      <4>2. Value(f, n) = Value(g, n)
        BY <2>5, <3>2, <4>1
      <4>3. QED
        BY <2>1, <2>5, <4>2
    <3>3. QED
      BY <3>1, <3>2
  <2>7. g[m + 1] = Value(g, m + 1)
    <3>1. (m + 1) - 1 = m /\ m + 1 # 0
      OBVIOUS
    <3>2. Value(g, m + 1) = step[<<g[m], m + 1>>]
      BY <3>1
    <3>3. g[m] = f[m]
      BY <2>5
    <3>4. QED
      BY <2>5, <3>2, <3>3 DEF v
  <2>8. \A n \in 0..(m + 1) : n \in 0..m \/ n = m + 1
    OBVIOUS
  <2> HIDE DEF Value
  <2>9. \A n \in 0..(m + 1) : g[n] = Value(g, n)
    BY <2>6, <2>7, <2>8
  <2>10. m + 1 \in 0..limit
    OBVIOUS
  <2>11. QED
    BY <2>4, <2>9, <2>10
<1>3. limit \in N
  <2> HIDE DEF N
  <2>1. QED
    BY <1>1, <1>2, SetInduction
<1>4. PICK f \in [0..limit -> V] : \A n \in 0..limit : f[n] = Value(f, n)
  BY <1>3
<1>5. 0 \in 0..limit /\ \A n \in 1..limit : n \in 0..limit /\ n # 0
  OBVIOUS
<1>6. f[0] = base /\ \A n \in 1..limit : f[n] = step[<<f[n - 1], n>>]
  BY <1>4, <1>5
<1>7. QED
  BY <1>6 DEF Computes

\* It is the only one.
Agree(f, g, limit) == \A n \in 0..limit : f[n] = g[n]

\* Two functions that follow the same recursion up to a limit agree up to it.
LEMMA RecursionUnique ==
    ASSUME NEW V, NEW limit \in Nat, NEW base \in V, NEW step \in [V \X (1..limit) -> V],
           NEW f, NEW g, Computes(g, V, limit, base, step), f[0] = base,
           \A n \in 1..limit : f[n - 1] \in V => f[n] = step[<<f[n - 1], n>>]
    PROVE  Agree(f, g, limit)
<1> DEFINE N == {n \in 0..limit : f[n] = g[n]}
<1>1. 0 \in N
  BY DEF Computes
<1>2. ASSUME NEW n \in 0..(limit - 1), n \in N
      PROVE  n + 1 \in N
  <2>1. n + 1 \in 1..limit /\ (n + 1) - 1 = n /\ n \in 0..limit
    OBVIOUS
  <2>2. g[n] \in V /\ g[n + 1] = step[<<g[n], n + 1>>]
    BY <2>1 DEF Computes
  <2>3. f[n + 1] = step[<<f[n], n + 1>>]
    BY <1>2, <2>1, <2>2
  <2>4. QED
    BY <1>2, <2>1, <2>2, <2>3
<1>3. 0..limit \subseteq N
  <2> HIDE DEF N
  <2>1. QED
    BY <1>1, <1>2, SetInduction
<1>4. QED
  BY <1>3 DEF Agree

-----------------------------------------------------------------------------
(* The entries of a sequence that are in a set *)

\* f is the recursive function of Filtered.
Filters(f, S, s, T) ==
    /\ f \in [0..Len(s) -> Seq(S)] /\ f[0] = <<>>
    /\ \A n \in 1..Len(s) :
          f[n] = IF s[n] \in T THEN Append(f[n - 1], s[n]) ELSE f[n - 1]
    /\ Filtered(s, T) = f[Len(s)]

\* It exists.
LEMMA FilteredIs ==
    ASSUME NEW S, NEW s \in Seq(S), NEW T
    PROVE  \E f : Filters(f, S, s, T)
<1> DEFINE V == Seq(S)
           Is(f) == f = [n \in 0..Len(s) |->
                            IF n = 0 THEN <<>>
                            ELSE IF s[n] \in T THEN Append(f[n - 1], s[n])
                            ELSE f[n - 1]]
           step == [vn \in V \X (1..Len(s)) |->
                       IF s[vn[2]] \in T THEN Append(vn[1], s[vn[2]]) ELSE vn[1]]
<1>1. Len(s) \in Nat /\ <<>> \in V /\ \A n \in 1..Len(s) : s[n] \in S
  OBVIOUS
<1>2. step \in [V \X (1..Len(s)) -> V]
  BY <1>1
<1>3. \A v \in V, n \in 1..Len(s) :
         step[<<v, n>>] = IF s[n] \in T THEN Append(v, s[n]) ELSE v
  OBVIOUS
<1> HIDE DEF V, step
<1>4. PICK g : Computes(g, V, Len(s), <<>>, step)
  BY <1>1, <1>2, RecursiveFunction
<1>5. \A n \in 1..Len(s) : n \in 0..Len(s) /\ n - 1 \in 0..Len(s) /\ n # 0
  BY <1>1
<1>8. \A n \in 1..Len(s) : g[n] = IF s[n] \in T THEN Append(g[n - 1], s[n]) ELSE g[n - 1]
  BY <1>3, <1>4, <1>5 DEF Computes
<1>9. Is(g)
  <2>1. g = [n \in 0..Len(s) |-> g[n]]
    BY <1>4 DEF Computes
  <2>2. \A n \in 0..Len(s) : n = 0 \/ n \in 1..Len(s)
    BY <1>1
  <2>3. \A n \in 0..Len(s) : g[n] = IF n = 0 THEN <<>>
                                    ELSE IF s[n] \in T THEN Append(g[n - 1], s[n])
                                    ELSE g[n - 1]
    BY <1>4, <1>8, <2>2 DEF Computes
  <2>4. QED
    BY <2>1, <2>3
<1> DEFINE f == CHOOSE h : Is(h)
<1>10. Filtered(s, T) = f[Len(s)]
  BY DEF Filtered
<1>11. Is(f)
  <2> HIDE DEF Is
  <2>1. QED
    BY <1>9
<1> HIDE DEF f
<1>12. /\ f[0] = <<>>
       /\ \A n \in 1..Len(s) :
             f[n] = IF s[n] \in T THEN Append(f[n - 1], s[n]) ELSE f[n - 1]
  <2>1. \A n \in 0..Len(s) : f[n] = IF n = 0 THEN <<>>
                                    ELSE IF s[n] \in T THEN Append(f[n - 1], s[n])
                                    ELSE f[n - 1]
    BY <1>11
  <2>2. 0 \in 0..Len(s)
    BY <1>1
  <2>3. QED
    BY <1>5, <2>1, <2>2
<1>13. \A n \in 1..Len(s) : f[n - 1] \in V => f[n] = step[<<f[n - 1], n>>]
  BY <1>3, <1>12
<1>14. Agree(f, g, Len(s))
  BY <1>1, <1>2, <1>4, <1>12, <1>13, RecursionUnique
<1>15. f \in [0..Len(s) -> V]
  <2>1. f = [n \in 0..Len(s) |-> f[n]]
    BY <1>11
  <2>2. \A n \in 0..Len(s) : f[n] \in V
    BY <1>4, <1>14 DEF Agree, Computes
  <2>3. QED
    BY <2>1, <2>2
<1>16. QED
  BY <1>10, <1>12, <1>15 DEF V, Filters

\* Nothing can be kept of an empty sequence.
LEMMA FilteredEmpty == \A T : Filtered(<<>>, T) = <<>>
<1> SUFFICES ASSUME NEW T PROVE Filtered(<<>>, T) = <<>>
  OBVIOUS
<1>1. <<>> \in Seq({}) /\ Len(<<>>) = 0
  OBVIOUS
<1>2. PICK f : Filters(f, {}, <<>>, T)
  BY <1>1, FilteredIs
<1>3. QED
  BY <1>1, <1>2 DEF Filters

\* One more entry.  (A conclusion with a name is found by the provers where an
\* equation of sequences makes them look for ever.)
FilteredStep(S, s, x, T) ==
    /\ Filtered(s, T) \in Seq(S)
    /\ x \in T => Filtered(Append(s, x), T) = Append(Filtered(s, T), x)
    /\ x \notin T => Filtered(Append(s, x), T) = Filtered(s, T)

\* One more entry is kept, or not, after what was kept of the others.
LEMMA FilteredAppend ==
    ASSUME NEW S, NEW s \in Seq(S), NEW x \in S, NEW T
    PROVE  FilteredStep(S, s, x, T)
<1> DEFINE t == Append(s, x)
<1>1. /\ t \in Seq(S) /\ Len(t) = Len(s) + 1 /\ Len(s) \in Nat
      /\ \A n \in 1..Len(s) : t[n] = s[n] /\ n \in 1..(Len(s) + 1)
      /\ t[Len(s) + 1] = x
  OBVIOUS
<1> HIDE DEF t
<1>3. PICK f : Filters(f, S, s, T)
  BY FilteredIs
<1>4. PICK g : Filters(g, S, t, T)
  BY <1>1, FilteredIs
<1>5. \A n \in 1..Len(s) : g[n] = IF s[n] \in T THEN Append(g[n - 1], s[n]) ELSE g[n - 1]
  BY <1>1, <1>4 DEF Filters
<1>6. \A n \in 0..Len(s) : f[n] = g[n]
  <2> DEFINE N == {n \in 0..Len(s) : f[n] = g[n]}
  <2>1. 0 \in N
    BY <1>1, <1>3, <1>4 DEF Filters
  <2>2. ASSUME NEW n \in 0..(Len(s) - 1), n \in N
        PROVE  n + 1 \in N
    <3>1. n + 1 \in 1..Len(s) /\ (n + 1) - 1 = n
      BY <1>1
    <3>2. f[n + 1] = g[n + 1]
      BY <1>3, <1>5, <2>2, <3>1 DEF Filters
    <3>3. QED
      BY <3>1, <3>2
  <2>3. 0..Len(s) \subseteq N
    <3> HIDE DEF N
    <3>1. QED
      BY <1>1, <2>1, <2>2, SetInduction
  <2>4. QED
    BY <2>3
<1>7. Len(s) + 1 \in 1..Len(t) /\ (Len(s) + 1) - 1 = Len(s) /\ Len(s) \in 0..Len(s)
  BY <1>1
<1>8. g[Len(t)] = IF x \in T THEN Append(f[Len(s)], x) ELSE f[Len(s)]
  BY <1>1, <1>4, <1>6, <1>7 DEF Filters
<1>9. Filtered(s, T) \in Seq(S)
  BY <1>3, <1>7 DEF Filters
<1>10. QED
  BY <1>3, <1>4, <1>8, <1>9 DEF t, Filters, FilteredStep

\* Append and concatenation.
ConcatStep(s, t, x) == s \o Append(t, x) = Append(s \o t, x)

\* An entry that is added to the second of two sequences is added to their concatenation.
LEMMA ConcatAppend ==
    ASSUME NEW S, NEW s \in Seq(S), NEW t \in Seq(S), NEW x \in S
    PROVE  ConcatStep(s, t, x)
<1> DEFINE l == s \o Append(t, x)
           r == Append(s \o t, x)
<1>1. /\ Append(t, x) \in Seq(S) /\ Len(Append(t, x)) = Len(t) + 1
      /\ s \o t \in Seq(S) /\ Len(s \o t) = Len(s) + Len(t)
      /\ Len(s) \in Nat /\ Len(t) \in Nat
  OBVIOUS
<1>2. l \in Seq(S) /\ r \in Seq(S)
  BY <1>1
<1>3. Len(l) = Len(s) + Len(t) + 1 /\ Len(r) = Len(s) + Len(t) + 1
  BY <1>1
<1>4. \A i \in 1..(Len(s) + Len(t) + 1) : l[i] = r[i]
  OBVIOUS
<1> HIDE DEF l, r
<1>5. l = r
  BY <1>1, <1>2, <1>3, <1>4
<1>6. QED
  BY <1>5 DEF l, r, ConcatStep

\* The entries of a longer sequence.
LEMMA AppendRange ==
    ASSUME NEW S, NEW s \in Seq(S), NEW x \in S
    PROVE  Range(Append(s, x)) = Range(s) \cup {x}
<1> DEFINE t == Append(s, x)
<1>1. /\ t \in Seq(S) /\ DOMAIN t = 1..(Len(s) + 1) /\ Len(s) \in Nat /\ DOMAIN s = 1..Len(s)
      /\ \A i \in 1..Len(s) : t[i] = s[i]
      /\ t[Len(s) + 1] = x
  OBVIOUS
<1> HIDE DEF t
<1>2. \A i \in 1..(Len(s) + 1) : i \in 1..Len(s) \/ i = Len(s) + 1
  BY <1>1
<1>3. 1..Len(s) \subseteq 1..(Len(s) + 1) /\ Len(s) + 1 \in 1..(Len(s) + 1)
  BY <1>1
<1>4. Range(t) \subseteq Range(s) \cup {x}
  BY <1>1, <1>2 DEF Range
<1>5. Range(s) \cup {x} \subseteq Range(t)
  BY <1>1, <1>3 DEF Range
<1>6. QED
  BY <1>4, <1>5 DEF t

\* What Filtered keeps: the entries that are in T, and all of s only if there is
\* nothing else in it.
LEMMA FilteredKeeps ==
    ASSUME NEW S, NEW s \in Seq(S), NEW T
    PROVE  /\ Filtered(s, T) \in Seq(S)
           /\ Len(Filtered(s, T)) <= Len(s)
           /\ Range(Filtered(s, T)) = Range(s) \cap T
           /\ Len(Filtered(s, T)) = Len(s) => Filtered(s, T) = s
<1> DEFINE Keeps(u) == /\ Filtered(u, T) \in Seq(S)
                       /\ Len(Filtered(u, T)) <= Len(u)
                       /\ Range(Filtered(u, T)) = Range(u) \cap T
                       /\ Len(Filtered(u, T)) = Len(u) => Filtered(u, T) = u
           K == {u \in Seq(S) : Keeps(u)}
<1>1. <<>> \in K
  <2>1. Filtered(<<>>, T) = <<>>
    BY FilteredEmpty
  <2>2. Range(<<>>) = {} /\ <<>> \in Seq(S)
    BY DEF Range
  <2>3. Len(<<>>) <= Len(<<>>)
    OBVIOUS
  <2>4. Keeps(<<>>)
    <3>1. Range(<<>>) = Range(<<>>) \cap T
      BY <2>2
    <3>2. QED
      BY <2>1, <2>2, <2>3, <3>1, Zenon
  <2> HIDE DEF Keeps
  <2>5. QED
    BY <2>2, <2>4
<1>2. ASSUME NEW u \in Seq(S), NEW x \in S, u \in K
      PROVE  Append(u, x) \in K
  <2> DEFINE f == Filtered(u, T)
             g == Filtered(Append(u, x), T)
             v == Append(u, x)
  <2>1. /\ f \in Seq(S) /\ Len(f) <= Len(u) /\ Range(f) = Range(u) \cap T
        /\ Len(f) = Len(u) => f = u
    BY <1>2
  <2>2. (x \in T => g = Append(f, x)) /\ (x \notin T => g = f)
    <3>1. FilteredStep(S, u, x, T)
      BY FilteredAppend
    <3>2. QED
      BY <3>1 DEF FilteredStep
  <2>3. v \in Seq(S) /\ Len(v) = Len(u) + 1 /\ Len(u) \in Nat /\ Len(f) \in Nat
    BY <2>1
  <2>4. \A w \in Seq(S) : Range(Append(w, x)) = Range(w) \cup {x}
    BY AppendRange
  <2>5. Range(v) = Range(u) \cup {x}
    BY <2>4
  <2> HIDE DEF f, g, v
  <2>6. CASE x \in T
    <3>1. g = Append(f, x)
      BY <2>2, <2>6
    <3>2. g \in Seq(S) /\ Len(g) = Len(f) + 1
      BY <2>1, <3>1
    <3>3. Range(g) = Range(f) \cup {x}
      BY <2>1, <2>4, <3>1
    <3>4. Range(g) = Range(v) \cap T
      BY <2>1, <2>5, <2>6, <3>3
    <3>5. Len(g) = Len(v) => g = v
      BY <2>1, <2>3, <3>1, <3>2 DEF v
    <3>6. Len(g) <= Len(v)
      BY <2>1, <2>3, <3>2
    <3>7. QED
      BY <2>3, <3>2, <3>4, <3>5, <3>6 DEF g, v
  <2>7. CASE x \notin T
    <3>1. g = f
      BY <2>2, <2>7
    <3>2. Range(g) = Range(v) \cap T
      BY <2>1, <2>5, <2>7, <3>1
    <3>3. Len(g) <= Len(v) /\ Len(g) # Len(v)
      BY <2>1, <2>3, <3>1
    <3>4. QED
      BY <2>1, <2>3, <3>1, <3>2, <3>3 DEF g, v
  <2>8. QED
    BY <2>6, <2>7
<1>3. Seq(S) \subseteq K
  <2> HIDE DEF K
  <2>1. QED
    BY <1>1, <1>2, SeqInduction
<1>4. QED
  BY <1>3

\* Filtered goes through a concatenation.
LEMMA FilteredConcat ==
    ASSUME NEW S, NEW s \in Seq(S), NEW t \in Seq(S), NEW T
    PROVE  Filtered(s \o t, T) = Filtered(s, T) \o Filtered(t, T)
<1> DEFINE K == {u \in Seq(S) : Filtered(s \o u, T) = Filtered(s, T) \o Filtered(u, T)}
<1>1. <<>> \in K
  <2>1. Filtered(<<>>, T) = <<>> /\ s \o <<>> = s /\ Filtered(s, T) \in Seq(S)
    BY FilteredEmpty, FilteredKeeps
  <2>2. Filtered(s, T) \o <<>> = Filtered(s, T)
    BY <2>1
  <2>3. QED
    BY <2>1, <2>2
<1>2. ASSUME NEW u \in Seq(S), NEW x \in S, u \in K
      PROVE  Append(u, x) \in K
  <2> DEFINE a == Filtered(s, T)
             f == Filtered(u, T)
             v == Append(u, x)
  <2>1. a \in Seq(S) /\ f \in Seq(S) /\ s \o u \in Seq(S) /\ v \in Seq(S)
    BY FilteredKeeps
  <2>2. ConcatStep(s, u, x) /\ ConcatStep(a, f, x)
    BY <2>1, ConcatAppend
  <2>3. Filtered(s \o u, T) = a \o f
    BY <1>2
  <2>4. FilteredStep(S, u, x, T) /\ FilteredStep(S, s \o u, x, T)
    BY <2>1, FilteredAppend
  <2>5. s \o v = Append(s \o u, x) /\ a \o Append(f, x) = Append(a \o f, x)
    BY <2>2 DEF ConcatStep
  <2>6. /\ x \in T => Filtered(v, T) = Append(f, x) /\ Filtered(Append(s \o u, x), T) = Append(a \o f, x)
        /\ x \notin T => Filtered(v, T) = f /\ Filtered(Append(s \o u, x), T) = a \o f
    BY <2>3, <2>4 DEF FilteredStep
  <2> HIDE DEF a, f, v
  <2>7. Filtered(s \o v, T) = a \o Filtered(v, T)
    BY <2>5, <2>6
  <2>8. QED
    BY <2>1, <2>7 DEF a, v
<1>3. Seq(S) \subseteq K
  <2> HIDE DEF K
  <2>1. QED
    BY <1>1, <1>2, SeqInduction
<1>4. QED
  BY <1>3

\* To filter twice is to filter by both.
LEMMA FilteredTwice ==
    ASSUME NEW S, NEW s \in Seq(S), NEW T, NEW U, NEW W,
           \A x \in S : x \in W <=> x \in T /\ x \in U
    PROVE  Filtered(Filtered(s, T), U) = Filtered(s, W)
<1> DEFINE K == {u \in Seq(S) : Filtered(Filtered(u, T), U) = Filtered(u, W)}
<1>1. <<>> \in K
  BY FilteredEmpty
<1>2. ASSUME NEW u \in Seq(S), NEW x \in S, u \in K
      PROVE  Append(u, x) \in K
  <2> DEFINE f == Filtered(u, T)
             v == Append(u, x)
  <2>1. f \in Seq(S) /\ v \in Seq(S)
    BY FilteredKeeps
  <2>2. FilteredStep(S, u, x, T) /\ FilteredStep(S, u, x, W) /\ FilteredStep(S, f, x, U)
    BY <2>1, FilteredAppend
  <2>3. /\ x \in T => Filtered(v, T) = Append(f, x)
        /\ x \notin T => Filtered(v, T) = f
        /\ x \in W => Filtered(v, W) = Append(Filtered(u, W), x)
        /\ x \notin W => Filtered(v, W) = Filtered(u, W)
        /\ x \in U => Filtered(Append(f, x), U) = Append(Filtered(f, U), x)
        /\ x \notin U => Filtered(Append(f, x), U) = Filtered(f, U)
    BY <2>2 DEF FilteredStep
  <2>4. Filtered(f, U) = Filtered(u, W)
    BY <1>2
  <2> HIDE DEF f, v
  <2>6. x \in W <=> x \in T /\ x \in U
    OBVIOUS
  <2>7. Filtered(Filtered(v, T), U) = Filtered(v, W)
    BY <2>3, <2>4, <2>6
  <2>8. QED
    BY <2>1, <2>7 DEF v
<1>3. Seq(S) \subseteq K
  <2> HIDE DEF K
  <2>1. QED
    BY <1>1, <1>2, SeqInduction
<1>4. QED
  BY <1>3

\* Filtered depends on what is in s only; it leaves what is in T all.
LEMMA FilteredSame ==
    ASSUME NEW S, NEW s \in Seq(S), NEW T, Range(s) \subseteq T
    PROVE  Filtered(s, T) = s
<1> DEFINE K == {u \in Seq(S) : Range(u) \subseteq T => Filtered(u, T) = u}
<1>1. <<>> \in K
  BY FilteredEmpty
<1>2. ASSUME NEW u \in Seq(S), NEW x \in S, u \in K
      PROVE  Append(u, x) \in K
  <2> DEFINE v == Append(u, x)
  <2>1. v \in Seq(S) /\ Range(v) = Range(u) \cup {x}
    BY AppendRange
  <2>2. x \in T => Filtered(v, T) = Append(Filtered(u, T), x)
    <3>1. FilteredStep(S, u, x, T)
      BY FilteredAppend
    <3>2. QED
      BY <3>1 DEF FilteredStep
  <2> HIDE DEF v
  <2>3. ASSUME Range(v) \subseteq T PROVE Filtered(v, T) = v
    <3>1. Range(u) \subseteq T /\ x \in T
      BY <2>1, <2>3
    <3>2. Filtered(u, T) = u
      BY <1>2, <3>1
    <3>3. QED
      BY <2>2, <3>1, <3>2 DEF v
  <2>4. QED
    BY <2>1, <2>3 DEF v
<1>3. Seq(S) \subseteq K
  <2> HIDE DEF K
  <2>1. QED
    BY <1>1, <1>2, SeqInduction
<1>4. QED
  BY <1>3

\* Filtered keeps what is ordered by g in order.
LEMMA FilteredOrdered ==
    ASSUME NEW S, NEW s \in Seq(S), NEW T, NEW g \in [S -> Nat],
           \A i, j \in 1..Len(s) : i < j => g[s[i]] < g[s[j]]
    PROVE  \A i, j \in 1..Len(Filtered(s, T)) :
              i < j => g[Filtered(s, T)[i]] < g[Filtered(s, T)[j]]
<1> DEFINE Ordered(u) == \A i, j \in 1..Len(u) : i < j => g[u[i]] < g[u[j]]
           K == {u \in Seq(S) : Ordered(u) => Ordered(Filtered(u, T))}
<1>1. <<>> \in K
  <2>1. Filtered(<<>>, T) = <<>>
    BY FilteredEmpty
  <2> HIDE DEF Ordered
  <2>2. QED
    BY <2>1
<1>2. ASSUME NEW u \in Seq(S), NEW x \in S, u \in K
      PROVE  Append(u, x) \in K
  <2> DEFINE v == Append(u, x)
             f == Filtered(u, T)
             w == Append(f, x)
  <2>1. /\ v \in Seq(S) /\ Len(v) = Len(u) + 1 /\ Len(u) \in Nat
        /\ \A i \in 1..Len(u) : v[i] = u[i]
        /\ v[Len(u) + 1] = x
    OBVIOUS
  <2>2. f \in Seq(S) /\ Range(f) \subseteq Range(u)
    BY FilteredKeeps
  <2>3. (x \in T => Filtered(v, T) = w) /\ (x \notin T => Filtered(v, T) = f)
    <3>1. FilteredStep(S, u, x, T)
      BY FilteredAppend
    <3>2. QED
      BY <3>1 DEF FilteredStep
  <2> HIDE DEF v, f
  <2>4. /\ w \in Seq(S) /\ Len(w) = Len(f) + 1 /\ Len(f) \in Nat
        /\ \A i \in 1..Len(f) : w[i] = f[i]
        /\ w[Len(f) + 1] = x
    BY <2>2
  <2> HIDE DEF w
  <2>5. ASSUME Ordered(v) PROVE Ordered(f) /\ Ordered(w)
    <3>1. Ordered(u)
      <4>1. \A i \in 1..Len(u) : i \in 1..Len(v)
        BY <2>1
      <4>2. QED
        BY <2>1, <2>5, <4>1
    <3>2. Ordered(f)
      BY <1>2, <3>1 DEF f
    <3>3. ASSUME NEW i \in 1..Len(f) PROVE g[f[i]] < g[x]
      <4>1. PICK k \in 1..Len(u) : f[i] = u[k]
        <5>1. i \in DOMAIN f /\ DOMAIN u = 1..Len(u)
          BY <2>2
        <5>2. f[i] \in Range(u)
          BY <2>2, <5>1 DEF Range
        <5>3. QED
          BY <5>1, <5>2 DEF Range
      <4>2. k \in 1..Len(v) /\ Len(u) + 1 \in 1..Len(v) /\ k < Len(u) + 1
        BY <2>1
      <4>3. g[v[k]] < g[v[Len(u) + 1]]
        BY <2>5, <4>2
      <4>4. QED
        BY <2>1, <4>1, <4>3
    <3>4. ASSUME NEW i \in 1..Len(w), NEW j \in 1..Len(w), i < j
          PROVE  g[w[i]] < g[w[j]]
      <4>1. i \in 1..Len(f)
        BY <2>4, <3>4
      <4>2. CASE j = Len(f) + 1
        BY <2>4, <3>3, <4>1, <4>2
      <4>3. CASE j # Len(f) + 1
        <5>1. j \in 1..Len(f)
          BY <2>4, <4>3
        <5>2. g[f[i]] < g[f[j]]
          BY <3>2, <3>4, <4>1, <5>1
        <5>3. QED
          BY <2>4, <4>1, <5>1, <5>2
      <4>4. QED
        BY <4>2, <4>3
    <3>5. QED
      BY <3>2, <3>4
  <2> HIDE DEF Ordered
  <2>6. Ordered(v) => Ordered(Filtered(v, T))
    BY <2>3, <2>5
  <2>7. QED
    BY <2>1, <2>6 DEF v
<1>3. Seq(S) \subseteq K
  <2> HIDE DEF K
  <2>1. QED
    BY <1>1, <1>2, SeqInduction
<1>4. QED
  BY <1>3

\* One entry or two after others.
TwoEntries(s, x, y) ==
    /\ s \o <<x>> = Append(s, x)
    /\ s \o <<x, y>> = Append(Append(s, x), y)

\* What is among the entries decides what is filtered.
LEMMA FilteredAgree ==
    ASSUME NEW S, NEW s \in Seq(S), NEW T, NEW U, \A x \in S : x \in T <=> x \in U
    PROVE  Filtered(s, T) = Filtered(s, U)
<1> DEFINE t == Filtered(s, T)
<1>1. t \in Seq(S) /\ Range(t) = Range(s) \cap T /\ Range(s) \subseteq S
  BY FilteredKeeps, RangeOfSeq
<1>2. Filtered(t, U) = Filtered(s, U)
  <2>1. \A x \in S : x \in U <=> x \in T /\ x \in U
    OBVIOUS
  <2>2. QED
    BY <2>1, FilteredTwice
<1>3. Range(t) \subseteq U
  BY <1>1
<1> HIDE DEF t
<1>4. Filtered(t, U) = t
  BY <1>1, <1>3, FilteredSame
<1>5. QED
  BY <1>2, <1>4 DEF t

\* Nothing is left of a sequence without the entries that are asked for.
LEMMA FilteredNone ==
    ASSUME NEW S, NEW s \in Seq(S), NEW T, Range(s) \cap T = {}
    PROVE  Filtered(s, T) = <<>>
<1> DEFINE t == Filtered(s, T)
<1>1. t \in Seq(S) /\ Range(t) = {}
  BY FilteredKeeps
<1> HIDE DEF t
<1>2. Len(t) = 0
  <2>1. \A i \in 1..Len(t) : t[i] \in Range(t)
    BY <1>1 DEF Range
  <2>2. Len(t) \in Nat
    BY <1>1
  <2>3. Len(t) # 0 => 1 \in 1..Len(t)
    BY <2>2
  <2>4. QED
    BY <1>1, <2>1, <2>3
<1>3. t = <<>>
  BY <1>1, <1>2
<1>4. QED
  BY <1>3 DEF t

\* To add a sequence of one entry is to append that entry.
LEMMA OneEntry ==
    ASSUME NEW S, NEW s \in Seq(S), NEW x \in S, NEW y \in S
    PROVE  ConcatStep(s, <<>>, x) /\ ConcatStep(s, <<x>>, y) /\ s \o <<>> = s
           /\ Append(<<>>, x) = <<x>> /\ Append(<<x>>, y) = <<x, y>>
<1>1. <<>> \in Seq(S) /\ <<x>> \in Seq(S)
  OBVIOUS
<1>2. ConcatStep(s, <<>>, x) /\ ConcatStep(s, <<x>>, y)
  BY <1>1, ConcatAppend, Zenon
<1>3. s \o <<>> = s
  OBVIOUS
<1>4. Append(<<>>, x) = <<x>>
  OBVIOUS
<1>5. Append(<<x>>, y) = <<x, y>>
  <2> DEFINE a == Append(<<x>>, y)
             b == <<x, y>>
  <2>1. a \in Seq(S) /\ Len(a) = 2 /\ a[1] = x /\ a[2] = y
    <3>1. <<x>> \in Seq(S) /\ Len(<<x>>) = 1
      OBVIOUS
    <3>2. QED
      BY <3>1, AppendProperties
  <2>2. b \in Seq(S) /\ Len(b) = 2 /\ b[1] = x /\ b[2] = y
    OBVIOUS
  <2> HIDE DEF a, b
  <2>3. \A i \in 1..2 : i = 1 \/ i = 2
    OBVIOUS
  <2>4. a = b
    BY <2>1, <2>2, <2>3, SeqEqual
  <2>5. QED
    BY <2>4 DEF a, b
<1>6. QED
  BY <1>2, <1>3, <1>4, <1>5

\* To add a sequence of two entries is to append the one and then the other.
LEMMA TwoEntriesHold ==
    ASSUME NEW S, NEW s \in Seq(S), NEW x \in S, NEW y \in S
    PROVE  TwoEntries(s, x, y)
<1>1. ConcatStep(s, <<>>, x) /\ ConcatStep(s, <<x>>, y) /\ s \o <<>> = s
      /\ Append(<<>>, x) = <<x>> /\ Append(<<x>>, y) = <<x, y>>
  BY OneEntry
<1>2. s \o <<x>> = Append(s, x)
  BY <1>1 DEF ConcatStep
<1>3. s \o <<x, y>> = Append(s \o <<x>>, y)
  BY <1>1 DEF ConcatStep
<1>4. QED
  BY <1>2, <1>3 DEF TwoEntries

\* s is the end of t.
Ends(S, s, t) == \E before \in Seq(S) : t = before \o s

\* An end of a sequence is a suffix of it.
LEMMA EndsIsSuffix ==
    ASSUME NEW S, NEW s \in Seq(S), NEW t \in Seq(S), Ends(S, s, t)
    PROVE  IsSuffix(s, t)
<1>1. PICK b \in Seq(S) : t = b \o s
  BY DEF Ends
<1> DEFINE l == Len(s)
           rs == Reverse(s)
           rt == Reverse(t)
<1>2. /\ l \in Nat /\ Len(b) \in Nat /\ Len(t) = Len(b) + l
      /\ \A i \in 1..l : t[Len(b) + i] = s[i]
  BY <1>1
<1>3. /\ rs \in Seq(S) /\ Len(rs) = l /\ \A i \in 1..l : rs[i] = s[l - i + 1]
  BY <1>2 DEF Reverse
<1>4. /\ rt \in Seq(S) /\ Len(rt) = Len(b) + l
      /\ \A i \in 1..(Len(b) + l) : rt[i] = t[Len(b) + l - i + 1]
  BY <1>2 DEF Reverse
<1>5. ASSUME NEW i \in 1..l PROVE rs[i] = rt[i]
  <2>1. l - i + 1 \in 1..l /\ Len(b) + (l - i + 1) = Len(b) + l - i + 1 /\ i \in 1..(Len(b) + l)
    BY <1>2
  <2>2. t[Len(b) + (l - i + 1)] = s[l - i + 1]
    BY <1>2, <2>1
  <2> HIDE DEF rs, rt, l
  <2>3. QED
    BY <1>3, <1>4, <2>1, <2>2
<1> HIDE DEF rs, rt, l
<1>6. l <= Len(rt) /\ \A i \in 1..l : rt[i] \in S /\ rs[i] \in S
  BY <1>2, <1>3, <1>4
<1>7. SubSeq(rs, 1, l) = SubSeq(rt, 1, l)
  <2> DEFINE a == SubSeq(rs, 1, l)
             c == SubSeq(rt, 1, l)
  <2>1. /\ a \in Seq(S) /\ Len(a) = l /\ \A i \in 1..l : a[i] = rs[i]
        /\ c \in Seq(S) /\ Len(c) = l /\ \A i \in 1..l : c[i] = rt[i]
    BY <1>2, <1>3, <1>4, <1>6
  <2> HIDE DEF a, c
  <2>2. a = c
    <3>1. \A i \in 1..l : a[i] = c[i]
      BY <1>5, <2>1
    <3>2. QED
      BY <2>1, <3>1, SeqEqual
  <2>3. QED
    BY <2>2 DEF a, c
<1>8. IsPrefix(rs, rt)
  BY <1>3, <1>6, <1>7 DEF IsPrefix
<1>9. QED
  BY <1>8 DEF IsSuffix, rs, rt

\* A sequence and the empty sequence are ends of it.
LEMMA EndsTrivial ==
    ASSUME NEW S, NEW s \in Seq(S)
    PROVE  Ends(S, s, s) /\ Ends(S, <<>>, s)
<1>1. <<>> \in Seq(S) /\ <<>> \o s = s /\ s \o <<>> = s
  OBVIOUS
<1>2. QED
  BY <1>1 DEF Ends

\* An end of an end is an end.
LEMMA EndsTransitive ==
    ASSUME NEW S, NEW s \in Seq(S), NEW t \in Seq(S), NEW u \in Seq(S),
           Ends(S, s, t), Ends(S, t, u)
    PROVE  Ends(S, s, u)
<1>1. PICK b \in Seq(S), c \in Seq(S) : t = b \o s /\ u = c \o t
  BY DEF Ends
<1>2. c \o b \in Seq(S) /\ u = (c \o b) \o s
  BY <1>1, ConcatAssociative
<1>3. QED
  BY <1>2 DEF Ends

\* An entry at the end of both.
LEMMA EndsAppend ==
    ASSUME NEW S, NEW s \in Seq(S), NEW t \in Seq(S), NEW x \in S, Ends(S, s, t)
    PROVE  Ends(S, Append(s, x), Append(t, x))
<1>1. PICK b \in Seq(S) : t = b \o s
  BY DEF Ends
<1>2. ConcatStep(b, s, x)
  BY ConcatAppend
<1>3. Append(t, x) = b \o Append(s, x)
  BY <1>1, <1>2 DEF ConcatStep
<1>4. QED
  BY <1>3 DEF Ends

\* A sequence that is not empty.
Split(S, s) == Front(s) \in Seq(S) /\ Last(s) \in S /\ s = Append(Front(s), Last(s))

\* A sequence that is not empty is its front and its last entry.
LEMMA FrontLast ==
    ASSUME NEW S, NEW s \in Seq(S), s # <<>>
    PROVE  Split(S, s)
<1> DEFINE f == Front(s)
           x == Last(s)
           a == Append(f, x)
<1>1. Len(s) \in Nat /\ Len(s) > 0 /\ x \in S /\ x = s[Len(s)]
  BY DEF Last
<1>2. f \in Seq(S) /\ Len(f) = Len(s) - 1 /\ \A i \in 1..(Len(s) - 1) : f[i] = s[i]
  <2>1. \A i \in 1..(Len(s) - 1) : s[i] \in S
    BY <1>1
  <2> DEFINE k == Len(s) - 1
  <2>2. f = SubSeq(s, 1, k) /\ 1 \in Int /\ k \in Int /\ k \in Nat
    BY <1>1 DEF Front
  <2> HIDE DEF f, k
  <2>3. /\ f \in Seq(S) /\ Len(f) = IF 1 <= k THEN k - 1 + 1 ELSE 0
        /\ \A i \in 1..(k - 1 + 1) : f[i] = s[1 + i - 1]
    BY <2>1, <2>2, SubSeqProperties DEF k
  <2>4. Len(f) = k /\ \A i \in 1..k : f[i] = s[i]
    BY <2>2, <2>3
  <2>5. QED
    BY <2>3, <2>4 DEF k
<1> HIDE DEF f, x
<1>3. /\ a \in Seq(S) /\ Len(a) = Len(s) /\ a[Len(s)] = x
      /\ \A i \in 1..(Len(s) - 1) : a[i] = s[i]
  BY <1>1, <1>2
<1> HIDE DEF a
<1>4. \A i \in 1..Len(s) : i = Len(s) \/ i \in 1..(Len(s) - 1)
  BY <1>1
<1>5. \A i \in 1..Len(s) : a[i] = s[i]
  BY <1>1, <1>3, <1>4
<1>6. a = s
  BY <1>3, <1>5
<1>7. QED
  BY <1>1, <1>2, <1>6 DEF f, x, a, Split

\* What is appended is the last.
Appended(s, x) == Append(s, x) # <<>> /\ Last(Append(s, x)) = x /\ Front(Append(s, x)) = s

\* The last entry and the front of an appended sequence.
LEMMA AppendLast ==
    ASSUME NEW S, NEW s \in Seq(S), NEW x \in S
    PROVE  Appended(s, x)
<1> DEFINE t == Append(s, x)
           f == Front(t)
<1>1. /\ t \in Seq(S) /\ Len(t) = Len(s) + 1 /\ Len(s) \in Nat /\ t[Len(s) + 1] = x
      /\ \A i \in 1..Len(s) : t[i] = s[i]
  OBVIOUS
<1> HIDE DEF t
<1>2. t # <<>> /\ Last(t) = x
  BY <1>1 DEF Last
<1>3. f \in Seq(S) /\ Len(f) = Len(s) /\ \A i \in 1..Len(s) : f[i] = s[i]
  <2>1. f = SubSeq(t, 1, Len(s))
    BY <1>1 DEF Front
  <2>2. \A i \in 1..Len(s) : t[i] \in S
    BY <1>1
  <2>3. QED
    BY <1>1, <2>1, <2>2, SubSeqProperties
<1> HIDE DEF f
<1>4. f = s
  BY <1>3
<1>5. QED
  BY <1>2, <1>4 DEF Appended, t, f

\* The last entry of an end is the last of all.
LEMMA EndsFront ==
    ASSUME NEW S, NEW s \in Seq(S), NEW t \in Seq(S), NEW x \in S, Ends(S, Append(s, x), t)
    PROVE  t # <<>> /\ Last(t) = x /\ Front(t) \in Seq(S) /\ Ends(S, s, Front(t))
<1>1. PICK b \in Seq(S) : t = b \o Append(s, x)
  BY DEF Ends
<1>2. ConcatStep(b, s, x) /\ b \o s \in Seq(S)
  BY ConcatAppend
<1>3. t = Append(b \o s, x)
  BY <1>1, <1>2 DEF ConcatStep
<1>4. Appended(b \o s, x)
  BY <1>2, AppendLast
<1>5. t # <<>> /\ Last(t) = x /\ Front(t) = b \o s
  BY <1>3, <1>4 DEF Appended
<1>6. QED
  BY <1>2, <1>5 DEF Ends

\* What is kept of an end is an end of what is kept.
LEMMA EndsFiltered ==
    ASSUME NEW S, NEW s \in Seq(S), NEW t \in Seq(S), NEW T, Ends(S, s, t)
    PROVE  Ends(S, Filtered(s, T), Filtered(t, T))
<1>1. PICK b \in Seq(S) : t = b \o s
  BY DEF Ends
<1>2. Filtered(b, T) \in Seq(S)
  BY FilteredKeeps
<1>3. Filtered(b \o s, T) = Filtered(b, T) \o Filtered(s, T)
  BY FilteredConcat
<1>4. QED
  BY <1>1, <1>2, <1>3 DEF Ends

\* The last entry stays the last.

-----------------------------------------------------------------------------
(* The reasoner *)

-----------------------------------------------------------------------------
(* The inductive invariant *)

\* Before a call nothing was asked.
Fresh == stage = "none" => model = 1 /\ \A m \in Models : outcomes[m] = <<>>

\* The models before the one that is tried are exhausted, those after it unasked.
Order ==
    /\ \A m \in Models : m < model \/ stage = "failed" => Exhausted(m)
    /\ \A m \in Models : m > model => outcomes[m] = <<>>

\* The attempts count the posts of the model, all of which may be retried.
Attempts ==
    stage \in {"build", "post"} =>
        /\ Len(outcomes[model]) = attempt
        /\ \A k \in 1..attempt : Retried(outcomes[model][k])
        /\ IF stage = "build" THEN attempt = 0 ELSE attempt < max_retries

\* No model is asked too often, or again after an answer or a refusal for good.
Asks ==
    \A m \in Models :
        /\ Len(outcomes[m]) <= max_retries
        /\ \A k \in 1..(Len(outcomes[m]) - 1) : outcomes[m][k] \notin {"text", "empty", "refused"}

Answer == stage = "text" => outcomes[model] # <<>> /\ Last(outcomes[model]) = "text"

\* The attachments that were looked at and are uploaded are in the request.
Attached ==
    /\ stage = "build" =>
          \A f \in file_cache \cap Uploads : f < next_file => f \in parts \cup unread
    /\ stage = "post" => file_cache \cap Uploads \subseteq parts \cup unread

Inv == ClientTypeOK /\ Fresh /\ Order /\ Attempts /\ Asks /\ Answer /\ Attached

-----------------------------------------------------------------------------
(* Lemmas *)

\* Among providers with keys there is a first one.
LEMMA FirstProvider ==
    ASSUME NEW keys \in SUBSET Provider, keys # {}
    PROVE  Providers[CHOOSE i \in DOMAIN Providers :
                        /\ Providers[i] \in keys
                        /\ \A j \in 1..(i - 1) : Providers[j] \notin keys] \in Provider
<1> DEFINE First(i) == Providers[i] \in keys /\ \A j \in 1..(i - 1) : Providers[j] \notin keys
<1>1. DOMAIN Providers = 1..6 /\ \A i \in 1..6 : Providers[i] \in Provider
  BY DEF Providers, Provider, ToSet
<1>2. PICK n \in 1..6 : Providers[n] \in keys
  BY <1>1 DEF Provider, ToSet
<1>3. \E i \in 1..6 : First(i)
  <2>1. 1..6 = {1, 2, 3, 4, 5, 6}
    OBVIOUS
  <2>2. CASE First(1) \/ First(2) \/ First(3) \/ First(4) \/ First(5) \/ First(6)
    BY <2>1, <2>2
  <2>3. QED
    BY <1>2, <2>2
<1>4. QED
  BY <1>1, <1>3

\* A configuration selects a provider or none.
LEMMA ProviderType == \A c \in Config : ClientFromConfig(c) \in Provider \cup {NoProvider}
<1> SUFFICES ASSUME NEW c \in Config PROVE ClientFromConfig(c) \in Provider \cup {NoProvider}
  OBVIOUS
<1>1. c.keys \subseteq Provider
  BY DEF Config
<1>2. AutoDetect(c.keys) \in Provider \cup {NoProvider}
  <2>1. CASE c.keys = {}
    BY <2>1 DEF AutoDetect
  <2>2. CASE c.keys # {}
    BY <1>1, <2>2, FirstProvider DEF AutoDetect
  <2>3. QED
    BY <2>1, <2>2
<1>3. QED
  BY <1>1, <1>2 DEF ClientFromConfig

\* Another outcome of the model that is tried.
LEMMA EndedType ==
    ASSUME ClientTypeOK, NEW o \in Outcome, Ended(o)
    PROVE  /\ outcomes' \in [Models -> Seq(Outcome)]
           /\ \A m \in Models \ {model} : outcomes'[m] = outcomes[m]
           /\ Len(outcomes'[model]) = Len(outcomes[model]) + 1
           /\ \A k \in 1..Len(outcomes[model]) : outcomes'[model][k] = outcomes[model][k]
           /\ outcomes'[model][Len(outcomes[model]) + 1] = o
           /\ outcomes'[model] # <<>> /\ Last(outcomes'[model]) = o
<1> DEFINE s == outcomes[model]
<1>1. s \in Seq(Outcome) /\ model \in Models /\ outcomes \in [Models -> Seq(Outcome)]
  BY DEF ClientTypeOK
<1>2. outcomes' = [outcomes EXCEPT ![model] = Append(s, o)]
  BY DEF Ended
<1>3. outcomes'[model] = Append(s, o)
  BY <1>1, <1>2
<1>4. /\ Append(s, o) \in Seq(Outcome) /\ Len(Append(s, o)) = Len(s) + 1
      /\ \A k \in 1..Len(s) : Append(s, o)[k] = s[k]
      /\ Append(s, o)[Len(s) + 1] = o
  BY <1>1
<1>5. Append(s, o) # <<>>
  BY <1>1, <1>4
<1> HIDE DEF s
<1>6. outcomes' \in [Models -> Seq(Outcome)]
  BY <1>1, <1>2, <1>4
<1>7. \A m \in Models \ {model} : outcomes'[m] = outcomes[m]
  BY <1>1, <1>2
<1>8. QED
  BY <1>3, <1>4, <1>5, <1>6, <1>7 DEF Last, s

\* A request for the next model is begun when nothing more can be had of this one.
LEMMA GiveUpInv ==
    ASSUME ClientTypeOK, Order, NEW n \in Models, n = model,
           GiveUp, UNCHANGED <<provider, with_files, file_cache>>,
           unbuilt' \subseteq Models, unbuilt \subseteq unbuilt',
           outcomes' \in [Models -> Seq(Outcome)],
           \A m \in Models \ {model} : outcomes'[m] = outcomes[m],
           Exhausted(n)', Asks',
           stage \in {"build", "post"}
    PROVE  Inv'
<1> USE LLMClientAssumption DEF request
<1>1. model \in Models /\ model \in Nat /\ n_models \in Nat
  BY DEF ClientTypeOK, Models
<1>2. \A m \in Models : m < model \/ m = model => Exhausted(m)'
  <2>1. \A m \in Models : m < model => Exhausted(m)
    BY DEF Order
  <2>2. \A m \in Models : m < model => m # model
    BY DEF Models
  <2>3. ASSUME NEW m \in Models, m < model PROVE Exhausted(m)'
    <3>1. outcomes'[m] = outcomes[m]
      BY <2>2, <2>3
    <3>2. QED
      BY <2>1, <2>3, <3>1 DEF Exhausted
  <2>4. ASSUME NEW m \in Models, m = model PROVE Exhausted(m)'
    BY <2>4
  <2>5. QED
    BY <2>3, <2>4
<1>3. CASE model < n_models
  <2>1. /\ model' = model + 1 /\ attempt' = 0 /\ next_file' = 1
        /\ parts' = {} /\ unread' = {} /\ stage' = "build"
    BY <1>3 DEF GiveUp, BuildFor
  <2>2. model' \in Models
    BY <1>1, <1>3, <2>1 DEF Models
  <2>3. \A m \in Models : m > model => outcomes'[m] = <<>>
    <3>1. \A m \in Models : m > model => m # model /\ outcomes[m] = <<>>
      BY <1>1 DEF Order, Models
    <3>2. QED
      BY <3>1
  <2>4. ClientTypeOK'
    BY <2>1, <2>2 DEF ClientTypeOK
  <2>5. Order'
    <3>1. \A m \in Models : m < model + 1 => m < model \/ m = model
      BY <1>1 DEF Models
    <3>2. \A m \in Models : m > model + 1 => m > model
      BY <1>1 DEF Models
    <3>3. QED
      BY <1>2, <2>1, <2>3, <3>1, <3>2 DEF Order
  <2>6. Len(outcomes'[model']) = 0
    BY <1>1, <2>1, <2>2, <2>3
  <2>7. Attempts'
    BY <2>1, <2>6 DEF Attempts
  <2>8. Attached'
    BY <2>1 DEF Attached, Uploads, Files
  <2>9. Fresh' /\ Answer'
    BY <2>1 DEF Fresh, Answer
  <2>10. QED
    BY <2>4, <2>5, <2>7, <2>8, <2>9 DEF Inv
<1>4. CASE ~(model < n_models)
  <2>1. stage' = "failed" /\ UNCHANGED <<model, attempt, next_file, parts, unread>>
    BY <1>4 DEF GiveUp
  <2>2. \A m \in Models : m < model \/ m = model
    BY <1>1, <1>4 DEF Models
  <2>3. \A m \in Models : ~(m > model)
    BY <1>1, <1>4 DEF Models
  <2>4. ClientTypeOK'
    BY <2>1 DEF ClientTypeOK
  <2>5. Order'
    BY <1>2, <2>1, <2>2, <2>3 DEF Order
  <2>6. QED
    BY <2>1, <2>4, <2>5 DEF Inv, Fresh, Attempts, Answer, Attached
<1>5. QED
  BY <1>3, <1>4

\* Nothing was asked yet.
LEMMA NothingAsked ==
    ASSUME stage = "none", model = 1, attempt \in Nat,
           outcomes = [m \in Models |-> <<>>], ClientTypeOK
    PROVE  Inv
<1> USE LLMClientAssumption
<1>1. \A m \in Models : outcomes[m] = <<>> /\ Len(outcomes[m]) = 0 /\ ~(m < 1)
  BY DEF Models
<1>2. Fresh /\ Answer /\ Attempts /\ Attached
  BY <1>1 DEF Fresh, Answer, Attempts, Attached
<1>3. Order
  BY <1>1 DEF Order
<1>4. Asks
  BY <1>1 DEF Asks
<1>5. QED
  BY <1>2, <1>3, <1>4 DEF Inv

-----------------------------------------------------------------------------
(* Every step keeps the invariant *)

\* No model is asked yet when a call starts.
LEMMA InitInv == Init => Inv
<1> SUFFICES ASSUME Init PROVE Inv
  OBVIOUS
<1> USE LLMClientAssumption
<1>1. ClientTypeOK
  <2>1. 1 \in Models /\ 1 \in 1..(n_large + 1) /\ 0 \in Nat
    BY DEF Models
  <2>2. provider \in Provider \cup {NoProvider}
    BY ProviderType DEF Init
  <2>3. outcomes \in [Models -> Seq(Outcome)]
    BY DEF Init, InitClient
  <2>4. QED
    BY <2>1, <2>2, <2>3 DEF Init, InitClient, ClientTypeOK
<1>2. QED
  BY <1>1, NothingAsked DEF Init, InitClient

\* A call of the reasoner is over.
LEMMA ReturnedInv ==
    ASSUME Inv, Returned
    PROVE  Inv'
<1> USE LLMClientAssumption
<1>1. /\ stage' = "none" /\ model' = 1 /\ attempt' = 0 /\ next_file' = 1
      /\ parts' = {} /\ unread' = {} /\ unbuilt' = {} /\ with_files' = FALSE
      /\ outcomes' = [m \in Models |-> <<>>]
      /\ UNCHANGED <<provider, file_cache>>
  BY DEF Returned
<1>2. 1 \in Models /\ 1 \in 1..(n_large + 1) /\ 0 \in Nat
  BY DEF Models
<1>3. outcomes' \in [Models -> Seq(Outcome)]
  BY <1>1
<1>4. ClientTypeOK'
  BY <1>1, <1>2, <1>3 DEF Inv, ClientTypeOK
<1>5. \A m \in Models : outcomes'[m] = <<>> /\ Len(outcomes'[m]) = 0 /\ ~(m < 1)
  BY <1>1 DEF Models
<1>6. Fresh' /\ Answer' /\ Attempts' /\ Attached'
  BY <1>1, <1>5 DEF Fresh, Answer, Attempts, Attached
<1>7. Order' /\ Asks'
  BY <1>1, <1>5 DEF Order, Asks
<1>8. QED
  BY <1>4, <1>6, <1>7 DEF Inv

\* A call of generate begins.
LEMMA GenerateInv ==
    ASSUME Inv, NEW files \in BOOLEAN, Generate(files)
    PROVE  Inv'
<1> USE LLMClientAssumption
<1>1. /\ stage = "none" /\ with_files' = files
      /\ model' = 1 /\ attempt' = 0 /\ next_file' = 1
      /\ parts' = {} /\ unread' = {} /\ stage' = "build"
      /\ UNCHANGED <<provider, file_cache, unbuilt, outcomes>>
  BY DEF Generate, BuildFor
<1>2. 1 \in Models /\ 1 \in 1..(n_large + 1) /\ 0 \in Nat
  BY DEF Models
<1>3. ClientTypeOK'
  BY <1>1, <1>2 DEF Inv, ClientTypeOK
<1>4. \A m \in Models : outcomes'[m] = <<>> /\ Len(outcomes'[m]) = 0 /\ ~(m < 1)
  BY <1>1 DEF Inv, Fresh, Models
<1>5. Fresh' /\ Answer'
  BY <1>1 DEF Fresh, Answer
<1>6. Attempts'
  BY <1>1, <1>2, <1>4 DEF Attempts
<1>7. Attached'
  BY <1>1 DEF Attached, Uploads, Files
<1>8. Order' /\ Asks'
  BY <1>1, <1>4 DEF Order, Asks
<1>9. QED
  BY <1>3, <1>5, <1>6, <1>7, <1>8 DEF Inv

\* An attachment is put into the request or left out of it.
LEMMA AttachInv ==
    ASSUME Inv, AttachCached \/ AttachUploaded \/ AttachFails \/ AttachUnread
    PROVE  Inv'
<1> USE LLMClientAssumption
<1>1. /\ stage = "build" /\ stage' = "build"
      /\ next_file \in Uploads /\ next_file' = next_file + 1
      /\ UNCHANGED <<provider, with_files, model, attempt, unbuilt, outcomes>>
  BY DEF AttachCached, AttachUploaded, AttachFails, AttachUnread, FilesLeft
<1>2. next_file \in Files /\ next_file \in Nat /\ Uploads \subseteq Files /\ Uploads' = Uploads
  BY <1>1 DEF Uploads, Files, Inv, ClientTypeOK
<1>3. next_file' \in 1..(n_large + 1)
  BY <1>1, <1>2 DEF Files
<1>4. /\ parts \subseteq parts' /\ parts' \subseteq file_cache'
      /\ unread \subseteq unread' /\ unread' \subseteq Files
      /\ file_cache' \subseteq file_cache \cup {next_file} /\ file_cache' \subseteq Files
      /\ next_file \in file_cache' => next_file \in parts' \cup unread'
  <2>1. parts \subseteq file_cache /\ file_cache \subseteq Files /\ unread \subseteq Files
    BY DEF Inv, ClientTypeOK
  <2>2. CASE AttachCached
    BY <1>2, <2>1, <2>2 DEF AttachCached
  <2>3. CASE AttachUploaded
    BY <1>2, <2>1, <2>3 DEF AttachUploaded
  <2>4. CASE AttachFails
    BY <1>2, <2>1, <2>4 DEF AttachFails
  <2>5. CASE AttachUnread
    BY <1>2, <2>1, <2>5 DEF AttachUnread
  <2>6. QED
    BY <2>2, <2>3, <2>4, <2>5
<1>5. ClientTypeOK'
  BY <1>1, <1>3, <1>4 DEF Inv, ClientTypeOK
<1>6. Attached'
  <2>1. ASSUME NEW f \in file_cache' \cap Uploads', f < next_file'
        PROVE  f \in parts' \cup unread'
    <3>1. f \in Nat /\ f \in Uploads
      <4>1. f \in Uploads
        BY <1>2
      <4>2. f \in Files
        BY <1>2, <4>1
      <4>3. QED
        BY <4>1, <4>2 DEF Files
    <3>2. CASE f = next_file
      BY <1>4, <3>2
    <3>3. CASE f # next_file
      <4>1. f < next_file /\ f \in file_cache
        BY <1>1, <1>2, <1>4, <2>1, <3>1, <3>3
      <4>2. f \in parts \cup unread
        BY <1>1, <3>1, <4>1 DEF Inv, Attached
      <4>3. QED
        BY <1>4, <4>2
    <3>4. QED
      BY <3>2, <3>3
  <2>2. QED
    BY <1>1, <2>1 DEF Attached
<1>7. Fresh' /\ Answer' /\ Attempts'
  BY <1>1 DEF Inv, Fresh, Answer, Attempts, Retried
<1>8. Order' /\ Asks'
  BY <1>1 DEF Inv, Order, Asks, Exhausted
<1>9. QED
  BY <1>5, <1>6, <1>7, <1>8 DEF Inv

\* The request cannot be built.
LEMMA BuildRaisesInv ==
    ASSUME Inv, BuildRaises
    PROVE  Inv'
<1>1. /\ stage = "build" /\ unbuilt' = unbuilt \cup {model} /\ GiveUp
      /\ UNCHANGED <<provider, with_files, file_cache, outcomes>>
  BY DEF BuildRaises
<1>2. model \in Models /\ unbuilt' \subseteq Models /\ outcomes' \in [Models -> Seq(Outcome)]
  BY <1>1 DEF Inv, ClientTypeOK
<1>3. Asks'
  BY <1>1 DEF Inv, Asks
<1>4. ASSUME NEW n \in Models, n = model PROVE Exhausted(n)'
  BY <1>1, <1>4 DEF Exhausted
<1>5. QED
  BY <1>1, <1>2, <1>3, <1>4, GiveUpInv DEF Inv

\* The request is built.
LEMMA BuiltInv ==
    ASSUME Inv, Built
    PROVE  Inv'
<1> USE LLMClientAssumption
<1>1. /\ stage = "build" /\ ~FilesLeft
      /\ UNCHANGED <<provider, with_files, file_cache, unbuilt, outcomes>>
  BY DEF Built
<1>2. CASE max_retries > 0
  <2>1. stage' = "post" /\ UNCHANGED <<model, attempt, next_file, parts, unread>>
    BY <1>2 DEF Built, request
  <2>2. ClientTypeOK'
    BY <1>1, <2>1 DEF Inv, ClientTypeOK
  <2>3. Attempts'
    BY <1>1, <1>2, <2>1 DEF Inv, Attempts, Retried
  <2>4. \A f \in Uploads : f < next_file
    BY <1>1 DEF FilesLeft, Uploads, Files, Inv, ClientTypeOK
  <2>5. Attached'
    BY <1>1, <2>1, <2>4 DEF Inv, Attached, Uploads
  <2>6. Order' /\ Asks'
    BY <1>1, <2>1 DEF Inv, Order, Asks, Exhausted
  <2>7. Fresh' /\ Answer'
    BY <2>1 DEF Fresh, Answer
  <2>8. QED
    BY <2>2, <2>3, <2>5, <2>6, <2>7 DEF Inv
<1>3. CASE ~(max_retries > 0)
  <2>1. GiveUp
    BY <1>3 DEF Built
  <2>2. max_retries = 0
    BY <1>3
  <2>3. Len(outcomes[model]) = 0
    BY <1>1 DEF Inv, Attempts
  <2>4. ASSUME NEW n \in Models, n = model PROVE Exhausted(n)'
    BY <1>1, <2>2, <2>3, <2>4 DEF Exhausted
  <2>5. Asks'
    BY <1>1 DEF Inv, Asks
  <2>6. model \in Models /\ unbuilt' \subseteq Models /\ outcomes' \in [Models -> Seq(Outcome)]
    BY <1>1 DEF Inv, ClientTypeOK
  <2>7. QED
    BY <1>1, <2>1, <2>4, <2>5, <2>6, GiveUpInv DEF Inv
<1>4. QED
  BY <1>2, <1>3

\* A post has ended: the asks are still in order.
LEMMA EndedAsks ==
    ASSUME Inv, stage = "post", NEW o \in Outcome, Ended(o)
    PROVE  Asks'
<1> USE LLMClientAssumption
<1>1. /\ \A m \in Models \ {model} : outcomes'[m] = outcomes[m]
      /\ Len(outcomes'[model]) = attempt + 1
      /\ \A k \in 1..attempt : outcomes'[model][k] = outcomes[model][k]
  BY EndedType DEF Inv, Attempts
<1>2. attempt < max_retries /\ attempt \in Nat /\ model \in Models
  BY DEF Inv, Attempts, ClientTypeOK
<1>3. \A k \in 1..attempt : outcomes[model][k] \notin {"text", "empty", "refused"}
  BY DEF Inv, Attempts, Retried
<1>4. ASSUME NEW m \in Models
      PROVE  /\ Len(outcomes'[m]) <= max_retries
             /\ \A k \in 1..(Len(outcomes'[m]) - 1) :
                   outcomes'[m][k] \notin {"text", "empty", "refused"}
  <2>1. CASE m = model
    <3>1. Len(outcomes'[m]) <= max_retries /\ Len(outcomes'[m]) - 1 = attempt
      BY <1>1, <1>2, <2>1
    <3>2. QED
      BY <1>1, <1>3, <2>1, <3>1
  <2>2. CASE m # model
    BY <1>1, <2>2 DEF Inv, Asks
  <2>3. QED
    BY <2>1, <2>2
<1>5. QED
  BY <1>4 DEF Asks

\* A post has ended and its model is kept: the others are as they were.
LEMMA EndedOrder ==
    ASSUME Inv, stage = "post", NEW o \in Outcome, Ended(o), stage' # "failed",
           UNCHANGED <<provider, model, unbuilt>>
    PROVE  Order'
<1>1. \A m \in Models \ {model} : outcomes'[m] = outcomes[m]
  BY EndedType DEF Inv
<1>2. model \in Nat
  BY DEF Inv, ClientTypeOK, Models
<1>3. \A m \in Models : m < model \/ m > model => m # model
  BY <1>2 DEF Models
<1>4. QED
  BY <1>1, <1>3 DEF Inv, Order, Exhausted

\* The provider has answered.
LEMMA AnsweredInv ==
    ASSUME Inv, PostAnswered
    PROVE  Inv'
<1>1. /\ stage = "post" /\ Ended("text") /\ stage' = "text" /\ "text" \in Outcome
      /\ UNCHANGED <<provider, with_files, model, attempt, next_file, parts, unread,
                     file_cache, unbuilt>>
  BY DEF PostAnswered, request, Outcome
<1>2. /\ outcomes' \in [Models -> Seq(Outcome)]
      /\ outcomes'[model] # <<>> /\ Last(outcomes'[model]) = "text"
  BY <1>1, EndedType DEF Inv
<1>3. ClientTypeOK'
  BY <1>1, <1>2 DEF Inv, ClientTypeOK
<1>4. Order' /\ Asks'
  BY <1>1, EndedOrder, EndedAsks
<1>5. Fresh' /\ Attempts' /\ Attached' /\ Answer'
  BY <1>1, <1>2 DEF Fresh, Attempts, Attached, Answer
<1>6. QED
  BY <1>3, <1>4, <1>5 DEF Inv

\* The same request is posted again.
LEMMA RetriedInv ==
    ASSUME Inv, NEW o \in Outcome, PostRetried(o)
    PROVE  Inv'
<1> USE LLMClientAssumption
<1>1. /\ stage = "post" /\ stage' = "post" /\ Ended(o) /\ Retried(o)
      /\ attempt < max_retries - 1 /\ attempt' = attempt + 1
      /\ UNCHANGED <<provider, with_files, model, next_file, parts, unread, file_cache,
                     unbuilt>>
  BY DEF PostRetried
<1>2. /\ outcomes' \in [Models -> Seq(Outcome)]
      /\ Len(outcomes'[model]) = attempt + 1
      /\ \A k \in 1..attempt : outcomes'[model][k] = outcomes[model][k]
      /\ outcomes'[model][attempt + 1] = o
  BY <1>1, EndedType DEF Inv, Attempts
<1>3. attempt \in Nat
  BY DEF Inv, ClientTypeOK
<1>4. ClientTypeOK'
  BY <1>1, <1>2, <1>3 DEF Inv, ClientTypeOK
<1>5. \A k \in 1..(attempt + 1) : Retried(outcomes'[model][k])
  <2>1. \A k \in 1..attempt : Retried(outcomes[model][k])
    BY <1>1 DEF Inv, Attempts
  <2>2. ASSUME NEW k \in 1..(attempt + 1) PROVE Retried(outcomes'[model][k])
    <3>1. CASE k = attempt + 1
      BY <1>1, <1>2, <3>1
    <3>2. CASE k # attempt + 1
      <4>1. k \in 1..attempt
        BY <1>3, <3>2
      <4>2. QED
        BY <1>2, <2>1, <4>1
    <3>3. QED
      BY <3>1, <3>2
  <2>3. QED
    BY <2>2
<1>6. Attempts'
  BY <1>1, <1>2, <1>3, <1>5 DEF Attempts, Retried
<1>7. Order' /\ Asks'
  BY <1>1, EndedOrder, EndedAsks
<1>8. Fresh' /\ Attached' /\ Answer'
  BY <1>1 DEF Inv, Fresh, Attached, Answer, Uploads
<1>9. QED
  BY <1>4, <1>6, <1>7, <1>8 DEF Inv

\* The model is given up.
LEMMA FailsInv ==
    ASSUME Inv, NEW o \in Outcome, PostFails(o)
    PROVE  Inv'
<1> USE LLMClientAssumption
<1>1. /\ stage = "post" /\ o # "text" /\ ~(Retried(o) /\ attempt < max_retries - 1)
      /\ Ended(o) /\ GiveUp
      /\ UNCHANGED <<provider, with_files, file_cache, unbuilt>>
  BY DEF PostFails
<1>2. /\ outcomes' \in [Models -> Seq(Outcome)]
      /\ \A m \in Models \ {model} : outcomes'[m] = outcomes[m]
      /\ Len(outcomes'[model]) = attempt + 1
      /\ outcomes'[model] # <<>> /\ Last(outcomes'[model]) = o
  BY <1>1, EndedType DEF Inv, Attempts
<1>3. attempt \in Nat /\ attempt < max_retries
  BY <1>1 DEF Inv, ClientTypeOK, Attempts
<1>4. ASSUME NEW n \in Models, n = model PROVE Exhausted(n)'
  <2>1. CASE Retried(o)
    <3>1. attempt + 1 = max_retries
      BY <1>1, <1>3, <2>1
    <3>2. QED
      BY <1>2, <1>4, <3>1 DEF Exhausted
  <2>2. CASE ~Retried(o)
    BY <1>1, <1>2, <1>4, <2>2 DEF Exhausted, Retried, Outcome
  <2>3. QED
    BY <2>1, <2>2
<1>5. Asks'
  BY <1>1, EndedAsks
<1>6. model \in Models /\ unbuilt' \subseteq Models
  BY <1>1 DEF Inv, ClientTypeOK
<1>7. QED
  BY <1>1, <1>2, <1>4, <1>5, <1>6, GiveUpInv DEF Inv

\* The reasoner's steps are steps of its client: a call of generate begins, goes
\* on, or is over.
LEMMA NextInv ==
    ASSUME Inv, [Next]_vars
    PROVE  Inv'
<1>1. CASE Asked
  <2>1. PICK o \in Ops : \E i \in InputOf(o) : Ask(o, i) \/ AskHeuristic(o, i)
    BY <1>1 DEF Asked
  <2> PICK i \in InputOf(o) : Ask(o, i) \/ AskHeuristic(o, i)
    BY <2>1
  <2>2. CASE Ask(o, i)
    BY <2>2, GenerateInv DEF Ask
  <2>3. CASE AskHeuristic(o, i)
    BY <2>3, ReturnedInv DEF AskHeuristic, Returns
  <2>4. QED
    BY <2>2, <2>3
<1>2. CASE Defer \/ Decide
  BY <1>2, ReturnedInv DEF Defer, Decide, FallsBack, MakePlan, Propose, Reflect,
     ReflectRaises, Synthesize, Returns
<1>3. CASE GenerateSteps
  BY <1>3, AttachInv, BuildRaisesInv, BuiltInv, AnsweredInv, RetriedInv, FailsInv
     DEF GenerateSteps
<1>4. CASE UNCHANGED vars
  BY <1>4 DEF vars, vars_client, Inv, ClientTypeOK, Fresh, Order, Attempts, Asks, Answer,
     Attached, Exhausted, Retried, Uploads
<1>5. QED
  BY <1>1, <1>2, <1>3, <1>4 DEF Next, Call

-----------------------------------------------------------------------------
(* The theorem *)

\* The models are tried in order, each until nothing more can be had of it, for
\* any number of models, attempts and attachments, whatever the provider does.
THEOREM FallbackHolds == Spec => []FallbackInOrder
<1>1. Inv => FallbackInOrder
  BY DEF Inv, Order, Asks, Answer, Attached, FallbackInOrder
<1>2. Inv /\ [Next]_vars => Inv'
  BY NextInv
<1>3. QED
  BY InitInv, <1>1, <1>2, PTL DEF Spec

-----------------------------------------------------------------------------
(* Plans *)

\* What is kept of a list of entries is a list of steps, not longer than that.
LEMMA KeptType ==
    ASSUME NEW e \in Seq(Entries)
    PROVE  Kept(e) \in Seq(StepKind) /\ Len(Kept(e)) <= Len(e)
<1> DEFINE k == Kept(e)
<1>1. k \in Seq(Entries) /\ Len(k) <= Len(e) /\ Range(k) = Range(e) \cap StepKind
  BY FilteredKeeps DEF Kept
<1> HIDE DEF k
<1>2. k \in Seq(StepKind)
  <2>1. \A i \in 1..Len(k) : k[i] \in StepKind
    BY <1>1 DEF Range
  <2>2. QED
    BY <1>1, <2>1
<1>3. QED
  BY <1>1, <1>2 DEF k

\* Whatever a model lists, make_plan makes a plan of it that has a step and whose
\* last step composes the answer.
LEMMA PlanOfIs ==
    ASSUME NEW e \in Listed
    PROVE  /\ PlanOf(e) \in Plans \cup {HeuristicPlan}
           /\ PlanOf(e) # <<>> /\ Last(PlanOf(e)) = "answer"
<1>1. e \in Seq(Entries) /\ Len(e) <= MaxSteps
  BY ReasonerAssumption DEF Listed
<1>2. Kept(e) \in Seq(StepKind) /\ Len(Kept(e)) <= MaxSteps /\ Len(Kept(e)) \in Nat
  BY <1>1, KeptType, ReasonerAssumption
<1>3. \A p \in Seq(StepKind) : Len(p) \in 1..(MaxSteps + 1) => p \in Plans
  BY ReasonerAssumption DEF Plans
<1>4. CASE Kept(e) = <<>>
  BY <1>4 DEF PlanOf, HeuristicPlan, Last
<1>5. CASE Kept(e) # <<>> /\ Last(Kept(e)) = "answer"
  <2>1. PlanOf(e) = Kept(e)
    BY <1>5 DEF PlanOf
  <2>2. Len(Kept(e)) \in 1..(MaxSteps + 1)
    BY <1>2, <1>5, ReasonerAssumption
  <2>3. QED
    BY <1>2, <1>3, <1>5, <2>1, <2>2
<1>6. CASE Kept(e) # <<>> /\ Last(Kept(e)) # "answer"
  <2> DEFINE p == Append(Kept(e), "answer")
  <2>1. PlanOf(e) = p
    BY <1>6 DEF PlanOf
  <2>2. /\ p \in Seq(StepKind) /\ Len(p) = Len(Kept(e)) + 1 /\ p[Len(p)] = "answer"
    BY <1>2 DEF StepKind
  <2>3. Len(p) \in 1..(MaxSteps + 1) /\ p # <<>>
    BY <1>2, <2>2, ReasonerAssumption
  <2> HIDE DEF p
  <2>4. QED
    BY <1>3, <2>1, <2>2, <2>3 DEF Last
<1>7. QED
  BY <1>4, <1>5, <1>6

-----------------------------------------------------------------------------
(* What a call returns *)

\* A result of the right type on which the engine can rely.
Results ==
    {NoResult, Raised}
        \cup {PlanResult(p) : p \in Plans \cup {HeuristicPlan}}
        \cup {Proposal(k) : k \in {"tool", "answer", "none"}}
        \cup {Reflection(f, s, n) : f \in 0..MaxFailed, s \in BOOLEAN, n \in 0..(4 + MaxFailed)}
        \cup {Synthesis(a) : a \in {"none", "blank", "answer"}}

Sound(r) ==
    /\ r \in Results
    /\ r.op = "make_plan" => r.steps # <<>> /\ Last(r.steps) = "answer"
    /\ r.op = "reflect" /\ r.failed > 0 => ~r.satisfied /\ r.titles > 0

\* A plan that ends with the answer has what the engine relies on.
LEMMA SoundPlan ==
    ASSUME NEW p \in Plans \cup {HeuristicPlan}, p # <<>>, Last(p) = "answer"
    PROVE  Sound(PlanResult(p))
<1>1. PlanResult(p) \in Results
  BY DEF Results
<1>2. PlanResult(p).op = "make_plan" /\ PlanResult(p).steps = p
  BY DEF PlanResult
<1>3. QED
  BY <1>1, <1>2 DEF Sound

\* The heuristic reasoner plans to answer at the end.
LEMMA SoundHeuristicPlan == Sound(PlanResult(HeuristicPlan))
<1>1. HeuristicPlan # <<>> /\ Last(HeuristicPlan) = "answer"
  BY DEF HeuristicPlan, Last
<1>2. QED
  BY <1>1, SoundPlan

\* No proposal asks the engine for anything but a tool, an answer or nothing.
LEMMA SoundProposal ==
    ASSUME NEW k \in {"tool", "answer", "none"}
    PROVE  Sound(Proposal(k))
<1>1. Proposal(k) \in Results
  BY DEF Results
<1>2. Proposal(k).op = "propose"
  BY DEF Proposal
<1>3. QED
  BY <1>1, <1>2 DEF Sound

\* A reflection that reports failed steps does not claim success and replans.
LEMMA SoundReflection ==
    ASSUME NEW f \in 0..MaxFailed, NEW s \in BOOLEAN, NEW n \in 0..(4 + MaxFailed),
           f > 0 => ~s /\ n > 0
    PROVE  Sound(Reflection(f, s, n))
<1>1. Reflection(f, s, n) \in Results
  BY DEF Results
<1>2. /\ Reflection(f, s, n).op = "reflect" /\ Reflection(f, s, n).failed = f
      /\ Reflection(f, s, n).satisfied = s /\ Reflection(f, s, n).titles = n
  BY DEF Reflection
<1>3. QED
  BY <1>1, <1>2 DEF Sound

\* What the engine relies on in the other results.
LEMMA SoundOther ==
    /\ Sound(NoResult) /\ Sound(Raised)
    /\ \A a \in {"none", "blank", "answer"} : Sound(Synthesis(a))
<1>1. /\ NoResult \in Results /\ Raised \in Results
      /\ \A a \in {"none", "blank", "answer"} : Synthesis(a) \in Results
  BY DEF Results
<1>2. /\ NoResult.op = "none" /\ Raised.op = "raised"
      /\ \A a \in {"none", "blank", "answer"} : Synthesis(a).op = "synthesize"
  BY DEF NoResult, Raised, Synthesis
<1>3. QED
  BY <1>1, <1>2 DEF Sound

\* The heuristic reasoner replans as many steps as have failed.
LEMMA SoundHeuristicReflection ==
    ASSUME NEW f \in 0..MaxFailed
    PROVE  Sound(HeuristicReflection(f))
<1>1. f \in 0..(4 + MaxFailed) /\ (f = 0) \in BOOLEAN /\ (f > 0 => ~(f = 0) /\ f > 0)
  BY ReasonerAssumption
<1>2. QED
  BY <1>1, SoundReflection DEF HeuristicReflection

\* Whatever the verdict says and however many titles it names, a plan with failed
\* steps is not found satisfactory, and something is to be done about them.
LEMMA SoundReflectionOf ==
    ASSUME NEW verdict \in BOOLEAN, NEW n \in 0..5, NEW f \in 0..MaxFailed
    PROVE  Sound(ReflectionOf(verdict, n, f))
<1> DEFINE satisfied == verdict /\ f = 0
           titles == IF ~satisfied /\ n = 0 THEN f ELSE Titles(n)
<1>1. ReflectionOf(verdict, n, f) = Reflection(f, satisfied, titles)
  BY DEF ReflectionOf
<1>2. satisfied \in BOOLEAN /\ (f > 0 => ~satisfied)
  OBVIOUS
<1> HIDE DEF satisfied
<1>3. titles \in 0..(4 + MaxFailed)
  BY ReasonerAssumption DEF Titles
<1>4. f > 0 => titles > 0
  BY <1>2 DEF Titles
<1> HIDE DEF titles
<1>5. QED
  BY <1>1, <1>2, <1>3, <1>4, SoundReflection

-----------------------------------------------------------------------------
(* Every step keeps what the engine relies on *)

\* A call is under way just while its client works on it; its result is sound.
Relied ==
    /\ op \in Ops \cup {"none"} /\ input \in Input
    /\ op = "none" => stage = "none"
    /\ stage = "none" => op = "none"
    /\ Sound(result)

\* No result is there to rely on at first.
LEMMA ReliedInit == Init => Relied
<1>1. NoInput \in Input
  BY ReasonerAssumption DEF NoInput, Input, Categories
<1>2. QED
  BY <1>1, SoundOther DEF Init, InitClient, Relied

\* A call that is over leaves a sound result.
LEMMA ReturnsRelied ==
    ASSUME NEW r, Sound(r), Returns(r)
    PROVE  Relied'
<1>1. NoInput \in Input
  BY ReasonerAssumption DEF NoInput, Input, Categories
<1>2. op' = "none" /\ input' = NoInput /\ stage' = "none"
  BY DEF Returns, Returned
<1>3. Sound(result')
  BY DEF Returns
<1>4. Sound(result)'
  BY <1>3 DEF Sound, Results
<1>5. QED
  BY <1>1, <1>2, <1>4 DEF Relied

\* The proposals of both reasoners are of the three kinds the engine knows.
LEMMA ProposalType ==
    /\ \A c \in Categories : HeuristicKinds(c) \subseteq {"tool", "answer", "none"}
    /\ \A answer \in BOOLEAN, tool \in {"none", "registered", "found", "unknown"} :
          Sound(ProposalOf(answer, tool))
<1>1. \A c \in Categories : HeuristicKinds(c) \subseteq {"tool", "answer", "none"}
  BY DEF HeuristicKinds, Categories
<1>2. ASSUME NEW answer \in BOOLEAN, NEW tool \in {"none", "registered", "found", "unknown"}
      PROVE  Sound(ProposalOf(answer, tool))
  BY SoundProposal DEF ProposalOf
<1>3. QED
  BY <1>1, <1>2

\* A question to the models starts without a result, and the heuristic reasoner gives one
\* at once that can be relied on.
LEMMA AskRelied ==
    ASSUME Relied, NEW o \in Ops, NEW i \in InputOf(o), Ask(o, i) \/ AskHeuristic(o, i)
    PROVE  Relied'
<1>1. i \in Input /\ i.category \in Categories /\ i.failed \in 0..MaxFailed
  BY DEF InputOf, Input
<1>2. CASE Ask(o, i)
  <2>1. op' = o /\ o # "none" /\ input' = i /\ result' = NoResult /\ stage' = "build"
    BY <1>2 DEF Ask, Generate, BuildFor, Ops
  <2>2. Sound(result)'
    BY <2>1, SoundOther DEF Sound, Results
  <2>3. QED
    BY <1>1, <2>1, <2>2 DEF Relied
<1>3. CASE AskHeuristic(o, i)
  <2>1. CASE Returns(PlanResult(HeuristicPlan))
    BY <2>1, SoundHeuristicPlan, ReturnsRelied
  <2>2. CASE \E k \in HeuristicKinds(i.category) : Returns(Proposal(k))
    <3>1. PICK k \in HeuristicKinds(i.category) : Returns(Proposal(k))
      BY <2>2
    <3>2. k \in {"tool", "answer", "none"}
      BY <1>1, ProposalType
    <3>3. QED
      BY <3>1, <3>2, SoundProposal, ReturnsRelied
  <2>3. CASE Returns(HeuristicReflection(i.failed))
    BY <1>1, <2>3, SoundHeuristicReflection, ReturnsRelied
  <2>4. QED
    BY <1>3, <2>1, <2>2, <2>3 DEF AskHeuristic
<1>4. QED
  BY <1>2, <1>3

\* Whatever the models answered, the result that is made of it can be relied on.
LEMMA DecideRelied ==
    ASSUME Relied, Decide
    PROVE  Relied'
<1>1. input.category \in Categories /\ input.failed \in 0..MaxFailed
  BY DEF Relied, Input
<1>2. CASE FallsBack
  <2>1. CASE Returns(PlanResult(HeuristicPlan))
    BY <2>1, SoundHeuristicPlan, ReturnsRelied
  <2>2. CASE \E k \in HeuristicKinds(input.category) : Returns(Proposal(k))
    <3>1. PICK k \in HeuristicKinds(input.category) : Returns(Proposal(k))
      BY <2>2
    <3>2. k \in {"tool", "answer", "none"}
      BY <1>1, ProposalType
    <3>3. QED
      BY <3>1, <3>2, SoundProposal, ReturnsRelied
  <2>3. CASE Returns(HeuristicReflection(input.failed))
    BY <1>1, <2>3, SoundHeuristicReflection, ReturnsRelied
  <2>4. CASE Returns(Synthesis("none"))
    BY <2>4, SoundOther, ReturnsRelied
  <2>5. QED
    BY <1>2, <2>1, <2>2, <2>3, <2>4 DEF FallsBack
<1>3. CASE MakePlan
  <2>1. PICK e \in Listed : Returns(PlanResult(PlanOf(e)))
    BY <1>3 DEF MakePlan
  <2>2. QED
    BY <2>1, PlanOfIs, SoundPlan, ReturnsRelied
<1>4. CASE Propose
  BY <1>4, ProposalType, ReturnsRelied DEF Propose
<1>5. CASE Reflect
  BY <1>1, <1>5, SoundReflectionOf, ReturnsRelied DEF Reflect
<1>6. CASE ReflectRaises
  BY <1>6, SoundOther, ReturnsRelied DEF ReflectRaises
<1>7. CASE Synthesize
  BY <1>7, SoundOther, ReturnsRelied DEF Synthesize
<1>8. QED
  BY <1>2, <1>3, <1>4, <1>5, <1>6, <1>7 DEF Decide

\* No step of the reasoner makes a result that the engine cannot rely on.
LEMMA ReliedNext ==
    ASSUME Relied, [Next]_vars
    PROVE  Relied'
<1>1. CASE Asked
  BY <1>1, AskRelied DEF Asked
<1>2. CASE Defer
  BY <1>2, SoundProposal, ReturnsRelied DEF Defer
<1>3. CASE GenerateSteps /\ UNCHANGED <<op, input, result>>
  <2>1. stage # "none" /\ stage' # "none"
    BY <1>3 DEF GenerateSteps, AttachCached, AttachUploaded, AttachFails, AttachUnread,
       BuildRaises, Built, PostAnswered, PostRetried, PostFails, GiveUp, BuildFor
  <2>2. QED
    BY <1>3, <2>1 DEF Relied, Sound, Results
<1>4. CASE Decide
  BY <1>4, DecideRelied
<1>5. CASE UNCHANGED vars
  BY <1>5 DEF vars, vars_client, Relied, Sound, Results
<1>6. QED
  BY <1>1, <1>2, <1>3, <1>4, <1>5 DEF Next, Call

-----------------------------------------------------------------------------
(* The theorems *)

\* Type correctness; a call is under way just while its client works on it.
THEOREM TypeCorrect == Spec => []TypeOK
<1>1. Inv /\ Relied => TypeOK
  <2>1. ASSUME Inv, Relied PROVE (op = "none") = (stage = "none")
    BY <2>1 DEF Relied
  <2>2. QED
    BY <2>1 DEF Inv, Relied, Sound, Results, TypeOK
<1>2. QED
  BY InitInv, NextInv, ReliedInit, ReliedNext, <1>1, PTL DEF Spec

\* Whatever the models write, a plan that make_plan returns has a step and its
\* last one composes the answer, and reflect is not satisfied with a plan that
\* has failed steps and names something to do about them.
THEOREM EngineCanRelyHolds == Spec => []EngineCanRely
<1>1. Relied => EngineCanRely
  BY DEF Relied, Sound, EngineCanRely
<1>2. QED
  BY ReliedInit, ReliedNext, <1>1, PTL DEF Spec

-----------------------------------------------------------------------------
(* The session memory *)

\* A sequence without repetition has as many members as entries.
LEMMA InjectiveRange ==
    ASSUME NEW S, NEW s \in Seq(S), IsInjective(s)
    PROVE  IsFiniteSet(Range(s)) /\ Cardinality(Range(s)) = Len(s) /\ Len(s) \in Nat
<1>1. s \in [1..Len(s) -> Range(s)] /\ Len(s) \in Nat /\ DOMAIN s = 1..Len(s)
  BY DEF Range
<1>2. s \in Bijection(1..Len(s), Range(s))
  BY <1>1 DEF Bijection, Injection, Surjection, IsInjective, Range
<1>3. ExistsBijection(1..Len(s), Range(s))
  BY <1>2 DEF ExistsBijection
<1>4. IsFiniteSet(1..Len(s)) /\ Cardinality(1..Len(s)) = Len(s)
  <2> DEFINE n == Len(s)
  <2>1. n \in Nat /\ n \in Int /\ 1 \in Int
    BY <1>1
  <2> HIDE DEF n
  <2>2. IsFiniteSet(1..n) /\ Cardinality(1..n) = IF 1 > n THEN 0 ELSE n - 1 + 1
    BY <2>1, FS_Interval
  <2>3. Cardinality(1..n) = n
    BY <2>1, <2>2
  <2>4. QED
    BY <2>2, <2>3 DEF n
<1>5. QED
  BY <1>1, <1>3, <1>4, FS_Bijection

-----------------------------------------------------------------------------
(* Which threads it holds *)

\* The threads are kept in the order in which they were used, and those that
\* were forgotten were used before them all.
UsedInOrder ==
    /\ pc = "running" => run > 0
    /\ \A t \in Threads : used[t] <= run
    /\ \A t \in Threads : pc = "running" /\ t # thread => used[t] < run
    /\ \A t, u \in Threads : used[t] = used[u] /\ used[t] # 0 => t = u
    /\ \A i \in 1..Len(order) : used[order[i]] # 0
    /\ \A i, j \in 1..Len(order) : i < j => used[order[i]] < used[order[j]]
    /\ \A t \in Threads : used[t] # 0 /\ t \notin Range(order) =>
          Len(order) = max_sessions /\ \A i \in 1..Len(order) : used[t] < used[order[i]]

\* A thread is moved to the end; one that is new there may evict the first.
Moved(t) ==
    LET o == Touched(t)
    IN  /\ o \in Seq(Threads) /\ Len(o) \in 1..max_sessions /\ o[Len(o)] = t
        /\ \A i \in 1..(Len(o) - 1) : o[i] # t
        /\ \A i, j \in 1..(Len(o) - 1) : i < j => used[o[i]] < used[o[j]]
        /\ \/ Range(o) = Range(order) \cup {t} /\ (Len(order) = max_sessions => Len(o) = max_sessions)
           \/ /\ t \notin Range(order) /\ Len(order) = max_sessions /\ Len(o) = max_sessions
              /\ Range(o) = (Range(order) \ {order[1]}) \cup {t}

\* _touch moves a thread behind the others and changes nothing else of their order.
LEMMA TouchedMoves ==
    ASSUME MemoryTypeOK, UsedInOrder, NEW t \in Threads
    PROVE  Moved(t)
<1> DEFINE o == Filtered(order, Threads \ {t})
           m == Append(o, t)
<1> USE MemoryAssumption
<1>1. /\ order \in Seq(Threads) /\ Len(order) <= max_sessions /\ IsInjective(order)
      /\ used \in [Threads -> Nat] /\ Len(order) \in Nat
  BY DEF MemoryTypeOK
<1>2. Range(order) \subseteq Threads
  BY <1>1 DEF Range
<1>3. /\ o \in Seq(Threads) /\ Len(o) <= Len(order) /\ Range(o) = Range(order) \ {t}
      /\ Len(o) \in Nat
  BY <1>1, <1>2, FilteredKeeps
<1>4. \A i, j \in 1..Len(o) : i < j => used[o[i]] < used[o[j]]
  BY <1>1, FilteredOrdered DEF UsedInOrder
<1>5. Touched(t) = IF Len(m) > max_sessions THEN Tail(m) ELSE m
  BY DEF Touched
<1>6. t \notin Range(order) => o = order
  BY <1>1, <1>2, FilteredSame
<1>7. t \in Range(order) => Len(o) = Len(order) - 1
  <2>1. IsInjective(o)
    <3> HIDE DEF o
    <3>1. \A i, j \in 1..Len(o) : i = j \/ i < j \/ j < i
      BY <1>3
    <3>2. \A i \in 1..Len(o) : used[o[i]] \in Nat
      BY <1>1, <1>3
    <3>3. ASSUME NEW i \in 1..Len(o), NEW j \in 1..Len(o), o[i] = o[j] PROVE i = j
      <4>1. CASE i < j
        <5>1. used[o[i]] < used[o[j]]
          BY <1>4, <4>1
        <5>2. QED
          BY <3>2, <3>3, <5>1
      <4>2. CASE j < i
        <5>1. used[o[j]] < used[o[i]]
          BY <1>4, <4>2
        <5>2. QED
          BY <3>2, <3>3, <5>1
      <4>3. QED
        BY <3>1, <4>1, <4>2
    <3>4. DOMAIN o = 1..Len(o)
      BY <1>3
    <3>5. QED
      BY <3>3, <3>4 DEF IsInjective
  <2>2. Cardinality(Range(o)) = Len(o)
    BY <1>3, <2>1, InjectiveRange
  <2>3. Cardinality(Range(order)) = Len(order) /\ IsFiniteSet(Range(order))
    BY <1>1, InjectiveRange
  <2>4. t \in Range(order) => Cardinality(Range(order) \ {t}) = Len(order) - 1
    BY <2>3, FS_RemoveElement
  <2>5. QED
    BY <1>3, <2>2, <2>4
<1> HIDE DEF o
<1>8. /\ m \in Seq(Threads) /\ Len(m) = Len(o) + 1 /\ m[Len(o) + 1] = t /\ m # <<>>
      /\ \A i \in 1..Len(o) : m[i] = o[i]
  BY <1>3
<1>9. Range(m) = Range(o) \cup {t}
  BY <1>3, AppendRange
<1>10. \A i \in 1..Len(o) : o[i] # t
  BY <1>3 DEF Range
<1> HIDE DEF m
<1>11. CASE Len(m) > max_sessions
  <2>1. Len(o) = Len(order) /\ Len(order) = max_sessions
    BY <1>1, <1>3, <1>8, <1>11
  <2>2. t \notin Range(order) /\ o = order
    BY <1>1, <1>6, <1>7, <2>1
  <2> DEFINE q == Tail(m)
  <2>3. /\ q \in Seq(Threads) /\ Len(q) = Len(o) /\ Touched(t) = q
        /\ \A i \in 1..Len(q) : q[i] = m[i + 1]
    BY <1>5, <1>8, <1>11, HeadTailProperties
  <2> HIDE DEF q
  <2>4. q[Len(q)] = t /\ Len(q) \in 1..max_sessions
    BY <1>8, <2>1, <2>3
  <2>5. \A i \in 1..(Len(q) - 1) : i + 1 \in 1..Len(o) /\ q[i] = o[i + 1]
    BY <1>3, <1>8, <2>3
  <2>6. \A i \in 1..(Len(q) - 1) : q[i] # t
    BY <1>10, <2>5
  <2>7. \A i, j \in 1..(Len(q) - 1) : i < j => used[q[i]] < used[q[j]]
    <3>1. ASSUME NEW i \in 1..(Len(q) - 1), NEW j \in 1..(Len(q) - 1), i < j
          PROVE  used[q[i]] < used[q[j]]
      <4>1. i + 1 < j + 1
        BY <3>1
      <4>2. used[o[i + 1]] < used[o[j + 1]]
        BY <1>4, <2>5, <4>1
      <4>3. QED
        BY <2>5, <4>2
    <3>2. QED
      BY <3>1
  <2>8. Range(q) = (Range(order) \ {order[1]}) \cup {t}
    <3>1. \A x \in Range(q) : x = t \/ \E i \in 2..Len(order) : x = order[i]
      <4>1. ASSUME NEW i \in 1..Len(q) PROVE q[i] = t \/ \E j \in 2..Len(order) : q[i] = order[j]
        <5>1. CASE i = Len(q)
          BY <2>4, <5>1
        <5>2. CASE i # Len(q)
          <6>1. i \in 1..(Len(q) - 1) /\ i + 1 \in 2..Len(order)
            BY <2>1, <2>3, <5>2
          <6>2. QED
            BY <2>2, <2>5, <6>1
        <5>3. QED
          BY <5>1, <5>2
      <4>2. QED
        BY <2>3, <4>1 DEF Range
    <3>2. \A i \in 2..Len(order) : order[i] \in Range(q) /\ order[i] \in Range(order) /\ order[i] # order[1]
      <4>1. ASSUME NEW i \in 2..Len(order)
            PROVE  order[i] \in Range(q) /\ order[i] \in Range(order) /\ order[i] # order[1]
        <5>1. i - 1 \in 1..(Len(q) - 1) /\ (i - 1) + 1 = i /\ i - 1 \in 1..Len(q)
              /\ i \in 1..Len(order) /\ 1 \in 1..Len(order) /\ i # 1
          BY <1>1, <2>1, <2>3
        <5>2. q[i - 1] = order[i]
          BY <2>2, <2>5, <5>1
        <5>3. QED
          BY <1>1, <2>3, <5>1, <5>2 DEF Range, IsInjective
      <4>2. QED
        BY <4>1
    <3>3. t \in Range(q)
      BY <2>3, <2>4 DEF Range
    <3>4. \A x \in Range(order) : x = order[1] \/ \E i \in 2..Len(order) : x = order[i]
      <4>1. \A i \in 1..Len(order) : i = 1 \/ i \in 2..Len(order)
        BY <1>1
      <4>2. QED
        BY <1>1, <4>1 DEF Range
    <3>5. QED
      BY <2>2, <3>1, <3>2, <3>3, <3>4
  <2>9. QED
    BY <2>1, <2>2, <2>3, <2>4, <2>6, <2>7, <2>8 DEF Moved
<1>12. CASE ~(Len(m) > max_sessions)
  <2>1. Touched(t) = m
    BY <1>5, <1>12
  <2>2. Len(m) \in 1..max_sessions
    BY <1>3, <1>8, <1>12
  <2>3. Range(m) = Range(order) \cup {t}
    BY <1>3, <1>9
  <2>4. Len(order) = max_sessions => Len(m) = max_sessions
    BY <1>3, <1>6, <1>7, <1>8, <1>12
  <2>5. Len(m) - 1 = Len(o)
    BY <1>3, <1>8
  <2>6. \A i \in 1..(Len(m) - 1) : m[i] # t
    BY <1>8, <1>10, <2>5
  <2>7. \A i, j \in 1..(Len(m) - 1) : i < j => used[m[i]] < used[m[j]]
    BY <1>4, <1>8, <2>5
  <2>8. m[Len(m)] = t
    BY <1>8
  <2>9. QED
    BY <1>8, <2>1, <2>2, <2>3, <2>4, <2>6, <2>7, <2>8 DEF Moved
<1>13. QED
  BY <1>11, <1>12

\* _trim keeps the end of a conversation, of the length of the window at most.
LEMMA WindowIs ==
    ASSUME NEW turns \in Seq(Turn), turns # <<>>
    PROVE  /\ Window(turns) \in Seq(Turn) /\ Window(turns) # <<>>
           /\ Len(Window(turns)) <= max_messages
           /\ Window(turns) = turns \/
                 \E k \in 1..(Len(turns) - 1) : Window(turns) = SubSeq(turns, k + 1, Len(turns))
<1> USE MemoryAssumption
<1>1. Len(turns) \in Nat /\ Len(turns) > 0
  OBVIOUS
<1>2. CASE Len(turns) <= max_messages
  BY <1>2 DEF Window
<1>3. CASE ~(Len(turns) <= max_messages)
  <2> DEFINE k == Len(turns) - max_messages
             w == SubSeq(turns, k + 1, Len(turns))
  <2>1. k \in 1..(Len(turns) - 1) /\ Window(turns) = w
    BY <1>1, <1>3 DEF Window
  <2>2. \A i \in (k + 1)..Len(turns) : turns[i] \in Turn
    BY <1>1, <2>1
  <2>3. w \in Seq(Turn) /\ Len(w) = max_messages
    BY <1>1, <1>3, <2>1, <2>2
  <2>4. w # <<>>
    <3> HIDE DEF w
    <3>1. QED
      BY <2>3, MemoryAssumption
  <2>5. \E j \in 1..(Len(turns) - 1) : Window(turns) = SubSeq(turns, j + 1, Len(turns))
    BY <2>1, Zenon
  <2> HIDE DEF w
  <2>6. QED
    BY <2>1, <2>3, <2>4, <2>5
<1>4. QED
  BY <1>2, <1>3

\* To keep turns of a thread keeps the types of the memory.
LEMMA KeepType ==
    ASSUME MemoryTypeOK, UsedInOrder, NEW t \in Threads, NEW n \in 1..MaxRuns,
           NEW turns \in Seq(Turn), turns # <<>>, Keep(t, turns, n)
    PROVE  /\ order' \in Seq(Threads) /\ Len(order') <= max_sessions /\ Moved(t)
           /\ order' = Touched(t)
           /\ msgs' \in [Threads -> Seq(Turn)]
           /\ \A u \in Threads : Len(msgs'[u]) <= max_messages
           /\ \A u \in Threads : msgs'[u] # <<>> <=> u \in Range(order')
           /\ used' \in [Threads -> 0..MaxRuns]
           /\ used'[t] = n /\ \A u \in Threads \ {t} : used'[u] = used[u]
<1> USE MemoryAssumption
<1>1. /\ order' = Touched(t)
      /\ msgs' = [u \in Threads |->
                    IF u = t THEN Window(turns)
                    ELSE IF u \in Range(order') THEN msgs[u] ELSE <<>>]
      /\ used' = [used EXCEPT ![t] = n]
  BY DEF Keep
<1>2. Moved(t)
  BY TouchedMoves
<1>3. /\ order' \in Seq(Threads) /\ Len(order') <= max_sessions /\ t \in Range(order')
      /\ Range(order') \subseteq Range(order) \cup {t}
  <2>1. order' \in Seq(Threads) /\ Len(order') \in 1..max_sessions /\ order'[Len(order')] = t
    BY <1>1, <1>2 DEF Moved
  <2>2. t \in Range(order')
    BY <2>1 DEF Range
  <2>3. Range(order') \subseteq Range(order) \cup {t}
    BY <1>1, <1>2 DEF Moved
  <2>4. QED
    BY <2>1, <2>2, <2>3
<1>4. Window(turns) \in Seq(Turn) /\ Window(turns) # <<>> /\ Len(Window(turns)) <= max_messages
  BY WindowIs
<1>5. /\ msgs \in [Threads -> Seq(Turn)] /\ <<>> \in Seq(Turn)
      /\ \A u \in Threads : Len(msgs[u]) <= max_messages
      /\ \A u \in Threads : msgs[u] # <<>> <=> u \in Range(order)
      /\ used \in [Threads -> 0..MaxRuns]
  <2>1. <<>> \in Seq(Turn)
    OBVIOUS
  <2>2. msgs \in [Threads -> Seq(Turn)] /\ used \in [Threads -> 0..MaxRuns]
    BY DEF MemoryTypeOK
  <2>3. \A u \in Threads : Len(msgs[u]) <= max_messages
    BY DEF MemoryTypeOK
  <2>4. \A u \in Threads : msgs[u] # <<>> <=> u \in Range(order)
    BY Zenon DEF MemoryTypeOK
  <2>5. QED
    BY <2>1, <2>2, <2>3, <2>4
<1>6. msgs' \in [Threads -> Seq(Turn)]
  BY <1>1, <1>4, <1>5
<1>7. Len(<<>>) <= max_messages
  OBVIOUS
<1>8. \A u \in Threads : Len(msgs'[u]) <= max_messages
  BY <1>1, <1>4, <1>5, <1>7
<1>9. ASSUME NEW u \in Threads PROVE msgs'[u] # <<>> <=> u \in Range(order')
  <2>1. CASE u = t
    BY <1>1, <1>3, <1>4, <2>1
  <2>2. CASE u # t
    BY <1>1, <1>3, <1>5, <2>2
  <2>3. QED
    BY <2>1, <2>2
<1>10. used' \in [Threads -> 0..MaxRuns] /\ used'[t] = n /\ \A u \in Threads \ {t} : used'[u] = used[u]
  BY <1>1, <1>5
<1>11. QED
  BY <1>1, <1>2, <1>3, <1>6, <1>8, <1>9, <1>10

\* To keep turns of a thread in the last run keeps the order of the uses.
LEMMA KeepInOrder ==
    ASSUME MemoryTypeOK, UsedInOrder, NEW t \in Threads, NEW n \in 1..MaxRuns,
           NEW turns \in Seq(Turn), turns # <<>>, Keep(t, turns, n),
           used[t] <= n, \A u \in Threads \ {t} : used[u] < n
    PROVE  /\ IsInjective(order')
           /\ \A u, v \in Threads : used'[u] = used'[v] /\ used'[u] # 0 => u = v
           /\ \A i \in 1..Len(order') : used'[order'[i]] # 0
           /\ \A i, j \in 1..Len(order') : i < j => used'[order'[i]] < used'[order'[j]]
           /\ \A u \in Threads : used'[u] # 0 /\ u \notin Range(order') =>
                 Len(order') = max_sessions /\ \A i \in 1..Len(order') : used'[u] < used'[order'[i]]
<1> USE MemoryAssumption
<1> DEFINE q == order'
<1>1. /\ q \in Seq(Threads) /\ Moved(t) /\ q = Touched(t)
      /\ used' \in [Threads -> 0..MaxRuns]
      /\ used'[t] = n /\ \A u \in Threads \ {t} : used'[u] = used[u]
  BY KeepType
<1>2. used \in [Threads -> 0..MaxRuns] /\ order \in Seq(Threads) /\ Len(order) \in Nat
  BY DEF MemoryTypeOK
<1>3. /\ Len(q) \in 1..max_sessions /\ q[Len(q)] = t
      /\ \A i \in 1..(Len(q) - 1) : q[i] # t
      /\ \A i, j \in 1..(Len(q) - 1) : i < j => used[q[i]] < used[q[j]]
  BY <1>1 DEF Moved
<1>4. \/ Range(q) = Range(order) \cup {t} /\ (Len(order) = max_sessions => Len(q) = max_sessions)
      \/ /\ t \notin Range(order) /\ Len(order) = max_sessions /\ Len(q) = max_sessions
         /\ Range(q) = (Range(order) \ {order[1]}) \cup {t}
  BY <1>1 DEF Moved
<1> HIDE DEF q
<1>5. \A i \in 1..Len(q) : q[i] \in Threads /\ q[i] \in Range(q) /\ (i = Len(q) \/ i \in 1..(Len(q) - 1))
  BY <1>1, <1>3 DEF Range
<1>6. \A i \in 1..(Len(q) - 1) : q[i] \in Threads \ {t} /\ q[i] \in Range(order) /\ used'[q[i]] = used[q[i]]
  <2>1. \A i \in 1..(Len(q) - 1) : i \in 1..Len(q)
    BY <1>3
  <2>2. QED
    BY <1>1, <1>3, <1>4, <1>5, <2>1
<1>7. \A x \in Range(order) : used[x] # 0
  BY <1>2 DEF UsedInOrder, Range
<1>8. ASSUME NEW i \in 1..Len(q) PROVE used'[q[i]] # 0
  <2>1. CASE i = Len(q)
    BY <1>1, <1>3, <2>1
  <2>2. CASE i \in 1..(Len(q) - 1)
    BY <1>6, <1>7, <2>2
  <2>3. QED
    BY <1>5, <2>1, <2>2
<1>9. ASSUME NEW i \in 1..Len(q), NEW j \in 1..Len(q), i < j
      PROVE  used'[q[i]] < used'[q[j]]
  <2>1. i \in 1..(Len(q) - 1)
    BY <1>3, <1>9
  <2>2. CASE j = Len(q)
    <3>1. used[q[i]] < n
      BY <1>6, <2>1
    <3>2. QED
      BY <1>1, <1>3, <1>6, <2>1, <2>2, <3>1
  <2>3. CASE j # Len(q)
    <3>1. j \in 1..(Len(q) - 1)
      BY <1>5, <2>3
    <3>2. used[q[i]] < used[q[j]]
      BY <1>3, <1>9, <2>1, <3>1
    <3>3. QED
      BY <1>6, <2>1, <3>1, <3>2
  <2>4. QED
    BY <2>2, <2>3
<1>10. IsInjective(q)
  <2>1. ASSUME NEW i \in 1..Len(q), NEW j \in 1..Len(q), q[i] = q[j] PROVE i = j
    <3>1. i = j \/ i < j \/ j < i
      BY <1>3
    <3>2. used'[q[i]] \in Nat
      BY <1>1, <1>5
    <3>3. CASE i < j
      <4>1. used'[q[i]] < used'[q[j]]
        BY <1>9, <3>3
      <4>2. QED
        BY <2>1, <3>2, <4>1
    <3>4. CASE j < i
      <4>1. used'[q[j]] < used'[q[i]]
        BY <1>9, <3>4
      <4>2. QED
        BY <2>1, <3>2, <4>1
    <3>5. QED
      BY <3>1, <3>3, <3>4
  <2>2. DOMAIN q = 1..Len(q)
    BY <1>1
  <2>3. QED
    BY <2>1, <2>2 DEF IsInjective
<1>11. ASSUME NEW u \in Threads, NEW v \in Threads, used'[u] = used'[v], used'[u] # 0
       PROVE  u = v
  <2>1. \A x \in Threads \ {t} : used'[x] # n
    BY <1>1, <1>2
  <2>2. CASE u = t \/ v = t
    BY <1>1, <1>11, <2>1, <2>2
  <2>3. CASE u # t /\ v # t
    <3>1. used[u] = used[v] /\ used[u] # 0
      BY <1>1, <1>11, <2>3
    <3>2. QED
      BY <3>1 DEF UsedInOrder
  <2>4. QED
    BY <2>2, <2>3
<1>12. ASSUME NEW u \in Threads, used'[u] # 0, u \notin Range(q)
       PROVE  Len(q) = max_sessions /\ \A i \in 1..Len(q) : used'[u] < used'[q[i]]
  <2>1. t \in Range(q)
    BY <1>3, <1>5
  <2>2. u \in Threads \ {t} /\ used'[u] = used[u] /\ used[u] # 0 /\ used[u] < n
    BY <1>1, <1>12, <2>1
  <2>3. ASSUME Len(q) = max_sessions, \A x \in Range(order) : x \in Range(q) => used[u] < used[x]
        PROVE  \A i \in 1..Len(q) : used'[u] < used'[q[i]]
    <3>1. ASSUME NEW i \in 1..Len(q) PROVE used'[u] < used'[q[i]]
      <4>1. CASE i = Len(q)
        BY <1>1, <1>3, <2>2, <4>1
      <4>2. CASE i \in 1..(Len(q) - 1)
        <5>1. used[u] < used[q[i]]
          BY <1>5, <1>6, <2>3, <4>2
        <5>2. QED
          BY <1>6, <2>2, <4>2, <5>1
      <4>3. QED
        BY <1>5, <4>1, <4>2
    <3>2. QED
      BY <3>1
  <2>4. CASE u \notin Range(order)
    <3>1. Len(order) = max_sessions /\ \A i \in 1..Len(order) : used[u] < used[order[i]]
      BY <2>2, <2>4 DEF UsedInOrder
    <3>2. \A x \in Range(order) : used[u] < used[x]
      BY <1>2, <3>1 DEF Range
    <3>3. QED
      BY <1>4, <2>3, <3>1, <3>2
  <2>5. CASE u \in Range(order)
    <3>1. u = order[1] /\ Len(order) = max_sessions /\ Len(q) = max_sessions
          /\ Range(q) = (Range(order) \ {order[1]}) \cup {t}
      BY <1>4, <1>12, <2>5
    <3>2. ASSUME NEW x \in Range(order), x \in Range(q) PROVE used[u] < used[x]
      <4>1. x # order[1]
        BY <1>12, <3>1, <3>2
      <4>2. PICK i \in 1..Len(order) : x = order[i]
        <5>1. DOMAIN order = 1..Len(order)
          BY <1>2
        <5>2. QED
          BY <3>2, <5>1, Zenon DEF Range
      <4>3. 1 \in 1..Len(order) /\ 1 < i
        BY <1>2, <4>1, <4>2
      <4>4. used[order[1]] < used[order[i]]
        BY <4>3 DEF UsedInOrder
      <4>5. QED
        BY <3>1, <4>2, <4>4
    <3>3. QED
      BY <2>3, <3>1, <3>2
  <2>6. QED
    BY <2>4, <2>5
<1>13. QED
  BY <1>8, <1>9, <1>10, <1>11, <1>12 DEF q

\* The turns of a run are turns.
LEMMA TurnType ==
    /\ \A p \in Prompts, n \in 1..MaxRuns : User(p, n) \in Turn
    /\ \A n \in 1..MaxRuns : Agent(n) \in Turn
BY DEF User, Agent, Turn

\* What is left of a conversation without its stray prompt is one.
LEMMA WithoutStrayType ==
    ASSUME NEW turns \in Seq(Turn), NEW p
    PROVE  WithoutStray(turns, p) \in Seq(Turn)
<1>1. turns # <<>> => Front(turns) \in Seq(Turn)
  BY DEF Front
<1>2. QED
  BY <1>1 DEF WithoutStray

\* No thread has been used at first.
LEMMA InitInOrder == InitMemory => MemoryTypeOK /\ UsedInOrder
<1> SUFFICES ASSUME InitMemory PROVE MemoryTypeOK /\ UsedInOrder
  OBVIOUS
<1> USE MemoryAssumption
<1>1. /\ order = <<>> /\ msgs = [t \in Threads |-> <<>>] /\ pc = "idle" /\ run = 0
      /\ thread \in Threads /\ objective \in Prompts /\ context = <<>>
      /\ talk = [t \in Threads |-> <<>>] /\ used = [t \in Threads |-> 0] /\ raised = {}
  BY DEF InitMemory
<1>2. <<>> \in Seq(Threads) /\ <<>> \in Seq(Turn) /\ Len(<<>>) = 0 /\ DOMAIN <<>> = {}
  OBVIOUS
<1>3. Range(order) = {} /\ IsInjective(order)
  BY <1>1, <1>2 DEF Range, IsInjective
<1>4. msgs \in [Threads -> Seq(Turn)] /\ talk \in [Threads -> Seq(Turn)]
      /\ used \in [Threads -> 0..MaxRuns]
  BY <1>1, <1>2
<1>5. \A t \in Threads : msgs[t] = <<>>
  BY <1>1
<1>6. \A t \in Threads : msgs[t] # <<>> <=> t \in Range(order)
  BY <1>3, <1>5
<1>7. \A t \in Threads : Len(msgs[t]) <= max_messages
  BY <1>2, <1>5
<1>8. /\ order \in Seq(Threads) /\ Len(order) <= max_sessions
      /\ run \in 0..MaxRuns /\ context \in Seq(Turn) /\ raised \subseteq 1..MaxRuns
  BY <1>1, <1>2
<1>9. MemoryTypeOK
  BY <1>1, <1>3, <1>4, <1>6, <1>7, <1>8, Zenon DEF MemoryTypeOK
<1>10. UsedInOrder
  BY <1>1, <1>2 DEF UsedInOrder
<1>11. QED
  BY <1>9, <1>10

\* A run that begins keeps the threads in the order of their last use.
LEMMA BeginInOrder ==
    ASSUME MemoryTypeOK, UsedInOrder,
           NEW t \in Threads, NEW p \in Prompts, NEW early \in BOOLEAN, NEW given \in BOOLEAN,
           Begin(t, p, early, given)
    PROVE  MemoryTypeOK' /\ UsedInOrder'
<1> USE MemoryAssumption
<1> DEFINE n == run + 1
           record == IF early THEN Append(talk[t], User(p, n)) ELSE talk[t]
<1>1. /\ pc = "idle" /\ run' = n /\ thread' = t /\ objective' = p
      /\ talk' = [talk EXCEPT ![t] = record]
      /\ IF given /\ record # <<>>
         THEN Keep(t, record, n) /\ context' = WithoutStray(record, p)
         ELSE UNCHANGED <<memory, used>> /\ context' = WithoutStray(msgs[t], p)
      /\ pc' = "running" /\ raised' = raised
  BY DEF Begin
<1>2. n \in 1..MaxRuns /\ run \in Nat /\ n > run
  BY DEF Begin, MemoryTypeOK
<1>3. /\ msgs \in [Threads -> Seq(Turn)] /\ talk \in [Threads -> Seq(Turn)]
      /\ used \in [Threads -> 0..MaxRuns] /\ raised \subseteq 1..MaxRuns
  BY DEF MemoryTypeOK
<1>4. record \in Seq(Turn)
  <2>1. User(p, n) \in Turn
    BY <1>2, TurnType
  <2> HIDE DEF n
  <2>2. QED
    BY <1>3, <2>1
<1> HIDE DEF record
<1>5. talk' \in [Threads -> Seq(Turn)]
  BY <1>1, <1>3, <1>4
<1>6. context' \in Seq(Turn)
  <2>1. WithoutStray(record, p) \in Seq(Turn) /\ WithoutStray(msgs[t], p) \in Seq(Turn)
    BY <1>3, <1>4, WithoutStrayType
  <2>2. QED
    BY <1>1, <2>1
<1>7. /\ pc' \in {"idle", "running"} /\ run' \in 0..MaxRuns /\ thread' \in Threads
      /\ objective' \in Prompts /\ raised' \subseteq 1..MaxRuns /\ run' > 0
  BY <1>1, <1>2, <1>3
<1>8. \A u \in Threads : used[u] \in Nat /\ used[u] <= run /\ used[u] < n
  BY <1>2, <1>3 DEF UsedInOrder
<1> HIDE DEF n
<1>9. CASE given /\ record # <<>>
  <2>1. Keep(t, record, n)
    BY <1>1, <1>9
  <2>2. used[t] <= n /\ \A u \in Threads \ {t} : used[u] < n
    BY <1>2, <1>8
  <2>3. /\ order' \in Seq(Threads) /\ Len(order') <= max_sessions
        /\ msgs' \in [Threads -> Seq(Turn)]
        /\ \A u \in Threads : Len(msgs'[u]) <= max_messages
        /\ \A u \in Threads : msgs'[u] # <<>> <=> u \in Range(order')
        /\ used' \in [Threads -> 0..MaxRuns]
        /\ used'[t] = n /\ \A u \in Threads \ {t} : used'[u] = used[u]
    BY <1>2, <1>4, <1>9, <2>1, KeepType
  <2>4. /\ IsInjective(order')
        /\ \A u, v \in Threads : used'[u] = used'[v] /\ used'[u] # 0 => u = v
        /\ \A i \in 1..Len(order') : used'[order'[i]] # 0
        /\ \A i, j \in 1..Len(order') : i < j => used'[order'[i]] < used'[order'[j]]
        /\ \A u \in Threads : used'[u] # 0 /\ u \notin Range(order') =>
              Len(order') = max_sessions /\ \A i \in 1..Len(order') : used'[u] < used'[order'[i]]
    BY <1>2, <1>4, <1>9, <2>1, <2>2, KeepInOrder
  <2>5. MemoryTypeOK'
    BY <1>5, <1>6, <1>7, <2>3, <2>4, Zenon DEF MemoryTypeOK
  <2>6. /\ \A u \in Threads : used'[u] <= run'
        /\ \A u \in Threads : pc' = "running" /\ u # thread' => used'[u] < run'
    <3>1. \A u \in Threads \ {t} : used'[u] < run'
      BY <1>1, <1>8, <2>3
    <3>2. used'[t] <= run'
      BY <1>1, <1>2, <2>3
    <3>3. \A u \in Threads : used'[u] <= run'
      <4>1. ASSUME NEW u \in Threads PROVE used'[u] <= run'
        <5>1. CASE u = t
          BY <3>2, <5>1
        <5>2. CASE u # t
          <6>1. used'[u] < n /\ used'[u] \in Nat /\ n \in Nat
            BY <1>1, <1>2, <2>3, <3>1, <5>2
          <6>2. QED
            BY <1>1, <6>1
        <5>3. QED
          BY <5>1, <5>2
      <4>2. QED
        BY <4>1
    <3>4. QED
      BY <1>1, <3>1, <3>3
  <2>7. UsedInOrder'
    BY <1>7, <2>4, <2>6, Zenon DEF UsedInOrder
  <2>8. QED
    BY <2>5, <2>7
<1>10. CASE ~(given /\ record # <<>>)
  <2>1. UNCHANGED <<order, msgs, used>>
    BY <1>1, <1>10 DEF memory
  <2>2. MemoryTypeOK'
    <3>1. /\ order' \in Seq(Threads) /\ Len(order') <= max_sessions /\ IsInjective(order')
          /\ msgs' \in [Threads -> Seq(Turn)]
          /\ used' \in [Threads -> 0..MaxRuns]
      BY <2>1 DEF MemoryTypeOK
    <3>2. /\ \A u \in Threads : Len(msgs'[u]) <= max_messages
          /\ \A u \in Threads : msgs'[u] # <<>> <=> u \in Range(order')
      BY <2>1, Zenon DEF MemoryTypeOK
    <3>3. QED
      BY <1>5, <1>6, <1>7, <3>1, <3>2, Zenon DEF MemoryTypeOK
  <2>3. /\ \A u \in Threads : used'[u] <= run'
        /\ \A u \in Threads : used'[u] < run'
    BY <1>1, <1>2, <1>8, <2>1
  <2>4. UsedInOrder'
    BY <1>7, <2>1, <2>3 DEF UsedInOrder
  <2>5. QED
    BY <2>2, <2>4
<1>11. QED
  BY <1>9, <1>10

\* The turns of a run, appended to others.
LEMMA TurnsType ==
    ASSUME MemoryTypeOK, run \in 1..MaxRuns, NEW answered \in BOOLEAN
    PROVE  /\ Turns(answered) \in Seq(Turn) /\ Turns(answered) # <<>>
           /\ \A s \in Seq(Turn) : s \o Turns(answered) \in Seq(Turn) /\ s \o Turns(answered) # <<>>
<1>1. User(objective, run) \in Turn /\ Agent(run) \in Turn
  BY TurnType DEF MemoryTypeOK
<1>2. Turns(answered) \in Seq(Turn) /\ Turns(answered) # <<>> /\ Len(Turns(answered)) > 0
  BY <1>1 DEF Turns
<1>3. \A s \in Seq(Turn), r \in Seq(Turn) : r # <<>> => s \o r \in Seq(Turn) /\ s \o r # <<>>
  OBVIOUS
<1>4. QED
  BY <1>2, <1>3

\* A run that ends keeps the threads in the order of their last use.
LEMMA EndRunInOrder ==
    ASSUME MemoryTypeOK, UsedInOrder, NEW answered \in BOOLEAN, EndRun(answered)
    PROVE  MemoryTypeOK' /\ UsedInOrder'
<1> USE MemoryAssumption
<1> DEFINE turns == msgs[thread] \o Turns(answered)
<1>1. /\ pc = "running" /\ pc' = "idle" /\ Keep(thread, turns, run)
      /\ talk' = Recorded(answered)
      /\ UNCHANGED <<run, thread, objective, context, raised>>
  BY DEF EndRun, task
<1>2. run \in 1..MaxRuns /\ thread \in Threads
  BY <1>1 DEF UsedInOrder, MemoryTypeOK
<1>3. /\ msgs \in [Threads -> Seq(Turn)] /\ talk \in [Threads -> Seq(Turn)]
      /\ used \in [Threads -> 0..MaxRuns]
  BY DEF MemoryTypeOK
<1>4. turns \in Seq(Turn) /\ turns # <<>>
  BY <1>2, <1>3, TurnsType
<1> HIDE DEF turns
<1>5. talk' \in [Threads -> Seq(Turn)]
  <2> DEFINE r == talk[thread]
  <2>1. r \in Seq(Turn) /\ r \o Turns(answered) \in Seq(Turn)
    BY <1>2, <1>3, TurnsType
  <2>2. r # <<>> => Front(r) \in Seq(Turn)
    BY <2>1 DEF Front
  <2>3. r # <<>> => Front(r) \o Turns(answered) \in Seq(Turn)
    BY <1>2, <2>2, TurnsType
  <2>4. talk' = [talk EXCEPT ![thread] =
                    IF r # <<>> /\ Last(r).run = run THEN Front(r) \o Turns(answered)
                    ELSE r \o Turns(answered)]
    BY <1>1 DEF Recorded
  <2> HIDE DEF r
  <2>5. QED
    BY <1>3, <2>1, <2>3, <2>4
<1>6. used[thread] <= run /\ \A u \in Threads \ {thread} : used[u] < run
  BY <1>1, <1>2 DEF UsedInOrder
<1>7. /\ order' \in Seq(Threads) /\ Len(order') <= max_sessions
      /\ msgs' \in [Threads -> Seq(Turn)]
      /\ \A u \in Threads : Len(msgs'[u]) <= max_messages
      /\ \A u \in Threads : msgs'[u] # <<>> <=> u \in Range(order')
      /\ used' \in [Threads -> 0..MaxRuns]
      /\ used'[thread] = run /\ \A u \in Threads \ {thread} : used'[u] = used[u]
  BY <1>1, <1>2, <1>4, KeepType
<1>8. /\ IsInjective(order')
      /\ \A u, v \in Threads : used'[u] = used'[v] /\ used'[u] # 0 => u = v
      /\ \A i \in 1..Len(order') : used'[order'[i]] # 0
      /\ \A i, j \in 1..Len(order') : i < j => used'[order'[i]] < used'[order'[j]]
      /\ \A u \in Threads : used'[u] # 0 /\ u \notin Range(order') =>
            Len(order') = max_sessions /\ \A i \in 1..Len(order') : used'[u] < used'[order'[i]]
  BY <1>1, <1>2, <1>4, <1>6, KeepInOrder
<1>9. MemoryTypeOK'
  <2>1. /\ pc' \in {"idle", "running"} /\ run' \in 0..MaxRuns /\ thread' \in Threads
        /\ objective' \in Prompts /\ context' \in Seq(Turn) /\ raised' \subseteq 1..MaxRuns
    BY <1>1 DEF MemoryTypeOK
  <2>2. QED
    BY <1>5, <1>7, <1>8, <2>1, Zenon DEF MemoryTypeOK
<1>10. UsedInOrder'
  <2>1. \A u \in Threads : used'[u] <= run'
    <3>1. ASSUME NEW u \in Threads PROVE used'[u] <= run'
      <4>1. CASE u = thread
        BY <1>1, <1>2, <1>7, <4>1
      <4>2. CASE u # thread
        <5>1. u \in Threads \ {thread}
          BY <4>2
        <5>2. used[u] < run
          BY <1>6, <5>1
        <5>3. used'[u] = used[u]
          BY <1>7, <5>1
        <5>4. used[u] \in Nat /\ run \in Nat
          BY <1>2, <1>3
        <5>5. run' = run
          BY <1>1
        <5>6. QED
          BY <5>2, <5>3, <5>4, <5>5
      <4>3. QED
        BY <4>1, <4>2
    <3>2. QED
      BY <3>1
  <2>2. pc' # "running"
    BY <1>1
  <2>3. QED
    BY <1>8, <2>1, <2>2, Zenon DEF UsedInOrder
<1>11. QED
  BY <1>9, <1>10

\* Every step keeps the threads in the order of their last use.
LEMMA MemoryInOrder ==
    ASSUME MemoryTypeOK, UsedInOrder, [NextMemory]_vars_memory
    PROVE  MemoryTypeOK' /\ UsedInOrder'
<1> USE MemoryAssumption
<1>1. ASSUME NEW t \in Threads, NEW p \in Prompts, NEW early \in BOOLEAN, NEW given \in BOOLEAN,
             Begin(t, p, early, given)
      PROVE  MemoryTypeOK' /\ UsedInOrder'
  BY <1>1, BeginInOrder
<1>2. ASSUME NEW answered \in BOOLEAN, EndRun(answered)
      PROVE  MemoryTypeOK' /\ UsedInOrder'
  BY <1>2, EndRunInOrder
<1>3. CASE RunRaises
  <2>1. /\ pc = "running" /\ pc' = "idle" /\ raised' = raised \cup {run}
        /\ UNCHANGED <<order, msgs, used, run, thread, objective, context, talk>>
    BY <1>3 DEF RunRaises, memory, task
  <2>2. run \in 1..MaxRuns
    BY <2>1 DEF UsedInOrder, MemoryTypeOK
  <2>3. raised' \subseteq 1..MaxRuns
    BY <2>1, <2>2 DEF MemoryTypeOK
  <2>4. MemoryTypeOK'
    BY <2>1, <2>3 DEF MemoryTypeOK
  <2>5. UsedInOrder'
    BY <2>1 DEF UsedInOrder
  <2>6. QED
    BY <2>4, <2>5
<1>4. CASE UNCHANGED vars_memory
  <2>1. UNCHANGED <<order, msgs, pc, run, thread, objective, context, talk, used, raised>>
    BY <1>4 DEF vars_memory, memory, task
  <2>2. MemoryTypeOK'
    BY <2>1 DEF MemoryTypeOK
  <2>3. UsedInOrder'
    BY <2>1 DEF UsedInOrder
  <2>4. QED
    BY <2>2, <2>3
<1>5. QED
  BY <1>1, <1>2, <1>3, <1>4 DEF NextMemory

\* The memory is within its bounds, whatever is stored when.
THEOREM MemoryTypeCorrect == SpecMemory => []MemoryTypeOK
BY InitInOrder, MemoryInOrder, PTL DEF SpecMemory

\* A thread is forgotten only when max_sessions others were used since.
LEMMA RecentKept ==
    ASSUME MemoryTypeOK, UsedInOrder
    PROVE  RecentThreadsKept
<1> SUFFICES ASSUME NEW t \in Threads, used[t] # 0, t \notin Range(order)
             PROVE  ~(Cardinality({u \in Threads : used[u] > used[t]}) < max_sessions)
  BY DEF RecentThreadsKept
<1> DEFINE later == {u \in Threads : used[u] > used[t]}
<1>1. /\ order \in Seq(Threads) /\ IsInjective(order) /\ used \in [Threads -> 0..MaxRuns]
      /\ DOMAIN order = 1..Len(order)
  BY DEF MemoryTypeOK
<1>2. Len(order) = max_sessions /\ \A i \in 1..Len(order) : used[t] < used[order[i]]
  BY DEF UsedInOrder
<1>3. Range(order) \subseteq later
  <2>1. \A i \in 1..Len(order) : order[i] \in Threads /\ used[order[i]] > used[t]
    BY <1>1, <1>2
  <2>2. QED
    BY <1>1, <2>1 DEF Range
<1>4. IsFiniteSet(later)
  <2> DEFINE f == [u \in later |-> used[u]]
  <2>1. \A u \in later : used[u] \in 1..MaxRuns /\ used[u] # 0
    BY <1>1, MemoryAssumption
  <2>2. \A u, v \in later : used[u] = used[v] => u = v
    BY <2>1 DEF UsedInOrder
  <2> HIDE DEF later
  <2>3. f \in Injection(later, 1..MaxRuns)
    BY <2>1, <2>2 DEF Injection, IsInjective
  <2> HIDE DEF f
  <2>4. IsFiniteSet(1..MaxRuns)
    BY FS_Interval, MemoryAssumption
  <2>5. QED
    BY <2>3, <2>4, FS_Injection
<1>5. Cardinality(Range(order)) = max_sessions
  BY <1>1, <1>2, InjectiveRange
<1> HIDE DEF later
<1>6. Cardinality(Range(order)) <= Cardinality(later) /\ Cardinality(later) \in Nat
  BY <1>3, <1>4, FS_Subset, FS_CardinalityType
<1>7. QED
  BY <1>5, <1>6, MemoryAssumption DEF later

\* SessionMemory._touch: for any threads and any bound, the memory keeps the threads used
\* last, and no more of them than its bound.
THEOREM RecentThreadsKeptHolds == SpecMemory => []RecentThreadsKept
BY InitInOrder, MemoryInOrder, RecentKept, PTL DEF SpecMemory

\* f is the recursive function of Undoubled.
Undoubles(f, S, s) ==
    /\ f \in [0..Len(s) -> Seq(S)] /\ f[0] = <<>>
    /\ \A n \in 1..Len(s) :
          f[n] = IF n > 1 /\ s[n] = s[n - 1] THEN f[n - 1] ELSE Append(f[n - 1], s[n])
    /\ Undoubled(s) = f[Len(s)]

\* It exists.
LEMMA UndoubledIs ==
    ASSUME NEW S, NEW s \in Seq(S)
    PROVE  \E f : Undoubles(f, S, s)
<1> DEFINE V == Seq(S)
           Is(f) == f = [n \in 0..Len(s) |->
                            IF n = 0 THEN <<>>
                            ELSE IF n > 1 /\ s[n] = s[n - 1] THEN f[n - 1]
                            ELSE Append(f[n - 1], s[n])]
           step == [vn \in V \X (1..Len(s)) |->
                       IF vn[2] > 1 /\ s[vn[2]] = s[vn[2] - 1] THEN vn[1]
                       ELSE Append(vn[1], s[vn[2]])]
<1>1. Len(s) \in Nat /\ <<>> \in V /\ \A n \in 1..Len(s) : s[n] \in S
  OBVIOUS
<1>2. step \in [V \X (1..Len(s)) -> V]
  BY <1>1
<1>3. \A v \in V, n \in 1..Len(s) :
         step[<<v, n>>] = IF n > 1 /\ s[n] = s[n - 1] THEN v ELSE Append(v, s[n])
  OBVIOUS
<1> HIDE DEF V, step
<1>4. PICK g : Computes(g, V, Len(s), <<>>, step)
  BY <1>1, <1>2, RecursiveFunction
<1>5. \A n \in 1..Len(s) : n \in 0..Len(s) /\ n - 1 \in 0..Len(s) /\ n # 0
  BY <1>1
<1>6. \A n \in 1..Len(s) :
         g[n] = IF n > 1 /\ s[n] = s[n - 1] THEN g[n - 1] ELSE Append(g[n - 1], s[n])
  BY <1>3, <1>4, <1>5 DEF Computes
<1>7. Is(g)
  <2>1. g = [n \in 0..Len(s) |-> g[n]]
    BY <1>4 DEF Computes
  <2>2. \A n \in 0..Len(s) : n = 0 \/ n \in 1..Len(s)
    BY <1>1
  <2>3. \A n \in 0..Len(s) : g[n] = IF n = 0 THEN <<>>
                                    ELSE IF n > 1 /\ s[n] = s[n - 1] THEN g[n - 1]
                                    ELSE Append(g[n - 1], s[n])
    BY <1>4, <1>6, <2>2 DEF Computes
  <2>4. QED
    BY <2>1, <2>3
<1> DEFINE f == CHOOSE h : Is(h)
<1>8. Undoubled(s) = f[Len(s)]
  BY DEF Undoubled
<1>9. Is(f)
  <2> HIDE DEF Is
  <2>1. QED
    BY <1>7
<1> HIDE DEF f
<1>10. /\ f[0] = <<>>
       /\ \A n \in 1..Len(s) :
             f[n] = IF n > 1 /\ s[n] = s[n - 1] THEN f[n - 1] ELSE Append(f[n - 1], s[n])
  <2>1. \A n \in 0..Len(s) : f[n] = IF n = 0 THEN <<>>
                                    ELSE IF n > 1 /\ s[n] = s[n - 1] THEN f[n - 1]
                                    ELSE Append(f[n - 1], s[n])
    BY <1>9
  <2>2. 0 \in 0..Len(s)
    BY <1>1
  <2>3. QED
    BY <1>5, <2>1, <2>2
<1>11. \A n \in 1..Len(s) : f[n - 1] \in V => f[n] = step[<<f[n - 1], n>>]
  BY <1>3, <1>10
<1>12. Agree(f, g, Len(s))
  BY <1>1, <1>2, <1>4, <1>10, <1>11, RecursionUnique
<1>13. f \in [0..Len(s) -> V]
  <2>1. f = [n \in 0..Len(s) |-> f[n]]
    BY <1>9
  <2>2. \A n \in 0..Len(s) : f[n] \in V
    BY <1>4, <1>12 DEF Agree, Computes
  <2>3. QED
    BY <2>1, <2>2
<1>14. QED
  BY <1>8, <1>10, <1>13 DEF V, Undoubles

\* No turn of an empty conversation is doubled.
LEMMA UndoubledEmpty == Undoubled(<<>>) = <<>>
<1>1. <<>> \in Seq({}) /\ Len(<<>>) = 0
  OBVIOUS
<1>2. PICK f : Undoubles(f, {}, <<>>)
  BY <1>1, UndoubledIs
<1>3. QED
  BY <1>1, <1>2 DEF Undoubles

\* One more turn.
UndoubledStep(S, s, x) ==
    /\ Undoubled(s) \in Seq(S)
    /\ s # <<>> /\ Last(s) = x => Undoubled(Append(s, x)) = Undoubled(s)
    /\ s = <<>> \/ Last(s) # x => Undoubled(Append(s, x)) = Append(Undoubled(s), x)

\* One more turn of a conversation is a new one, or doubles the last.
LEMMA UndoubledAppend ==
    ASSUME NEW S, NEW s \in Seq(S), NEW x \in S
    PROVE  UndoubledStep(S, s, x)
<1> DEFINE t == Append(s, x)
<1>1. /\ t \in Seq(S) /\ Len(t) = Len(s) + 1 /\ Len(s) \in Nat
      /\ \A n \in 1..Len(s) : t[n] = s[n]
      /\ t[Len(s) + 1] = x
      /\ s = <<>> <=> Len(s) = 0
  OBVIOUS
<1> HIDE DEF t
<1>2. PICK f : Undoubles(f, S, s)
  BY UndoubledIs
<1>3. PICK g : Undoubles(g, S, t)
  BY <1>1, UndoubledIs
<1>4. ASSUME NEW n \in 1..Len(s)
      PROVE  g[n] = IF n > 1 /\ s[n] = s[n - 1] THEN g[n - 1] ELSE Append(g[n - 1], s[n])
  <2>1. n \in 1..Len(t) /\ (n > 1 => n - 1 \in 1..Len(s))
    BY <1>1
  <2>2. t[n] = s[n] /\ (n > 1 => t[n - 1] = s[n - 1])
    BY <1>1, <2>1
  <2>3. g[n] = IF n > 1 /\ t[n] = t[n - 1] THEN g[n - 1] ELSE Append(g[n - 1], t[n])
    BY <1>3, <2>1 DEF Undoubles
  <2>4. QED
    BY <2>2, <2>3
<1>5. \A n \in 0..Len(s) : f[n] = g[n]
  <2> DEFINE N == {n \in 0..Len(s) : f[n] = g[n]}
  <2>1. 0 \in N
    BY <1>1, <1>2, <1>3 DEF Undoubles
  <2>2. ASSUME NEW n \in 0..(Len(s) - 1), n \in N
        PROVE  n + 1 \in N
    <3>1. n + 1 \in 1..Len(s) /\ (n + 1) - 1 = n
      BY <1>1
    <3>2. f[n + 1] = g[n + 1]
      BY <1>2, <1>4, <2>2, <3>1 DEF Undoubles
    <3>3. QED
      BY <3>1, <3>2
  <2>3. 0..Len(s) \subseteq N
    <3> HIDE DEF N
    <3>1. QED
      BY <1>1, <2>1, <2>2, SetInduction
  <2>4. QED
    BY <2>3
<1>6. Len(t) \in 1..Len(t) /\ Len(t) - 1 = Len(s) /\ Len(s) \in 0..Len(s)
  BY <1>1
<1>7. /\ Undoubled(t) = IF Len(t) > 1 /\ x = t[Len(s)] THEN f[Len(s)] ELSE Append(f[Len(s)], x)
      /\ Undoubled(s) = f[Len(s)] /\ Undoubled(s) \in Seq(S)
  BY <1>1, <1>2, <1>3, <1>5, <1>6 DEF Undoubles
<1>8. CASE s = <<>>
  <2>1. ~(Len(t) > 1)
    BY <1>1, <1>8
  <2>2. Undoubled(t) = Append(Undoubled(s), x)
    BY <1>7, <2>1
  <2>3. QED
    BY <1>7, <1>8, <2>2 DEF UndoubledStep, t
<1>9. CASE s # <<>>
  <2>1. Len(t) > 1 /\ Len(s) \in 1..Len(s) /\ t[Len(s)] = Last(s)
    BY <1>1, <1>9 DEF Last
  <2>2. /\ Last(s) = x => Undoubled(t) = Undoubled(s)
        /\ Last(s) # x => Undoubled(t) = Append(Undoubled(s), x)
    BY <1>7, <2>1
  <2>3. QED
    BY <1>7, <1>9, <2>2 DEF UndoubledStep, t
<1>10. QED
  BY <1>8, <1>9

\* A conversation without its doubled turns ends with the same turn.
LEMMA UndoubledLast ==
    ASSUME NEW S, NEW s \in Seq(S)
    PROVE  /\ Undoubled(s) \in Seq(S) /\ Len(Undoubled(s)) <= Len(s)
           /\ s # <<>> => Undoubled(s) # <<>> /\ Last(Undoubled(s)) = Last(s)
<1> DEFINE Keeps(u) == /\ Undoubled(u) \in Seq(S) /\ Len(Undoubled(u)) <= Len(u)
                       /\ u # <<>> => Undoubled(u) # <<>> /\ Last(Undoubled(u)) = Last(u)
           K == {u \in Seq(S) : Keeps(u)}
<1>1. <<>> \in K
  <2>1. Undoubled(<<>>) = <<>> /\ <<>> \in Seq(S) /\ Len(<<>>) <= Len(<<>>)
    BY UndoubledEmpty
  <2>2. QED
    BY <2>1
<1>2. ASSUME NEW u \in Seq(S), NEW x \in S, u \in K
      PROVE  Append(u, x) \in K
  <2> DEFINE v == Append(u, x)
             d == Undoubled(u)
             w == Append(d, x)
  <2>1. /\ d \in Seq(S) /\ Len(d) <= Len(u)
        /\ u # <<>> => d # <<>> /\ Last(d) = Last(u)
    BY <1>2
  <2>2. UndoubledStep(S, u, x) /\ Appended(u, x) /\ Appended(d, x)
    BY <2>1, UndoubledAppend, AppendLast
  <2>3. /\ u # <<>> /\ Last(u) = x => Undoubled(v) = d
        /\ u = <<>> \/ Last(u) # x => Undoubled(v) = w
        /\ v # <<>> /\ Last(v) = x /\ w # <<>> /\ Last(w) = x
    BY <2>2 DEF UndoubledStep, Appended
  <2>4. /\ v \in Seq(S) /\ Len(v) = Len(u) + 1 /\ w \in Seq(S) /\ Len(w) = Len(d) + 1
        /\ Len(u) \in Nat /\ Len(d) \in Nat
    BY <2>1
  <2> HIDE DEF v, d, w
  <2>5. Undoubled(v) \in Seq(S) /\ Len(Undoubled(v)) <= Len(v)
    BY <2>1, <2>3, <2>4
  <2>6. Undoubled(v) # <<>> /\ Last(Undoubled(v)) = Last(v)
    BY <2>1, <2>3
  <2>7. QED
    BY <2>4, <2>5, <2>6 DEF v
<1>3. Seq(S) \subseteq K
  <2> HIDE DEF K
  <2>1. QED
    BY <1>1, <1>2, SeqInduction
<1>4. QED
  BY <1>3

\* Without doubled turns, an end of a conversation is an end of it.
LEMMA EndsUndoubled ==
    ASSUME NEW S, NEW s \in Seq(S), NEW t \in Seq(S), Ends(S, s, t)
    PROVE  Ends(S, Undoubled(s), Undoubled(t))
<1>1. PICK b \in Seq(S) : t = b \o s
  BY DEF Ends
<1> DEFINE K == {u \in Seq(S) : Ends(S, Undoubled(u), Undoubled(b \o u))}
<1>2. <<>> \in K
  <2>1. Undoubled(<<>>) = <<>> /\ <<>> \in Seq(S) /\ b \o <<>> = b
    BY UndoubledEmpty
  <2>2. Ends(S, <<>>, Undoubled(b))
    BY UndoubledLast, EndsTrivial
  <2>3. QED
    BY <2>1, <2>2
<1>3. ASSUME NEW u \in Seq(S), NEW x \in S, u \in K
      PROVE  Append(u, x) \in K
  <2> DEFINE v == Append(u, x)
             w == b \o u
             d == Undoubled(u)
             e == Undoubled(w)
  <2>1. /\ d \in Seq(S) /\ w \in Seq(S) /\ e \in Seq(S) /\ v \in Seq(S)
        /\ w # <<>> => e # <<>> /\ Last(e) = Last(w)
    <3>1. w \in Seq(S) /\ v \in Seq(S)
      OBVIOUS
    <3> HIDE DEF w, v
    <3>2. QED
      BY <3>1, UndoubledLast
  <2>2. ConcatStep(b, u, x) /\ UndoubledStep(S, u, x) /\ UndoubledStep(S, w, x)
    BY <2>1, UndoubledAppend, ConcatAppend
  <2>3. /\ u # <<>> /\ Last(u) = x => Undoubled(v) = d
        /\ u = <<>> \/ Last(u) # x => Undoubled(v) = Append(d, x)
        /\ w # <<>> /\ Last(w) = x => Undoubled(b \o v) = e
        /\ w = <<>> \/ Last(w) # x => Undoubled(b \o v) = Append(e, x)
    BY <2>2 DEF UndoubledStep, ConcatStep
  <2>4. u # <<>> => w # <<>> /\ Last(w) = Last(u)
    BY DEF Last
  <2>5. Ends(S, d, e)
    BY <1>3
  <2>6. u = <<>> => d = <<>>
    BY UndoubledEmpty
  <2> HIDE DEF v, w, d, e
  <2>7. Ends(S, Append(d, x), Append(e, x))
    BY <2>1, <2>5, EndsAppend
  <2>8. ASSUME u # <<>> PROVE Ends(S, Undoubled(v), Undoubled(b \o v))
    <3>1. CASE Last(u) = x
      <4>1. Undoubled(v) = d /\ Undoubled(b \o v) = e
        BY <2>3, <2>4, <2>8, <3>1
      <4>2. QED
        BY <2>5, <4>1
    <3>2. CASE Last(u) # x
      <4>1. Undoubled(v) = Append(d, x) /\ Undoubled(b \o v) = Append(e, x)
        BY <2>3, <2>4, <2>8, <3>2
      <4>2. QED
        BY <2>7, <4>1
    <3>3. QED
      BY <3>1, <3>2
  <2>9. ASSUME u = <<>>, w = <<>> \/ Last(w) # x
        PROVE  Ends(S, Undoubled(v), Undoubled(b \o v))
    <3>1. Undoubled(v) = Append(d, x) /\ Undoubled(b \o v) = Append(e, x)
      BY <2>3, <2>9
    <3>2. QED
      BY <2>7, <3>1
  <2>10. ASSUME u = <<>>, w # <<>>, Last(w) = x
         PROVE  Ends(S, Undoubled(v), Undoubled(b \o v))
    <3>1. Undoubled(v) = Append(<<>>, x) /\ Undoubled(b \o v) = e
      BY <2>3, <2>6, <2>10
    <3>2. Split(S, e) /\ Last(e) = x
      BY <2>1, <2>10, FrontLast
    <3>3. e = Append(Front(e), x) /\ Front(e) \in Seq(S)
      BY <3>2 DEF Split
    <3>4. <<>> \in Seq(S) /\ Ends(S, <<>>, Front(e))
      BY <3>3, EndsTrivial
    <3>5. Ends(S, Append(<<>>, x), Append(Front(e), x))
      BY <3>3, <3>4, EndsAppend
    <3>6. QED
      BY <3>1, <3>3, <3>5
  <2>11. Ends(S, Undoubled(v), Undoubled(b \o v))
    BY <2>8, <2>9, <2>10
  <2>12. QED
    BY <2>1, <2>11 DEF v
<1>4. Seq(S) \subseteq K
  <2> HIDE DEF K
  <2>1. QED
    BY <1>2, <1>3, SeqInduction
<1>5. QED
  BY <1>1, <1>4

\* The turns of the first n runs.
UpTo(n) == {turn \in Turn : turn.run <= n}

\* Doubled turns and prompts of runs R apart, s is the end of record.
Match(s, record, R) == Ends(Turn, Less(Undoubled(s), R), Less(record, R))

ContextMatches(s, record, R, p) ==
    \/ Match(s, record, R)
    \/ Ends(Turn, Less(Undoubled(s), R), WithoutStray(Less(record, R), p))

\* The turns of the runs up to one are turns of the runs up to the next.
LEMMA UpToTurns ==
    /\ \A n \in Int : Seq(UpTo(n)) \subseteq Seq(Turn)
    /\ \A n \in Int : Seq(UpTo(n)) \subseteq Seq(UpTo(n + 1))
<1>1. \A turn \in Turn : turn.run \in Nat
  BY DEF Turn
<1>2. \A n \in Int : UpTo(n) \subseteq Turn /\ UpTo(n) \subseteq UpTo(n + 1)
  BY <1>1 DEF UpTo
<1>3. QED
  BY <1>2

\* A turn of a later run is not the last one.
LEMMA LaterTurn ==
    ASSUME NEW n \in Int, NEW s \in Seq(UpTo(n)), NEW x, x.run > n, x.run \in Int
    PROVE  s = <<>> \/ Last(s) # x
<1>1. s # <<>> => Last(s) \in UpTo(n)
  BY DEF Last
<1>2. \A y \in UpTo(n) : y.run <= n /\ y.run \in Nat
  BY DEF UpTo, Turn
<1>3. x \notin UpTo(n)
  BY <1>2
<1>4. QED
  BY <1>1, <1>3

-----------------------------------------------------------------------------
(* Turns less those of some runs *)

LessStep(s, x, R) ==
    /\ Less(s, R) \in Seq(Turn)
    /\ x.run \notin R => Less(Append(s, x), R) = Append(Less(s, R), x)
    /\ x.run \in R => Less(Append(s, x), R) = Less(s, R)

\* One more turn stays after the others, or its run was left out.
LEMMA LessAppend ==
    ASSUME NEW s \in Seq(Turn), NEW x \in Turn, NEW R
    PROVE  LessStep(s, x, R)
<1> DEFINE T == {turn \in Turn : turn.run \notin R}
<1>1. FilteredStep(Turn, s, x, T)
  BY FilteredAppend
<1>2. x \in T <=> x.run \notin R
  OBVIOUS
<1>3. Less(s, R) = Filtered(s, T) /\ Less(Append(s, x), R) = Filtered(Append(s, x), T)
  BY DEF Less
<1> HIDE DEF T
<1>4. QED
  BY <1>1, <1>2, <1>3 DEF FilteredStep, LessStep

\* Conversations stay conversations without doubled turns and without failed runs.
LEMMA LessType ==
    ASSUME NEW s \in Seq(Turn), NEW R
    PROVE  Less(s, R) \in Seq(Turn) /\ Less(Undoubled(s), R) \in Seq(Turn) /\ Undoubled(s) \in Seq(Turn)
<1>1. Undoubled(s) \in Seq(Turn)
  BY UndoubledLast
<1>2. \A t \in Seq(Turn) : Less(t, R) \in Seq(Turn)
  BY FilteredKeeps DEF Less
<1>3. QED
  BY <1>1, <1>2

\* Nothing is left of nothing.
LEMMA LessEmpty == \A R : Less(Undoubled(<<>>), R) = <<>>
BY FilteredEmpty, UndoubledEmpty DEF Less

\* To leave out the turns of one more run.
LEMMA LessTwice ==
    ASSUME NEW s \in Seq(Turn), NEW R, NEW n
    PROVE  Less(Less(s, R), {n}) = Less(s, R \cup {n})
<1> DEFINE T == {turn \in Turn : turn.run \notin R}
           U == {turn \in Turn : turn.run \notin {n}}
           W == {turn \in Turn : turn.run \notin R \cup {n}}
<1>1. \A x \in Turn : x \in W <=> x \in T /\ x \in U
  OBVIOUS
<1>2. Filtered(Filtered(s, T), U) = Filtered(s, W)
  <2> HIDE DEF T, U, W
  <2>1. QED
    BY <1>1, FilteredTwice
<1>3. QED
  BY <1>2 DEF Less

\* No turn of run n + 1 is among those of the first n.
LEMMA LessLater ==
    ASSUME NEW n \in Int, NEW s \in Seq(UpTo(n)), NEW x \in Turn, x.run = n + 1
    PROVE  Less(s, {n + 1}) = s /\ Less(Append(s, x), {n + 1}) = s
<1>1. s \in Seq(Turn)
  BY UpToTurns
<1> DEFINE T == {turn \in Turn : turn.run \notin {n + 1}}
<1>2. Range(s) \subseteq T
  <2>1. Range(s) \subseteq UpTo(n)
    BY RangeOfSeq
  <2>2. \A turn \in UpTo(n) : turn \in Turn /\ turn.run # n + 1
    BY DEF UpTo, Turn
  <2>3. QED
    BY <2>1, <2>2
<1>3. Less(s, {n + 1}) = s
  <2>1. Less(s, {n + 1}) = Filtered(s, T)
    BY DEF Less
  <2> HIDE DEF T
  <2>2. QED
    BY <1>1, <1>2, <2>1, FilteredSame
<1>4. LessStep(s, x, {n + 1})
  BY <1>1, LessAppend
<1>5. QED
  BY <1>3, <1>4 DEF LessStep

-----------------------------------------------------------------------------
(* What keeps a match *)

\* The empty conversation is the end of any record.
LEMMA MatchEmpty ==
    ASSUME NEW r \in Seq(Turn), NEW R
    PROVE  Match(<<>>, r, R)
BY LessType, LessEmpty, EndsTrivial DEF Match

\* A record is the end of itself.
LEMMA MatchSame ==
    ASSUME NEW r \in Seq(Turn), NEW R, Undoubled(r) = r
    PROVE  Match(r, r, R)
BY LessType, EndsTrivial DEF Match

\* An end of what matches.
LEMMA MatchEnd ==
    ASSUME NEW s \in Seq(Turn), NEW t \in Seq(Turn), NEW r \in Seq(Turn), NEW R,
           Ends(Turn, s, t), Match(t, r, R)
    PROVE  Match(s, r, R)
<1> DEFINE a == Less(Undoubled(s), R)
           b == Less(Undoubled(t), R)
           c == Less(r, R)
<1>1. a \in Seq(Turn) /\ b \in Seq(Turn) /\ c \in Seq(Turn)
      /\ Undoubled(s) \in Seq(Turn) /\ Undoubled(t) \in Seq(Turn)
  BY LessType
<1>2. Ends(Turn, Undoubled(s), Undoubled(t))
  BY EndsUndoubled
<1>3. Ends(Turn, a, b)
  BY <1>1, <1>2, EndsFiltered DEF Less
<1>4. Ends(Turn, b, c)
  BY DEF Match
<1> HIDE DEF a, b, c
<1>5. Ends(Turn, a, c)
  BY <1>1, <1>3, <1>4, EndsTransitive
<1>6. QED
  BY <1>5 DEF Match, a, c

\* One more run is left out.
LEMMA MatchLess ==
    ASSUME NEW s \in Seq(Turn), NEW r \in Seq(Turn), NEW R, NEW n, Match(s, r, R)
    PROVE  Match(s, r, R \cup {n})
<1> DEFINE a == Less(Undoubled(s), R)
           c == Less(r, R)
<1>1. a \in Seq(Turn) /\ c \in Seq(Turn) /\ Undoubled(s) \in Seq(Turn)
  BY LessType
<1>2. Ends(Turn, a, c)
  BY DEF Match
<1>3. Less(a, {n}) = Less(Undoubled(s), R \cup {n}) /\ Less(c, {n}) = Less(r, R \cup {n})
  <2>1. Less(a, {n}) = Less(Undoubled(s), R \cup {n})
    <3> DEFINE d == Undoubled(s)
    <3>1. d \in Seq(Turn)
      BY <1>1
    <3> HIDE DEF d
    <3>2. Less(Less(d, R), {n}) = Less(d, R \cup {n})
      BY <3>1, LessTwice
    <3>3. QED
      BY <3>2 DEF d
  <2>2. Less(c, {n}) = Less(r, R \cup {n})
    BY LessTwice
  <2>3. QED
    BY <2>1, <2>2
<1> HIDE DEF a, c
<1>4. Ends(Turn, Less(a, {n}), Less(c, {n}))
  BY <1>1, <1>2, EndsFiltered DEF Less
<1>5. QED
  BY <1>3, <1>4 DEF Match

\* The same turn comes to both.
LEMMA MatchAppend ==
    ASSUME NEW s \in Seq(Turn), NEW r \in Seq(Turn), NEW x \in Turn, NEW R,
           Match(s, r, R), s = <<>> \/ Last(s) # x
    PROVE  Match(Append(s, x), Append(r, x), R)
<1> DEFINE d == Undoubled(s)
           a == Less(d, R)
           c == Less(r, R)
<1>1. a \in Seq(Turn) /\ c \in Seq(Turn) /\ d \in Seq(Turn)
  BY LessType
<1>2. Ends(Turn, a, c)
  BY DEF Match
<1>3. UndoubledStep(Turn, s, x)
  BY UndoubledAppend
<1>4. Undoubled(Append(s, x)) = Append(d, x)
  BY <1>3 DEF UndoubledStep
<1> HIDE DEF d
<1>5. LessStep(d, x, R) /\ LessStep(r, x, R)
  BY <1>1, LessAppend
<1>6. CASE x.run \in R
  <2>1. Less(Append(d, x), R) = a /\ Less(Append(r, x), R) = c
    BY <1>5, <1>6 DEF LessStep
  <2> HIDE DEF a, c
  <2>2. QED
    BY <1>2, <1>4, <2>1 DEF Match
<1>7. CASE x.run \notin R
  <2>1. Less(Append(d, x), R) = Append(a, x) /\ Less(Append(r, x), R) = Append(c, x)
    BY <1>5, <1>7 DEF LessStep
  <2> HIDE DEF a, c
  <2>2. Ends(Turn, Append(a, x), Append(c, x))
    BY <1>1, <1>2, EndsAppend
  <2>3. QED
    BY <1>4, <2>1, <2>2 DEF Match
<1>8. QED
  BY <1>6, <1>7

\* The last turn comes again.
LEMMA MatchDoubled ==
    ASSUME NEW s \in Seq(Turn), NEW r, NEW x \in Turn, NEW R,
           Match(s, r, R), s # <<>>, Last(s) = x
    PROVE  Match(Append(s, x), r, R)
<1>1. UndoubledStep(Turn, s, x)
  BY UndoubledAppend
<1>2. Undoubled(Append(s, x)) = Undoubled(s)
  BY <1>1 DEF UndoubledStep
<1>3. QED
  BY <1>2 DEF Match

\* A turn of a run that is left out comes to one or both.
LEMMA MatchLeftOut ==
    ASSUME NEW s \in Seq(Turn), NEW r \in Seq(Turn), NEW x \in Turn, NEW R, x.run \in R,
           Match(s, r, R), s = <<>> \/ Last(s) # x,
           NEW t, t = s \/ t = Append(s, x), NEW q, q = r \/ q = Append(r, x)
    PROVE  Match(t, q, R)
<1> DEFINE d == Undoubled(s)
<1>1. d \in Seq(Turn)
  BY LessType
<1>2. UndoubledStep(Turn, s, x)
  BY UndoubledAppend
<1>3. Undoubled(Append(s, x)) = Append(d, x)
  BY <1>2 DEF UndoubledStep
<1> HIDE DEF d
<1>4. LessStep(d, x, R) /\ LessStep(r, x, R)
  BY <1>1, LessAppend
<1>5. Less(Append(d, x), R) = Less(d, R) /\ Less(Append(r, x), R) = Less(r, R)
  BY <1>4 DEF LessStep
<1>6. Less(Undoubled(t), R) = Less(d, R) /\ Less(q, R) = Less(r, R)
  <2>1. CASE t = s
    BY <1>5, <2>1 DEF d
  <2>2. CASE t = Append(s, x)
    BY <1>3, <1>5, <2>2
  <2>3. QED
    BY <2>1, <2>2
<1>7. QED
  BY <1>6 DEF Match, d

\* Without a stray prompt it matches the record, or the record without one.
LEMMA MatchWithoutStray ==
    ASSUME NEW s \in Seq(Turn), NEW r \in Seq(Turn), NEW R, NEW p, Match(s, r, R)
    PROVE  ContextMatches(WithoutStray(s, p), r, R, p)
<1>1. CASE ~(s # <<>> /\ Last(s).role = "user" /\ Last(s).content = p)
  <2>1. WithoutStray(s, p) = s
    BY <1>1 DEF WithoutStray
  <2>2. QED
    BY <2>1 DEF ContextMatches
<1>2. CASE s # <<>> /\ Last(s).role = "user" /\ Last(s).content = p
  <2> DEFINE m == Front(s)
             x == Last(s)
             d == Undoubled(m)
             c == Less(r, R)
  <2>1. WithoutStray(s, p) = m
    BY <1>2 DEF WithoutStray
  <2>2. Split(Turn, s)
    BY <1>2, FrontLast
  <2>3. m \in Seq(Turn) /\ x \in Turn /\ s = Append(m, x)
    BY <2>2 DEF Split
  <2>4. x.role = "user" /\ x.content = p
    BY <1>2
  <2> HIDE DEF m, x
  <2>5. UndoubledStep(Turn, m, x) /\ d \in Seq(Turn) /\ c \in Seq(Turn)
        /\ Less(d, R) \in Seq(Turn)
    BY <2>3, UndoubledAppend, LessType
  <2>6. Ends(Turn, Less(Undoubled(s), R), c)
    BY DEF Match
  <2>7. CASE m # <<>> /\ Last(m) = x
    <3>1. Undoubled(s) = d
      BY <2>3, <2>5, <2>7 DEF UndoubledStep
    <3>2. Match(m, r, R)
      BY <2>6, <3>1 DEF Match
    <3>3. QED
      BY <2>1, <3>2 DEF ContextMatches
  <2>8. CASE ~(m # <<>> /\ Last(m) = x)
    <3>1. Undoubled(s) = Append(d, x)
      BY <2>3, <2>5, <2>8 DEF UndoubledStep
    <3>2. LessStep(d, x, R)
      BY <2>3, <2>5, LessAppend
    <3>3. CASE x.run \in R
      <4>1. Less(Undoubled(s), R) = Less(d, R)
        BY <3>1, <3>2, <3>3 DEF LessStep
      <4>2. Match(m, r, R)
        BY <2>6, <4>1 DEF Match
      <4>3. QED
        BY <2>1, <4>2 DEF ContextMatches
    <3>4. CASE x.run \notin R
      <4>1. Less(Undoubled(s), R) = Append(Less(d, R), x)
        BY <3>1, <3>2, <3>4 DEF LessStep
      <4>2. Ends(Turn, Append(Less(d, R), x), c)
        BY <2>6, <4>1
      <4> HIDE DEF c
      <4>3. c # <<>> /\ Last(c) = x /\ Ends(Turn, Less(d, R), Front(c))
        BY <2>3, <2>5, <4>2, EndsFront
      <4>4. WithoutStray(c, p) = Front(c)
        BY <2>4, <4>3 DEF WithoutStray
      <4>5. QED
        BY <2>1, <4>3, <4>4 DEF ContextMatches, c
    <3>5. QED
      BY <3>3, <3>4
  <2>9. QED
    BY <2>7, <2>8
<1>3. QED
  BY <1>1, <1>2

\* A window is an end, and not empty.
LEMMA WindowEnds ==
    ASSUME NEW S, NEW s \in Seq(S), s # <<>>
    PROVE  Window(s) \in Seq(S) /\ Window(s) # <<>> /\ Ends(S, Window(s), s)
<1> USE MemoryAssumption
<1>1. CASE Len(s) <= max_messages
  <2>1. Window(s) = s
    BY <1>1 DEF Window
  <2>2. QED
    BY <2>1, EndsTrivial
<1>2. CASE ~(Len(s) <= max_messages)
  <2> DEFINE k == Len(s) - max_messages
             b == SubSeq(s, 1, k)
             w == SubSeq(s, k + 1, Len(s))
             t == b \o w
  <2>1. Len(s) \in Nat /\ k \in 1..(Len(s) - 1) /\ Window(s) = w
    BY <1>2 DEF Window
  <2> HIDE DEF k
  <2>2. \A i \in 1..Len(s) : s[i] \in S
    OBVIOUS
  <2>3. b \in Seq(S) /\ Len(b) = k /\ \A i \in 1..k : b[i] = s[i]
    BY <2>1, <2>2
  <2>4. w \in Seq(S) /\ Len(w) = Len(s) - k /\ \A i \in 1..(Len(s) - k) : w[i] = s[k + i]
    BY <2>1, <2>2
  <2> HIDE DEF b, w
  <2>5. t \in Seq(S) /\ Len(t) = Len(s) /\ Len(t) = Len(b) + Len(w)
        /\ \A i \in 1..Len(t) : t[i] = IF i <= Len(b) THEN b[i] ELSE w[i - Len(b)]
    <3>1. Len(b) + Len(w) = Len(s)
      BY <2>1, <2>3, <2>4
    <3>2. t \in Seq(S) /\ Len(t) = Len(b) + Len(w)
          /\ \A i \in 1..Len(t) : t[i] = IF i <= Len(b) THEN b[i] ELSE w[i - Len(b)]
      BY <2>3, <2>4, ConcatProperties
    <3>3. QED
      BY <3>1, <3>2
  <2>6. ASSUME NEW i \in 1..Len(s) PROVE t[i] = s[i]
    <3> HIDE DEF t
    <3>1. CASE i <= k
      BY <2>1, <2>3, <2>5, <3>1
    <3>2. CASE ~(i <= k)
      <4>1. i - k \in 1..(Len(s) - k) /\ k + (i - k) = i
        BY <2>1, <3>2
      <4>2. t[i] = w[i - k]
        BY <2>3, <2>5, <3>2
      <4>3. QED
        BY <2>4, <4>1, <4>2
    <3>3. QED
      BY <3>1, <3>2
  <2> HIDE DEF t
  <2>7. t = s
    BY <2>5, <2>6, SeqEqual
  <2>8. w # <<>>
    BY <2>1, <2>4
  <2>9. QED
    BY <2>1, <2>3, <2>4, <2>7, <2>8 DEF Ends, t
<1>3. QED
  BY <1>1, <1>2

\* The window of a record with one more turn has that turn at its end.
LEMMA WindowAppend ==
    ASSUME NEW S, NEW s \in Seq(S), NEW x \in S
    PROVE  \E m \in Seq(S) : Window(Append(s, x)) = Append(m, x) /\ Ends(S, m, s)
<1> DEFINE t == Append(s, x)
           w == Window(t)
<1>1. t \in Seq(S) /\ Appended(s, x)
  BY AppendLast
<1>2. t # <<>> /\ Last(t) = x /\ Front(t) = s
  BY <1>1 DEF Appended
<1> HIDE DEF t
<1>3. w \in Seq(S) /\ w # <<>> /\ Ends(S, w, t)
  BY <1>1, <1>2, WindowEnds
<1> HIDE DEF w
<1>4. Split(S, w)
  BY <1>3, FrontLast
<1>5. Front(w) \in Seq(S) /\ Last(w) \in S /\ w = Append(Front(w), Last(w))
  BY <1>4 DEF Split
<1>6. Ends(S, Append(Front(w), Last(w)), t)
  BY <1>3, <1>5
<1>7. Last(t) = Last(w) /\ Ends(S, Front(w), Front(t))
  BY <1>1, <1>5, <1>6, EndsFront
<1>8. w = Append(Front(w), x) /\ Ends(S, Front(w), s)
  BY <1>2, <1>5, <1>7
<1>9. QED
  BY <1>5, <1>8 DEF t, w

\* The turns of thread t that are kept are the end of its record.
Conversation(t) ==
    /\ talk[t] \in Seq(UpTo(run)) /\ msgs[t] \in Seq(UpTo(run))
    /\ Undoubled(talk[t]) = talk[t]
    /\ Match(msgs[t], talk[t], raised)

\* The thread of the current run: what it had before the run, its record e and
\* the turns m that were kept, has the prompt of the run perhaps.
CurrentWith(e, m) ==
    /\ Undoubled(e) = e /\ Match(m, e, raised)
    /\ talk[thread] = e \/ talk[thread] = Append(e, User(objective, run))
    /\ msgs[thread] = m \/ msgs[thread] = Append(m, User(objective, run))
    /\ ContextMatches(context, e, raised, objective)

Current == \E e \in Seq(UpTo(run - 1)), m \in Seq(UpTo(run - 1)) : CurrentWith(e, m)

Conversations ==
    /\ \A t \in Threads : pc = "idle" \/ t # thread => Conversation(t)
    /\ pc = "running" => Current

-----------------------------------------------------------------------------

\* An end of a sequence has its entries.
LEMMA EndsType ==
    ASSUME NEW S, NEW s \in Seq(S), NEW T, NEW t \in Seq(T), Ends(S, s, t)
    PROVE  s \in Seq(T)
<1>1. PICK b \in Seq(S) : t = b \o s
  BY DEF Ends
<1>2. ASSUME NEW i \in 1..Len(s) PROVE s[i] \in T
  <2>1. Len(b) + i \in 1..Len(t) /\ t[Len(b) + i] = s[i]
    BY <1>1, <1>2
  <2>2. QED
    BY <2>1
<1>3. QED
  BY <1>2

\* The turns of one run, and of the earlier ones.
LEMMA UpToFacts ==
    ASSUME MemoryTypeOK, NEW p \in Prompts, NEW n \in 1..MaxRuns
    PROVE  /\ User(p, n) \in UpTo(n) /\ User(p, n) \in Turn
           /\ Agent(n) \in UpTo(n) /\ Agent(n) \in Turn
           /\ User(p, n).run = n /\ User(p, n).role = "user" /\ User(p, n).content = p
           /\ Agent(n).run = n /\ User(p, n) # Agent(n)
           /\ \A s \in Seq(UpTo(n - 1)) : s \in Seq(UpTo(n)) /\ s \in Seq(Turn)
           /\ \A s \in Seq(UpTo(n)) : s \in Seq(Turn)
           /\ \A s \in Seq(UpTo(n - 1)) : s = <<>> \/ Last(s) # User(p, n)
<1>1. User(p, n) \in Turn /\ Agent(n) \in Turn
  BY TurnType
<1>2. /\ User(p, n).run = n /\ User(p, n).role = "user" /\ User(p, n).content = p
      /\ Agent(n).run = n /\ Agent(n).role = "assistant"
  BY DEF User, Agent
<1>3. User(p, n) # Agent(n)
  BY <1>2
<1>4. User(p, n) \in UpTo(n) /\ Agent(n) \in UpTo(n)
  BY <1>1, <1>2 DEF UpTo
<1>5. n \in Int /\ n - 1 \in Int /\ (n - 1) + 1 = n /\ n > n - 1
  OBVIOUS
<1>6. \A s \in Seq(UpTo(n - 1)) : s \in Seq(UpTo(n)) /\ s \in Seq(Turn)
  <2>1. Seq(UpTo(n - 1)) \subseteq Seq(UpTo((n - 1) + 1))
    BY <1>5, UpToTurns
  <2>2. Seq(UpTo(n - 1)) \subseteq Seq(Turn)
    BY <1>5, UpToTurns
  <2>3. QED
    BY <1>5, <2>1, <2>2
<1>7. \A s \in Seq(UpTo(n)) : s \in Seq(Turn)
  BY <1>5, UpToTurns
<1>8. \A s \in Seq(UpTo(n - 1)) : s = <<>> \/ Last(s) # User(p, n)
  <2>1. User(p, n).run > n - 1 /\ User(p, n).run \in Int
    BY <1>2
  <2>2. QED
    BY <1>5, <2>1, LaterTurn
<1>9. QED
  BY <1>1, <1>2, <1>3, <1>4, <1>6, <1>7, <1>8

\* No thread has a conversation at first.
LEMMA InitConversations ==
    ASSUME InitMemory PROVE Conversations
<1>1. /\ msgs = [t \in Threads |-> <<>>] /\ talk = [t \in Threads |-> <<>>] /\ pc = "idle"
  BY DEF InitMemory
<1>2. ASSUME NEW t \in Threads PROVE Conversation(t)
  <2>1. msgs[t] = <<>> /\ talk[t] = <<>> /\ <<>> \in Seq(UpTo(run)) /\ <<>> \in Seq(Turn)
    BY <1>1
  <2>2. Match(<<>>, <<>>, raised)
    BY <2>1, MatchEmpty
  <2>3. QED
    BY <2>1, <2>2, UndoubledEmpty DEF Conversation
<1>3. QED
  BY <1>1, <1>2 DEF Conversations

\* A thread that is not run, or has just been, when others are forgotten.
LEMMA OtherConversation ==
    ASSUME MemoryTypeOK, NEW t \in Threads, Conversation(t),
           run' \in 0..MaxRuns, run' = run \/ run' = run + 1, raised' = raised,
           talk'[t] = talk[t], msgs'[t] = msgs[t] \/ msgs'[t] = <<>>
    PROVE  Conversation(t)'
<1>1. run \in Int /\ Seq(UpTo(run)) \subseteq Seq(UpTo(run')) /\ Seq(UpTo(run)) \subseteq Seq(Turn)
  BY UpToTurns DEF MemoryTypeOK
<1>2. talk'[t] \in Seq(UpTo(run')) /\ Undoubled(talk'[t]) = talk'[t] /\ talk'[t] \in Seq(Turn)
  BY <1>1 DEF Conversation
<1>3. msgs'[t] \in Seq(UpTo(run'))
  <2>1. <<>> \in Seq(UpTo(run'))
    OBVIOUS
  <2>2. QED
    BY <1>1, <2>1 DEF Conversation
<1>4. Match(msgs'[t], talk'[t], raised')
  <2>1. CASE msgs'[t] = msgs[t]
    BY <2>1 DEF Conversation
  <2>2. CASE msgs'[t] = <<>>
    BY <1>2, <2>2, MatchEmpty
  <2>3. QED
    BY <2>1, <2>2
<1>5. QED
  BY <1>2, <1>3, <1>4 DEF Conversation

\* A run that begins keeps, of each thread, the end of its record.
LEMMA BeginConversations ==
    ASSUME MemoryTypeOK, UsedInOrder, Conversations,
           NEW t \in Threads, NEW p \in Prompts, NEW early \in BOOLEAN, NEW given \in BOOLEAN,
           Begin(t, p, early, given)
    PROVE  Conversations'
<1> DEFINE n == run + 1
           x == User(p, n)
           e == talk[t]
           record == IF early THEN Append(e, x) ELSE e
<1>1. /\ pc = "idle" /\ run' = n /\ thread' = t /\ objective' = p
      /\ talk' = [talk EXCEPT ![t] = record]
      /\ IF given /\ record # <<>>
         THEN Keep(t, record, n) /\ context' = WithoutStray(record, p)
         ELSE UNCHANGED <<memory, used>> /\ context' = WithoutStray(msgs[t], p)
      /\ pc' = "running" /\ raised' = raised
  BY DEF Begin
<1>2. n \in 1..MaxRuns /\ n - 1 = run /\ run \in Int
  BY MemoryAssumption DEF Begin, MemoryTypeOK
<1>3. /\ x \in UpTo(n) /\ x \in Turn /\ x.role = "user" /\ x.content = p
      /\ \A s \in Seq(UpTo(run)) : s \in Seq(UpTo(n)) /\ s \in Seq(Turn)
  BY <1>2, UpToFacts
<1>4. /\ talk \in [Threads -> Seq(Turn)] /\ msgs \in [Threads -> Seq(Turn)]
      /\ run' \in 0..MaxRuns
  BY <1>1, <1>2 DEF MemoryTypeOK
<1>5. /\ e \in Seq(UpTo(run)) /\ e \in Seq(Turn) /\ Undoubled(e) = e
      /\ msgs[t] \in Seq(UpTo(run)) /\ msgs[t] \in Seq(Turn) /\ Match(msgs[t], e, raised)
  <2>1. Conversation(t)
    BY <1>1 DEF Conversations
  <2>2. QED
    BY <1>3, <2>1 DEF Conversation
<1>6. Match(e, e, raised)
  BY <1>5, MatchSame
<1>7. talk'[t] = record /\ \A u \in Threads \ {t} : talk'[u] = talk[u]
  <2> HIDE DEF record
  <2>1. QED
    BY <1>1, <1>4
<1>8. talk'[t] = e \/ talk'[t] = Append(e, x)
  BY <1>7
<1>9. \A u \in Threads \ {t} : msgs'[u] = msgs[u] \/ msgs'[u] = <<>>
  <2> HIDE DEF record
  <2>1. QED
    BY <1>1, <1>4 DEF Keep, memory
<1>10. ASSUME NEW u \in Threads, u # t PROVE Conversation(u)'
  <2>1. Conversation(u)
    BY <1>1 DEF Conversations
  <2>2. talk'[u] = talk[u] /\ (msgs'[u] = msgs[u] \/ msgs'[u] = <<>>)
    BY <1>7, <1>9, <1>10
  <2>3. QED
    BY <1>1, <1>4, <2>1, <2>2, OtherConversation
<1>11. \E m \in Seq(UpTo(run)) :
          /\ Match(m, e, raised)
          /\ msgs'[t] = m \/ msgs'[t] = Append(m, x)
          /\ ContextMatches(context', e, raised, p)
  <2>1. CASE given /\ record # <<>> /\ early
    <3>1. record = Append(e, x)
      BY <2>1
    <3>2. msgs'[t] = Window(Append(e, x)) /\ context' = WithoutStray(Append(e, x), p)
      <4> HIDE DEF record
      <4>1. QED
        BY <1>1, <2>1, <3>1 DEF Keep
    <3> HIDE DEF e, x, record
    <3>3. PICK m \in Seq(Turn) : Window(Append(e, x)) = Append(m, x) /\ Ends(Turn, m, e)
      BY <1>3, <1>5, WindowAppend
    <3>4. m \in Seq(UpTo(run))
      BY <1>5, <3>3, EndsType
    <3>5. Match(m, e, raised)
      BY <1>5, <1>6, <3>3, MatchEnd
    <3>6. Appended(e, x)
      BY <1>3, <1>5, AppendLast
    <3>7. context' = e
      BY <1>3, <3>2, <3>6 DEF Appended, WithoutStray
    <3>8. ContextMatches(context', e, raised, p)
      BY <1>6, <3>7 DEF ContextMatches
    <3>9. QED
      BY <3>2, <3>3, <3>4, <3>5, <3>8
  <2>2. CASE given /\ record # <<>> /\ ~early
    <3>1. record = e
      BY <2>2
    <3>2. msgs'[t] = Window(e) /\ context' = WithoutStray(e, p) /\ e # <<>>
      <4> HIDE DEF record
      <4>1. QED
        BY <1>1, <2>2, <3>1 DEF Keep
    <3> HIDE DEF e, x, record
    <3>3. Window(e) \in Seq(UpTo(run)) /\ Window(e) \in Seq(Turn) /\ Ends(Turn, Window(e), e)
      BY <1>5, <3>2, WindowEnds
    <3>4. Match(Window(e), e, raised)
      BY <1>5, <1>6, <3>3, MatchEnd
    <3>5. ContextMatches(context', e, raised, p)
      BY <1>5, <1>6, <3>2, MatchWithoutStray
    <3>6. QED
      BY <3>2, <3>3, <3>4, <3>5
  <2>3. CASE ~(given /\ record # <<>>)
    <3>1. msgs' = msgs /\ context' = WithoutStray(msgs[t], p)
      <4> HIDE DEF record
      <4>1. QED
        BY <1>1, <2>3 DEF memory
    <3> HIDE DEF e, x, record
    <3>2. ContextMatches(context', e, raised, p)
      BY <1>5, <3>1, MatchWithoutStray
    <3>3. QED
      BY <1>5, <3>1, <3>2
  <2>4. QED
    BY <2>1, <2>2, <2>3
<1>12. Current'
  <2> HIDE DEF record
  <2>0. PICK r \in Seq(UpTo(run)) : r = e
    BY <1>5
  <2> HIDE DEF e
  <2>1. PICK m \in Seq(UpTo(run)) :
          /\ Match(m, e, raised)
          /\ msgs'[t] = m \/ msgs'[t] = Append(m, x)
          /\ ContextMatches(context', e, raised, p)
    BY <1>11
  <2>2. User(objective', run') = x
    BY <1>1
  <2> HIDE DEF x
  <2>3. CurrentWith(r, m)'
    BY <1>1, <1>5, <1>8, <2>0, <2>1, <2>2 DEF CurrentWith
  <2>4. run' - 1 = run
    BY <1>1, <1>2
  <2>5. QED
    BY <2>3, <2>4 DEF Current
<1>13. QED
  BY <1>1, <1>10, <1>12 DEF Conversations

\* A run that ends keeps, of each thread, the end of its record.
LEMMA EndRunConversations ==
    ASSUME MemoryTypeOK, UsedInOrder, Conversations, NEW answered \in BOOLEAN, EndRun(answered)
    PROVE  Conversations'
<1> DEFINE x == User(objective, run)
           y == Agent(run)
           ms == msgs[thread]
           ta == talk[thread]
           turns == ms \o Turns(answered)
<1>1. /\ pc = "running" /\ pc' = "idle" /\ Keep(thread, turns, run)
      /\ talk' = Recorded(answered) /\ run' = run /\ raised' = raised
  BY DEF EndRun, task
<1>2. /\ run \in 1..MaxRuns /\ run' \in 0..MaxRuns /\ thread \in Threads /\ objective \in Prompts
      /\ talk \in [Threads -> Seq(Turn)] /\ msgs \in [Threads -> Seq(Turn)]
  BY <1>1, MemoryAssumption DEF UsedInOrder, MemoryTypeOK
<1>3. PICK e \in Seq(UpTo(run - 1)), m \in Seq(UpTo(run - 1)) : CurrentWith(e, m)
  BY <1>1 DEF Conversations, Current
<1>4. /\ x \in UpTo(run) /\ x \in Turn /\ y \in UpTo(run) /\ y \in Turn
      /\ x.run = run /\ x # y
      /\ \A s \in Seq(UpTo(run - 1)) : s \in Seq(UpTo(run)) /\ s \in Seq(Turn)
      /\ \A s \in Seq(UpTo(run)) : s \in Seq(Turn)
      /\ \A s \in Seq(UpTo(run - 1)) : s = <<>> \/ Last(s) # x
  BY <1>2, UpToFacts
<1>5. /\ Undoubled(e) = e /\ Match(m, e, raised)
      /\ ta = e \/ ta = Append(e, x)
      /\ ms = m \/ ms = Append(m, x)
  BY <1>3 DEF CurrentWith
<1>6. /\ e \in Seq(UpTo(run)) /\ e \in Seq(Turn) /\ m \in Seq(UpTo(run)) /\ m \in Seq(Turn)
      /\ ms \in Seq(Turn) /\ (e = <<>> \/ Last(e) # x) /\ (m = <<>> \/ Last(m) # x)
  BY <1>2, <1>3, <1>4
<1>7. ms \in Seq(UpTo(run))
  <2>1. Append(m, x) \in Seq(UpTo(run))
    BY <1>4, <1>6
  <2>2. QED
    BY <1>5, <1>6, <2>1
<1>8. /\ msgs'[thread] = Window(turns) /\ talk'[thread] = IF ta # <<>> /\ Last(ta).run = run
                                                         THEN Front(ta) \o Turns(answered)
                                                         ELSE ta \o Turns(answered)
      /\ \A u \in Threads \ {thread} : talk'[u] = talk[u]
      /\ \A u \in Threads \ {thread} : msgs'[u] = msgs[u] \/ msgs'[u] = <<>>
  <2> DEFINE both == IF ta # <<>> /\ Last(ta).run = run THEN Front(ta) \o Turns(answered)
                     ELSE ta \o Turns(answered)
  <2>1. talk' = [talk EXCEPT ![thread] = both]
    BY <1>1 DEF Recorded
  <2> HIDE DEF both, turns
  <2>2. talk'[thread] = both /\ \A u \in Threads \ {thread} : talk'[u] = talk[u]
    BY <1>2, <2>1
  <2>3. /\ msgs'[thread] = Window(turns)
        /\ \A u \in Threads \ {thread} : msgs'[u] = msgs[u] \/ msgs'[u] = <<>>
    BY <1>1, <1>2 DEF Keep
  <2>4. QED
    BY <2>2, <2>3 DEF both
<1>9. ASSUME NEW u \in Threads, u # thread PROVE Conversation(u)'
  <2>1. Conversation(u)
    BY <1>9 DEF Conversations
  <2>2. talk'[u] = talk[u] /\ (msgs'[u] = msgs[u] \/ msgs'[u] = <<>>)
    BY <1>8, <1>9
  <2>3. QED
    BY <1>1, <1>2, <2>1, <2>2, OtherConversation
<1> HIDE DEF x, y, ms, ta
\* The record of the thread, brought up to date.
<1>10. talk'[thread] = e \o Turns(answered)
  <2>1. CASE ta = e
    <3>1. ~(ta # <<>> /\ Last(ta).run = run)
      <4>1. e # <<>> => Last(e) \in UpTo(run - 1)
        BY <1>3 DEF Last
      <4>2. \A turn \in UpTo(run - 1) : turn.run # run
        BY <1>2 DEF UpTo, Turn
      <4>3. QED
        BY <2>1, <4>1, <4>2
    <3>2. QED
      BY <1>8, <2>1, <3>1
  <2>2. CASE ta = Append(e, x)
    <3>1. Appended(e, x)
      BY <1>4, <1>6, AppendLast
    <3>2. ta # <<>> /\ Last(ta) = x /\ Front(ta) = e
      BY <2>2, <3>1 DEF Appended
    <3>3. QED
      BY <1>4, <1>8, <3>2
  <2>3. QED
    BY <1>5, <2>1, <2>2
<1> DEFINE e1 == Append(e, x)
           m1 == Append(ms, x)
           e2 == Append(e1, y)
           m2 == Append(m1, y)
<1>11. TwoEntries(e, x, y) /\ TwoEntries(ms, x, y)
  BY <1>4, <1>6, TwoEntriesHold
<1>12. /\ answered => talk'[thread] = e2 /\ turns = m2
       /\ ~answered => talk'[thread] = e1 /\ turns = m1
  BY <1>10, <1>11 DEF Turns, TwoEntries, x, y
<1>13. /\ Appended(e, x) /\ Appended(ms, x)
  BY <1>4, <1>6, AppendLast
<1>14. /\ e1 \in Seq(UpTo(run)) /\ e1 \in Seq(Turn) /\ e1 # <<>> /\ Last(e1) = x
       /\ m1 \in Seq(UpTo(run)) /\ m1 \in Seq(Turn) /\ m1 # <<>> /\ Last(m1) = x
  BY <1>4, <1>6, <1>7, <1>13 DEF Appended
<1>15. Match(m1, e1, raised)
  <2>1. Match(Append(m, x), e1, raised)
    BY <1>4, <1>5, <1>6, MatchAppend
  <2>2. CASE ms = m
    BY <2>1, <2>2
  <2>3. CASE ms = Append(m, x)
    <3>1. Appended(m, x)
      BY <1>4, <1>6, AppendLast
    <3>2. ms # <<>> /\ Last(ms) = x
      BY <2>3, <3>1 DEF Appended
    <3>3. Match(ms, e1, raised)
      BY <2>1, <2>3
    <3> HIDE DEF e1
    <3>4. QED
      BY <1>4, <1>6, <3>2, <3>3, MatchDoubled
  <2>4. QED
    BY <1>5, <2>2, <2>3
<1>16. Undoubled(e1) = e1
  <2>1. UndoubledStep(Turn, e, x)
    BY <1>4, <1>6, UndoubledAppend
  <2>2. QED
    BY <1>5, <1>6, <2>1 DEF UndoubledStep
<1> HIDE DEF e1, m1
<1>17. Match(m2, e2, raised)
  BY <1>4, <1>14, <1>15, MatchAppend
<1>18. Undoubled(e2) = e2
  <2>1. UndoubledStep(Turn, e1, y)
    BY <1>4, <1>14, UndoubledAppend
  <2>2. QED
    BY <1>4, <1>14, <1>16, <2>1 DEF UndoubledStep
<1>19. /\ e2 \in Seq(UpTo(run)) /\ e2 \in Seq(Turn) /\ m2 \in Seq(UpTo(run)) /\ m2 \in Seq(Turn)
       /\ m2 # <<>>
  BY <1>4, <1>14
<1> HIDE DEF e2, m2, turns
<1>20. /\ talk'[thread] \in Seq(UpTo(run)) /\ talk'[thread] \in Seq(Turn)
       /\ Undoubled(talk'[thread]) = talk'[thread]
       /\ turns \in Seq(UpTo(run)) /\ turns \in Seq(Turn) /\ turns # <<>>
       /\ Match(turns, talk'[thread], raised)
  <2>1. CASE answered
    BY <1>12, <1>17, <1>18, <1>19, <2>1
  <2>2. CASE ~answered
    BY <1>12, <1>14, <1>15, <1>16, <2>2
  <2>3. QED
    BY <2>1, <2>2
<1>21. Window(turns) \in Seq(UpTo(run)) /\ Window(turns) \in Seq(Turn) /\ Ends(Turn, Window(turns), turns)
  BY <1>20, WindowEnds
<1>22. Match(Window(turns), talk'[thread], raised)
  BY <1>20, <1>21, MatchEnd
<1>23. \A u \in Threads : Conversation(u)'
  <2>1. ASSUME NEW u \in Threads, u = thread PROVE Conversation(u)'
    BY <1>1, <1>8, <1>20, <1>21, <1>22, <2>1 DEF Conversation
  <2>2. QED
    BY <1>9, <2>1
<1>24. QED
  BY <1>1, <1>23 DEF Conversations

\* A run that fails keeps, of each thread, the end of its record.
LEMMA RunRaisesConversations ==
    ASSUME MemoryTypeOK, UsedInOrder, Conversations, RunRaises
    PROVE  Conversations'
<1> DEFINE x == User(objective, run)
           ms == msgs[thread]
           ta == talk[thread]
           R == raised \cup {run}
<1>1. /\ pc = "running" /\ pc' = "idle" /\ raised' = R
      /\ run' = run /\ thread' = thread /\ msgs' = msgs /\ talk' = talk
  BY DEF RunRaises, memory, task
<1>2. /\ run \in 1..MaxRuns /\ thread \in Threads /\ objective \in Prompts
      /\ talk \in [Threads -> Seq(Turn)] /\ msgs \in [Threads -> Seq(Turn)]
  BY <1>1, MemoryAssumption DEF UsedInOrder, MemoryTypeOK
<1>3. ASSUME NEW u \in Threads, u # thread PROVE Conversation(u)'
  <2>1. Conversation(u)
    BY <1>3 DEF Conversations
  <2>2. Match(msgs[u], talk[u], raised) /\ msgs[u] \in Seq(Turn) /\ talk[u] \in Seq(Turn)
    BY <1>2, <2>1 DEF Conversation
  <2>3. Match(msgs[u], talk[u], R)
    BY <2>2, MatchLess
  <2>4. QED
    BY <1>1, <2>1, <2>3 DEF Conversation
<1>4. PICK e \in Seq(UpTo(run - 1)), m \in Seq(UpTo(run - 1)) : CurrentWith(e, m)
  BY <1>1 DEF Conversations, Current
<1>5. /\ x \in UpTo(run) /\ x \in Turn /\ x.run = run
      /\ \A s \in Seq(UpTo(run - 1)) : s \in Seq(UpTo(run)) /\ s \in Seq(Turn)
      /\ \A s \in Seq(UpTo(run - 1)) : s = <<>> \/ Last(s) # x
  BY <1>2, UpToFacts
<1>6. /\ Undoubled(e) = e /\ Match(m, e, raised)
      /\ ta = e \/ ta = Append(e, x)
      /\ ms = m \/ ms = Append(m, x)
  BY <1>4 DEF CurrentWith
<1>7. /\ e \in Seq(UpTo(run)) /\ e \in Seq(Turn) /\ m \in Seq(UpTo(run)) /\ m \in Seq(Turn)
      /\ (e = <<>> \/ Last(e) # x) /\ (m = <<>> \/ Last(m) # x)
  BY <1>4, <1>5
<1> HIDE DEF x, ms, ta
<1>8. ms \in Seq(UpTo(run)) /\ ta \in Seq(UpTo(run))
  <2>1. Append(m, x) \in Seq(UpTo(run)) /\ Append(e, x) \in Seq(UpTo(run))
    BY <1>5, <1>7
  <2>2. QED
    BY <1>6, <1>7, <2>1
<1>9. Undoubled(ta) = ta
  <2>1. UndoubledStep(Turn, e, x)
    BY <1>5, <1>7, UndoubledAppend
  <2>2. Undoubled(Append(e, x)) = Append(e, x)
    BY <1>6, <1>7, <2>1 DEF UndoubledStep
  <2>3. QED
    BY <1>6, <2>2
<1>10. Match(ms, ta, R)
  <2>1. x.run \in R
    BY <1>5
  <2>2. Match(m, e, R)
    BY <1>6, <1>7, MatchLess
  <2> HIDE DEF R
  <2>3. QED
    BY <1>5, <1>6, <1>7, <2>1, <2>2, MatchLeftOut
<1>11. \A u \in Threads : Conversation(u)'
  <2>1. ASSUME NEW u \in Threads, u = thread PROVE Conversation(u)'
    BY <1>1, <1>8, <1>9, <1>10, <2>1 DEF Conversation, ms, ta
  <2>2. QED
    BY <1>3, <2>1
<1>12. QED
  BY <1>1, <1>11 DEF Conversations

\* Every step keeps, of each thread, the end of its record.
LEMMA MemoryConversations ==
    ASSUME MemoryTypeOK, UsedInOrder, Conversations, [NextMemory]_vars_memory
    PROVE  Conversations'
<1>1. ASSUME NEW t \in Threads, NEW p \in Prompts, NEW early \in BOOLEAN, NEW given \in BOOLEAN,
             Begin(t, p, early, given)
      PROVE  Conversations'
  BY <1>1, BeginConversations
<1>2. ASSUME NEW answered \in BOOLEAN, EndRun(answered)
      PROVE  Conversations'
  BY <1>2, EndRunConversations
<1>3. CASE RunRaises
  BY <1>3, RunRaisesConversations
<1>4. CASE UNCHANGED vars_memory
  <2>1. UNCHANGED <<msgs, pc, run, thread, objective, context, talk, raised>>
    BY <1>4 DEF vars_memory, memory, task
  <2>2. (\A t \in Threads : pc = "idle" \/ t # thread => Conversation(t))'
    BY <2>1 DEF Conversations, Conversation
  <2>3. (pc = "running" => Current)'
    BY <2>1 DEF Conversations, Current, CurrentWith
  <2>4. QED
    BY <2>2, <2>3 DEF Conversations
<1>5. QED
  BY <1>1, <1>2, <1>3, <1>4 DEF NextMemory

\* The context of a run, from what its thread had before it.
LEMMA ContextFits ==
    ASSUME MemoryTypeOK, UsedInOrder, Conversations
    PROVE  ContextInOrder
<1> SUFFICES ASSUME pc = "running"
             PROVE  \/ IsSuffix(Served(Undoubled(context)), Served(Earlier))
                    \/ IsSuffix(Served(Undoubled(context)), WithoutStray(Served(Earlier), objective))
  BY DEF ContextInOrder
<1> DEFINE x == User(objective, run)
<1>1. run \in 1..MaxRuns /\ thread \in Threads /\ objective \in Prompts /\ context \in Seq(Turn)
  BY MemoryAssumption DEF UsedInOrder, MemoryTypeOK
<1>2. PICK e \in Seq(UpTo(run - 1)), m \in Seq(UpTo(run - 1)) : CurrentWith(e, m)
  BY DEF Conversations, Current
<1>3. /\ x \in Turn /\ x.run = run /\ e \in Seq(Turn)
  BY <1>1, <1>2, UpToFacts
<1>4. /\ talk[thread] = e \/ talk[thread] = Append(e, x)
      /\ ContextMatches(context, e, raised, objective)
  BY <1>2 DEF CurrentWith
<1> HIDE DEF x
<1>5. Earlier = e
  <2>1. run - 1 \in Int /\ (run - 1) + 1 = run
    BY <1>1
  <2>2. Less(e, {(run - 1) + 1}) = e /\ Less(Append(e, x), {(run - 1) + 1}) = e
    BY <1>2, <1>3, <2>1, LessLater
  <2>3. QED
    BY <1>4, <2>1, <2>2 DEF Earlier
<1>6. Served(Earlier) = Less(e, raised) /\ Served(Undoubled(context)) = Less(Undoubled(context), raised)
  BY <1>5 DEF Served
<1>7. Less(e, raised) \in Seq(Turn) /\ Less(Undoubled(context), raised) \in Seq(Turn)
      /\ WithoutStray(Less(e, raised), objective) \in Seq(Turn)
  BY <1>1, <1>3, LessType, WithoutStrayType
<1>8. CASE Match(context, e, raised)
  <2>1. Ends(Turn, Less(Undoubled(context), raised), Less(e, raised))
    BY <1>8 DEF Match
  <2>2. IsSuffix(Less(Undoubled(context), raised), Less(e, raised))
    BY <1>7, <2>1, EndsIsSuffix
  <2>3. QED
    BY <1>6, <2>2
<1>9. CASE Ends(Turn, Less(Undoubled(context), raised), WithoutStray(Less(e, raised), objective))
  <2>1. IsSuffix(Less(Undoubled(context), raised), WithoutStray(Less(e, raised), objective))
    BY <1>7, <1>9, EndsIsSuffix
  <2>2. QED
    BY <1>6, <2>1
<1>10. QED
  BY <1>4, <1>8, <1>9 DEF ContextMatches

\* SessionMemory.append and _run_agent: whatever runs end or fail in whatever threads, the
\* context a run is given is the end of the conversation of its own thread, in order.
THEOREM ContextInOrderHolds == SpecMemory => []ContextInOrder
<1>1. InitMemory => MemoryTypeOK /\ UsedInOrder /\ Conversations
  BY InitInOrder, InitConversations
<1>2. MemoryTypeOK /\ UsedInOrder /\ Conversations /\ [NextMemory]_vars_memory
         => MemoryTypeOK' /\ UsedInOrder' /\ Conversations'
  BY MemoryInOrder, MemoryConversations
<1>3. MemoryTypeOK /\ UsedInOrder /\ Conversations => ContextInOrder
  BY ContextFits
<1>4. QED
  BY <1>1, <1>2, <1>3, PTL DEF SpecMemory

-----------------------------------------------------------------------------
(* The orchestrator *)

-----------------------------------------------------------------------------
(* Templates *)

\* The template that serves a category is found again by its role.
LEMMA RoleServes ==
    ASSUME NEW c, Serving(c) # {}
    PROVE  /\ RoleFor(c) \in Roles
           /\ c \in Template(RoleFor(c)).categories
<1> USE OrchestratorAssumption
<1>1. DOMAIN Templates = 1..Len(Templates) /\ Len(Templates) \in Nat
  OBVIOUS
<1>2. Serving(c) \subseteq Nat /\ Serving(c) \subseteq DOMAIN Templates
      /\ \A k \in Serving(c) : c \in Templates[k].categories
  BY <1>1 DEF Serving
<1>3. \E k \in Serving(c) : \A j \in Serving(c) : k <= j
  BY <1>2, LeastNumber
<1> DEFINE first == CHOOSE k \in Serving(c) : \A j \in Serving(c) : k <= j
<1>4. first \in Serving(c) /\ RoleFor(c) = Templates[first].role
  BY <1>3 DEF RoleFor
<1> HIDE DEF first
<1> DEFINE found == CHOOSE k \in DOMAIN Templates : Templates[k].role = RoleFor(c)
<1>5. found \in DOMAIN Templates /\ Templates[found].role = RoleFor(c)
  BY <1>2, <1>4
<1>6. found = first
  BY <1>2, <1>4, <1>5
<1>7. Template(RoleFor(c)) = Templates[found]
  BY DEF Template
<1>8. QED
  BY <1>2, <1>4, <1>6, <1>7 DEF Roles

\* The least risky of the tools for a category is one of them.
LEMMA ChosenServes ==
    ASSUME NEW c, Options(c) # {}
    PROVE  Chosen(c) \in Options(c)
<1> DEFINE Least(t) == \A u \in Options(c) :
              \/ RiskRank(t.risk) < RiskRank(u.risk)
              \/ RiskRank(t.risk) = RiskRank(u.risk) /\ t.tool_id <= u.tool_id
           ranks == {RiskRank(t.risk) : t \in Options(c)}
<1>1. \A t \in Options(c) : t.tool_id \in Nat
  BY OrchestratorAssumption DEF Options
<1>2. \A risk : RiskRank(risk) \in Nat
  <2>1. ASSUME NEW risk PROVE RiskRank(risk) \in Nat
    <3>1. CASE risk = "low"
      BY <3>1 DEF RiskRank
    <3>2. CASE risk = "medium"
      BY <3>2 DEF RiskRank
    <3>3. CASE risk = "high"
      BY <3>3 DEF RiskRank
    <3>4. CASE risk \notin {"low", "medium", "high"}
      BY <3>4 DEF RiskRank
    <3>5. QED
      BY <3>1, <3>2, <3>3, <3>4
  <2>2. QED
    BY <2>1
<1>3. PICK n \in ranks : \A m \in ranks : n <= m
  <2>1. ranks \subseteq Nat /\ ranks # {}
    BY <1>2
  <2> HIDE DEF ranks
  <2>2. QED
    BY <2>1, LeastNumber
<1> DEFINE ids == {t.tool_id : t \in {u \in Options(c) : RiskRank(u.risk) = n}}
<1>4. PICK i \in ids : \A j \in ids : i <= j
  <2>1. ids \subseteq Nat /\ ids # {}
    BY <1>1
  <2> HIDE DEF ids
  <2>2. QED
    BY <2>1, LeastNumber
<1>5. PICK t \in Options(c) : RiskRank(t.risk) = n /\ t.tool_id = i
  BY <1>4
<1>6. ASSUME NEW u \in Options(c)
      PROVE  \/ RiskRank(t.risk) < RiskRank(u.risk)
             \/ RiskRank(t.risk) = RiskRank(u.risk) /\ t.tool_id <= u.tool_id
  <2>1. n <= RiskRank(u.risk) /\ RiskRank(u.risk) \in Nat /\ n \in Nat
    BY <1>2, <1>3, <1>5
  <2>2. RiskRank(u.risk) = n => i <= u.tool_id
    BY <1>4
  <2>3. QED
    BY <1>5, <2>1, <2>2
<1>7. Least(t)
  BY <1>6
<1>8. Chosen(c) = CHOOSE v \in Options(c) : Least(v)
  BY DEF Chosen
<1> HIDE DEF Least
<1>9. QED
  BY <1>5, <1>7, <1>8

-----------------------------------------------------------------------------
(* Routed plans *)

\* A routed plan that needs no review has a signal for each category, and no high risk.
LEMMA RoutedIsSafe ==
    ASSUME NEW q \in Requests, ~RoutedPlan(q, FALSE).review
    PROVE  LET plan == RoutedPlan(q, FALSE)
           IN  /\ [k \in DOMAIN plan.signals |-> plan.signals[k].category] = q
               /\ \A k \in DOMAIN plan.signals :
                     /\ plan.signals[k].tool.risk # "high"
                     /\ plan.signals[k].category \in plan.signals[k].tool.categories
<1> DEFINE able == {c \in ToSet(q) : Options(c) # {}}
           served == Filtered(q, able)
           plan == RoutedPlan(q, FALSE)
           signals == [k \in DOMAIN served |-> [tool |-> Chosen(served[k]), category |-> served[k]]]
<1>1. q \in Seq(Required) /\ DOMAIN q = 1..Len(q)
  BY OrchestratorAssumption
<1>2. /\ plan.signals = signals
      /\ plan.review <=> \/ Len(served) < Len(q)
                         \/ \E k \in DOMAIN served : Chosen(served[k]).risk = "high"
  BY DEF RoutedPlan
<1>3. /\ served \in Seq(Required) /\ Len(served) <= Len(q)
      /\ Range(served) = Range(q) \cap able
      /\ Len(served) = Len(q) => served = q
  BY <1>1, FilteredKeeps
<1> HIDE DEF served, plan
<1>4. served = q /\ \A k \in DOMAIN served : Chosen(served[k]).risk # "high"
  <2>0. ~(Len(served) < Len(q))
    BY <1>2, Zenon DEF plan
  <2>1. Len(served) \in Nat /\ Len(q) \in Nat
    BY <1>1, <1>3
  <2>2. Len(served) = Len(q)
    BY <1>3, <2>0, <2>1
  <2>3. \A k \in DOMAIN served : Chosen(served[k]).risk # "high"
    BY <1>2 DEF plan
  <2>4. QED
    BY <1>3, <2>2, <2>3
<1>5. \A k \in DOMAIN served : served[k] \in Chosen(served[k]).categories
  <2>1. ASSUME NEW k \in DOMAIN served PROVE served[k] \in Chosen(served[k]).categories
    <3>1. served[k] \in able
      BY <1>3 DEF Range
    <3>2. Options(served[k]) # {}
      BY <3>1
    <3>3. Chosen(served[k]) \in Options(served[k])
      BY <3>2, ChosenServes
    <3>4. QED
      BY <3>3 DEF Options
  <2>2. QED
    BY <2>1
<1>6. [k \in DOMAIN signals |-> signals[k].category] = q
  <2>1. DOMAIN signals = DOMAIN q /\ \A k \in DOMAIN q : signals[k].category = q[k]
    BY <1>4
  <2>2. q = [k \in DOMAIN q |-> q[k]]
    BY <1>1
  <2> HIDE DEF signals
  <2>3. QED
    BY <2>1, <2>2
<1>7. \A k \in DOMAIN signals : /\ signals[k].tool.risk # "high"
                                /\ signals[k].category \in signals[k].tool.categories
  BY <1>4, <1>5
<1>8. QED
  BY <1>2, <1>6, <1>7 DEF plan

-----------------------------------------------------------------------------
(* The work of a plan *)

\* The actions of the plans of a task.
Acts(id) == {Action(phase, PlanMachine(id, role), c) :
                phase \in {"provision_worker", "signal_request", "cleanup_worker"},
                role \in Roles, c \in Required \cup {"lifecycle"}}

SignalActs(id) == {a \in Acts(id) : a.phase = "signal_request"}

\* The worker for the k-th category of a request.
WorkerFor(id, r, k) == PlanMachine(id, RoleFor(r[k]))

Provision(id, r, k) == Action("provision_worker", WorkerFor(id, r, k), r[k])
Signal(id, r, k) == Action("signal_request", WorkerFor(id, r, k), r[k])

\* The workers for the first k of them.
WorkersFor(id, r, k) == {WorkerFor(id, r, j) : j \in {i \in 1..k : Serving(r[i]) # {}}}

Provisioned(b) == {b[i].machine : i \in {j \in 1..Len(b) : b[j].phase = "provision_worker"}}

\* Signals follow the provision of their machines, and nothing is terminated.
WellMade(id, b) ==
    /\ b \in Seq(Acts(id))
    /\ \A i \in 1..Len(b) : b[i].phase # "cleanup_worker"
    /\ \A i \in 1..Len(b) : b[i].phase = "signal_request" =>
          \E j \in 1..(i - 1) : b[j].phase = "provision_worker" /\ b[j].machine = b[i].machine

\* There is one signal for each of the first k categories.
Complete(id, b, r, k) ==
    (\A j \in 1..k : Serving(r[j]) # {}) =>
        /\ Len(Filtered(b, SignalActs(id))) = k
        /\ \A j \in 1..k : Filtered(b, SignalActs(id))[j] = Signal(id, r, j)

Does(id, b, r, k) ==
    WellMade(id, b) /\ Provisioned(b) = WorkersFor(id, r, k) /\ Complete(id, b, r, k)

\* The actions that a category adds to a plan.
LEMMA ActsType ==
    ASSUME NEW id, NEW r \in Requests, NEW k \in 1..Len(r), Serving(r[k]) # {}
    PROVE  /\ Provision(id, r, k) \in Acts(id) /\ Signal(id, r, k) \in SignalActs(id)
           /\ Signal(id, r, k) \in Acts(id) /\ Provision(id, r, k) \notin SignalActs(id)
           /\ Provision(id, r, k).phase = "provision_worker"
           /\ Signal(id, r, k).phase = "signal_request"
           /\ Provision(id, r, k).machine = WorkerFor(id, r, k)
           /\ Signal(id, r, k).machine = WorkerFor(id, r, k)
<1>1. r[k] \in Required /\ RoleFor(r[k]) \in Roles
  BY OrchestratorAssumption, RoleServes
<1>2. /\ Provision(id, r, k).phase = "provision_worker" /\ Signal(id, r, k).phase = "signal_request"
      /\ Provision(id, r, k).machine = WorkerFor(id, r, k)
      /\ Signal(id, r, k).machine = WorkerFor(id, r, k)
  BY DEF Provision, Signal, Action
<1>3. Provision(id, r, k) \in Acts(id) /\ Signal(id, r, k) \in Acts(id)
  BY <1>1 DEF Acts, Provision, Signal, WorkerFor
<1>4. QED
  BY <1>2, <1>3 DEF SignalActs

\* A machine is provisioned.
LEMMA ProvisionWellMade ==
    ASSUME NEW id, NEW b, WellMade(id, b), NEW x \in Acts(id), x.phase = "provision_worker"
    PROVE  WellMade(id, Append(b, x)) /\ Provisioned(Append(b, x)) = Provisioned(b) \cup {x.machine}
<1> DEFINE c == Append(b, x)
<1>1. /\ b \in Seq(Acts(id)) /\ c \in Seq(Acts(id)) /\ Len(c) = Len(b) + 1 /\ Len(b) \in Nat
      /\ \A i \in 1..Len(b) : c[i] = b[i]
      /\ c[Len(c)] = x
  BY DEF WellMade
<1>2. \A i \in 1..Len(c) : i = Len(c) \/ i \in 1..Len(b)
  BY <1>1
<1>3. \A i \in 1..Len(b) : i \in 1..Len(c) /\ \A j \in 1..(i - 1) : j \in 1..Len(b)
  BY <1>1
<1>4. Len(c) \in 1..Len(c)
  BY <1>1
<1> HIDE DEF c
<1>5. WellMade(id, c)
  <2>1. \A i \in 1..Len(c) : c[i].phase # "cleanup_worker"
    BY <1>1, <1>2 DEF WellMade
  <2>2. ASSUME NEW i \in 1..Len(c), c[i].phase = "signal_request"
        PROVE  \E j \in 1..(i - 1) : c[j].phase = "provision_worker" /\ c[j].machine = c[i].machine
    <3>1. i \in 1..Len(b)
      BY <1>1, <1>2, <2>2
    <3>2. b[i].phase = "signal_request" /\ c[i] = b[i]
      BY <1>1, <2>2, <3>1
    <3>3. PICK j \in 1..(i - 1) : b[j].phase = "provision_worker" /\ b[j].machine = b[i].machine
      BY <3>1, <3>2 DEF WellMade
    <3>4. c[j] = b[j]
      BY <1>1, <1>3, <3>1
    <3>5. QED
      BY <3>2, <3>3, <3>4
  <2>3. QED
    BY <1>1, <2>1, <2>2 DEF WellMade
<1>6. Provisioned(c) = Provisioned(b) \cup {x.machine}
  <2>1. ASSUME NEW m \in Provisioned(c) PROVE m \in Provisioned(b) \cup {x.machine}
    BY <1>1, <1>2, <2>1 DEF Provisioned
  <2>2. ASSUME NEW m \in Provisioned(b) PROVE m \in Provisioned(c)
    BY <1>1, <1>3, <2>2 DEF Provisioned
  <2>3. x.machine \in Provisioned(c)
    BY <1>1, <1>4 DEF Provisioned
  <2>4. QED
    BY <2>1, <2>2, <2>3
<1>7. QED
  BY <1>5, <1>6 DEF c

\* A machine that is provisioned is signalled.
LEMMA SignalWellMade ==
    ASSUME NEW id, NEW b, WellMade(id, b), NEW x \in Acts(id), x.phase = "signal_request",
           x.machine \in Provisioned(b)
    PROVE  WellMade(id, Append(b, x)) /\ Provisioned(Append(b, x)) = Provisioned(b)
<1> DEFINE c == Append(b, x)
<1>1. /\ b \in Seq(Acts(id)) /\ c \in Seq(Acts(id)) /\ Len(c) = Len(b) + 1 /\ Len(b) \in Nat
      /\ \A i \in 1..Len(b) : c[i] = b[i]
      /\ c[Len(c)] = x
  BY DEF WellMade
<1>2. \A i \in 1..Len(c) : i = Len(c) \/ i \in 1..Len(b)
  BY <1>1
<1>3. \A i \in 1..Len(b) : i \in 1..Len(c) /\ \A j \in 1..(i - 1) : j \in 1..Len(b)
  BY <1>1
<1>4. 1..(Len(c) - 1) = 1..Len(b)
  BY <1>1
<1> HIDE DEF c
<1>5. WellMade(id, c)
  <2>1. \A i \in 1..Len(c) : c[i].phase # "cleanup_worker"
    BY <1>1, <1>2 DEF WellMade
  <2>2. ASSUME NEW i \in 1..Len(c), c[i].phase = "signal_request"
        PROVE  \E j \in 1..(i - 1) : c[j].phase = "provision_worker" /\ c[j].machine = c[i].machine
    <3>1. CASE i \in 1..Len(b)
      <4>1. b[i].phase = "signal_request" /\ c[i] = b[i]
        BY <1>1, <2>2, <3>1
      <4>2. PICK j \in 1..(i - 1) : b[j].phase = "provision_worker" /\ b[j].machine = b[i].machine
        BY <3>1, <4>1 DEF WellMade
      <4>3. c[j] = b[j]
        BY <1>1, <1>3, <3>1
      <4>4. QED
        BY <4>1, <4>2, <4>3
    <3>2. CASE i = Len(c)
      <4>1. PICK j \in 1..Len(b) : b[j].phase = "provision_worker" /\ b[j].machine = x.machine
        BY DEF Provisioned
      <4>2. c[j] = b[j] /\ c[i] = x /\ j \in 1..(i - 1)
        BY <1>1, <1>4, <3>2
      <4>3. QED
        BY <4>1, <4>2
    <3>3. QED
      BY <1>2, <3>1, <3>2
  <2>3. QED
    BY <1>1, <2>1, <2>2 DEF WellMade
<1>6. Provisioned(c) = Provisioned(b)
  <2>1. ASSUME NEW m \in Provisioned(c) PROVE m \in Provisioned(b)
    BY <1>1, <1>2, <2>1 DEF Provisioned
  <2>2. ASSUME NEW m \in Provisioned(b) PROVE m \in Provisioned(c)
    BY <1>1, <1>3, <2>2 DEF Provisioned
  <2>3. QED
    BY <2>1, <2>2
<1>7. QED
  BY <1>5, <1>6 DEF c

\* A category adds the start of a worker and a signal, a signal, or nothing.
LEMMA StepsAre ==
    ASSUME NEW id, NEW r, NEW k
    PROVE  /\ Serving(r[k]) = {} => Steps(id, r, k) = <<>>
           /\ Serving(r[k]) # {} /\ Launches(r, k) =>
                 Steps(id, r, k) = <<Provision(id, r, k), Signal(id, r, k)>>
           /\ Serving(r[k]) # {} /\ ~Launches(r, k) => Steps(id, r, k) = <<Signal(id, r, k)>>
BY DEF Steps, Provision, Signal, WorkerFor

\* The workers for one more category.
LEMMA WorkersStep ==
    ASSUME NEW id, NEW r, NEW k \in Nat \ {0}
    PROVE  /\ Serving(r[k]) = {} => WorkersFor(id, r, k) = WorkersFor(id, r, k - 1)
           /\ Serving(r[k]) # {} => WorkersFor(id, r, k) = WorkersFor(id, r, k - 1) \cup {WorkerFor(id, r, k)}
           /\ Serving(r[k]) # {} /\ ~Launches(r, k) => WorkerFor(id, r, k) \in WorkersFor(id, r, k - 1)
<1>1. 1..k = 1..(k - 1) \cup {k}
  OBVIOUS
<1>2. Serving(r[k]) # {} /\ ~Launches(r, k) => WorkerFor(id, r, k) \in WorkersFor(id, r, k - 1)
  BY DEF Launches, WorkersFor, WorkerFor
<1>3. /\ Serving(r[k]) = {} => WorkersFor(id, r, k) = WorkersFor(id, r, k - 1)
      /\ Serving(r[k]) # {} => WorkersFor(id, r, k) = WorkersFor(id, r, k - 1) \cup {WorkerFor(id, r, k)}
  <2> DEFINE T == {i \in 1..k : Serving(r[i]) # {}}
             U == {i \in 1..(k - 1) : Serving(r[i]) # {}}
  <2>1. (Serving(r[k]) = {} => T = U) /\ (Serving(r[k]) # {} => T = U \cup {k})
    BY <1>1
  <2>2. WorkersFor(id, r, k) = {WorkerFor(id, r, j) : j \in T}
        /\ WorkersFor(id, r, k - 1) = {WorkerFor(id, r, j) : j \in U}
    BY DEF WorkersFor
  <2> HIDE DEF T, U
  <2>3. QED
    BY <2>1, <2>2
<1>4. QED
  BY <1>2, <1>3

\* A signal completes one category more.
LEMMA CompleteSignal ==
    ASSUME NEW id, NEW b \in Seq(Acts(id)), NEW r \in Requests, NEW k \in 1..Len(r),
           Serving(r[k]) # {}, Complete(id, b, r, k - 1)
    PROVE  Complete(id, Append(b, Signal(id, r, k)), r, k)
<1> DEFINE x == Signal(id, r, k)
           T == SignalActs(id)
           f == Filtered(b, T)
           g == Filtered(Append(b, x), T)
<1>1. x \in Acts(id) /\ x \in T
  BY ActsType
<1>2. FilteredStep(Acts(id), b, x, T)
  BY <1>1, FilteredAppend
<1>3. f \in Seq(Acts(id)) /\ g = Append(f, x)
  BY <1>1, <1>2 DEF FilteredStep
<1> HIDE DEF f, g, x
<1>4. /\ Len(f) \in Nat /\ Len(g) = Len(f) + 1 /\ g[Len(f) + 1] = x
      /\ \A i \in 1..Len(f) : g[i] = f[i]
  BY <1>1, <1>3
<1>5. SUFFICES ASSUME \A j \in 1..k : Serving(r[j]) # {}
               PROVE  Len(g) = k /\ \A j \in 1..k : g[j] = Signal(id, r, j)
  BY DEF Complete, g, x
<1>6. k \in Nat /\ \A j \in 1..k : j = k \/ j \in 1..(k - 1)
  OBVIOUS
<1>7. \A j \in 1..(k - 1) : Serving(r[j]) # {}
  BY <1>5, <1>6
<1>8. Len(f) = k - 1 /\ \A j \in 1..(k - 1) : f[j] = Signal(id, r, j)
  BY <1>7 DEF Complete, f
<1>9. Len(g) = k /\ g[k] = x
  BY <1>4, <1>6, <1>8
<1>10. \A j \in 1..(k - 1) : g[j] = Signal(id, r, j)
  BY <1>4, <1>8
<1>11. QED
  BY <1>6, <1>9, <1>10 DEF x

\* A provision completes nothing.
LEMMA CompleteProvision ==
    ASSUME NEW id, NEW b \in Seq(Acts(id)), NEW r \in Requests, NEW k \in 1..Len(r),
           Serving(r[k]) # {}, Complete(id, b, r, k - 1)
    PROVE  Complete(id, Append(b, Provision(id, r, k)), r, k - 1)
<1> DEFINE x == Provision(id, r, k)
           T == SignalActs(id)
<1>1. x \in Acts(id) /\ x \notin T
  BY ActsType
<1>2. FilteredStep(Acts(id), b, x, T)
  BY <1>1, FilteredAppend
<1>3. Filtered(Append(b, x), T) = Filtered(b, T)
  BY <1>1, <1>2 DEF FilteredStep
<1>4. QED
  BY <1>3 DEF Complete

\* With its next category, a plan serves one category more.
LEMMA DoesStep ==
    ASSUME NEW id, NEW b, NEW r \in Requests, NEW k \in 1..Len(r), Does(id, b, r, k - 1)
    PROVE  Does(id, b \o Steps(id, r, k), r, k)
<1> DEFINE x == Provision(id, r, k)
           y == Signal(id, r, k)
<1>1. /\ WellMade(id, b) /\ Provisioned(b) = WorkersFor(id, r, k - 1) /\ Complete(id, b, r, k - 1)
      /\ b \in Seq(Acts(id))
  BY DEF Does, WellMade
<1>2. k \in Nat \ {0}
  BY OrchestratorAssumption
<1>3. CASE Serving(r[k]) = {}
  <2>1. b \o Steps(id, r, k) = b
    <3>1. Steps(id, r, k) = <<>>
      BY <1>3, StepsAre
    <3>2. QED
      BY <1>1, <3>1
  <2>2. WorkersFor(id, r, k) = WorkersFor(id, r, k - 1)
    BY <1>2, <1>3, WorkersStep
  <2>3. Complete(id, b, r, k)
    BY <1>2, <1>3 DEF Complete
  <2>4. QED
    BY <1>1, <2>1, <2>2, <2>3 DEF Does
<1>4. CASE Serving(r[k]) # {}
  <2>1. /\ x \in Acts(id) /\ y \in Acts(id)
        /\ x.phase = "provision_worker" /\ y.phase = "signal_request"
        /\ x.machine = WorkerFor(id, r, k) /\ y.machine = WorkerFor(id, r, k)
    BY <1>4, ActsType
  <2>2. TwoEntries(b, x, y) /\ TwoEntries(b, y, y)
    BY <1>1, <2>1, TwoEntriesHold
  <2>3. WorkersFor(id, r, k) = WorkersFor(id, r, k - 1) \cup {WorkerFor(id, r, k)}
    BY <1>2, <1>4, WorkersStep
  <2>4. CASE Launches(r, k)
    <3> DEFINE c == Append(b, x)
    <3>1. b \o Steps(id, r, k) = Append(c, y)
      <4>1. Steps(id, r, k) = <<x, y>>
        BY <1>4, <2>4, StepsAre
      <4>2. QED
        BY <2>2, <4>1 DEF TwoEntries
    <3>2. WellMade(id, c) /\ Provisioned(c) = WorkersFor(id, r, k)
      BY <1>1, <2>1, <2>3, ProvisionWellMade
    <3>3. Complete(id, c, r, k - 1) /\ c \in Seq(Acts(id))
      <4>1. Complete(id, c, r, k - 1)
        BY <1>1, <1>4, CompleteProvision
      <4>2. QED
        BY <3>2, <4>1 DEF WellMade
    <3> HIDE DEF c
    <3>4. WellMade(id, Append(c, y)) /\ Provisioned(Append(c, y)) = WorkersFor(id, r, k)
      BY <2>1, <2>3, <3>2, SignalWellMade
    <3>5. Complete(id, Append(c, y), r, k)
      BY <1>4, <3>3, CompleteSignal
    <3>6. QED
      BY <3>1, <3>4, <3>5 DEF Does
  <2>5. CASE ~Launches(r, k)
    <3>1. b \o Steps(id, r, k) = Append(b, y)
      <4>1. Steps(id, r, k) = <<y>>
        BY <1>4, <2>5, StepsAre
      <4>2. QED
        BY <2>2, <4>1 DEF TwoEntries
    <3>2. WorkerFor(id, r, k) \in WorkersFor(id, r, k - 1)
      BY <1>2, <1>4, <2>5, WorkersStep
    <3>3. WellMade(id, Append(b, y)) /\ Provisioned(Append(b, y)) = WorkersFor(id, r, k)
      BY <1>1, <2>1, <2>3, <3>2, SignalWellMade
    <3>4. Complete(id, Append(b, y), r, k)
      BY <1>1, <1>4, CompleteSignal
    <3>5. QED
      BY <3>1, <3>3, <3>4 DEF Does
  <2>6. QED
    BY <2>4, <2>5
<1>5. QED
  BY <1>3, <1>4

\* The work of a plan, category by category.
LEMMA WorkDoes ==
    ASSUME NEW id, NEW r \in Requests
    PROVE  Does(id, Work(id, r), r, Len(r))
<1> DEFINE V == Seq(Acts(id))
           Is(f) == f = [k \in 0..Len(r) |-> IF k = 0 THEN <<>> ELSE f[k - 1] \o Steps(id, r, k)]
           step == [vn \in V \X (1..Len(r)) |-> vn[1] \o Steps(id, r, vn[2])]
<1>1. Len(r) \in Nat /\ <<>> \in V
  BY OrchestratorAssumption
<1>2. \A k \in 1..Len(r) : Steps(id, r, k) \in V
  <2>1. ASSUME NEW k \in 1..Len(r) PROVE Steps(id, r, k) \in V
    <3>1. CASE Serving(r[k]) = {}
      <4>1. Steps(id, r, k) = <<>>
        BY <3>1, StepsAre
      <4>2. QED
        BY <1>1, <4>1
    <3>2. CASE Serving(r[k]) # {}
      <4>1. Provision(id, r, k) \in Acts(id) /\ Signal(id, r, k) \in Acts(id)
        BY <3>2, ActsType
      <4>2. <<Provision(id, r, k), Signal(id, r, k)>> \in V /\ <<Signal(id, r, k)>> \in V
        BY <4>1
      <4>3. QED
        BY <3>2, <4>2, StepsAre
    <3>3. QED
      BY <3>1, <3>2
  <2>2. QED
    BY <2>1
<1>3. step \in [V \X (1..Len(r)) -> V]
  BY <1>2
<1>4. \A v \in V, k \in 1..Len(r) : step[<<v, k>>] = v \o Steps(id, r, k)
  OBVIOUS
<1> HIDE DEF V, step
<1>5. PICK g : Computes(g, V, Len(r), <<>>, step)
  BY <1>1, <1>3, RecursiveFunction
<1>6. \A k \in 1..Len(r) : k \in 0..Len(r) /\ k - 1 \in 0..Len(r) /\ k # 0
  BY <1>1
<1>7. \A k \in 1..Len(r) : g[k] = g[k - 1] \o Steps(id, r, k)
  BY <1>4, <1>5, <1>6 DEF Computes
<1>8. Is(g)
  <2>1. g = [k \in 0..Len(r) |-> g[k]]
    BY <1>5 DEF Computes
  <2>2. \A k \in 0..Len(r) : k = 0 \/ k \in 1..Len(r)
    BY <1>1
  <2>3. \A k \in 0..Len(r) : g[k] = IF k = 0 THEN <<>> ELSE g[k - 1] \o Steps(id, r, k)
    BY <1>5, <1>7, <2>2 DEF Computes
  <2>4. QED
    BY <2>1, <2>3
<1> DEFINE f == CHOOSE h : Is(h)
<1>9. Work(id, r) = f[Len(r)]
  BY DEF Work
<1>10. Is(f)
  <2> HIDE DEF Is
  <2>1. QED
    BY <1>8
<1> HIDE DEF f
<1>11. f[0] = <<>> /\ \A k \in 1..Len(r) : f[k] = f[k - 1] \o Steps(id, r, k)
  <2>1. \A k \in 0..Len(r) : f[k] = IF k = 0 THEN <<>> ELSE f[k - 1] \o Steps(id, r, k)
    BY <1>10
  <2>2. 0 \in 0..Len(r)
    BY <1>1
  <2>3. QED
    BY <1>6, <2>1, <2>2
<1> DEFINE N == {k \in 0..Len(r) : Does(id, f[k], r, k)}
<1>12. 0 \in N
  <2>1. WellMade(id, <<>>) /\ Provisioned(<<>>) = {} /\ WorkersFor(id, r, 0) = {}
    BY DEF WellMade, Provisioned, WorkersFor
  <2>2. Complete(id, <<>>, r, 0)
    BY FilteredEmpty DEF Complete
  <2>3. Does(id, <<>>, r, 0)
    BY <2>1, <2>2 DEF Does
  <2>4. Does(id, f[0], r, 0)
    BY <1>11, <2>3
  <2>5. 0 \in 0..Len(r)
    BY <1>1
  <2>6. QED
    BY <2>4, <2>5
<1>13. ASSUME NEW k \in 0..(Len(r) - 1), k \in N
       PROVE  k + 1 \in N
  <2>1. k + 1 \in 1..Len(r) /\ (k + 1) - 1 = k /\ k + 1 \in 0..Len(r)
    BY <1>1
  <2>2. f[k + 1] = f[k] \o Steps(id, r, k + 1)
    BY <1>11, <2>1
  <2>3. Does(id, f[k], r, (k + 1) - 1)
    BY <1>13, <2>1
  <2>4. Does(id, f[k] \o Steps(id, r, k + 1), r, k + 1)
    BY <2>1, <2>3, DoesStep
  <2>5. QED
    BY <2>1, <2>2, <2>4
<1>14. 0..Len(r) \subseteq N
  <2> HIDE DEF N
  <2>1. QED
    BY <1>1, <1>12, <1>13, SetInduction
<1>15. QED
  BY <1>1, <1>9, <1>14

\* A plan launches the worker of each category once.
LEMMA LaunchedAre ==
    ASSUME NEW r \in Requests
    PROVE  /\ Launched[r] \in Seq(Roles)
           /\ Range(Launched[r]) = {RoleFor(r[k]) : k \in {j \in 1..Len(r) : Serving(r[j]) # {}}}
<1> DEFINE all == [k \in DOMAIN r |-> k]
           T == {k \in DOMAIN r : Launches(r, k)}
           at == Filtered(all, T)
           L == [i \in DOMAIN at |-> RoleFor(r[at[i]])]
<1>1. DOMAIN r = 1..Len(r) /\ Len(r) \in Nat
  BY OrchestratorAssumption
<1>2. all \in Seq(1..Len(r)) /\ Range(all) = 1..Len(r)
  <2>1. all \in [1..Len(r) -> 1..Len(r)]
    BY <1>1
  <2>2. all \in Seq(1..Len(r))
    BY <1>1, <2>1
  <2>3. Range(all) = 1..Len(r)
    BY <1>1 DEF Range
  <2>4. QED
    BY <2>2, <2>3
<1>3. at \in Seq(1..Len(r)) /\ Range(at) = T
  <2> HIDE DEF all, T
  <2>1. at \in Seq(1..Len(r)) /\ Range(at) = Range(all) \cap T
    BY <1>2, FilteredKeeps
  <2>2. QED
    BY <1>1, <1>2, <2>1 DEF T
<1>4. Launched[r] = L
  BY DEF Launched
<1> HIDE DEF at
<1>5. DOMAIN at = 1..Len(at) /\ Len(at) \in Nat /\ \A i \in DOMAIN at : at[i] \in T
  BY <1>3 DEF Range
<1>6. \A k \in T : k \in 1..Len(r) /\ Serving(r[k]) # {} /\ RoleFor(r[k]) \in Roles
  BY <1>1, RoleServes DEF Launches
<1> HIDE DEF T
<1>7. L \in Seq(Roles)
  BY <1>5, <1>6
<1>8. Range(L) = {RoleFor(r[k]) : k \in T}
  <2>1. Range(L) = {RoleFor(r[at[i]]) : i \in DOMAIN at}
    BY DEF Range
  <2>2. T = {at[i] : i \in DOMAIN at}
    BY <1>3 DEF Range
  <2>3. QED
    BY <2>1, <2>2
<1>9. ASSUME NEW k \in 1..Len(r), Serving(r[k]) # {}
      PROVE  \E j \in T : RoleFor(r[j]) = RoleFor(r[k])
  <2> DEFINE same == {j \in 1..Len(r) : Serving(r[j]) # {} /\ RoleFor(r[j]) = RoleFor(r[k])}
  <2>1. PICK j \in same : \A i \in same : j <= i
    <3>1. same \subseteq Nat
      BY <1>1
    <3>2. k \in same
      BY <1>9
    <3> HIDE DEF same
    <3>3. QED
      BY <3>1, <3>2, LeastNumber
  <2>2. \A i \in 1..(j - 1) : i \in 1..Len(r) /\ ~(j <= i)
    BY <1>1
  <2>3. \A i \in 1..(j - 1) : Serving(r[i]) # {} => RoleFor(r[i]) # RoleFor(r[j])
    BY <2>1, <2>2
  <2>4. Launches(r, j)
    BY <2>3 DEF Launches
  <2>5. QED
    BY <1>1, <2>4 DEF T
<1> HIDE DEF L
<1>10. Range(L) = {RoleFor(r[k]) : k \in {j \in 1..Len(r) : Serving(r[j]) # {}}}
  <2> DEFINE U == {j \in 1..Len(r) : Serving(r[j]) # {}}
  <2>1. T \subseteq U
    BY <1>6
  <2>2. \A k \in U : \E j \in T : RoleFor(r[j]) = RoleFor(r[k])
    BY <1>9
  <2> HIDE DEF U
  <2>3. {RoleFor(r[k]) : k \in T} = {RoleFor(r[k]) : k \in U}
    BY <2>1, <2>2
  <2>4. QED
    BY <1>8, <2>3 DEF U
<1>11. QED
  BY <1>4, <1>7, <1>10

-----------------------------------------------------------------------------
(* Plans *)

\* A machine is terminated by the actions after the j-th, up to the n-th.
Cleaned(actions, machine, j, n) ==
    \E k \in (j + 1)..n : actions[k].phase = "cleanup_worker" /\ actions[k].machine = machine

\* The machines of a plan: signalled when they are on, and terminated at last.
Serves(id, actions) ==
    /\ actions \in Seq(Acts(id))
    /\ \A i \in 1..Len(actions) : actions[i].phase = "signal_request" =>
          \E j \in 1..(i - 1) : /\ actions[j].phase = "provision_worker"
                                /\ actions[j].machine = actions[i].machine
                                /\ ~Cleaned(actions, actions[i].machine, j, i - 1)
    /\ \A i \in 1..Len(actions) :
          \E j \in 1..Len(actions) :
             /\ actions[j].phase = "cleanup_worker" /\ actions[j].machine = actions[i].machine
             /\ \A k \in (j + 1)..Len(actions) : actions[k].phase # "provision_worker"

\* What follows the work of a plan.
Cleanups(id, r) ==
    [k \in DOMAIN Launched[r] |-> Action("cleanup_worker", PlanMachine(id, Launched[r][k]), "lifecycle")]

\* The parts of a plan.
LEMMA PlanParts ==
    ASSUME NEW id \in TaskIds, NEW r \in Requests
    PROVE  /\ HierarchicalPlan[id][r].actions = Work(id, r) \o Cleanups(id, r)
           /\ HierarchicalPlan[id][r].request = r
           /\ HierarchicalPlan[id][r].review <=>
                 Missing(r) # {} \/ \E role \in Range(Launched[r]) : Template(role).risk = "high"
BY DEF HierarchicalPlan, Cleanups, ToSet, Range

\* A plan ends by the cleanup of the workers that it has started, and of no others.
LEMMA CleanupsAre ==
    ASSUME NEW id, NEW r \in Requests
    PROVE  /\ Cleanups(id, r) \in Seq(Acts(id))
           /\ \A k \in 1..Len(Cleanups(id, r)) : Cleanups(id, r)[k].phase = "cleanup_worker"
           /\ \A m \in WorkersFor(id, r, Len(r)) :
                 \E k \in 1..Len(Cleanups(id, r)) : Cleanups(id, r)[k].machine = m
           /\ \A k \in 1..Len(Cleanups(id, r)) :
                 Cleanups(id, r)[k].machine \in WorkersFor(id, r, Len(r))
<1> DEFINE L == Launched[r]
           C == Cleanups(id, r)
           Act(k) == Action("cleanup_worker", PlanMachine(id, L[k]), "lifecycle")
           U == {j \in 1..Len(r) : Serving(r[j]) # {}}
<1>1. L \in Seq(Roles) /\ Range(L) = {RoleFor(r[k]) : k \in U}
  BY LaunchedAre
<1>2. C = [k \in DOMAIN L |-> Act(k)]
  BY DEF Cleanups
<1>3. WorkersFor(id, r, Len(r)) = {PlanMachine(id, RoleFor(r[j])) : j \in U}
  BY DEF WorkersFor, WorkerFor
<1> HIDE DEF L, C, U
<1>4. DOMAIN L = 1..Len(L) /\ Len(L) \in Nat /\ \A k \in 1..Len(L) : L[k] \in Roles
  BY <1>1
<1>5. \A k \in 1..Len(L) : Act(k) \in Acts(id)
  BY <1>4 DEF Acts
<1>6. \A k \in 1..Len(L) : Act(k).phase = "cleanup_worker" /\ Act(k).machine = PlanMachine(id, L[k])
  BY DEF Action
<1> HIDE DEF Act
<1>7. C \in Seq(Acts(id)) /\ Len(C) = Len(L) /\ \A k \in 1..Len(L) : C[k] = Act(k)
  BY <1>2, <1>4, <1>5
<1>8. ASSUME NEW j \in U PROVE \E k \in 1..Len(L) : L[k] = RoleFor(r[j])
  BY <1>1, <1>4 DEF Range
<1>9. ASSUME NEW k \in 1..Len(L) PROVE \E j \in U : L[k] = RoleFor(r[j])
  BY <1>1, <1>4 DEF Range
<1>10. \A m \in WorkersFor(id, r, Len(r)) : \E k \in 1..Len(C) : C[k].machine = m
  BY <1>3, <1>6, <1>7, <1>8
<1>11. \A k \in 1..Len(C) : C[k].machine \in WorkersFor(id, r, Len(r))
  BY <1>3, <1>6, <1>7, <1>9
<1>12. QED
  BY <1>6, <1>7, <1>10, <1>11 DEF C

\* Every action of a plan is on a machine that the plan terminates, and signals
\* come while it is on.
LEMMA PlanServes ==
    ASSUME NEW id \in TaskIds, NEW r \in Requests
    PROVE  Serves(id, HierarchicalPlan[id][r].actions)
<1> DEFINE B == Work(id, r)
           C == Cleanups(id, r)
           A == B \o C
           W == WorkersFor(id, r, Len(r))
<1>1. WellMade(id, B) /\ Provisioned(B) = W
  BY WorkDoes DEF Does
<1>2. /\ C \in Seq(Acts(id)) /\ \A k \in 1..Len(C) : C[k].phase = "cleanup_worker"
      /\ \A m \in W : \E k \in 1..Len(C) : C[k].machine = m
      /\ \A k \in 1..Len(C) : C[k].machine \in W
  BY CleanupsAre
<1>3. HierarchicalPlan[id][r].actions = A
  BY PlanParts
<1> HIDE DEF B, C, W
<1>4. B \in Seq(Acts(id)) /\ Len(B) \in Nat /\ Len(C) \in Nat
  BY <1>1, <1>2 DEF WellMade
<1>5. /\ A \in Seq(Acts(id)) /\ Len(A) = Len(B) + Len(C)
      /\ \A i \in 1..Len(A) : A[i] = IF i <= Len(B) THEN B[i] ELSE C[i - Len(B)]
  BY <1>2, <1>4, ConcatProperties
<1> HIDE DEF A
<1>6. /\ \A i \in 1..Len(B) : i \in 1..Len(A) /\ A[i] = B[i]
      /\ \A k \in 1..Len(C) : Len(B) + k \in 1..Len(A) /\ A[Len(B) + k] = C[k]
      /\ \A i \in (Len(B) + 1)..Len(A) : i - Len(B) \in 1..Len(C) /\ A[i] = C[i - Len(B)]
      /\ \A i \in 1..Len(A) : i \in 1..Len(B) \/ i \in (Len(B) + 1)..Len(A)
  <2>1. \A i \in 1..Len(B) : i \in 1..Len(A) /\ A[i] = B[i]
    BY <1>4, <1>5
  <2>2. \A i \in (Len(B) + 1)..Len(A) : i - Len(B) \in 1..Len(C) /\ A[i] = C[i - Len(B)]
    <3>1. ASSUME NEW i \in (Len(B) + 1)..Len(A)
          PROVE  i - Len(B) \in 1..Len(C) /\ A[i] = C[i - Len(B)]
      <4>1. i \in 1..Len(A) /\ ~(i <= Len(B)) /\ i - Len(B) \in 1..Len(C)
        BY <1>4, <1>5
      <4>2. QED
        BY <1>5, <4>1
    <3>2. QED
      BY <3>1
  <2>3. \A k \in 1..Len(C) : Len(B) + k \in 1..Len(A) /\ A[Len(B) + k] = C[k]
    <3>1. ASSUME NEW k \in 1..Len(C) PROVE Len(B) + k \in 1..Len(A) /\ A[Len(B) + k] = C[k]
      <4>1. Len(B) + k \in 1..Len(A) /\ ~(Len(B) + k <= Len(B)) /\ (Len(B) + k) - Len(B) = k
        BY <1>4, <1>5
      <4>2. A[Len(B) + k] = C[(Len(B) + k) - Len(B)]
        BY <1>5, <4>1
      <4>3. QED
        BY <4>1, <4>2
    <3>2. QED
      BY <3>1
  <2>4. \A i \in 1..Len(A) : i \in 1..Len(B) \/ i \in (Len(B) + 1)..Len(A)
    BY <1>4, <1>5
  <2>5. QED
    BY <2>1, <2>2, <2>3, <2>4
<1>7. /\ \A i \in 1..Len(B) : A[i].phase # "cleanup_worker"
      /\ \A i \in (Len(B) + 1)..Len(A) : A[i].phase = "cleanup_worker"
  <2>1. \A i \in 1..Len(B) : A[i].phase # "cleanup_worker"
    BY <1>1, <1>6 DEF WellMade
  <2>2. \A i \in (Len(B) + 1)..Len(A) : A[i].phase = "cleanup_worker"
    BY <1>2, <1>6
  <2>3. QED
    BY <2>1, <2>2
<1>8. ASSUME NEW i \in 1..Len(B) PROVE A[i].machine \in W
  <2>1. CASE A[i].phase = "provision_worker"
    BY <1>1, <1>6, <2>1 DEF Provisioned
  <2>2. CASE A[i].phase = "signal_request"
    <3>1. PICK j \in 1..(i - 1) : B[j].phase = "provision_worker" /\ B[j].machine = B[i].machine
      BY <1>1, <1>6, <2>2 DEF WellMade
    <3>2. j \in 1..Len(B)
      BY <1>4
    <3>3. B[j].machine \in Provisioned(B)
      BY <3>1, <3>2 DEF Provisioned
    <3>4. QED
      BY <1>1, <1>6, <3>1, <3>3
  <2>3. A[i].phase \in {"provision_worker", "signal_request", "cleanup_worker"}
    <3>1. A[i] \in Acts(id)
      BY <1>5, <1>6
    <3>2. QED
      BY <3>1 DEF Acts, Action
  <2>4. QED
    BY <1>7, <2>1, <2>2, <2>3
<1>9. ASSUME NEW i \in 1..Len(A), A[i].phase = "signal_request"
      PROVE  \E j \in 1..(i - 1) : /\ A[j].phase = "provision_worker"
                                   /\ A[j].machine = A[i].machine
                                   /\ ~Cleaned(A, A[i].machine, j, i - 1)
  <2>1. i \in 1..Len(B)
    <3>1. i \in 1..Len(B) \/ i \in (Len(B) + 1)..Len(A)
      BY <1>4
    <3>2. QED
      BY <1>7, <1>9, <3>1
  <2>2. A[i] = B[i] /\ \A j \in 1..(i - 1) : j \in 1..Len(B) /\ A[j] = B[j]
    BY <1>4, <1>6, <2>1
  <2>3. PICK j \in 1..(i - 1) : B[j].phase = "provision_worker" /\ B[j].machine = B[i].machine
    BY <1>1, <1>9, <2>1, <2>2 DEF WellMade
  <2>4. \A k \in (j + 1)..(i - 1) : k \in 1..Len(B)
    BY <1>4, <2>1
  <2>5. ~Cleaned(A, A[i].machine, j, i - 1)
    BY <1>7, <2>4 DEF Cleaned
  <2>6. QED
    BY <2>2, <2>3, <2>5
<1>10. ASSUME NEW i \in 1..Len(A)
       PROVE  \E j \in 1..Len(A) :
                 /\ A[j].phase = "cleanup_worker" /\ A[j].machine = A[i].machine
                 /\ \A k \in (j + 1)..Len(A) : A[k].phase # "provision_worker"
  <2>1. A[i].machine \in W
    BY <1>2, <1>6, <1>8
  <2>2. PICK k \in 1..Len(C) : C[k].machine = A[i].machine
    BY <1>2, <2>1
  <2> DEFINE j == Len(B) + k
  <2>3. j \in 1..Len(A) /\ A[j] = C[k] /\ j \in (Len(B) + 1)..Len(A)
    BY <1>4, <1>6
  <2>4. \A l \in (j + 1)..Len(A) : l \in (Len(B) + 1)..Len(A)
    BY <1>4
  <2>5. \A l \in (j + 1)..Len(A) : A[l].phase # "provision_worker"
    BY <1>7, <2>4
  <2> HIDE DEF j
  <2>6. QED
    BY <1>2, <2>2, <2>3, <2>5
<1>11. QED
  BY <1>3, <1>5, <1>9, <1>10 DEF Serves

\* The signals of a plan are those of its work.
LEMMA PlanSignals ==
    ASSUME NEW id \in TaskIds, NEW r \in Requests, \A j \in 1..Len(r) : Serving(r[j]) # {}
    PROVE  LET signals == SignalsOf(HierarchicalPlan[id][r].actions)
           IN  DOMAIN signals = 1..Len(r) /\ \A j \in 1..Len(r) : signals[j] = Signal(id, r, j)
<1> DEFINE B == Work(id, r)
           C == Cleanups(id, r)
           A == B \o C
           T == SignalActs(id)
           f == Filtered(B, T)
<1>1. /\ B \in Seq(Acts(id))
      /\ Len(f) = Len(r) /\ \A j \in 1..Len(r) : f[j] = Signal(id, r, j)
  <2>1. WellMade(id, B) /\ Complete(id, B, r, Len(r))
    BY WorkDoes DEF Does
  <2>2. QED
    BY <2>1 DEF WellMade, Complete
<1>2. C \in Seq(Acts(id)) /\ \A k \in 1..Len(C) : C[k].phase = "cleanup_worker"
  BY CleanupsAre
<1>3. HierarchicalPlan[id][r].actions = A
  BY PlanParts
<1> HIDE DEF B, C
<1>4. Filtered(C, T) = <<>>
  <2>1. Range(C) \cap T = {}
    <3>1. \A x \in Range(C) : x.phase = "cleanup_worker"
      BY <1>2 DEF Range
    <3>2. \A x \in T : x.phase = "signal_request"
      BY DEF SignalActs
    <3>3. QED
      BY <3>1, <3>2
  <2> HIDE DEF T
  <2>2. QED
    BY <1>2, <2>1, FilteredNone
<1>5. f \in Seq(Acts(id))
  BY <1>1, FilteredKeeps
<1>6. Filtered(A, T) = f
  <2>1. Filtered(A, T) = f \o Filtered(C, T)
    BY <1>1, <1>2, FilteredConcat
  <2> HIDE DEF f, T, A
  <2>2. f \o <<>> = f
    BY <1>5
  <2>3. QED
    BY <1>4, <2>1, <2>2
<1>7. A \in Seq(Acts(id))
  BY <1>1, <1>2
<1> HIDE DEF A
<1>8. SignalsOf(A) = Filtered(A, T)
  <2> DEFINE S == Range(A)
             U == {a \in ToSet(A) : a.phase = "signal_request"}
  <2>1. A \in Seq(S) /\ S \subseteq Acts(id)
    BY <1>7 DEF Range
  <2>2. \A x \in S : x \in U <=> x \in T
    BY <2>1 DEF SignalActs, ToSet, Range
  <2>3. SignalsOf(A) = Filtered(A, U)
    BY DEF SignalsOf
  <2> HIDE DEF S, U, T
  <2>4. Filtered(A, U) = Filtered(A, T)
    BY <2>1, <2>2, FilteredAgree
  <2>5. QED
    BY <2>3, <2>4
<1> HIDE DEF f, T
<1>9. DOMAIN f = 1..Len(r)
  BY <1>1, <1>5
<1>10. QED
  BY <1>1, <1>3, <1>6, <1>8, <1>9

\* A hierarchical plan that asks for no review.
LEMMA PlanIsSafe ==
    ASSUME NEW id \in TaskIds, NEW r \in Requests, ~HierarchicalPlan[id][r].review
    PROVE  LET signals == SignalsOf(HierarchicalPlan[id][r].actions)
           IN  /\ [k \in DOMAIN signals |-> signals[k].category] = r
               /\ \A k \in DOMAIN signals :
                     /\ Template(signals[k].machine.worker[1]).risk # "high"
                     /\ signals[k].category \in Template(signals[k].machine.worker[1]).categories
<1> DEFINE signals == SignalsOf(HierarchicalPlan[id][r].actions)
<1>1. r \in Seq(Required) /\ DOMAIN r = 1..Len(r)
  BY OrchestratorAssumption
<1>2. /\ Missing(r) = {}
      /\ \A role \in Range(Launched[r]) : Template(role).risk # "high"
  BY PlanParts
<1>3. ASSUME NEW j \in 1..Len(r) PROVE Serving(r[j]) # {}
  BY <1>1, <1>2 DEF Missing, ToSet
<1>4. DOMAIN signals = 1..Len(r) /\ \A j \in 1..Len(r) : signals[j] = Signal(id, r, j)
  BY <1>3, PlanSignals
<1> HIDE DEF signals
<1>5. \A j \in 1..Len(r) : signals[j].category = r[j] /\ signals[j].machine.worker[1] = RoleFor(r[j])
  BY <1>4 DEF Signal, Action, WorkerFor, PlanMachine, Machine
<1>6. [k \in DOMAIN signals |-> signals[k].category] = r
  <2>1. r = [k \in 1..Len(r) |-> r[k]]
    BY <1>1
  <2>2. [k \in DOMAIN signals |-> signals[k].category] = [k \in 1..Len(r) |-> r[k]]
    BY <1>4, <1>5
  <2>3. QED
    BY <2>1, <2>2
<1>7. ASSUME NEW k \in 1..Len(r)
      PROVE  /\ Template(signals[k].machine.worker[1]).risk # "high"
             /\ signals[k].category \in Template(signals[k].machine.worker[1]).categories
  <2>1. RoleFor(r[k]) \in Range(Launched[r])
    BY <1>3, LaunchedAre
  <2>2. r[k] \in Template(RoleFor(r[k])).categories
    BY <1>3, RoleServes
  <2>3. QED
    BY <1>2, <1>5, <2>1, <2>2
<1>8. QED
  BY <1>4, <1>6, <1>7 DEF signals

-----------------------------------------------------------------------------
(* Packets on their way *)

Stops == {"cleanup", "terminate"}

\* A machine is on when the first n packets on their way to it have taken effect,
\* in their order.
OnAt(packets, n, on) ==
    \/ \E j \in 1..n : packets[j] = "run" /\ \A k \in (j + 1)..n : packets[k] \notin Stops
    \/ on /\ \A k \in 1..n : packets[k] \notin Stops

\* It is on for every signal.
Heard(packets, on) ==
    \A i \in 1..Len(packets) : packets[i] = "signal" => OnAt(packets, i - 1, on)

\* One more packet is sent.
LEMMA OnAtAppend ==
    ASSUME NEW S \in Seq(Packets), NEW x \in Packets, NEW on \in BOOLEAN
    PROVE  /\ \A n \in 0..Len(S) : OnAt(Append(S, x), n, on) <=> OnAt(S, n, on)
           /\ x = "run" => OnAt(Append(S, x), Len(S) + 1, on)
           /\ x \in Stops => ~OnAt(Append(S, x), Len(S) + 1, on)
           /\ x \in {"signal", "assign"} =>
                 (OnAt(Append(S, x), Len(S) + 1, on) <=> OnAt(S, Len(S), on))
<1> DEFINE T == Append(S, x)
           L == Len(S)
<1>1. /\ L \in Nat /\ Len(T) = L + 1 /\ T[L + 1] = x
      /\ \A i \in 1..L : T[i] = S[i]
  OBVIOUS
<1> HIDE DEF T, L
<1>2. ASSUME NEW n \in 0..L PROVE OnAt(T, n, on) <=> OnAt(S, n, on)
  <2>1. \A i \in 1..n : T[i] = S[i] /\ \A k \in (i + 1)..n : T[k] = S[k]
    BY <1>1
  <2>2. QED
    BY <2>1 DEF OnAt
<1>3. x = "run" => OnAt(T, L + 1, on)
  <2>1. L + 1 \in 1..(L + 1) /\ \A k \in ((L + 1) + 1)..(L + 1) : FALSE
    BY <1>1
  <2>2. QED
    BY <1>1, <2>1 DEF OnAt
<1>4. x \in Stops => ~OnAt(T, L + 1, on)
  <2>1. SUFFICES ASSUME x \in Stops, OnAt(T, L + 1, on) PROVE FALSE
    OBVIOUS
  <2>2. L + 1 \in 1..(L + 1)
    BY <1>1
  <2>3. ~(on /\ \A k \in 1..(L + 1) : T[k] \notin Stops)
    BY <1>1, <2>1, <2>2
  <2>4. PICK j \in 1..(L + 1) : T[j] = "run" /\ \A k \in (j + 1)..(L + 1) : T[k] \notin Stops
    BY <2>1, <2>3 DEF OnAt
  <2>5. CASE j = L + 1
    BY <1>1, <2>1, <2>4, <2>5 DEF Stops
  <2>6. CASE j # L + 1
    <3>1. L + 1 \in (j + 1)..(L + 1)
      BY <1>1, <2>6
    <3>2. QED
      BY <1>1, <2>1, <2>4, <3>1
  <2>7. QED
    BY <2>5, <2>6
<1>5. ASSUME x \in {"signal", "assign"} PROVE OnAt(T, L + 1, on) <=> OnAt(S, L, on)
  <2>1. x # "run" /\ x \notin Stops
    BY <1>5 DEF Stops
  <2>2. \A j \in 1..L : \A k \in (j + 1)..(L + 1) : k = L + 1 \/ k \in (j + 1)..L
    BY <1>1
  <2>3. \A k \in 1..(L + 1) : k = L + 1 \/ k \in 1..L
    BY <1>1
  <2>4. ASSUME OnAt(S, L, on) PROVE OnAt(T, L + 1, on)
    <3>1. OnAt(T, L, on)
      BY <1>1, <1>2, <2>4
    <3>2. CASE on /\ \A k \in 1..L : T[k] \notin Stops
      BY <1>1, <2>1, <2>3, <3>2 DEF OnAt
    <3>3. CASE \E j \in 1..L : T[j] = "run" /\ \A k \in (j + 1)..L : T[k] \notin Stops
      <4>1. PICK j \in 1..L : T[j] = "run" /\ \A k \in (j + 1)..L : T[k] \notin Stops
        BY <3>3
      <4>2. \A k \in (j + 1)..(L + 1) : T[k] \notin Stops
        BY <1>1, <2>1, <2>2, <4>1
      <4>3. j \in 1..(L + 1)
        BY <1>1
      <4>4. QED
        BY <4>1, <4>2, <4>3 DEF OnAt
    <3>4. QED
      BY <3>1, <3>2, <3>3 DEF OnAt
  <2>5. ASSUME OnAt(T, L + 1, on) PROVE OnAt(S, L, on)
    <3>1. CASE on /\ \A k \in 1..(L + 1) : T[k] \notin Stops
      <4>1. \A k \in 1..L : k \in 1..(L + 1)
        BY <1>1
      <4>2. OnAt(T, L, on)
        BY <3>1, <4>1 DEF OnAt
      <4>3. QED
        BY <1>1, <1>2, <4>2
    <3>2. CASE \E j \in 1..(L + 1) : T[j] = "run" /\ \A k \in (j + 1)..(L + 1) : T[k] \notin Stops
      <4>1. PICK j \in 1..(L + 1) : T[j] = "run" /\ \A k \in (j + 1)..(L + 1) : T[k] \notin Stops
        BY <3>2
      <4>2. j # L + 1
        BY <1>1, <2>1, <4>1
      <4>3. j \in 1..L /\ \A k \in (j + 1)..L : k \in (j + 1)..(L + 1)
        BY <1>1, <4>2
      <4>4. OnAt(T, L, on)
        BY <4>1, <4>3 DEF OnAt
      <4>5. QED
        BY <1>1, <1>2, <4>4
    <3>3. QED
      BY <2>5, <3>1, <3>2 DEF OnAt
  <2>6. QED
    BY <2>4, <2>5
<1>6. QED
  BY <1>2, <1>3, <1>4, <1>5 DEF T, L

\* The oldest packet has taken effect.
LEMMA OnAtTail ==
    ASSUME NEW S \in Seq(Packets), S # <<>>, NEW on \in BOOLEAN, NEW now \in BOOLEAN,
           S[1] = "run" => now, S[1] \in Stops => ~now,
           S[1] \in {"signal", "assign"} => now = on,
           NEW n \in 0..(Len(S) - 1)
    PROVE  OnAt(Tail(S), n, now) <=> OnAt(S, n + 1, on)
<1> DEFINE T == Tail(S)
<1>1. /\ Len(S) \in Nat \ {0} /\ S[1] \in Packets
      /\ \A i \in 1..n : T[i] = S[i + 1]
  OBVIOUS
<1>2. S[1] \in {"run", "signal", "assign"} \cup Stops /\ "run" \notin Stops
      /\ {"signal", "assign"} \cap Stops = {} /\ "run" \notin {"signal", "assign"}
  BY <1>1 DEF Packets, Stops
<1> HIDE DEF T
<1>3. ASSUME OnAt(T, n, now) PROVE OnAt(S, n + 1, on)
  <2>1. CASE \E j \in 1..n : T[j] = "run" /\ \A k \in (j + 1)..n : T[k] \notin Stops
    <3>1. PICK j \in 1..n : T[j] = "run" /\ \A k \in (j + 1)..n : T[k] \notin Stops
      BY <2>1
    <3>2. S[j + 1] = "run" /\ j + 1 \in 1..(n + 1)
      BY <1>1, <3>1
    <3>3. ASSUME NEW k \in ((j + 1) + 1)..(n + 1) PROVE S[k] \notin Stops
      <4>1. k - 1 \in (j + 1)..n /\ k - 1 \in 1..n /\ (k - 1) + 1 = k
        OBVIOUS
      <4>2. T[k - 1] \notin Stops /\ T[k - 1] = S[(k - 1) + 1]
        BY <1>1, <3>1, <4>1
      <4>3. QED
        BY <4>1, <4>2
    <3>4. QED
      BY <3>2, <3>3 DEF OnAt
  <2>2. CASE now /\ \A k \in 1..n : T[k] \notin Stops
    <3>1. ASSUME NEW k \in 2..(n + 1) PROVE S[k] \notin Stops
      <4>1. k - 1 \in 1..n /\ (k - 1) + 1 = k
        OBVIOUS
      <4>2. T[k - 1] \notin Stops /\ T[k - 1] = S[(k - 1) + 1]
        BY <1>1, <2>2, <4>1
      <4>3. QED
        BY <4>1, <4>2
    <3>2. CASE S[1] = "run"
      <4>1. 1 \in 1..(n + 1) /\ \A k \in (1 + 1)..(n + 1) : k \in 2..(n + 1)
        OBVIOUS
      <4>2. QED
        BY <3>1, <3>2, <4>1 DEF OnAt
    <3>3. CASE S[1] \in {"signal", "assign"}
      <4>1. \A k \in 1..(n + 1) : k = 1 \/ k \in 2..(n + 1)
        OBVIOUS
      <4>2. \A k \in 1..(n + 1) : S[k] \notin Stops
        BY <1>2, <3>1, <3>3, <4>1
      <4>3. QED
        BY <2>2, <3>3, <4>2 DEF OnAt
    <3>4. QED
      BY <1>2, <2>2, <3>2, <3>3
  <2>3. QED
    BY <1>3, <2>1, <2>2 DEF OnAt
<1>4. ASSUME OnAt(S, n + 1, on) PROVE OnAt(T, n, now)
  <2>1. \A k \in 1..n : k + 1 \in 2..(n + 1)
    OBVIOUS
  <2>2. ASSUME now, \A k \in 2..(n + 1) : S[k] \notin Stops PROVE OnAt(T, n, now)
    <3>1. \A k \in 1..n : T[k] \notin Stops
      BY <1>1, <2>1, <2>2
    <3>2. QED
      BY <2>2, <3>1 DEF OnAt
  <2>3. CASE on /\ \A k \in 1..(n + 1) : S[k] \notin Stops
    <3>1. 1 \in 1..(n + 1) /\ \A k \in 2..(n + 1) : k \in 1..(n + 1)
      OBVIOUS
    <3>2. S[1] \notin Stops /\ \A k \in 2..(n + 1) : S[k] \notin Stops
      BY <2>3, <3>1
    <3>3. now
      BY <1>2, <2>3, <3>2
    <3>4. QED
      BY <2>2, <3>2, <3>3
  <2>4. CASE \E j \in 1..(n + 1) : S[j] = "run" /\ \A k \in (j + 1)..(n + 1) : S[k] \notin Stops
    <3>1. PICK j \in 1..(n + 1) : S[j] = "run" /\ \A k \in (j + 1)..(n + 1) : S[k] \notin Stops
      BY <2>4
    <3>2. CASE j = 1
      <4>1. (j + 1)..(n + 1) = 2..(n + 1)
        BY <3>2
      <4>2. QED
        BY <2>2, <3>1, <3>2, <4>1
    <3>3. CASE j # 1
      <4> DEFINE i == j - 1
      <4>1. /\ i \in 1..n /\ i + 1 = j
            /\ \A k \in (i + 1)..n : k + 1 \in (j + 1)..(n + 1) /\ k \in 1..n
        BY <3>3
      <4> HIDE DEF i
      <4>2. T[i] = "run"
        BY <1>1, <3>1, <4>1
      <4>3. \A k \in (i + 1)..n : T[k] \notin Stops
        BY <1>1, <3>1, <4>1
      <4>4. QED
        BY <4>1, <4>2, <4>3 DEF OnAt
    <3>4. QED
      BY <3>2, <3>3
  <2>5. QED
    BY <1>4, <2>3, <2>4 DEF OnAt
<1>5. QED
  BY <1>3, <1>4 DEF T

\* A packet that is no signal, or that the machine is on for, is sent.
LEMMA HeardAppend ==
    ASSUME NEW S \in Seq(Packets), NEW x \in Packets, NEW on \in BOOLEAN, Heard(S, on),
           x = "signal" => OnAt(S, Len(S), on)
    PROVE  Heard(Append(S, x), on)
<1> DEFINE T == Append(S, x)
<1>1. /\ Len(S) \in Nat /\ Len(T) = Len(S) + 1 /\ T[Len(S) + 1] = x
      /\ \A i \in 1..Len(S) : T[i] = S[i]
  OBVIOUS
<1>2. \A n \in 0..Len(S) : OnAt(T, n, on) <=> OnAt(S, n, on)
  BY OnAtAppend
<1> HIDE DEF T
<1>3. ASSUME NEW i \in 1..Len(T), T[i] = "signal" PROVE OnAt(T, i - 1, on)
  <2>1. i - 1 \in 0..Len(S) /\ (i = Len(S) + 1 \/ i \in 1..Len(S))
    BY <1>1
  <2>2. CASE i = Len(S) + 1
    <3>1. x = "signal" /\ i - 1 = Len(S)
      BY <1>1, <1>3, <2>2
    <3>2. QED
      BY <1>2, <2>1, <3>1
  <2>3. CASE i \in 1..Len(S)
    <3>1. OnAt(S, i - 1, on)
      BY <1>1, <1>3, <2>3 DEF Heard
    <3>2. QED
      BY <1>2, <2>1, <3>1
  <2>4. QED
    BY <2>1, <2>2, <2>3
<1>4. QED
  BY <1>3 DEF Heard, T

\* Those that follow the oldest are heard as before.
LEMMA HeardTail ==
    ASSUME NEW S \in Seq(Packets), S # <<>>, NEW on \in BOOLEAN, NEW now \in BOOLEAN,
           S[1] = "run" => now, S[1] \in Stops => ~now,
           S[1] \in {"signal", "assign"} => now = on, Heard(S, on)
    PROVE  Heard(Tail(S), now)
<1> DEFINE T == Tail(S)
<1>1. /\ Len(S) \in Nat \ {0} /\ Len(T) = Len(S) - 1
      /\ \A i \in 1..Len(T) : T[i] = S[i + 1]
  OBVIOUS
<1>2. \A n \in 0..(Len(S) - 1) : OnAt(T, n, now) <=> OnAt(S, n + 1, on)
  BY OnAtTail
<1> HIDE DEF T
<1>3. ASSUME NEW i \in 1..Len(T), T[i] = "signal" PROVE OnAt(T, i - 1, now)
  <2>1. i + 1 \in 1..Len(S) /\ i - 1 \in 0..(Len(S) - 1) /\ (i - 1) + 1 = (i + 1) - 1
    BY <1>1
  <2>2. S[i + 1] = "signal"
    BY <1>1, <1>3
  <2>3. OnAt(S, (i + 1) - 1, on)
    BY <2>1, <2>2 DEF Heard
  <2>4. QED
    BY <1>2, <2>1, <2>3
<1>4. QED
  BY <1>3 DEF Heard, T

\* Packets that are overtaken or lost leave the others.
LEMMA RemoveAtType ==
    ASSUME NEW S \in Seq(Packets), NEW k \in DOMAIN S
    PROVE  RemoveAt(S, k) \in Seq(Packets)
<1>1. DOMAIN S = 1..Len(S) /\ Len(S) \in Nat /\ \A i \in 1..Len(S) : S[i] \in Packets
  OBVIOUS
<1>2. SubSeq(S, 1, k - 1) \in Seq(Packets)
  BY <1>1
<1>3. SubSeq(S, k + 1, Len(S)) \in Seq(Packets)
  BY <1>1
<1>4. QED
  BY <1>2, <1>3 DEF RemoveAt

-----------------------------------------------------------------------------
(* The invariant *)

\* Plans that wait were made as they are made, and so was the one that is executed.
Made == \A p \in plans : \E id \in TaskIds, r \in Requests : p = HierarchicalPlan[id][r]

Executed == doing = <<>> \/ \E id \in TaskIds : Serves(id, doing)

\* The first n actions of a plan leave a machine started, or terminated.
Provided(actions, n, machine) ==
    \E j \in 1..n : /\ actions[j].phase = "provision_worker" /\ actions[j].machine = machine
                    /\ ~Cleaned(actions, machine, j, n)

Finished(actions, n, machine) ==
    \E j \in 1..n : /\ actions[j].phase = "cleanup_worker" /\ actions[j].machine = machine
                    /\ \A k \in (j + 1)..n : actions[k].phase # "provision_worker"

\* What the packets on their way make of a machine: it hears its signals, and it is
\* as the last packet leaves it.
InOrder(machine) ==
    LET packets == net[machine]
        on      == ~IsOff(machine)
        last    == OnAt(packets, Len(packets), on)
    IN  /\ Heard(packets, on)
        /\ machine \in ended => ~last
        /\ Provided(doing, sent, machine) => last
        /\ Finished(doing, sent, machine) => ~last

OrchestratorInv ==
    /\ OrchestratorTypeOK
    /\ Made
    /\ Executed
    /\ unheard \subseteq disturbed
    /\ \A m \in Machines \ disturbed : InOrder(m)

\* The machines of workers.
LEMMA MachineType ==
    /\ \A role \in Roles, id \in WorkerId : Machine(role, id) \in Machines
    /\ \A role \in Roles, id \in TaskIds : PlanMachine(id, role) \in Machines /\ <<role, id>> \in WorkerId
BY DEF Machines, PlanMachine, WorkerId

\* The actions of a plan are about machines of its workers.
LEMMA ActsMachines ==
    ASSUME NEW id \in TaskIds, NEW a \in Acts(id)
    PROVE  /\ a.machine \in Machines
           /\ a.phase \in {"provision_worker", "signal_request", "cleanup_worker"}
<1>1. PICK phase \in {"provision_worker", "signal_request", "cleanup_worker"},
           role \in Roles, c \in Required \cup {"lifecycle"} :
              a = Action(phase, PlanMachine(id, role), c)
  BY DEF Acts
<1>2. a.machine = PlanMachine(id, role) /\ a.phase = phase
  BY <1>1 DEF Action
<1>3. QED
  BY <1>2, MachineType

\* A plan starts workers of known roles.
LEMMA LaunchedRoles ==
    ASSUME NEW r \in Requests
    PROVE  /\ ToSet(Launched[r]) \subseteq Roles
           /\ \A n \in 0..(Len(Launched[r]) - 1) : ToSet(SubSeq(Launched[r], 1, n)) \subseteq Roles
<1> DEFINE L == Launched[r]
<1>1. L \in Seq(Roles)
  BY LaunchedAre
<1> HIDE DEF L
<1>2. ToSet(L) \subseteq Roles
  BY <1>1 DEF ToSet
<1>3. ASSUME NEW n \in 0..(Len(L) - 1) PROVE ToSet(SubSeq(L, 1, n)) \subseteq Roles
  <2> DEFINE s == SubSeq(L, 1, n)
  <2>1. \A i \in 1..n : L[i] \in Roles
    BY <1>1
  <2>2. s \in Seq(Roles)
    BY <1>1, <2>1
  <2> HIDE DEF s
  <2>3. ToSet(s) \subseteq Roles
    BY <2>2 DEF ToSet
  <2>4. QED
    BY <2>3 DEF s
<1>4. QED
  BY <1>2, <1>3 DEF L

\* Workers that are known stay in their form when some are launched.
WorkersOK(w) ==
    /\ DOMAIN w \subseteq WorkerId
    /\ \A id \in DOMAIN w : /\ w[id].role \in Roles
                            /\ id \in WorkerIds \/ id = <<w[id].role, w[id].task_id>>

\* The workers stay known by their roles and tasks when a plan registers its own.
LEMMA RegisteredOK ==
    ASSUME WorkersOK(workers), NEW id \in TaskIds, NEW roles \in SUBSET Roles
    PROVE  WorkersOK(Registered(id, roles))
<1> DEFINE new == [i \in {<<role, id>> : role \in roles} |-> [role |-> i[1], task_id |-> id]]
           w == Known(new)
<1>1. \A i \in DOMAIN new : \E role \in Roles : i = <<role, id>> /\ new[i].role = role /\ new[i].task_id = id
  OBVIOUS
<1> HIDE DEF new
<1>2. DOMAIN w = DOMAIN workers \cup DOMAIN new
  BY DEF Known
<1>3. \A i \in DOMAIN w : w[i] = IF i \in DOMAIN new THEN new[i] ELSE workers[i]
  BY DEF Known
<1> HIDE DEF w
<1>4. DOMAIN w \subseteq WorkerId
  BY <1>1, <1>2 DEF WorkersOK, WorkerId
<1>5. ASSUME NEW i \in DOMAIN w
      PROVE  w[i].role \in Roles /\ (i \in WorkerIds \/ i = <<w[i].role, w[i].task_id>>)
  <2>1. CASE i \in DOMAIN new
    BY <1>1, <1>3, <2>1
  <2>2. CASE i \notin DOMAIN new
    BY <1>2, <1>3, <2>2 DEF WorkersOK
  <2>3. QED
    BY <2>1, <2>2
<1>6. WorkersOK(w)
  BY <1>4, <1>5 DEF WorkersOK
<1>7. QED
  BY <1>6 DEF Registered, w, new

\* The workers stay known by their roles and tasks when one is launched.
LEMMA LaunchOK ==
    ASSUME WorkersOK(workers), NEW role \in Roles, NEW tk \in TaskIds,
           NEW id \in WorkerIds \cup {<<role, tk>>}
    PROVE  WorkersOK(Known([i \in {id} |-> [role |-> role, task_id |-> tk]]))
<1> DEFINE new == [i \in {id} |-> [role |-> role, task_id |-> tk]]
           w == Known(new)
<1>1. DOMAIN new = {id} /\ new[id].role = role /\ new[id].task_id = tk
  OBVIOUS
<1> HIDE DEF new
<1>2. DOMAIN w = DOMAIN workers \cup DOMAIN new
  BY DEF Known
<1>3. \A i \in DOMAIN w : w[i] = IF i \in DOMAIN new THEN new[i] ELSE workers[i]
  BY DEF Known
<1> HIDE DEF w
<1>4. DOMAIN w \subseteq WorkerId
  BY <1>1, <1>2 DEF WorkersOK, WorkerId
<1>5. ASSUME NEW i \in DOMAIN w
      PROVE  w[i].role \in Roles /\ (i \in WorkerIds \/ i = <<w[i].role, w[i].task_id>>)
  <2>1. CASE i = id
    BY <1>1, <1>3, <2>1
  <2>2. CASE i # id
    BY <1>1, <1>2, <1>3, <2>2 DEF WorkersOK
  <2>3. QED
    BY <2>1, <2>2
<1>6. WorkersOK(w)
  BY <1>4, <1>5 DEF WorkersOK
<1>7. QED
  BY <1>6 DEF w, new

\* One more action of a plan.
LEMMA OneMore ==
    ASSUME NEW A, NEW n \in Nat, NEW m
    PROVE  /\ Provided(A, n + 1, m) =>
                 \/ A[n + 1].phase = "provision_worker" /\ A[n + 1].machine = m
                 \/ /\ Provided(A, n, m)
                    /\ ~(A[n + 1].phase = "cleanup_worker" /\ A[n + 1].machine = m)
           /\ Finished(A, n + 1, m) =>
                 \/ A[n + 1].phase = "cleanup_worker" /\ A[n + 1].machine = m
                 \/ Finished(A, n, m) /\ A[n + 1].phase # "provision_worker"
<1>1. \A j \in 1..(n + 1) :
         \/ j = n + 1
         \/ j \in 1..n /\ n + 1 \in (j + 1)..(n + 1) /\ (j + 1)..n \subseteq (j + 1)..(n + 1)
  OBVIOUS
<1>2. Provided(A, n + 1, m) =>
         \/ A[n + 1].phase = "provision_worker" /\ A[n + 1].machine = m
         \/ /\ Provided(A, n, m)
            /\ ~(A[n + 1].phase = "cleanup_worker" /\ A[n + 1].machine = m)
  BY <1>1 DEF Provided, Cleaned
<1>3. Finished(A, n + 1, m) =>
         \/ A[n + 1].phase = "cleanup_worker" /\ A[n + 1].machine = m
         \/ Finished(A, n, m) /\ A[n + 1].phase # "provision_worker"
  BY <1>1 DEF Finished
<1>4. QED
  BY <1>2, <1>3

\* Nothing is known of what a plan has done before its first action.
LEMMA NothingDone == \A A, m : ~Provided(A, 0, m) /\ ~Finished(A, 0, m)
<1>1. \A j \in 1..0 : FALSE
  OBVIOUS
<1>2. QED
  BY <1>1 DEF Provided, Finished

\* A machine stays in order when neither it nor its packets change.
LEMMA InOrderSame ==
    ASSUME NEW m, InOrder(m), net'[m] = net[m], IsOff(m)' <=> IsOff(m),
           m \in ended' => m \in ended, sent' = 0 \/ UNCHANGED <<doing, sent>>
    PROVE  InOrder(m)'
<1>1. /\ Provided(doing, sent, m)' => Provided(doing, sent, m)
      /\ Finished(doing, sent, m)' => Finished(doing, sent, m)
  <2>1. CASE sent' = 0
    BY <2>1, NothingDone
  <2>2. CASE UNCHANGED <<doing, sent>>
    BY <2>2 DEF Provided, Finished, Cleaned
  <2>3. QED
    BY <2>1, <2>2
<1>2. ~IsOff(m)' <=> ~IsOff(m)
  OBVIOUS
<1> DEFINE on == ~IsOff(m)
           now == ~IsOff(m)'
<1>3. now = on
  BY <1>2
<1> HIDE DEF on, now
<1>4. Heard(net'[m], now) <=> Heard(net[m], on)
  BY <1>3
<1>5. OnAt(net'[m], Len(net'[m]), now) <=> OnAt(net[m], Len(net[m]), on)
  BY <1>3
<1>6. QED
  BY <1>1, <1>4, <1>5 DEF InOrder, on, now

\* Packets that no plan sends.
LEMMA IdleSend ==
    ASSUME OrchestratorTypeOK, Idle, UNCHANGED <<doing, sent, vm>>,
           NEW ms \in SUBSET Machines, NEW x \in {"run", "assign", "terminate"}, Send(ms, x),
           ended' = IF x = "run" THEN ended \ ms ELSE ended,
           NEW m \in Machines, InOrder(m)
    PROVE  InOrder(m)'
<1> DEFINE S == net[m]
           on == ~IsOff(m)
<1>1. /\ S \in Seq(Packets) /\ x \in Packets /\ on \in BOOLEAN
      /\ net'[m] = IF m \in ms THEN Append(S, x) ELSE S
  BY DEF OrchestratorTypeOK, Send, Packets
<1>2. IsOff(m)' <=> IsOff(m)
  BY DEF IsOff
<1>3. sent = 0 /\ sent' = 0
  BY DEF Idle, OrchestratorTypeOK
<1>4. CASE m \notin ms
  BY <1>1, <1>2, <1>3, <1>4, InOrderSame
<1>5. CASE m \in ms
  <2>1. net'[m] = Append(S, x) /\ (m \in ended' => m \in ended /\ x # "run")
    BY <1>1, <1>5
  <2>2. Heard(S, on) /\ (m \in ended => ~OnAt(S, Len(S), on))
    BY DEF InOrder
  <2> HIDE DEF S, on
  <2>3. Heard(Append(S, x), on)
    BY <1>1, <2>2, HeardAppend
  <2>4. Len(Append(S, x)) = Len(S) + 1
    BY <1>1
  <2>5. m \in ended' => ~OnAt(Append(S, x), Len(S) + 1, on)
    <3>1. CASE x = "terminate"
      BY <1>1, <3>1, OnAtAppend DEF Stops
    <3>2. CASE x = "assign"
      BY <1>1, <2>1, <2>2, <3>2, OnAtAppend
    <3>3. CASE x = "run"
      BY <2>1, <3>3
    <3>4. QED
      BY <3>1, <3>2, <3>3
  <2>6. on <=> ~IsOff(m)'
    BY <1>2 DEF on
  <2> DEFINE now == ~IsOff(m)'
  <2>7. now = on
    BY <1>1, <2>6
  <2> HIDE DEF now
  <2>8. Heard(net'[m], now) /\ (m \in ended' => ~OnAt(net'[m], Len(net'[m]), now))
    BY <2>1, <2>3, <2>4, <2>5, <2>7
  <2>9. ~Provided(doing', sent', m) /\ ~Finished(doing', sent', m)
    BY <1>3, NothingDone
  <2>10. QED
    BY <2>8, <2>9 DEF InOrder, now
<1>6. QED
  BY <1>4, <1>5

\* The packets of a plan.
LEMMA HostCallInOrder ==
    ASSUME OrchestratorTypeOK, Executed, HostCall, NEW m \in Machines, InOrder(m)
    PROVE  InOrder(m)'
<1> DEFINE A == doing
           i == sent + 1
           a == A[i]
           S == net[m]
           on == ~IsOff(m)
           now == ~IsOff(m)'
<1>1. PICK id \in TaskIds : Serves(id, A)
  BY DEF Executed, HostCall, OrchestratorTypeOK
<1>2. /\ A \in Seq(Acts(id)) /\ sent \in Nat /\ i \in 1..Len(A) /\ i - 1 = sent
      /\ doing' = doing /\ sent' = i /\ vm' = vm
  BY <1>1 DEF Serves, HostCall, OrchestratorTypeOK, node
<1>3. /\ a \in Acts(id) /\ a.machine \in Machines
      /\ a.phase \in {"provision_worker", "signal_request", "cleanup_worker"}
  BY <1>2, ActsMachines
<1>4. /\ S \in Seq(Packets) /\ on \in BOOLEAN
      /\ Heard(S, on) /\ (m \in ended => ~OnAt(S, Len(S), on))
      /\ Provided(A, sent, m) => OnAt(S, Len(S), on)
      /\ Finished(A, sent, m) => ~OnAt(S, Len(S), on)
  BY DEF OrchestratorTypeOK, InOrder
<1>5. now = on
  BY <1>2 DEF IsOff
<1>6. /\ a.phase = "provision_worker" => Start({a.machine})
      /\ a.phase = "signal_request" => Send({a.machine}, "signal") /\ UNCHANGED ended
      /\ a.phase = "cleanup_worker" => Send({a.machine}, "cleanup") /\ UNCHANGED ended
  BY DEF HostCall
<1>7. /\ Provided(A, i, m) =>
            \/ a.phase = "provision_worker" /\ a.machine = m
            \/ Provided(A, sent, m) /\ ~(a.phase = "cleanup_worker" /\ a.machine = m)
      /\ Finished(A, i, m) =>
            \/ a.phase = "cleanup_worker" /\ a.machine = m
            \/ Finished(A, sent, m) /\ a.phase # "provision_worker"
  BY <1>2, OneMore
<1>8. InOrder(m)' <=>
         /\ Heard(net'[m], now)
         /\ m \in ended' => ~OnAt(net'[m], Len(net'[m]), now)
         /\ Provided(A, i, m) => OnAt(net'[m], Len(net'[m]), now)
         /\ Finished(A, i, m) => ~OnAt(net'[m], Len(net'[m]), now)
  BY <1>2 DEF InOrder
<1>9. a.phase = "signal_request" => Provided(A, sent, a.machine)
  BY <1>1, <1>2 DEF Serves, Provided
<1> HIDE DEF A, i, a, S, on, now
<1>10. CASE a.machine # m
  <2>1. net'[m] = S /\ (m \in ended' => m \in ended)
    BY <1>3, <1>6, <1>10 DEF Start, Send, S
  <2>2. QED
    BY <1>4, <1>5, <1>7, <1>8, <1>10, <2>1
<1>11. ASSUME a.machine = m, NEW x \in Packets, Send({a.machine}, x)
       PROVE  net'[m] = Append(S, x) /\ Len(Append(S, x)) = Len(S) + 1
  BY <1>4, <1>11 DEF Send, S
<1>12. CASE a.machine = m /\ a.phase = "provision_worker"
  <2>1. /\ net'[m] = Append(S, "run") /\ Len(Append(S, "run")) = Len(S) + 1
        /\ m \notin ended'
    BY <1>6, <1>11, <1>12 DEF Start, Packets
  <2>2. OnAt(Append(S, "run"), Len(S) + 1, on) /\ Heard(Append(S, "run"), on)
    BY <1>4, OnAtAppend, HeardAppend DEF Packets
  <2>3. QED
    BY <1>5, <1>7, <1>8, <1>12, <2>1, <2>2
<1>13. CASE a.machine = m /\ a.phase = "signal_request"
  <2>1. /\ net'[m] = Append(S, "signal") /\ Len(Append(S, "signal")) = Len(S) + 1
        /\ ended' = ended
    BY <1>6, <1>11, <1>13 DEF Packets
  <2>2. OnAt(S, Len(S), on)
    BY <1>4, <1>9, <1>13
  <2>3. OnAt(Append(S, "signal"), Len(S) + 1, on) /\ Heard(Append(S, "signal"), on)
    BY <1>4, <2>2, OnAtAppend, HeardAppend DEF Packets
  <2>4. QED
    BY <1>4, <1>5, <1>7, <1>8, <1>13, <2>1, <2>2, <2>3
<1>14. CASE a.machine = m /\ a.phase = "cleanup_worker"
  <2>1. net'[m] = Append(S, "cleanup") /\ Len(Append(S, "cleanup")) = Len(S) + 1
    BY <1>6, <1>11, <1>14 DEF Packets
  <2>2. ~OnAt(Append(S, "cleanup"), Len(S) + 1, on) /\ Heard(Append(S, "cleanup"), on)
    BY <1>4, OnAtAppend, HeardAppend DEF Packets, Stops
  <2>3. QED
    BY <1>5, <1>7, <1>8, <1>14, <2>1, <2>2
<1>15. QED
  BY <1>3, <1>10, <1>12, <1>13, <1>14

\* A plan that was executed to its end leaves its machines to be off.
LEMMA PlanDoneInOrder ==
    ASSUME OrchestratorTypeOK, Executed, PlanDone, NEW m \in Machines, InOrder(m)
    PROVE  InOrder(m)'
<1>1. PICK id \in TaskIds : Serves(id, doing)
  BY DEF Executed, PlanDone
<1>2. /\ doing \in Seq(Acts(id)) /\ sent = Len(doing) /\ sent' = 0
      /\ ended' = ended \cup {action.machine : action \in ToSet(doing)}
      /\ net' = net /\ vm' = vm
  BY <1>1 DEF Serves, PlanDone, node
<1>3. IsOff(m)' <=> IsOff(m)
  BY <1>2 DEF IsOff
<1>4. CASE m \notin ended' \/ m \in ended
  BY <1>2, <1>3, <1>4, InOrderSame
<1>5. CASE m \in ended' /\ m \notin ended
  <2>1. PICK i \in 1..Len(doing) : doing[i].machine = m
    BY <1>2, <1>5 DEF ToSet
  <2>2. Finished(doing, sent, m)
    BY <1>1, <1>2, <2>1 DEF Serves, Finished
  <2> DEFINE on == ~IsOff(m)
             now == ~IsOff(m)'
  <2>3. Heard(net[m], on) /\ ~OnAt(net[m], Len(net[m]), on)
    BY <2>2 DEF InOrder
  <2>4. now = on
    BY <1>3
  <2> HIDE DEF on, now
  <2>5. Heard(net'[m], now) /\ ~OnAt(net'[m], Len(net'[m]), now)
    BY <1>2, <2>3, <2>4
  <2>6. ~Provided(doing', sent', m) /\ ~Finished(doing', sent', m)
    BY <1>2, NothingDone
  <2>7. QED
    BY <2>5, <2>6 DEF InOrder, now
<1>6. QED
  BY <1>4, <1>5

\* The oldest packet of a machine takes effect: a signal is heard.
LEMMA CarriedOutInOrder ==
    ASSUME OrchestratorTypeOK, NEW m \in Machines, CarriedOut(m), InOrder(m)
    PROVE  InOrder(m)' /\ unheard' = unheard
<1> DEFINE S == net[m]
           on == ~IsOff(m)
           now == ~IsOff(m)'
<1>1. /\ S \in Seq(Packets) /\ S # <<>> /\ net'[m] = Tail(S) /\ Head(S) = S[1] /\ S[1] \in Packets
      /\ on \in BOOLEAN /\ now \in BOOLEAN
      /\ doing' = doing /\ sent' = sent /\ ended' = ended
  BY DEF CarriedOut, OrchestratorTypeOK, caller, IsOff
<1>2. vm'[m] = After(m, S[1]) /\ vm[m] \in {"off", "on", "busy", "cut"}
  BY <1>1 DEF CarriedOut, TakesEffect, OrchestratorTypeOK
<1>3. /\ Heard(S, on) /\ (m \in ended => ~OnAt(S, Len(S), on))
      /\ Provided(doing, sent, m) => OnAt(S, Len(S), on)
      /\ Finished(doing, sent, m) => ~OnAt(S, Len(S), on)
  BY DEF InOrder
<1>4. /\ S[1] = "run" => now
      /\ S[1] \in Stops => ~now
      /\ S[1] \in {"signal", "assign"} => now = on
  <2>1. CASE S[1] = "run"
    BY <1>2, <2>1 DEF After, IsOff, Stops
  <2>2. CASE S[1] \in Stops
    BY <1>2, <2>2 DEF After, IsOff, Stops
  <2>3. CASE S[1] \in {"signal", "assign"}
    BY <1>2, <2>3 DEF After, IsOff, Stops
  <2>4. QED
    BY <1>1, <2>1, <2>2, <2>3 DEF Packets, Stops
<1>5. unheard' = IF S[1] = "signal" /\ ~on THEN unheard \cup {m} ELSE unheard
  BY <1>1 DEF CarriedOut, TakesEffect
<1>6. InOrder(m)' <=>
         /\ Heard(Tail(S), now)
         /\ m \in ended => ~OnAt(Tail(S), Len(Tail(S)), now)
         /\ Provided(doing, sent, m) => OnAt(Tail(S), Len(Tail(S)), now)
         /\ Finished(doing, sent, m) => ~OnAt(Tail(S), Len(Tail(S)), now)
  BY <1>1 DEF InOrder
<1> HIDE DEF S, on, now
<1>7. Heard(Tail(S), now)
  BY <1>1, <1>3, <1>4, HeardTail
<1>8. OnAt(Tail(S), Len(Tail(S)), now) <=> OnAt(S, Len(S), on)
  <2>1. Len(Tail(S)) \in 0..(Len(S) - 1) /\ Len(Tail(S)) + 1 = Len(S)
    BY <1>1
  <2>2. QED
    BY <1>1, <1>4, <2>1, OnAtTail
<1>9. S[1] = "signal" => on
  <2>1. SUFFICES ASSUME S[1] = "signal" PROVE on
    OBVIOUS
  <2>2. 1 \in 1..Len(S) /\ 1 - 1 = 0
    BY <1>1
  <2>3. OnAt(S, 0, on)
    BY <1>3, <2>1, <2>2 DEF Heard
  <2>4. \A j \in 1..0 : FALSE
    OBVIOUS
  <2>5. QED
    BY <2>3, <2>4 DEF OnAt
<1>10. QED
  BY <1>3, <1>5, <1>6, <1>7, <1>8, <1>9

\* There are no plans, no workers and no packets at first.
LEMMA OrchestratorInit == InitOrchestrator => OrchestratorInv
<1> SUFFICES ASSUME InitOrchestrator PROVE OrchestratorInv
  OBVIOUS
<1>1. /\ workers = <<>> /\ DOMAIN workers = {} /\ plans = {} /\ doing = <<>> /\ sent = 0
      /\ net = [m \in Machines |-> <<>>] /\ vm = [m \in Machines |-> "off"]
      /\ disturbed = {} /\ unheard = {} /\ ended = {}
  BY DEF InitOrchestrator
<1>2. net \in [Machines -> Seq(Packets)]
  BY <1>1
<1>3. OrchestratorTypeOK
  BY <1>1, <1>2 DEF OrchestratorTypeOK
<1>4. ASSUME NEW m \in Machines PROVE InOrder(m)
  <2>1. net[m] = <<>> /\ Len(net[m]) = 0 /\ \A i \in 1..0 : FALSE
    BY <1>1
  <2>2. Heard(net[m], ~IsOff(m))
    BY <2>1 DEF Heard
  <2>3. QED
    BY <1>1, <2>2, NothingDone DEF InOrder
<1>5. QED
  BY <1>1, <1>3, <1>4 DEF OrchestratorInv, Made, Executed

\* Operations of the caller while no plan is executed.
LEMMA CallerStep ==
    ASSUME OrchestratorInv, Idle, UNCHANGED <<doing, sent, vm, disturbed, unheard>>,
           WorkersOK(workers'), Made',
           \A p \in plans' : p.request \in Requests /\ p.review \in BOOLEAN,
           NEW ms \in SUBSET Machines, NEW x \in {"run", "assign", "terminate"}, Send(ms, x),
           ended' = IF x = "run" THEN ended \ ms ELSE ended
    PROVE  OrchestratorInv'
<1>1. OrchestratorTypeOK'
  <2>1. net' \in [Machines -> Seq(Packets)]
    <3>1. x \in Packets /\ net \in [Machines -> Seq(Packets)]
      BY DEF Packets, OrchestratorInv, OrchestratorTypeOK
    <3>2. \A m \in Machines : Append(net[m], x) \in Seq(Packets)
      BY <3>1
    <3>3. QED
      BY <3>1, <3>2 DEF Send
  <2>2. QED
    BY <2>1 DEF OrchestratorInv, OrchestratorTypeOK, WorkersOK
<1>2. ASSUME NEW m \in Machines \ disturbed' PROVE InOrder(m)'
  BY IdleSend DEF OrchestratorInv
<1>3. QED
  BY <1>1, <1>2 DEF OrchestratorInv, Executed

\* Every step keeps the invariant of the orchestrator.
LEMMA OrchestratorStep ==
    ASSUME OrchestratorInv, [NextOrchestrator]_vars_orchestrator
    PROVE  OrchestratorInv'
<1>1. /\ OrchestratorTypeOK /\ WorkersOK(workers) /\ Made /\ Executed
      /\ \A p \in plans : p.request \in Requests /\ p.review \in BOOLEAN
      /\ unheard \subseteq disturbed /\ \A m \in Machines \ disturbed : InOrder(m)
      /\ net \in [Machines -> Seq(Packets)] /\ vm \in [Machines -> {"off", "on", "busy", "cut"}]
  BY DEF OrchestratorInv, OrchestratorTypeOK, WorkersOK
<1>2. ASSUME NEW role \in Roles, NEW tk \in TaskIds, NEW id \in WorkerIds \cup {<<role, tk>>},
             LaunchWorker(role, tk, id)
      PROVE  OrchestratorInv'
  <2>1. WorkersOK(workers')
    BY <1>1, <1>2, LaunchOK DEF LaunchWorker
  <2>2. {Machine(role, id)} \subseteq Machines
    BY MachineType DEF WorkerId
  <2>3. /\ Idle /\ Send({Machine(role, id)}, "run") /\ ended' = ended \ {Machine(role, id)}
        /\ plans' = plans /\ UNCHANGED <<doing, sent, vm, disturbed, unheard>>
    BY <1>2 DEF LaunchWorker, Start, node
  <2>4. Made' /\ \A p \in plans' : p.request \in Requests /\ p.review \in BOOLEAN
    BY <1>1, <2>3 DEF Made
  <2>5. QED
    BY <2>1, <2>2, <2>3, <2>4, CallerStep DEF Send, OnTheirWay
<1>3. ASSUME NEW id \in WorkerId, AssignTask(id) PROVE OrchestratorInv'
  <2>1. /\ Idle /\ Send({Machine(workers[id].role, id)}, "assign")
        /\ UNCHANGED <<workers, plans, doing, sent, ended, vm, disturbed, unheard>>
        /\ id \in DOMAIN workers
    BY <1>3 DEF AssignTask, caller, node
  <2>2. {Machine(workers[id].role, id)} \subseteq Machines
    BY <1>1, <2>1, MachineType DEF WorkersOK
  <2>3. /\ WorkersOK(workers') /\ Made'
        /\ \A p \in plans' : p.request \in Requests /\ p.review \in BOOLEAN
    BY <1>1, <2>1 DEF Made
  <2>4. QED
    BY <2>1, <2>2, <2>3, CallerStep DEF Send, OnTheirWay
<1>4. ASSUME NEW id \in WorkerId, TerminateWorker(id) PROVE OrchestratorInv'
  <2>1. /\ Idle /\ id \in DOMAIN workers
        /\ UNCHANGED <<plans, doing, sent, ended, vm, disturbed, unheard>>
        /\ Send({Machine(workers[id].role, id)}, "terminate") \/ UNCHANGED net
    BY <1>4 DEF TerminateWorker, node
  <2>2. WorkersOK(workers')
    BY <1>1, <1>4 DEF TerminateWorker, WorkersOK, Restrict
  <2>3. Made' /\ \A p \in plans' : p.request \in Requests /\ p.review \in BOOLEAN
    BY <1>1, <2>1 DEF Made
  <2>4. CASE Send({Machine(workers[id].role, id)}, "terminate")
    <3>1. {Machine(workers[id].role, id)} \subseteq Machines
      BY <1>1, <2>1, MachineType DEF WorkersOK
    <3>2. QED
      BY <2>1, <2>2, <2>3, <2>4, <3>1, CallerStep DEF Send, OnTheirWay
  <2>5. CASE UNCHANGED net
    <3>1. OrchestratorTypeOK'
      BY <1>1, <2>1, <2>2, <2>3, <2>5 DEF OrchestratorTypeOK, WorkersOK
    <3>2. ASSUME NEW m \in Machines \ disturbed PROVE InOrder(m)'
      BY <1>1, <2>1, <2>5, InOrderSame DEF IsOff
    <3>3. QED
      BY <1>1, <2>1, <2>3, <3>1, <3>2 DEF OrchestratorInv, Executed
  <2>6. QED
    BY <2>1, <2>4, <2>5
<1>5. ASSUME NEW tk \in TaskIds, NEW r \in Requests, Plan(tk, r) PROVE OrchestratorInv'
  <2> DEFINE ms == {PlanMachine(tk, role) : role \in ToSet(Launched[r])}
  <2>1. /\ Idle /\ plans' = plans \cup {HierarchicalPlan[tk][r]}
        /\ workers' = Registered(tk, ToSet(Launched[r]))
        /\ Send(ms, "run") /\ ended' = ended \ ms
        /\ UNCHANGED <<doing, sent, vm, disturbed, unheard>>
    BY <1>5 DEF Plan, Start, node
  <2>2. ToSet(Launched[r]) \subseteq Roles
    BY LaunchedRoles
  <2>3. WorkersOK(workers')
    BY <1>1, <2>1, <2>2, RegisteredOK
  <2>4. ms \subseteq Machines
    BY <2>2, MachineType
  <2>5. HierarchicalPlan[tk][r].request \in Requests /\ HierarchicalPlan[tk][r].review \in BOOLEAN
    BY DEF HierarchicalPlan
  <2>6. Made' /\ \A p \in plans' : p.request \in Requests /\ p.review \in BOOLEAN
    BY <1>1, <2>1, <2>5 DEF Made
  <2> HIDE DEF ms
  <2>7. QED
    BY <2>1, <2>3, <2>4, <2>6, CallerStep DEF Send, OnTheirWay
<1>6. ASSUME NEW tk \in TaskIds, NEW r \in Requests, PlanRaises(tk, r) PROVE OrchestratorInv'
  <2>1. PICK n \in 0..(Len(Launched[r]) - 1) :
           /\ workers' = Registered(tk, ToSet(SubSeq(Launched[r], 1, n)))
           /\ Start({PlanMachine(tk, role) : role \in ToSet(SubSeq(Launched[r], 1, n))})
    BY <1>6 DEF PlanRaises
  <2> DEFINE roles == ToSet(SubSeq(Launched[r], 1, n))
             ms == {PlanMachine(tk, role) : role \in roles}
  <2>2. /\ Idle /\ plans' = plans /\ Send(ms, "run") /\ ended' = ended \ ms
        /\ UNCHANGED <<doing, sent, vm, disturbed, unheard>>
    BY <1>6, <2>1 DEF PlanRaises, Start, node
  <2>3. roles \subseteq Roles
    BY LaunchedRoles
  <2>4. WorkersOK(workers')
    BY <1>1, <2>1, <2>3, RegisteredOK
  <2>5. ms \subseteq Machines
    BY <2>3, MachineType
  <2>6. Made' /\ \A p \in plans' : p.request \in Requests /\ p.review \in BOOLEAN
    BY <1>1, <2>2 DEF Made
  <2> HIDE DEF ms, roles
  <2>7. QED
    BY <2>2, <2>4, <2>5, <2>6, CallerStep DEF Send, OnTheirWay
<1>7. ASSUME NEW p \in plans, ExecutePlan(p) PROVE OrchestratorInv'
  <2>1. /\ plans' = plans \ {p} /\ doing' = p.actions /\ sent' = 0
        /\ UNCHANGED <<workers, ended, net, vm, disturbed, unheard>>
    BY <1>7 DEF ExecutePlan, node
  <2>2. PICK tk \in TaskIds, r \in Requests : p = HierarchicalPlan[tk][r]
    BY <1>1 DEF Made
  <2>3. Serves(tk, doing')
    BY <2>1, <2>2, PlanServes
  <2>4. sent' \in 0..Len(doing')
    BY <2>1, <2>3 DEF Serves
  <2>5. OrchestratorTypeOK'
    BY <1>1, <2>1, <2>4 DEF OrchestratorTypeOK
  <2>6. ASSUME NEW m \in Machines \ disturbed PROVE InOrder(m)'
    BY <1>1, <2>1, InOrderSame DEF IsOff
  <2>7. Made' /\ Executed'
    <3>1. Made'
      BY <1>1, <2>1 DEF Made
    <3>2. Executed'
      BY <2>3 DEF Executed, Serves
    <3>3. QED
      BY <3>1, <3>2
  <2>8. QED
    BY <1>1, <2>1, <2>5, <2>6, <2>7 DEF OrchestratorInv
<1>8. ASSUME HostCall PROVE OrchestratorInv'
  <2>1. /\ sent < Len(doing) /\ sent' = sent + 1
        /\ UNCHANGED <<workers, plans, doing, vm, disturbed, unheard>>
    BY <1>8 DEF HostCall, node
  <2>2. PICK x \in Packets : Send({doing[sent + 1].machine}, x)
    BY <1>8 DEF HostCall, Start, Packets
  <2>3. ended' \subseteq ended
    BY <1>8 DEF HostCall, Start
  <2>4. net' \in [Machines -> Seq(Packets)]
    <3>1. \A m \in Machines : Append(net[m], x) \in Seq(Packets)
      BY <1>1
    <3>2. QED
      BY <1>1, <2>2, <3>1 DEF Send
  <2>5. sent' \in 0..Len(doing')
    <3>1. sent \in 0..Len(doing)
      BY <1>1 DEF OrchestratorTypeOK
    <3>2. Len(doing) \in Nat
      BY <1>1 DEF Executed, Serves
    <3>3. QED
      BY <2>1, <3>1, <3>2
  <2>6. OrchestratorTypeOK'
    BY <1>1, <2>1, <2>3, <2>4, <2>5 DEF OrchestratorTypeOK
  <2>7. \A m \in Machines \ disturbed : InOrder(m)'
    BY <1>1, <1>8, HostCallInOrder
  <2>8. Made' /\ Executed'
    BY <1>1, <2>1 DEF Made, Executed
  <2>9. QED
    BY <1>1, <2>1, <2>6, <2>7, <2>8 DEF OrchestratorInv
<1>9. ASSUME HostCallRaises PROVE OrchestratorInv'
  <2>1. /\ doing' = <<>> /\ sent' = 0
        /\ UNCHANGED <<workers, plans, ended, net, vm, disturbed, unheard>>
    BY <1>9 DEF HostCallRaises, node
  <2>2. OrchestratorTypeOK'
    BY <1>1, <2>1 DEF OrchestratorTypeOK
  <2>3. ASSUME NEW m \in Machines \ disturbed PROVE InOrder(m)'
    BY <1>1, <2>1, InOrderSame DEF IsOff
  <2>4. Made' /\ Executed'
    BY <1>1, <2>1 DEF Made, Executed
  <2>5. QED
    BY <1>1, <2>1, <2>2, <2>3, <2>4 DEF OrchestratorInv
<1>10. ASSUME PlanDone PROVE OrchestratorInv'
  <2>1. /\ doing # <<>> /\ doing' = <<>> /\ sent' = 0
        /\ ended' = ended \cup {action.machine : action \in ToSet(doing)}
        /\ UNCHANGED <<workers, plans, net, vm, disturbed, unheard>>
    BY <1>10 DEF PlanDone, node
  <2>2. ended' \subseteq Machines
    <3>1. PICK id \in TaskIds : doing \in Seq(Acts(id))
      BY <1>1, <2>1 DEF Executed, Serves
    <3>2. \A action \in ToSet(doing) : action.machine \in Machines
      BY <3>1, ActsMachines DEF ToSet
    <3>3. ended \subseteq Machines
      BY <1>1 DEF OrchestratorTypeOK
    <3>4. QED
      BY <2>1, <3>2, <3>3
  <2>3. OrchestratorTypeOK'
    BY <1>1, <2>1, <2>2 DEF OrchestratorTypeOK
  <2>4. \A m \in Machines \ disturbed : InOrder(m)'
    BY <1>1, <1>10, PlanDoneInOrder
  <2>5. Made' /\ Executed'
    BY <1>1, <2>1 DEF Made, Executed
  <2>6. QED
    BY <1>1, <2>1, <2>3, <2>4, <2>5 DEF OrchestratorInv
<1>11. ASSUME NEW m \in Machines, UNCHANGED caller,
              \A o \in Machines \ {m} : net'[o] = net[o] /\ vm'[o] = vm[o],
              net' \in [Machines -> Seq(Packets)],
              vm' \in [Machines -> {"off", "on", "busy", "cut"}],
              disturbed' \subseteq Machines, unheard' \subseteq Machines,
              disturbed \subseteq disturbed', unheard' \subseteq disturbed',
              m \notin disturbed' => InOrder(m)'
       PROVE  OrchestratorInv'
  <2>1. UNCHANGED <<workers, plans, doing, sent, ended>>
    BY <1>11 DEF caller
  <2>2. OrchestratorTypeOK'
    BY <1>1, <1>11, <2>1 DEF OrchestratorTypeOK
  <2>3. ASSUME NEW o \in Machines \ disturbed' PROVE InOrder(o)'
    <3>1. CASE o = m
      BY <1>11, <2>3, <3>1
    <3>2. CASE o # m
      <4>1. InOrder(o) /\ net'[o] = net[o] /\ (IsOff(o)' <=> IsOff(o))
        BY <1>1, <1>11, <2>3, <3>2 DEF IsOff
      <4>2. QED
        BY <2>1, <4>1, InOrderSame
    <3>3. QED
      BY <3>1, <3>2
  <2>4. Made' /\ Executed'
    BY <1>1, <2>1 DEF Made, Executed
  <2>5. QED
    BY <1>11, <2>2, <2>3, <2>4 DEF OrchestratorInv
<1>12. ASSUME NEW m \in Machines, NEW x \in Packets, TakesEffect(m, x)
       PROVE  /\ vm' \in [Machines -> {"off", "on", "busy", "cut"}]
              /\ \A o \in Machines \ {m} : vm'[o] = vm[o]
              /\ unheard' \subseteq unheard \cup {m}
  <2>1. After(m, x) \in {"off", "on", "busy", "cut"}
    BY <1>1 DEF After, Packets
  <2>2. QED
    BY <1>1, <1>12, <2>1 DEF TakesEffect
<1>13. disturbed \subseteq Machines /\ unheard \subseteq Machines
  BY <1>1 DEF OrchestratorTypeOK
<1>14. ASSUME NEW m \in Machines, CarriedOut(m) PROVE OrchestratorInv'
  <2>1. /\ net[m] \in Seq(Packets) /\ net[m] # <<>> /\ TakesEffect(m, Head(net[m]))
        /\ net' = [net EXCEPT ![m] = Tail(@)] /\ UNCHANGED <<caller, disturbed>>
    BY <1>1, <1>14 DEF CarriedOut
  <2>2. Head(net[m]) \in Packets /\ Tail(net[m]) \in Seq(Packets)
    BY <2>1
  <2>3. /\ net' \in [Machines -> Seq(Packets)]
        /\ \A o \in Machines \ {m} : net'[o] = net[o]
    BY <1>1, <2>1, <2>2
  <2>4. m \notin disturbed => InOrder(m)' /\ unheard' = unheard
    BY <1>1, <1>14, CarriedOutInOrder
  <2>5. unheard' \subseteq unheard \cup {m} /\ vm' \in [Machines -> {"off", "on", "busy", "cut"}]
        /\ \A o \in Machines \ {m} : vm'[o] = vm[o]
    BY <1>12, <2>1, <2>2
  <2>6. unheard' \subseteq disturbed'
    BY <1>1, <2>1, <2>4, <2>5
  <2>7. QED
    BY <1>11, <1>13, <2>1, <2>3, <2>4, <2>5, <2>6
<1>15. ASSUME NEW m \in Machines, NEW k \in DOMAIN net[m], Overtakes(m, k) \/ Lost(m, k)
       PROVE  OrchestratorInv'
  <2>1. /\ UNCHANGED caller /\ net' = [net EXCEPT ![m] = RemoveAt(@, k)]
        /\ disturbed' = disturbed \cup {m}
        /\ TakesEffect(m, net[m][k]) \/ UNCHANGED <<vm, unheard>>
    BY <1>15 DEF Overtakes, Lost
  <2>2. net[m] \in Seq(Packets) /\ net[m][k] \in Packets /\ RemoveAt(net[m], k) \in Seq(Packets)
    BY <1>1, RemoveAtType
  <2>3. /\ net' \in [Machines -> Seq(Packets)]
        /\ \A o \in Machines \ {m} : net'[o] = net[o]
    BY <1>1, <2>1, <2>2
  <2>4. /\ vm' \in [Machines -> {"off", "on", "busy", "cut"}]
        /\ \A o \in Machines \ {m} : vm'[o] = vm[o]
        /\ unheard' \subseteq unheard \cup {m}
    BY <1>1, <1>12, <2>1, <2>2
  <2>5. QED
    BY <1>1, <1>11, <1>13, <2>1, <2>3, <2>4
<1>16. ASSUME NEW m \in Machines, Completes(m) PROVE OrchestratorInv'
  <2>1. /\ vm[m] = "busy" /\ vm' = [vm EXCEPT ![m] = "on"]
        /\ UNCHANGED <<caller, net, disturbed, unheard>>
    BY <1>16 DEF Completes
  <2>2. /\ vm' \in [Machines -> {"off", "on", "busy", "cut"}] /\ vm'[m] = "on"
        /\ \A o \in Machines \ {m} : vm'[o] = vm[o]
    BY <1>1, <2>1
  <2>3. m \notin disturbed => InOrder(m)'
    <3>1. IsOff(m)' <=> IsOff(m)
      BY <2>1, <2>2 DEF IsOff
    <3>2. QED
      BY <1>1, <2>1, <3>1, InOrderSame DEF caller
  <2>4. QED
    BY <1>1, <1>11, <1>13, <2>1, <2>2, <2>3
<1>17. CASE UNCHANGED vars_orchestrator
  <2>1. UNCHANGED <<workers, plans, doing, sent, ended, net, vm, disturbed, unheard>>
    BY <1>17 DEF vars_orchestrator, caller, node
  <2>2. OrchestratorTypeOK' /\ Made' /\ Executed'
    BY <1>1, <2>1 DEF OrchestratorTypeOK, Made, Executed
  <2>3. ASSUME NEW m \in Machines \ disturbed PROVE InOrder(m)'
    BY <1>1, <2>1, InOrderSame DEF IsOff
  <2>4. QED
    BY <1>1, <2>1, <2>2, <2>3 DEF OrchestratorInv
<1>18. CASE NextOrchestrator
  <2>1. CASE \E role \in Roles, tk \in TaskIds :
                \E id \in WorkerIds \cup {<<role, tk>>} : LaunchWorker(role, tk, id)
    BY <1>2, <2>1
  <2>2. CASE \E id \in WorkerId : AssignTask(id) \/ TerminateWorker(id)
    BY <1>3, <1>4, <2>2
  <2>3. CASE \E tk \in TaskIds, r \in Requests : Plan(tk, r) \/ PlanRaises(tk, r)
    BY <1>5, <1>6, <2>3
  <2>4. CASE \E p \in plans : ExecutePlan(p)
    BY <1>7, <2>4
  <2>5. CASE HostCall \/ HostCallRaises \/ PlanDone
    BY <1>8, <1>9, <1>10, <2>5
  <2>6. CASE \E m \in Machines : \/ CarriedOut(m) \/ Completes(m)
                                \/ \E k \in DOMAIN net[m] : Overtakes(m, k) \/ Lost(m, k)
    BY <1>14, <1>15, <1>16, <2>6
  <2>7. QED
    BY <1>18, <2>1, <2>2, <2>3, <2>4, <2>5, <2>6 DEF NextOrchestrator
<1>19. QED
  BY <1>17, <1>18

\* In order, a machine has heard its signals, and an ended one is off.
LEMMA InvServes ==
    ASSUME OrchestratorInv PROVE PlansServe
<1>1. ASSUME NEW m \in ended \ disturbed, net[m] = <<>> PROVE IsOff(m)
  <2>1. m \in Machines
    BY DEF OrchestratorInv, OrchestratorTypeOK
  <2>2. ~OnAt(net[m], Len(net[m]), ~IsOff(m))
    BY <2>1 DEF OrchestratorInv, InOrder
  <2>3. Len(net[m]) = 0 /\ \A i \in 1..0 : FALSE
    BY <1>1
  <2>4. QED
    BY <2>2, <2>3 DEF OnAt
<1>2. QED
  BY <1>1 DEF OrchestratorInv, PlansServe

\* A plan that was made and needs no review is whole and without high risk.
LEMMA InvUnreviewed ==
    ASSUME OrchestratorInv PROVE UnreviewedIsSafe
<1>1. ASSUME NEW p \in plans, ~p.review
      PROVE  LET signals == SignalsOf(p.actions)
             IN  /\ [k \in DOMAIN signals |-> signals[k].category] = p.request
                 /\ \A k \in DOMAIN signals :
                       /\ Template(signals[k].machine.worker[1]).risk # "high"
                       /\ signals[k].category \in Template(signals[k].machine.worker[1]).categories
  <2>1. PICK tk \in TaskIds, r \in Requests : p = HierarchicalPlan[tk][r]
    BY DEF OrchestratorInv, Made
  <2>2. p.request = r
    BY <2>1, PlanParts
  <2>3. QED
    BY <1>1, <2>1, <2>2, PlanIsSafe
<1>2. QED
  BY <1>1, RoutedIsSafe DEF UnreviewedIsSafe, RoutedPlansAreSafe

\* The type invariant of the orchestrator, for any templates, tools and requests.
THEOREM OrchestratorTypeCorrect == SpecOrchestrator => []OrchestratorTypeOK
<1>1. OrchestratorInv => OrchestratorTypeOK
  BY DEF OrchestratorInv
<1>2. QED
  BY <1>1, OrchestratorInit, OrchestratorStep, PTL DEF SpecOrchestrator

\* plan_hierarchical_execution and execute_plan: for any templates, tasks and requests,
\* whichever operations come between and wherever a host call raises, a machine whose
\* packets took effect in the order in which they were sent was on for every signal of a
\* plan, and is off after a plan that was executed to its end.  It may be so before its
\* worker has done what it was signalled to do: that is TerminatedWhenDone, which fails.
THEOREM PlansServeHolds == SpecOrchestrator => []PlansServe
BY OrchestratorInit, OrchestratorStep, InvServes, PTL DEF SpecOrchestrator

\* plan_hierarchical_execution and DavinciPlanner.plan: a plan that asks for no review
\* serves every category of its request, in order, and uses nothing of high risk.
THEOREM UnreviewedIsSafeHolds == SpecOrchestrator => []UnreviewedIsSafe
BY OrchestratorInit, OrchestratorStep, InvUnreviewed, PTL DEF SpecOrchestrator
=============================================================================
