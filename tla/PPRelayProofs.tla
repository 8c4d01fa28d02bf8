---------------------------- MODULE PPRelayProofs ----------------------------
(***************************************************************************)
(* Proofs about PPRelay for any pipeline depth, any set of requests, any   *)
(* number of draft tokens and any number of steps: the broadcasts that the *)
(* ranks enqueue, each at its own pace, pair up in order, and every rank   *)
(* feeds its forwards what the history of their requests gives.            *)
(*                                                                         *)
(* The ranks share no state, only the scheduler outputs they were given.   *)
(* The invariants therefore speak of the history of these outputs, which   *)
(* the specification does not keep: there is a schedule W of which every   *)
(* rank has a suffix still before it.                                      *)
(***************************************************************************)
EXTENDS PPRelay, SequenceTheorems, TLAPS, FiniteSetTheorems

-----------------------------------------------------------------------------
(* Sequences of whatever elements.                                         *)

IsSeq(s) == \E S : s \in Seq(S)

LEMMA SeqLen == ASSUME NEW s, IsSeq(s) PROVE Len(s) \in Nat /\ (s = <<>> <=> Len(s) = 0)
<1>1. PICK S : s \in Seq(S)
  BY DEF IsSeq
<1> QED BY <1>1, EmptySeq, LenProperties

LEMMA EmptyIsSeq == IsSeq(<<>>) /\ Len(<<>>) = 0
<1>1. <<>> \in Seq(Nat)
  BY EmptySeq
<1> QED BY <1>1, EmptySeq DEF IsSeq

LEMMA TailIsSeq ==
  ASSUME NEW s, IsSeq(s), s # <<>>
  PROVE  /\ IsSeq(Tail(s)) /\ Len(s) \in Nat /\ Len(s) > 0 /\ Len(Tail(s)) = Len(s) - 1
         /\ \A i \in 1 .. Len(s) - 1 : Tail(s)[i] = s[i + 1]
         /\ Head(s) = s[1]
<1>1. PICK S : s \in Seq(S)
  BY DEF IsSeq
<1>2. Tail(s) \in Seq(S) /\ Len(Tail(s)) = Len(s) - 1
      /\ \A i \in 1 .. Len(Tail(s)) : Tail(s)[i] = s[i + 1]
  BY <1>1, HeadTailProperties
<1>3. Len(s) \in Nat /\ Len(s) > 0
  BY <1>1, EmptySeq
<1> QED BY <1>1, <1>2, <1>3 DEF IsSeq

LEMMA ConcatIsSeq ==
  ASSUME NEW s, IsSeq(s), NEW t, IsSeq(t)
  PROVE  /\ IsSeq(s \o t) /\ Len(s) \in Nat /\ Len(t) \in Nat /\ Len(s \o t) = Len(s) + Len(t)
         /\ \A i \in 1 .. Len(s) + Len(t) :
               (s \o t)[i] = IF i <= Len(s) THEN s[i] ELSE t[i - Len(s)]
<1>1. PICK S : s \in Seq(S)
  BY DEF IsSeq
<1>2. PICK T : t \in Seq(T)
  BY DEF IsSeq
<1> DEFINE U == S \cup T
<1>3. s \in Seq(U) /\ t \in Seq(U)
  BY <1>1, <1>2, SeqMonotonic
<1> HIDE DEF U
<1>4. /\ s \o t \in Seq(U) /\ Len(s \o t) = Len(s) + Len(t)
      /\ \A i \in 1 .. Len(s) + Len(t) :
            (s \o t)[i] = IF i <= Len(s) THEN s[i] ELSE t[i - Len(s)]
  BY <1>3, ConcatProperties
<1> QED BY <1>3, <1>4, LenProperties DEF IsSeq

LEMMA OneIsSeq == ASSUME NEW e PROVE IsSeq(<<e>>) /\ Len(<<e>>) = 1 /\ <<e>>[1] = e
<1>1. <<e>> \in Seq({e})
  OBVIOUS
<1> QED BY <1>1 DEF IsSeq

LEMMA AppendIsSeq ==
  ASSUME NEW s, IsSeq(s), NEW e
  PROVE  /\ IsSeq(Append(s, e)) /\ Len(s) \in Nat /\ Len(Append(s, e)) = Len(s) + 1
         /\ \A i \in 1 .. Len(s) : Append(s, e)[i] = s[i]
         /\ Append(s, e)[Len(s) + 1] = e
         /\ Append(s, e) # <<>>
<1>1. PICK S : s \in Seq(S)
  BY DEF IsSeq
<1> DEFINE U == S \cup {e}
<1>2. s \in Seq(U) /\ e \in U
  BY <1>1, SeqMonotonic
<1> HIDE DEF U
<1>3. /\ Append(s, e) \in Seq(U) /\ Len(Append(s, e)) = Len(s) + 1
      /\ \A i \in 1 .. Len(s) : Append(s, e)[i] = s[i]
      /\ Append(s, e)[Len(s) + 1] = e
  BY <1>2, AppendProperties
<1>4. Len(s) \in Nat
  BY <1>2, LenProperties
<1>5. Append(s, e) # <<>>
  BY <1>3, <1>4, EmptySeq
<1> QED BY <1>3, <1>4, <1>5 DEF IsSeq

-----------------------------------------------------------------------------
(* The inductive invariant.                                                *)

\* Rank r has the last scheduler outputs of the schedule W before it.
Before(r, W) ==
    /\ IsSeq(todo[r]) /\ Len(todo[r]) <= next - 1
    /\ \A k \in 1 .. Len(todo[r]) : todo[r][k] = W[next - 1 - Len(todo[r]) + k]
    /\ ph[r] \in {"update", "forward", "sample", "propose"}
    /\ ph[r] # "update" => todo[r] # <<>>
    /\ ph[r] = "propose" => r = Last

Scheduled(W) ==
    /\ next \in Nat /\ next > 0
    /\ DOMAIN todo = Ranks /\ DOMAIN ph = Ranks
    /\ \A t \in 1 .. next - 1 : W[t].step = t
    /\ \A r \in Ranks : Before(r, W)

\* The operations of a step, as the receiving ranks enqueue them.
NumOps(w) == IF Need(w.rows) = {} THEN 0 ELSE IF K > 0 THEN 3 ELSE 2
OpOf(w, i) ==
    IF i = 1 THEN Op("sampled", w.step, NumReqs(w.rows) * (K + 1), <<>>)
    ELSE IF i = 2 THEN Op("combined", w.step, 2 * NumReqs(w.rows), <<>>)
    ELSE Op("draft", w.step, NumReqs(w.rows) * K, <<>>)

Same(a, b) == a.kind = b.kind /\ a.step = b.step /\ a.elems = b.elems

\* G is the operations of the steps of W in order, those of step t from pos[t] on.
Laid(W, pos, G) ==
    /\ pos \in [1 .. next -> Nat]
    /\ \A t, u \in 1 .. next : t <= u => pos[t] <= pos[u]
    /\ \A g \in 1 .. pos[next] : \E t \in 1 .. next - 1 :
          \E i \in 1 .. NumOps(W[t]) : g = pos[t] + i
    /\ \A t \in 1 .. next - 1 :
          /\ pos[t + 1] = pos[t] + NumOps(W[t])
          /\ \A i \in 1 .. NumOps(W[t]) : G[pos[t] + i] = OpOf(W[t], i)

\* Between Sample and Propose the last rank has enqueued two of the three.
Halfway(r) == IF ph[r] = "propose" /\ Need(Head(todo[r]).rows) # {} THEN 2 ELSE 0

\* Rank r has enqueued the operations of the steps behind it, of which c are done.
Enqueued(r, pos, G, c) ==
    /\ IsSeq(bc[r])
    /\ c + Len(bc[r]) = pos[next - Len(todo[r])] + Halfway(r)
    /\ \A j \in 1 .. Len(bc[r]) : Same(bc[r][j], G[c + j])

Relayed(W, pos, G, c) ==
    /\ c \in Nat /\ DOMAIN bc = Ranks
    /\ Laid(W, pos, G)
    /\ \A r \in Ranks : Enqueued(r, pos, G, c)

\* The inductive invariant.  BroadcastsMatch is not inductive: it says nothing
\* of what a rank that is behind will enqueue next.
IInv == \E W, pos, G, c : Scheduled(W) /\ Relayed(W, pos, G, c)

-----------------------------------------------------------------------------
(* Operations.                                                             *)

LEMMA LastIsARank == P \in Nat /\ P >= 2 /\ Last \in Ranks /\ Last = P - 1 /\ 0 \in Ranks
BY PAssumption DEF Ranks, Last

LEMMA NumOpsIsNat == ASSUME NEW w PROVE NumOps(w) \in {0, 2, 3}
BY DEF NumOps

\* What receive enqueues, and what broadcast and broadcast_draft do.
LEMMA RecvsAre ==
  ASSUME NEW w, Need(w.rows) # {}
  PROVE  /\ IsSeq(Recvs(w.step, w.rows)) /\ Len(Recvs(w.step, w.rows)) = NumOps(w)
         /\ \A i \in 1 .. NumOps(w) : Recvs(w.step, w.rows)[i] = OpOf(w, i)
<1> DEFINE a == Op("sampled", w.step, NumReqs(w.rows) * (K + 1), <<>>)
           b == Op("combined", w.step, 2 * NumReqs(w.rows), <<>>)
           d == Op("draft", w.step, NumReqs(w.rows) * K, <<>>)
           R == Recvs(w.step, w.rows)
<1>1. R = <<a, b>> \o IF K > 0 THEN <<d>> ELSE <<>>
  BY DEF Recvs
<1>2. OpOf(w, 1) = a /\ OpOf(w, 2) = b /\ OpOf(w, 3) = d
  BY DEF OpOf
<1> HIDE DEF a, b, d, R
<1>3. IsSeq(<<a, b>>) /\ Len(<<a, b>>) = 2 /\ <<a, b>>[1] = a /\ <<a, b>>[2] = b
  <2>1. <<a, b>> \in Seq({a, b})
    OBVIOUS
  <2> QED BY <2>1 DEF IsSeq
<1>4. CASE K > 0
  <2>1. R = <<a, b>> \o <<d>>
    BY <1>1, <1>4
  <2>0. IsSeq(<<d>>) /\ Len(<<d>>) = 1 /\ <<d>>[1] = d
    BY OneIsSeq
  <2>2. /\ IsSeq(R) /\ Len(R) = 2 + 1
        /\ \A i \in 1 .. 2 + 1 : R[i] = IF i <= 2 THEN <<a, b>>[i] ELSE <<d>>[i - 2]
    <3>1. /\ IsSeq(<<a, b>> \o <<d>>) /\ Len(<<a, b>> \o <<d>>) = Len(<<a, b>>) + Len(<<d>>)
          /\ \A i \in 1 .. Len(<<a, b>>) + Len(<<d>>) :
               (<<a, b>> \o <<d>>)[i]
                 = IF i <= Len(<<a, b>>) THEN <<a, b>>[i] ELSE <<d>>[i - Len(<<a, b>>)]
      BY <2>0, <1>3, ConcatIsSeq
    <3> QED BY <3>1, <2>0, <2>1, <1>3
  <2>3. NumOps(w) = 3
    BY <1>4 DEF NumOps
  <2>4. R[1] = a /\ R[2] = b /\ R[3] = d
    BY <2>2, <1>3, <2>0
  <2>5. \A i \in 1 .. 3 : i = 1 \/ i = 2 \/ i = 3
    OBVIOUS
  <2> QED BY <2>2, <2>3, <2>4, <2>5, <1>2 DEF R
<1>5. CASE ~ (K > 0)
  <2>1. R = <<a, b>> \o <<>>
    BY <1>1, <1>5
  <2>2. /\ IsSeq(R) /\ Len(R) = 2 + 0
        /\ \A i \in 1 .. 2 + 0 : R[i] = IF i <= 2 THEN <<a, b>>[i] ELSE <<>>[i - 2]
    BY <2>1, <1>3, EmptyIsSeq, ConcatIsSeq
  <2>3. NumOps(w) = 2
    BY <1>5 DEF NumOps
  <2>4. R[1] = a /\ R[2] = b
    BY <2>2, <1>3
  <2>5. \A i \in 1 .. 2 : i = 1 \/ i = 2
    OBVIOUS
  <2> QED BY <2>2, <2>3, <2>4, <2>5, <1>2 DEF R
<1> QED BY <1>4, <1>5

LEMMA SendsAre ==
  ASSUME NEW w, NEW rej, Need(w.rows) # {}
  PROVE  /\ IsSeq(Sends(w.step, w.rows, rej)) /\ Len(Sends(w.step, w.rows, rej)) = 2
         /\ \A i \in 1 .. 2 : Same(Sends(w.step, w.rows, rej)[i], OpOf(w, i))
<1> DEFINE a == Op("sampled", w.step, NumReqs(w.rows) * (K + 1), <<>>)
           b == Op("combined", w.step, 2 * NumReqs(w.rows), rej)
<1>1. Sends(w.step, w.rows, rej) = <<a, b>>
  BY DEF Sends, Padded
<1>2. Same(a, OpOf(w, 1)) /\ Same(b, OpOf(w, 2))
  BY DEF Same, OpOf, Op
<1> HIDE DEF a, b
<1>3. IsSeq(<<a, b>>) /\ Len(<<a, b>>) = 2 /\ <<a, b>>[1] = a /\ <<a, b>>[2] = b
  <2>1. <<a, b>> \in Seq({a, b})
    OBVIOUS
  <2> QED BY <2>1 DEF IsSeq
<1>4. \A i \in 1 .. 2 : i = 1 \/ i = 2
  OBVIOUS
<1> QED BY <1>1, <1>2, <1>3, <1>4

-----------------------------------------------------------------------------
(* The steps.                                                              *)

LEMMA InitSchedule ==
  ASSUME Init, NEW W
  PROVE  /\ Scheduled(W)
         /\ Relayed(W, [t \in 1 .. 1 |-> 0], W, 0)
<1> DEFINE pos == [t \in 1 .. 1 |-> 0]
<1>1. /\ next = 1 /\ todo = [r \in Ranks |-> <<>>] /\ ph = [r \in Ranks |-> "update"]
      /\ bc = [r \in Ranks |-> <<>>]
  BY DEF Init
<1>2. \A r \in Ranks : todo[r] = <<>> /\ ph[r] = "update" /\ bc[r] = <<>>
  BY <1>1
<1>3. \A r \in Ranks : Before(r, W)
  BY <1>1, <1>2, EmptyIsSeq DEF Before
<1>4. Scheduled(W)
  BY <1>1, <1>3 DEF Scheduled
<1>5. pos \in [1 .. 1 -> Nat] /\ pos[1] = 0
  OBVIOUS
<1> HIDE DEF pos
<1>6. Laid(W, pos, W)
  <2>1. (\A t \in 1 .. next - 1 : FALSE) /\ (\A g \in 1 .. pos[next] : FALSE)
    BY <1>1, <1>5
  <2>2. \A t, u \in 1 .. next : pos[t] <= pos[u]
    BY <1>1, <1>5
  <2> QED BY <2>1, <2>2, <1>1, <1>5 DEF Laid
<1>7. \A r \in Ranks : Enqueued(r, pos, W, 0)
  <2> SUFFICES ASSUME NEW r \in Ranks PROVE Enqueued(r, pos, W, 0)
    OBVIOUS
  <2>1. Halfway(r) = 0
    BY <1>2 DEF Halfway
  <2> QED BY <2>1, <1>1, <1>2, <1>5, EmptyIsSeq DEF Enqueued
<1>8. Relayed(W, pos, W, 0)
  BY <1>1, <1>6, <1>7 DEF Relayed
<1> QED BY <1>4, <1>8 DEF pos

LEMMA Shifted ==
  \A n, l, k \in Int : /\ n - 1 - l + (k + 1) = n - 1 - (l - 1) + k
                        /\ n + 1 - 1 - (l + 1) + k = n - 1 - l + k
                        /\ n + 1 - (l + 1) = n - l
OBVIOUS

LEMMA WorkIs ==
  ASSUME NEW W, Scheduled(W), NEW r \in Ranks, todo[r] # <<>>
  PROVE  /\ next \in Nat /\ Len(todo[r]) \in 1 .. next - 1
         /\ Work(r) = W[next - Len(todo[r])] /\ Head(todo[r]) = Work(r)
         /\ IsSeq(Tail(todo[r])) /\ Len(Tail(todo[r])) = Len(todo[r]) - 1
         /\ \A k \in 1 .. Len(todo[r]) - 1 : Tail(todo[r])[k] = todo[r][k + 1]
<1>1. Before(r, W) /\ next \in Nat /\ next > 0
  BY DEF Scheduled
<1>2. /\ IsSeq(todo[r]) /\ Len(todo[r]) <= next - 1
      /\ \A k \in 1 .. Len(todo[r]) : todo[r][k] = W[next - 1 - Len(todo[r]) + k]
  BY <1>1 DEF Before
<1>3. /\ IsSeq(Tail(todo[r])) /\ Len(todo[r]) \in Nat /\ Len(todo[r]) > 0
      /\ Len(Tail(todo[r])) = Len(todo[r]) - 1
      /\ \A i \in 1 .. Len(todo[r]) - 1 : Tail(todo[r])[i] = todo[r][i + 1]
      /\ Head(todo[r]) = todo[r][1]
  BY <1>2, TailIsSeq
<1>4. todo[r][1] = W[next - 1 - Len(todo[r]) + 1]
  BY <1>2, <1>3
<1>5. next - 1 - Len(todo[r]) + 1 = next - Len(todo[r])
  BY <1>1, <1>3
<1> QED BY <1>1, <1>2, <1>3, <1>4, <1>5 DEF Work

\* A rank that is done with a scheduler output leaves the schedule as it is ...
LEMMA Popped ==
  ASSUME NEW W, Scheduled(W), NEW r \in Ranks, todo[r] # <<>>,
         next' = next, todo' = [todo EXCEPT ![r] = Tail(@)],
         DOMAIN ph' = Ranks, ph'[r] = "update", \A s \in Ranks \ {r} : ph'[s] = ph[s]
  PROVE  Scheduled(W)'
<1>1. /\ next \in Nat /\ Len(todo[r]) \in 1 .. next - 1
      /\ IsSeq(Tail(todo[r])) /\ Len(Tail(todo[r])) = Len(todo[r]) - 1
      /\ \A k \in 1 .. Len(todo[r]) - 1 : Tail(todo[r])[k] = todo[r][k + 1]
  BY WorkIs
<1>2. /\ next > 0 /\ DOMAIN todo = Ranks /\ \A t \in 1 .. next - 1 : W[t].step = t
      /\ \A s \in Ranks : Before(s, W)
  BY DEF Scheduled
<1>3. \A s \in Ranks : todo'[s] = IF s = r THEN Tail(todo[r]) ELSE todo[s]
  BY <1>2
<1>4. ASSUME NEW s \in Ranks PROVE Before(s, W)'
  <2>1. CASE s = r
    <3>1. Before(r, W)
      BY <1>2
    <3>2. todo'[r] = Tail(todo[r])
      BY <1>3
    <3>3. ASSUME NEW k \in 1 .. Len(Tail(todo[r]))
          PROVE  Tail(todo[r])[k] = W[next - 1 - Len(Tail(todo[r])) + k]
      <4>1. k + 1 \in 1 .. Len(todo[r]) /\ k \in 1 .. Len(todo[r]) - 1
        BY <1>1
      <4>2. todo[r][k + 1] = W[next - 1 - Len(todo[r]) + (k + 1)]
        BY <4>1, <3>1 DEF Before
      <4>3. next - 1 - Len(todo[r]) + (k + 1) = next - 1 - Len(Tail(todo[r])) + k
        <5>1. next \in Int /\ Len(todo[r]) \in Int /\ k \in Int
          BY <1>1
        <5>2. Len(Tail(todo[r])) = Len(todo[r]) - 1
          BY <1>1
        <5>3. next - 1 - Len(todo[r]) + (k + 1) = next - 1 - (Len(todo[r]) - 1) + k
          BY <5>1, Shifted
        <5> QED BY <5>2, <5>3, Zenon
      <4> QED BY <4>1, <4>2, <4>3, <1>1
    <3>4. Len(Tail(todo[r])) <= next - 1
      BY <1>1
    <3>5. /\ ph'[r] \in {"update", "forward", "sample", "propose"}
          /\ ph'[r] = "update"
      OBVIOUS
    <3>6. Before(r, W)'
      BY <3>2, <3>3, <3>4, <3>5, <1>1, Zenon DEF Before
    <3> QED BY <3>6, <2>1
  <2>2. CASE s # r
    BY <2>2, <1>2, <1>3 DEF Before
  <2> QED BY <2>1, <2>2
<1> QED BY <1>1, <1>2, <1>4 DEF Scheduled

\* ... and so does one that goes on to the next phase of it.
LEMMA PhaseMoves ==
  ASSUME NEW W, Scheduled(W), NEW r \in Ranks, todo[r] # <<>>,
         NEW p \in {"update", "forward", "sample", "propose"}, p = "propose" => r = Last,
         next' = next, todo' = todo, ph' = [ph EXCEPT ![r] = p]
  PROVE  Scheduled(W)'
<1>1. /\ next \in Nat /\ next > 0 /\ DOMAIN todo = Ranks /\ DOMAIN ph = Ranks
      /\ \A t \in 1 .. next - 1 : W[t].step = t
      /\ \A s \in Ranks : Before(s, W)
  BY DEF Scheduled
<1>2. \A s \in Ranks : ph'[s] = IF s = r THEN p ELSE ph[s]
  BY <1>1
<1>3. \A s \in Ranks : Before(s, W)'
  BY <1>1, <1>2 DEF Before
<1> QED BY <1>1, <1>3 DEF Scheduled

\* What a rank has enqueued depends on that rank alone.
LEMMA OthersEnqueued ==
  ASSUME NEW pos, NEW G, NEW c, NEW s, Enqueued(s, pos, G, c),
         next' = next, todo'[s] = todo[s], ph'[s] = ph[s], bc'[s] = bc[s]
  PROVE  Enqueued(s, pos, G, c)'
BY DEF Enqueued, Halfway

\* A rank is never ahead of the operations that are laid out.
LEMMA NeverAhead ==
  ASSUME NEW W, NEW pos, NEW G, NEW c \in Nat, Scheduled(W), Laid(W, pos, G),
         NEW r \in Ranks, Enqueued(r, pos, G, c)
  PROVE  Len(bc[r]) \in Nat /\ pos[next] \in Nat /\ c + Len(bc[r]) <= pos[next]
<1>1. next \in Nat /\ next > 0 /\ Before(r, W)
  BY DEF Scheduled
<1>2. IsSeq(todo[r]) /\ Len(todo[r]) <= next - 1 /\ (ph[r] # "update" => todo[r] # <<>>)
  BY <1>1 DEF Before
<1>3. Len(todo[r]) \in Nat /\ Len(bc[r]) \in Nat
  BY <1>2, SeqLen DEF Enqueued
<1>4. /\ \A t \in 1 .. next : pos[t] \in Nat /\ pos[t] <= pos[next]
      /\ \A t \in 1 .. next - 1 : pos[t + 1] = pos[t] + NumOps(W[t])
  <2>1. /\ pos \in [1 .. next -> Nat]
        /\ \A t, u \in 1 .. next : t <= u => pos[t] <= pos[u]
        /\ \A t \in 1 .. next - 1 : pos[t + 1] = pos[t] + NumOps(W[t])
    BY DEF Laid
  <2>2. next \in 1 .. next /\ \A t \in 1 .. next : t <= next
    BY <1>1
  <2> QED BY <2>1, <2>2
<1> DEFINE t == next - Len(todo[r])
<1>5. t \in 1 .. next
  BY <1>1, <1>2, <1>3
<1>6. c + Len(bc[r]) = pos[t] + Halfway(r)
  BY DEF Enqueued
<1>7. CASE Halfway(r) = 0
  BY <1>1, <1>3, <1>4, <1>5, <1>6, <1>7
<1>8. CASE Halfway(r) # 0
  <2>1. Halfway(r) = 2 /\ ph[r] = "propose" /\ Need(Head(todo[r]).rows) # {}
    BY <1>8 DEF Halfway
  <2>2. Len(todo[r]) \in 1 .. next - 1 /\ Head(todo[r]) = W[t]
    BY <2>1, <1>2, WorkIs
  <2>3. NumOps(W[t]) \in {2, 3}
    BY <2>1, <2>2 DEF NumOps
  <2>4. t \in 1 .. next - 1 /\ t + 1 \in 1 .. next
    BY <2>2, <1>1
  <2>5. pos[next] \in Nat
    BY <1>1, <1>4
  <2> HIDE DEF t
  <2>6. pos[t + 1] = pos[t] + NumOps(W[t]) /\ pos[t + 1] <= pos[next] /\ pos[t] \in Nat
    BY <1>4, <1>5, <2>4
  <2> QED BY <1>3, <1>6, <2>1, <2>3, <2>5, <2>6
<1> QED BY <1>7, <1>8

LEMMA ScheduleIssues == Schedule => \E kept, gone, new, n : Issue(kept, gone, new, n)
BY Zenon DEF Schedule

\* One more output for all ranks, with its operations behind the others.
Longer(W, o) == [t \in 1 .. next |-> IF t = next THEN o ELSE W[t]]

Issued(o) ==
    /\ o.step = next /\ todo' = [r \in Ranks |-> Append(todo[r], o)]
    /\ next' = next + 1 /\ ph' = ph /\ bc' = bc

LEMMA ScheduleStep ==
  ASSUME NEW W, NEW pos, NEW G, NEW c, Scheduled(W), Relayed(W, pos, G, c), NEW o, Issued(o)
  PROVE  \E V, at, H : /\ V = Longer(W, o) /\ \A t \in 1 .. next : at[t] = pos[t]
                       /\ Scheduled(V)' /\ Relayed(V, at, H, c)'
<1>1. o.step = next /\ todo' = [r \in Ranks |-> Append(todo[r], o)]
  BY DEF Issued
<1>2. next' = next + 1 /\ ph' = ph /\ bc' = bc
  BY DEF Issued
<1>3. /\ next \in Nat /\ next > 0 /\ DOMAIN todo = Ranks /\ DOMAIN ph = Ranks
      /\ \A t \in 1 .. next - 1 : W[t].step = t
      /\ \A r \in Ranks : Before(r, W)
  BY DEF Scheduled
<1>4. c \in Nat /\ DOMAIN bc = Ranks /\ Laid(W, pos, G) /\ \A r \in Ranks : Enqueued(r, pos, G, c)
  BY DEF Relayed
<1>5. /\ pos \in [1 .. next -> Nat]
      /\ \A t, u \in 1 .. next : t <= u => pos[t] <= pos[u]
      /\ \A g \in 1 .. pos[next] : \E t \in 1 .. next - 1 :
            \E i \in 1 .. NumOps(W[t]) : g = pos[t] + i
      /\ \A t \in 1 .. next - 1 :
          /\ pos[t + 1] = pos[t] + NumOps(W[t])
          /\ \A i \in 1 .. NumOps(W[t]) : G[pos[t] + i] = OpOf(W[t], i)
  BY <1>4 DEF Laid
<1>6. PICK V : V = Longer(W, o)
  OBVIOUS
<1>7. PICK at : at = [t \in 1 .. next + 1 |-> IF t = next + 1 THEN pos[next] + NumOps(o) ELSE pos[t]]
  OBVIOUS
<1>8. PICK H : H = [i \in Nat |-> IF i <= pos[next] THEN G[i] ELSE OpOf(o, i - pos[next])]
  OBVIOUS
<1>9. V[next] = o /\ \A t \in 1 .. next - 1 : V[t] = W[t]
  BY <1>3, <1>6 DEF Longer
<1>10. at[next + 1] = pos[next] + NumOps(o) /\ \A t \in 1 .. next : at[t] = pos[t]
  BY <1>3, <1>7
<1>11. pos[next] \in Nat /\ NumOps(o) \in Nat
  <2>1. next \in 1 .. next
    BY <1>3
  <2>2. pos[next] \in Nat
    BY <2>1, <1>5
  <2> QED BY <2>2, NumOpsIsNat
<1>12. (\A i \in 1 .. pos[next] : H[i] = G[i]) /\ \A i \in 1 .. 3 : H[pos[next] + i] = OpOf(o, i)
  <2>1. \A i \in 1 .. 3 : pos[next] + i \in Nat /\ ~ (pos[next] + i <= pos[next])
                          /\ pos[next] + i - pos[next] = i
    BY <1>11
  <2>2. \A i \in 1 .. pos[next] : i \in Nat /\ i <= pos[next]
    BY <1>11
  <2>3. \A i \in Nat : H[i] = IF i <= pos[next] THEN G[i] ELSE OpOf(o, i - pos[next])
    BY <1>8, Zenon
  <2>4. \A i \in 1 .. pos[next] : H[i] = G[i]
    BY <2>2, <2>3
  <2>5. ASSUME NEW i \in 1 .. 3 PROVE H[pos[next] + i] = OpOf(o, i)
    <3>1. PICK x : x = pos[next] + i
      OBVIOUS
    <3>2. x \in Nat /\ ~ (x <= pos[next]) /\ x - pos[next] = i
      BY <1>11, <3>1
    <3>3. H[x] = OpOf(o, x - pos[next])
      BY <2>3, <3>2, Zenon
    <3> QED BY <3>1, <3>2, <3>3
  <2> QED BY <2>4, <2>5
<1>13. \A r \in Ranks : /\ IsSeq(todo'[r]) /\ Len(todo[r]) \in Nat /\ Len(todo'[r]) = Len(todo[r]) + 1
                        /\ \A i \in 1 .. Len(todo[r]) : todo'[r][i] = todo[r][i]
                        /\ todo'[r][Len(todo[r]) + 1] = o /\ todo'[r] # <<>>
  BY <1>1, <1>3, AppendIsSeq DEF Before
<1>14. Scheduled(V)'
  <2>1. ASSUME NEW r \in Ranks PROVE Before(r, V)'
    <3>1. Before(r, W) /\ Len(todo[r]) \in Nat /\ Len(todo[r]) <= next - 1
      BY <1>3, <1>13 DEF Before
    <3>2. ASSUME NEW k \in 1 .. Len(todo[r]) + 1
          PROVE  todo'[r][k] = V[next' - 1 - Len(todo'[r]) + k]
      <4>1. next' - 1 - Len(todo'[r]) + k = next - 1 - Len(todo[r]) + k
        <5>1. next \in Int /\ Len(todo[r]) \in Int /\ k \in Int /\ Len(todo'[r]) = Len(todo[r]) + 1
          BY <1>3, <1>13, <3>1
        <5> QED BY <5>1, <1>2, Shifted
      <4>2. CASE k = Len(todo[r]) + 1
        <5>1. next - 1 - Len(todo[r]) + k = next
          BY <4>2, <1>3, <3>1
        <5> QED BY <5>1, <4>1, <4>2, <1>9, <1>13
      <4>3. CASE k \in 1 .. Len(todo[r])
        <5>1. next - 1 - Len(todo[r]) + k \in 1 .. next - 1
          BY <4>3, <1>3, <3>1
        <5>2. todo[r][k] = W[next - 1 - Len(todo[r]) + k]
          BY <4>3, <3>1 DEF Before
        <5> QED BY <5>1, <5>2, <4>1, <4>3, <1>9, <1>13
      <4> QED BY <4>2, <4>3, <3>1
    <3>3. Len(todo'[r]) <= next' - 1
      BY <1>2, <1>3, <1>13, <3>1
    <3> QED BY <3>1, <3>2, <3>3, <1>2, <1>13 DEF Before
  <2>2. \A t \in 1 .. next' - 1 : V[t].step = t
    <3>1. \A t \in 1 .. next' - 1 : t = next \/ t \in 1 .. next - 1
      BY <1>2, <1>3
    <3> QED BY <3>1, <1>1, <1>3, <1>9
  <2>3. DOMAIN todo' = Ranks /\ DOMAIN ph' = Ranks /\ next' \in Nat /\ next' > 0
    BY <1>1, <1>2, <1>3
  <2> QED BY <2>1, <2>2, <2>3 DEF Scheduled
<1>15. Laid(V, at, H)'
  <2>1. at \in [1 .. next' -> Nat]
    <3>1. \A t \in 1 .. next + 1 : (IF t = next + 1 THEN pos[next] + NumOps(o) ELSE pos[t]) \in Nat
      BY <1>3, <1>5, <1>11
    <3> QED BY <3>1, <1>2, <1>7
  <2>2. \A t, u \in 1 .. next' : t <= u => at[t] <= at[u]
    <3>1. SUFFICES ASSUME NEW t \in 1 .. next', NEW u \in 1 .. next', t <= u PROVE at[t] <= at[u]
      OBVIOUS
    <3>2. \A v \in 1 .. next' : v = next + 1 \/ v \in 1 .. next
      BY <1>2, <1>3
    <3>3. \A v \in 1 .. next : pos[v] \in Nat /\ pos[v] <= pos[next]
      BY <1>3, <1>5
    <3>4. CASE u = next + 1
      BY <3>2, <3>3, <3>4, <1>10, <1>11
    <3>5. CASE u \in 1 .. next
      <4>1. t \in 1 .. next
        BY <3>1, <3>5, <1>2, <1>3
      <4> QED BY <4>1, <3>1, <3>5, <1>5, <1>10
    <3> QED BY <3>2, <3>4, <3>5
  <2>3. ASSUME NEW t \in 1 .. next' - 1
        PROVE  /\ at[t + 1] = at[t] + NumOps(V[t])
               /\ \A i \in 1 .. NumOps(V[t]) : H[at[t] + i] = OpOf(V[t], i)
    <3>1. CASE t = next
      <4>1. at[t + 1] = at[t] + NumOps(V[t]) /\ V[t] = o /\ at[t] = pos[next]
        BY <3>1, <1>3, <1>9, <1>10
      <4>2. \A i \in 1 .. NumOps(o) : i \in 1 .. 3
        BY NumOpsIsNat
      <4> QED BY <4>1, <4>2, <1>12
    <3>2. CASE t # next
      <4>1. t \in 1 .. next - 1 /\ t \in 1 .. next /\ t + 1 \in 1 .. next
        BY <3>2, <1>2, <1>3
      <4>2. V[t] = W[t] /\ at[t] = pos[t] /\ at[t + 1] = pos[t + 1]
        BY <4>1, <1>9, <1>10
      <4>3. pos[t + 1] = pos[t] + NumOps(W[t]) /\ pos[t] \in Nat /\ pos[t + 1] <= pos[next]
        <5>1. pos[t + 1] = pos[t] + NumOps(W[t]) /\ pos[t] \in Nat
          BY <4>1, <1>5
        <5>2. next \in 1 .. next /\ t + 1 <= next
          BY <4>1, <1>3
        <5>3. pos[t + 1] <= pos[next]
          BY <4>1, <5>2, <1>5
        <5> QED BY <5>1, <5>3
      <4>4. ASSUME NEW i \in 1 .. NumOps(W[t]) PROVE H[pos[t] + i] = OpOf(W[t], i)
        <5>1. pos[t] + i \in 1 .. pos[next]
          BY <4>3, <1>11, NumOpsIsNat
        <5>2. G[pos[t] + i] = OpOf(W[t], i)
          BY <4>1, <1>5
        <5> QED BY <5>1, <5>2, <1>12
      <4> QED BY <4>2, <4>3, <4>4
    <3> QED BY <3>1, <3>2
  <2>4. ASSUME NEW g \in 1 .. at[next']
        PROVE  \E t \in 1 .. next' - 1 : \E i \in 1 .. NumOps(V[t]) : g = at[t] + i
    <3>1. at[next'] = pos[next] + NumOps(o)
      BY <1>2, <1>10
    <3>2. CASE g <= pos[next]
      <4>1. g \in 1 .. pos[next]
        BY <3>2, <1>11
      <4>2. PICK t \in 1 .. next - 1 : \E i \in 1 .. NumOps(W[t]) : g = pos[t] + i
        BY <4>1, <1>5
      <4>3. t \in 1 .. next' - 1 /\ t \in 1 .. next
        BY <1>2, <1>3
      <4>4. V[t] = W[t] /\ at[t] = pos[t]
        BY <4>3, <1>9, <1>10
      <4> QED BY <4>2, <4>3, <4>4
    <3>3. CASE ~ (g <= pos[next])
      <4>1. PICK i : i = g - pos[next]
        OBVIOUS
      <4>2. i \in 1 .. NumOps(o) /\ g = pos[next] + i
        BY <4>1, <3>1, <3>3, <1>11
      <4>3. next \in 1 .. next' - 1 /\ V[next] = o /\ at[next] = pos[next]
        BY <1>2, <1>3, <1>9, <1>10
      <4> QED BY <4>2, <4>3
    <3> QED BY <3>2, <3>3
  <2> QED BY <2>1, <2>2, <2>3, <2>4 DEF Laid
<1>16. ASSUME NEW r \in Ranks PROVE Enqueued(r, at, H, c)'
  <2>1. Enqueued(r, pos, G, c) /\ Before(r, W)
    BY <1>3, <1>4
  <2>2. Len(bc[r]) \in Nat /\ c + Len(bc[r]) <= pos[next]
    BY <1>4, <2>1, NeverAhead
  <2>3. Halfway(r)' = Halfway(r)
    <3>1. CASE ph[r] # "propose"
      BY <3>1, <1>2 DEF Halfway
    <3>2. CASE ph[r] = "propose"
      <4>1. todo[r] # <<>> /\ IsSeq(todo[r])
        BY <3>2, <2>1 DEF Before
      <4>2. Head(todo[r]) = todo[r][1] /\ Len(todo[r]) > 0
        BY <4>1, TailIsSeq
      <4>3. IsSeq(todo'[r]) /\ todo'[r] # <<>> /\ todo'[r][1] = todo[r][1]
        BY <4>2, <1>13
      <4>4. Head(todo'[r]) = todo'[r][1]
        BY <4>3, TailIsSeq
      <4>5. Head(todo'[r]) = Head(todo[r])
        BY <4>2, <4>3, <4>4
      <4> QED BY <4>5, <1>2 DEF Halfway
    <3> QED BY <3>1, <3>2
  <2>4. next' - Len(todo'[r]) = next - Len(todo[r]) /\ next - Len(todo[r]) \in 1 .. next
    <3>1. /\ next \in Int /\ Len(todo[r]) \in Nat /\ Len(todo'[r]) = Len(todo[r]) + 1
          /\ Len(todo[r]) <= next - 1
      BY <2>1, <1>3, <1>13 DEF Before
    <3>2. next + 1 - (Len(todo[r]) + 1) = next - Len(todo[r])
      BY <3>1, Shifted
    <3>3. next - Len(todo[r]) \in 1 .. next
      BY <3>1, <1>3
    <3> QED BY <3>1, <3>2, <3>3, <1>2
  <2>5. at[next' - Len(todo'[r])] = pos[next - Len(todo[r])]
    BY <2>4, <1>10
  <2>6. \A j \in 1 .. Len(bc[r]) : H[c + j] = G[c + j]
    <3>1. \A j \in 1 .. Len(bc[r]) : c + j \in 1 .. pos[next]
      BY <2>2, <1>4, <1>11
    <3> QED BY <3>1, <1>12
  <2> QED BY <2>1, <2>3, <2>5, <2>6, <1>2 DEF Enqueued
<1>17. Relayed(V, at, H, c)'
  BY <1>2, <1>4, <1>15, <1>16 DEF Relayed
<1> QED BY <1>6, <1>10, <1>14, <1>17

\* A step that enqueues nothing: of rank r only the phase changes, or an output
\* without operations is done with.
LEMMA PhaseStep ==
  ASSUME NEW W, NEW pos, NEW G, NEW c, Scheduled(W), Relayed(W, pos, G, c),
         NEW r \in Ranks, todo[r] # <<>>, ph[r] # "propose",
         NEW p \in {"forward", "sample"},
         next' = next, todo' = todo, ph' = [ph EXCEPT ![r] = p], bc' = bc
  PROVE  Scheduled(W)' /\ Relayed(W, pos, G, c)'
<1>1. /\ c \in Nat /\ DOMAIN bc = Ranks /\ Laid(W, pos, G)
      /\ \A s \in Ranks : Enqueued(s, pos, G, c)
  BY DEF Relayed
<1>2. Scheduled(W)'
  <2>1. p \in {"update", "forward", "sample", "propose"} /\ p # "propose"
    OBVIOUS
  <2> QED BY <2>1, PhaseMoves
<1>3. Laid(W, pos, G)'
  BY <1>1 DEF Laid
<1>4. \A s \in Ranks : ph'[s] = IF s = r THEN p ELSE ph[s]
  BY DEF Scheduled
<1>5. ASSUME NEW s \in Ranks PROVE Enqueued(s, pos, G, c)'
  <2>1. CASE s # r
    BY <2>1, <1>1, <1>4, OthersEnqueued
  <2>2. CASE s = r
    <3>1. Halfway(r) = 0 /\ Halfway(r)' = 0
      BY <1>4 DEF Halfway
    <3>2. Enqueued(r, pos, G, c)
      BY <1>1
    <3> QED BY <2>2, <3>1, <3>2 DEF Enqueued
  <2> QED BY <2>1, <2>2
<1>6. Relayed(W, pos, G, c)'
  BY <1>1, <1>3, <1>5 DEF Relayed
<1> QED BY <1>2, <1>6

LEMMA Sums ==
  ASSUME NEW c \in Nat, NEW n \in Nat, NEW p \in Nat, NEW h \in Nat, NEW i \in Nat,
         c + n = p + h
  PROVE  c + (n + i) = p + (h + i)
OBVIOUS

\* What rank r still has to enqueue of its step.
TheRest(r, more) ==
    /\ IsSeq(more) /\ Len(more) = NumOps(Work(r)) - Halfway(r)
    /\ \A i \in 1 .. Len(more) : Same(more[i], OpOf(Work(r), Halfway(r) + i))

\* A rank that has enqueued, at the end of a step, what the step still lacks.
LEMMA DoneStep ==
  ASSUME NEW W, NEW pos, NEW G, NEW c, Scheduled(W), Relayed(W, pos, G, c),
         NEW r \in Ranks, todo[r] # <<>>,
         next' = next, todo' = [todo EXCEPT ![r] = Tail(@)],
         DOMAIN ph' = Ranks, ph'[r] = "update", \A s \in Ranks \ {r} : ph'[s] = ph[s],
         DOMAIN bc' = Ranks, \A s \in Ranks \ {r} : bc'[s] = bc[s],
         NEW more, bc'[r] = bc[r] \o more, TheRest(r, more)
  PROVE  Scheduled(W)' /\ Relayed(W, pos, G, c)'
<1>1. /\ c \in Nat /\ DOMAIN bc = Ranks /\ Laid(W, pos, G)
      /\ \A s \in Ranks : Enqueued(s, pos, G, c)
  BY DEF Relayed
<1>2. /\ next \in Nat /\ Len(todo[r]) \in 1 .. next - 1
      /\ Work(r) = W[next - Len(todo[r])] /\ Head(todo[r]) = Work(r)
      /\ Len(Tail(todo[r])) = Len(todo[r]) - 1
  BY WorkIs
<1>3. Scheduled(W)'
  BY Popped
<1>4. Laid(W, pos, G)'
  BY <1>1 DEF Laid
<1>5. \A s \in Ranks : todo'[s] = IF s = r THEN Tail(todo[r]) ELSE todo[s]
  BY DEF Scheduled
<1> DEFINE t == next - Len(todo[r])
           n == Len(bc[r])
           m == Len(more)
           h == Halfway(r)
<1>6. t \in 1 .. next - 1 /\ next - Len(todo'[r]) = t + 1 /\ Work(r) = W[t]
  <2>1. Len(todo'[r]) = Len(todo[r]) - 1
    BY <1>2, <1>5
  <2>2. PICK l : l = Len(todo[r])
    OBVIOUS
  <2>3. next \in Nat /\ l \in 1 .. next - 1 /\ Len(todo'[r]) = l - 1
    BY <1>2, <2>1, <2>2
  <2>4. next - l \in 1 .. next - 1 /\ next - (l - 1) = next - l + 1
    BY <2>3
  <2> QED BY <1>2, <2>2, <2>3, <2>4
<1>7. pos[t + 1] = pos[t] + NumOps(W[t]) /\ pos[t] \in Nat
      /\ \A i \in 1 .. NumOps(W[t]) : G[pos[t] + i] = OpOf(W[t], i)
  <2> HIDE DEF t
  <2>1. t \in 1 .. next
    BY <1>2, <1>6
  <2> QED BY <2>1, <1>1, <1>6 DEF Laid
<1>8. IsSeq(bc[r]) /\ c + n = pos[t] + h /\ \A j \in 1 .. n : Same(bc[r][j], G[c + j])
  BY <1>1 DEF Enqueued
<1>9. h \in {0, 2} /\ NumOps(W[t]) \in {0, 2, 3} /\ m = NumOps(W[t]) - h
  BY <1>6, NumOpsIsNat DEF Halfway, TheRest
<1>10. /\ IsSeq(bc'[r]) /\ n \in Nat /\ m \in Nat /\ Len(bc'[r]) = n + m
       /\ \A i \in 1 .. n + m : bc'[r][i] = IF i <= n THEN bc[r][i] ELSE more[i - n]
  <2>1. IsSeq(bc[r]) /\ IsSeq(more) /\ bc'[r] = bc[r] \o more
    BY <1>8 DEF TheRest
  <2>2. /\ IsSeq(bc[r] \o more) /\ n \in Nat /\ m \in Nat /\ Len(bc[r] \o more) = n + m
        /\ \A i \in 1 .. n + m : (bc[r] \o more)[i] = IF i <= n THEN bc[r][i] ELSE more[i - n]
    BY <2>1, ConcatIsSeq
  <2> QED BY <2>1, <2>2
<1>11. \A i \in 1 .. m : Same(more[i], OpOf(W[t], h + i))
  BY <1>6 DEF TheRest
<1> HIDE DEF t, n, m, h
<1>12. ASSUME NEW j \in 1 .. n + m PROVE Same(bc'[r][j], G[c + j])
  <2>1. CASE j <= n
    <3>1. j \in 1 .. n
      BY <2>1, <1>10
    <3> QED BY <2>1, <3>1, <1>8, <1>10
  <2>2. CASE ~ (j <= n)
    <3>1. PICK i : i = j - n
      OBVIOUS
    <3>2. i \in 1 .. m /\ j = n + i
      <4>1. n \in Nat /\ m \in Nat
        BY <1>10
      <4> QED BY <4>1, <2>2, <3>1
    <3>3. bc'[r][j] = more[i]
      BY <2>2, <3>1, <1>10
    <3>4. h + i \in 1 .. NumOps(W[t])
      BY <3>2, <1>9
    <3>5. c + j = pos[t] + (h + i)
      <4>1. c \in Nat /\ n \in Nat /\ pos[t] \in Nat /\ h \in Nat /\ i \in Nat /\ c + n = pos[t] + h
        BY <3>2, <1>1, <1>7, <1>8, <1>9, <1>10
      <4>2. PICK p : p = pos[t]
        OBVIOUS
      <4>3. c \in Nat /\ n \in Nat /\ p \in Nat /\ h \in Nat /\ i \in Nat /\ c + n = p + h
        BY <4>1, <4>2
      <4>4. c + (n + i) = p + (h + i)
        BY <4>3, Sums
      <4> QED BY <4>2, <4>4, <3>2, Zenon
    <3>6. G[pos[t] + (h + i)] = OpOf(W[t], h + i)
      BY <3>4, <1>7
    <3> QED BY <3>2, <3>3, <3>5, <3>6, <1>11
  <2> QED BY <2>1, <2>2
<1>13. ASSUME NEW s \in Ranks PROVE Enqueued(s, pos, G, c)'
  <2>1. CASE s # r
    BY <2>1, <1>1, <1>5, OthersEnqueued
  <2>2. CASE s = r
    <3>1. Halfway(r)' = 0
      BY DEF Halfway
    <3>2. c + Len(bc'[r]) = pos[next' - Len(todo'[r])] + 0
      <4>1. /\ c \in Nat /\ n \in Nat /\ m \in Nat /\ pos[t] \in Nat /\ h \in Nat
            /\ c + n = pos[t] + h
        BY <1>1, <1>7, <1>8, <1>9, <1>10
      <4>2. c + (n + m) = pos[t] + (h + m) /\ h + m = NumOps(W[t])
        <5>1. c + (n + m) = pos[t] + (h + m)
          BY <4>1, Sums, SMTT(30)
        <5>2. h + m = NumOps(W[t])
          BY <1>9
        <5> QED BY <5>1, <5>2
      <4>3. next' - Len(todo'[r]) = t + 1 /\ Len(bc'[r]) = n + m
        BY <1>6, <1>10
      <4>4. pos[t + 1] = pos[t] + (h + m)
        BY <4>2, <1>7
      <4>5. pos[t + 1] + 0 = pos[t + 1]
        BY <4>1, <4>4
      <4> QED BY <4>2, <4>3, <4>4, <4>5
    <3> QED BY <2>2, <3>1, <3>2, <1>10, <1>12 DEF Enqueued
  <2> QED BY <2>1, <2>2
<1>14. Relayed(W, pos, G, c)'
  BY <1>1, <1>4, <1>13 DEF Relayed
<1> QED BY <1>3, <1>14

\* A step has no operations unless one of its rows may sample.
LEMMA NoRowsNoOps == ASSUME NEW w, w.rows = <<>> PROVE NumOps(w) = 0
<1>1. DOMAIN w.rows = {}
  OBVIOUS
<1>2. Need(w.rows) = {}
  BY <1>1 DEF Need
<1> QED BY <1>2 DEF NumOps

LEMMA UpdateStep ==
  ASSUME NEW W, NEW pos, NEW G, NEW c, Scheduled(W), Relayed(W, pos, G, c),
         NEW r \in Ranks, Update(r)
  PROVE  Scheduled(W)' /\ Relayed(W, pos, G, c)'
<1>1. todo[r] # <<>> /\ ph[r] = "update" /\ next' = next /\ bc' = bc
  BY DEF Update
<1>2. DOMAIN ph = Ranks /\ DOMAIN bc = Ranks /\ IsSeq(bc[r])
  BY DEF Scheduled, Relayed, Enqueued
<1>3. CASE Work(r).rows = <<>>
  <2>1. todo' = [todo EXCEPT ![r] = Tail(@)] /\ ph' = ph
    BY <1>3 DEF Update
  <2>2. NumOps(Work(r)) = 0 /\ Halfway(r) = 0
    BY <1>1, <1>3, NoRowsNoOps DEF Halfway
  <2>3. IsSeq(<<>>) /\ Len(<<>>) = 0
    BY EmptyIsSeq
  <2>4. bc[r] \o <<>> = bc[r]
    BY <1>2, ConcatEmptySeq DEF IsSeq
  <2>5. \A i \in 1 .. Len(<<>>) : Same(<<>>[i], OpOf(Work(r), Halfway(r) + i))
    BY <2>3
  <2>6. Len(<<>>) = NumOps(Work(r)) - Halfway(r)
    BY <2>2, <2>3
  <2>7. bc'[r] = bc[r] \o <<>>
    BY <2>4, <1>1
  <2>8. TheRest(r, <<>>)
    BY <2>3, <2>5, <2>6 DEF TheRest
  <2> QED BY <2>1, <2>7, <2>8, <1>1, <1>2, DoneStep
<1>4. CASE Work(r).rows # <<>>
  <2>1. todo' = todo /\ ph' = [ph EXCEPT ![r] = "forward"]
    BY <1>4 DEF Update
  <2> QED BY <2>1, <1>1, PhaseStep
<1> QED BY <1>3, <1>4

LEMMA ForwardStep ==
  ASSUME NEW W, NEW pos, NEW G, NEW c, Scheduled(W), Relayed(W, pos, G, c),
         NEW r \in Ranks, Forward(r)
  PROVE  Scheduled(W)' /\ Relayed(W, pos, G, c)'
<1>1. /\ ph[r] = "forward" /\ next' = next /\ bc' = bc /\ todo' = todo
      /\ ph' = [ph EXCEPT ![r] = "sample"]
  BY DEF Forward
<1>2. todo[r] # <<>>
  BY <1>1 DEF Scheduled, Before
<1> QED BY <1>1, <1>2, PhaseStep

LEMMA ReceiveStep ==
  ASSUME NEW W, NEW pos, NEW G, NEW c, Scheduled(W), Relayed(W, pos, G, c),
         NEW r \in Ranks, Receive(r)
  PROVE  Scheduled(W)' /\ Relayed(W, pos, G, c)'
<1>1. /\ ph[r] = "sample" /\ next' = next /\ todo' = [todo EXCEPT ![r] = Tail(@)]
      /\ ph' = [ph EXCEPT ![r] = "update"]
  BY DEF Receive
<1>2. DOMAIN ph = Ranks /\ DOMAIN bc = Ranks /\ IsSeq(bc[r]) /\ todo[r] # <<>>
  BY <1>1 DEF Scheduled, Before, Relayed, Enqueued
<1>3. DOMAIN ph' = Ranks /\ ph'[r] = "update" /\ \A s \in Ranks \ {r} : ph'[s] = ph[s]
  BY <1>1, <1>2
<1>4. Halfway(r) = 0
  BY <1>1 DEF Halfway
<1> DEFINE w == Work(r)
           more == IF Need(w.rows) = {} THEN <<>> ELSE Recvs(w.step, w.rows)
<1>5. /\ DOMAIN bc' = Ranks /\ bc'[r] = bc[r] \o more
      /\ \A s \in Ranks \ {r} : bc'[s] = bc[s]
  <2>1. CASE Need(w.rows) = {}
    <3>1. bc' = bc
      BY <2>1 DEF Receive
    <3>2. bc[r] \o <<>> = bc[r]
      BY <1>2, ConcatEmptySeq DEF IsSeq
    <3> QED BY <2>1, <3>1, <3>2, <1>2
  <2>2. CASE Need(w.rows) # {}
    <3>1. bc' = [bc EXCEPT ![r] = @ \o Recvs(w.step, w.rows)]
      BY <2>2 DEF Receive
    <3> QED BY <2>2, <3>1, <1>2
  <2> QED BY <2>1, <2>2
<1>6. /\ IsSeq(more) /\ Len(more) = NumOps(w)
      /\ \A i \in 1 .. NumOps(w) : more[i] = OpOf(w, i)
  <2>1. CASE Need(w.rows) = {}
    BY <2>1, EmptyIsSeq DEF NumOps
  <2>2. CASE Need(w.rows) # {}
    BY <2>2, RecvsAre
  <2> QED BY <2>1, <2>2
<1> HIDE DEF more
<1>7. \A i \in 1 .. Len(more) : Same(more[i], OpOf(Work(r), Halfway(r) + i))
  <2> SUFFICES ASSUME NEW i \in 1 .. Len(more) PROVE Same(more[i], OpOf(w, Halfway(r) + i))
    OBVIOUS
  <2>1. Halfway(r) + i = i
    BY <1>4, <1>6, NumOpsIsNat
  <2> QED BY <2>1, <1>6 DEF Same
<1>8. Len(more) = NumOps(Work(r)) - Halfway(r)
  BY <1>4, <1>6, NumOpsIsNat
<1>9. TheRest(r, more)
  BY <1>6, <1>7, <1>8 DEF TheRest
<1> QED BY <1>1, <1>2, <1>3, <1>5, <1>9, DoneStep

\* Sample enqueues the first two operations of the step, without ending it.
LEMMA SampleStep ==
  ASSUME NEW W, NEW pos, NEW G, NEW c, Scheduled(W), Relayed(W, pos, G, c), Sample
  PROVE  Scheduled(W)' /\ Relayed(W, pos, G, c)'
<1>1. /\ ph[Last] = "sample" /\ next' = next /\ todo' = todo
      /\ ph' = [ph EXCEPT ![Last] = "propose"]
  BY DEF Sample
<1> DEFINE w == Work(Last)
<1>2. PICK rej : bc' = [bc EXCEPT ![Last] = @ \o Sends(w.step, w.rows, rej)]
  BY Zenon DEF Sample
<1>3. /\ c \in Nat /\ DOMAIN bc = Ranks /\ Laid(W, pos, G)
      /\ \A s \in Ranks : Enqueued(s, pos, G, c)
  BY DEF Relayed
<1>4. Last \in Ranks /\ todo[Last] # <<>> /\ DOMAIN ph = Ranks
  BY <1>1, LastIsARank DEF Scheduled, Before
<1>5. Scheduled(W)'
  BY <1>1, <1>4, PhaseMoves
<1>6. Laid(W, pos, G)'
  BY <1>1, <1>3 DEF Laid
<1>7. /\ Len(todo[Last]) \in 1 .. next - 1 /\ next \in Nat
      /\ w = W[next - Len(todo[Last])] /\ Head(todo[Last]) = w
  BY <1>4, WorkIs
<1>8. \A s \in Ranks : /\ ph'[s] = IF s = Last THEN "propose" ELSE ph[s]
                       /\ bc'[s] = IF s = Last THEN bc[Last] \o Sends(w.step, w.rows, rej) ELSE bc[s]
  BY <1>1, <1>2, <1>3, <1>4
<1>9. Enqueued(Last, pos, G, c)'
  <2> DEFINE t == next - Len(todo[Last])
             n == Len(bc[Last])
             more == Sends(w.step, w.rows, rej)
  <2>1. IsSeq(bc[Last]) /\ c + n = pos[t] /\ (\A j \in 1 .. n : Same(bc[Last][j], G[c + j]))
        /\ n \in Nat
    <3>1. Halfway(Last) = 0
      BY <1>1 DEF Halfway
    <3>2. pos[t] \in Nat
      <4>1. t \in 1 .. next
        BY <1>7
      <4> HIDE DEF t
      <4> QED BY <4>1, <1>3 DEF Laid
    <3>3. Enqueued(Last, pos, G, c)
      BY <1>3, <1>4
    <3> QED BY <3>1, <3>2, <3>3, SeqLen DEF Enqueued
  <2>2. bc'[Last] = bc[Last] \o more /\ ph'[Last] = "propose"
    BY <1>4, <1>8
  <2>3. CASE Need(w.rows) = {}
    <3>1. more = <<>>
      BY <2>3 DEF Sends
    <3>2. bc[Last] \o <<>> = bc[Last]
      BY <2>1, ConcatEmptySeq DEF IsSeq
    <3>3. Halfway(Last)' = 0
      BY <2>3, <1>1, <1>7 DEF Halfway
    <3>4. pos[t] \in Int
      BY <1>3, <2>1
    <3> QED BY <2>1, <2>2, <3>1, <3>2, <3>3, <3>4, <1>1 DEF Enqueued
  <2>4. CASE Need(w.rows) # {}
    <3>1. IsSeq(more) /\ Len(more) = 2 /\ \A i \in 1 .. 2 : Same(more[i], OpOf(w, i))
      BY <2>4, SendsAre
    <3>2. Halfway(Last)' = 2
      BY <2>2, <2>4, <1>1, <1>7 DEF Halfway
    <3>3. NumOps(w) \in {2, 3}
      BY <2>4 DEF NumOps
    <3>4. t \in 1 .. next - 1
      BY <1>7
    <3>5. G[pos[t] + 1] = OpOf(w, 1) /\ G[pos[t] + 2] = OpOf(w, 2)
      <4>1. \A i \in 1 .. NumOps(W[t]) : G[pos[t] + i] = OpOf(W[t], i)
        <5> HIDE DEF t
        <5> QED BY <3>4, <1>3 DEF Laid
      <4>2. 1 \in 1 .. NumOps(W[t]) /\ 2 \in 1 .. NumOps(W[t])
        BY <3>3, <1>7
      <4> QED BY <4>1, <4>2, <1>7
    <3> HIDE DEF more, n, t
    <3>6. /\ IsSeq(bc'[Last]) /\ Len(bc'[Last]) = n + 2
          /\ \A i \in 1 .. n + 2 : bc'[Last][i] = IF i <= n THEN bc[Last][i] ELSE more[i - n]
      <4>1. /\ IsSeq(bc[Last] \o more) /\ Len(bc[Last] \o more) = n + Len(more)
            /\ \A i \in 1 .. n + Len(more) :
                  (bc[Last] \o more)[i] = IF i <= n THEN bc[Last][i] ELSE more[i - n]
        BY <2>1, <3>1, ConcatIsSeq DEF n
      <4> QED BY <4>1, <2>2, <3>1
    <3>7. ASSUME NEW j \in 1 .. n + 2 PROVE Same(bc'[Last][j], G[c + j])
      <4>1. CASE j <= n
        <5>1. j \in 1 .. n
          BY <4>1
        <5> QED BY <4>1, <5>1, <2>1, <3>6
      <4>2. CASE j = n + 1
        <5>1. ~ (j <= n) /\ j - n = 1 /\ c + j = pos[t] + 1
          BY <4>2, <2>1, <1>3
        <5> QED BY <5>1, <3>1, <3>5, <3>6
      <4>3. CASE j = n + 2
        <5>1. ~ (j <= n) /\ j - n = 2 /\ c + j = pos[t] + 2
          BY <4>3, <2>1, <1>3
        <5> QED BY <5>1, <3>1, <3>5, <3>6
      <4> QED BY <4>1, <4>2, <4>3, <2>1
    <3>8. c + Len(bc'[Last]) = pos[next' - Len(todo'[Last])] + 2
      BY <2>1, <3>6, <1>1, <1>3 DEF t
    <3> QED BY <3>2, <3>6, <3>7, <3>8 DEF Enqueued
  <2> QED BY <2>3, <2>4
<1>10. \A s \in Ranks : s # Last => Enqueued(s, pos, G, c)'
  BY <1>1, <1>3, <1>8, OthersEnqueued
<1>11. Relayed(W, pos, G, c)'
  BY <1>2, <1>3, <1>6, <1>9, <1>10 DEF Relayed
<1> QED BY <1>5, <1>11

\* Propose enqueues the third, where drafts are relayed.
LEMMA ProposeStep ==
  ASSUME NEW W, NEW pos, NEW G, NEW c, Scheduled(W), Relayed(W, pos, G, c), Propose
  PROVE  Scheduled(W)' /\ Relayed(W, pos, G, c)'
<1>1. /\ ph[Last] = "propose" /\ next' = next /\ todo' = [todo EXCEPT ![Last] = Tail(@)]
      /\ ph' = [ph EXCEPT ![Last] = "update"]
  BY DEF Propose
<1>2. /\ Last \in Ranks /\ DOMAIN ph = Ranks /\ DOMAIN bc = Ranks /\ IsSeq(bc[Last])
      /\ todo[Last] # <<>>
  BY <1>1, LastIsARank DEF Scheduled, Before, Relayed, Enqueued
<1>3. DOMAIN ph' = Ranks /\ ph'[Last] = "update" /\ \A s \in Ranks \ {Last} : ph'[s] = ph[s]
  BY <1>1, <1>2
<1> DEFINE w == Work(Last)
           d == Op("draft", w.step, NumReqs(w.rows) * K, <<>>)
           more == IF NumOps(w) = 3 THEN <<d>> ELSE <<>>
<1>4. NumOps(w) = 3 <=> K > 0 /\ Need(w.rows) # {}
  BY DEF NumOps
<1>5. K \in Nat
  BY LenAssumption
<1>6. bc' = IF NumOps(w) = 3 THEN [bc EXCEPT ![Last] = Append(@, d)] ELSE bc
  <2>1. CASE K = 0
    <3>1. bc' = bc
      BY <2>1 DEF Propose
    <3> QED BY <2>1, <3>1, <1>4
  <2>2. CASE K # 0
    <3>1. bc' = IF Need(w.rows) = {} THEN bc ELSE [bc EXCEPT ![Last] = Append(@, d)]
      BY <2>2 DEF Propose
    <3>2. K > 0
      BY <2>2, <1>5
    <3> QED BY <3>1, <3>2, <1>4
  <2> QED BY <2>1, <2>2
<1>7. /\ DOMAIN bc' = Ranks /\ bc'[Last] = bc[Last] \o more
      /\ \A s \in Ranks \ {Last} : bc'[s] = bc[s]
  <2>1. CASE NumOps(w) = 3
    <3>1. Append(bc[Last], d) = bc[Last] \o <<d>>
      <4>1. PICK S : bc[Last] \in Seq(S)
        BY <1>2 DEF IsSeq
      <4>2. bc[Last] \in Seq(S \cup {d}) /\ d \in S \cup {d}
        BY <4>1, SeqMonotonic
      <4> HIDE DEF d
      <4> QED BY <4>2, AppendIsConcat
    <3> QED BY <2>1, <3>1, <1>2, <1>6
  <2>2. CASE NumOps(w) # 3
    <3>1. bc[Last] \o <<>> = bc[Last]
      BY <1>2, ConcatEmptySeq DEF IsSeq
    <3> QED BY <2>2, <3>1, <1>2, <1>6
  <2> QED BY <2>1, <2>2
<1>8. TheRest(Last, more)
  <2>1. Head(todo[Last]) = w
    BY <1>2, WorkIs
  <2>2. CASE NumOps(w) = 3
    <3>1. IsSeq(<<d>>) /\ Len(<<d>>) = 1 /\ <<d>>[1] = d
      BY OneIsSeq
    <3>2. Halfway(Last) = 2
      BY <2>1, <2>2, <1>1, <1>4 DEF Halfway
    <3>3. OpOf(w, 3) = d
      BY DEF OpOf
    <3>4. more = <<d>>
      BY <2>2
    <3> HIDE DEF d, more
    <3>5. ASSUME NEW i \in 1 .. 1 PROVE Same(<<d>>[i], OpOf(w, 2 + i))
      <4>1. i = 1 /\ 2 + i = 3
        OBVIOUS
      <4> QED BY <4>1, <3>1, <3>3 DEF Same
    <3> QED BY <2>2, <3>1, <3>2, <3>4, <3>5 DEF TheRest
  <2>3. CASE NumOps(w) # 3
    <3>1. Halfway(Last) = NumOps(w)
      BY <2>1, <2>3, <1>1 DEF Halfway, NumOps
    <3>2. IsSeq(<<>>) /\ Len(<<>>) = 0 /\ more = <<>>
      BY <2>3, EmptyIsSeq
    <3>3. NumOps(w) \in Nat
      BY NumOpsIsNat
    <3> QED BY <3>1, <3>2, <3>3 DEF TheRest
  <2> QED BY <2>2, <2>3
<1> HIDE DEF more
<1> QED BY <1>1, <1>2, <1>3, <1>7, <1>8, DoneStep

LEMMA BroadcastStep ==
  ASSUME NEW W, NEW pos, NEW G, NEW c, Scheduled(W), Relayed(W, pos, G, c), Broadcast
  PROVE  Scheduled(W)' /\ Relayed(W, pos, G, c + 1)'
<1>1. /\ \A r \in Ranks : bc[r] # <<>>
      /\ bc' = [r \in Ranks |-> Tail(bc[r])]
      /\ next' = next /\ todo' = todo /\ ph' = ph
  BY DEF Broadcast
<1>2. /\ c \in Nat /\ Laid(W, pos, G) /\ \A s \in Ranks : Enqueued(s, pos, G, c)
  BY DEF Relayed
<1>3. Scheduled(W)' /\ Laid(W, pos, G)'
  BY <1>1, <1>2 DEF Scheduled, Before, Laid
<1>4. ASSUME NEW r \in Ranks PROVE Enqueued(r, pos, G, c + 1)'
  <2>1. /\ IsSeq(bc[r]) /\ c + Len(bc[r]) = pos[next - Len(todo[r])] + Halfway(r)
        /\ \A j \in 1 .. Len(bc[r]) : Same(bc[r][j], G[c + j])
    BY <1>2 DEF Enqueued
  <2>2. bc'[r] = Tail(bc[r]) /\ bc[r] # <<>>
    BY <1>1
  <2> DEFINE n == Len(bc[r])
  <2>3. /\ IsSeq(bc'[r]) /\ n \in Nat /\ n > 0 /\ Len(bc'[r]) = n - 1
        /\ \A i \in 1 .. n - 1 : bc'[r][i] = bc[r][i + 1]
    BY <2>1, <2>2, TailIsSeq
  <2>4. c + 1 + Len(bc'[r]) = c + n
    <3> HIDE DEF n
    <3> QED BY <2>3, <1>2
  <2>5. ASSUME NEW j \in 1 .. n - 1 PROVE Same(bc'[r][j], G[c + 1 + j])
    <3> HIDE DEF n
    <3>1. j + 1 \in 1 .. n /\ c + (j + 1) = c + 1 + j
      BY <2>3, <1>2
    <3>2. Same(bc[r][j + 1], G[c + (j + 1)])
      BY <3>1, <2>1 DEF n
    <3> QED BY <3>1, <3>2, <2>3
  <2>6. Halfway(r)' = Halfway(r)
    BY <1>1 DEF Halfway
  <2> QED BY <2>1, <2>3, <2>4, <2>5, <2>6, <1>1 DEF Enqueued
<1>5. Relayed(W, pos, G, c + 1)'
  BY <1>1, <1>2, <1>3, <1>4 DEF Relayed
<1> QED BY <1>3, <1>5

LEMMA InitIInv == Init => IInv
<1> SUFFICES ASSUME Init PROVE IInv
  OBVIOUS
<1>1. PICK W : W = <<>>
  OBVIOUS
<1> QED BY <1>1, InitSchedule DEF IInv

LEMMA NextIInv == IInv /\ [Next]_vars => IInv'
<1> SUFFICES ASSUME IInv, [Next]_vars PROVE IInv'
  OBVIOUS
<1>1. PICK W, pos, G, c : Scheduled(W) /\ Relayed(W, pos, G, c)
  BY DEF IInv
<1>2. CASE Schedule
  <2>1. PICK kept, gone, new, n : Issue(kept, gone, new, n)
    BY <1>2, ScheduleIssues
  <2>2. PICK o : o = Output(gone, new, Rows(kept, n))
    OBVIOUS
  <2>3. Issued(o)
    <3>1. /\ todo' = [r \in Ranks |-> Append(todo[r], o)] /\ next' = next + 1
          /\ ph' = ph /\ bc' = bc
      BY <1>2, <2>1, <2>2, ZenonT(30) DEF Schedule, Issue
    <3>2. o.step = next
      BY <2>2 DEF Output
    <3> QED BY <3>1, <3>2 DEF Issued
  <2> QED BY <1>1, <2>3, ScheduleStep DEF IInv
<1>3. CASE Sample
  BY <1>1, <1>3, SampleStep DEF IInv
<1>4. CASE Propose
  BY <1>1, <1>4, ProposeStep DEF IInv
<1>5. CASE Broadcast
  BY <1>1, <1>5, BroadcastStep DEF IInv
<1>6. ASSUME NEW r \in Ranks, Rank(r) PROVE IInv'
  <2>1. CASE Update(r)
    BY <1>1, <2>1, UpdateStep DEF IInv
  <2>2. CASE Forward(r)
    BY <1>1, <2>2, ForwardStep DEF IInv
  <2>3. CASE Receive(r)
    BY <1>1, <2>3, ReceiveStep DEF IInv
  <2> QED BY <1>6, <2>1, <2>2, <2>3 DEF Rank
<1>7. CASE UNCHANGED vars
  <2>1. next' = next /\ todo' = todo /\ ph' = ph /\ bc' = bc
    BY <1>7 DEF vars, moving
  <2>2. Scheduled(W)' /\ Relayed(W, pos, G, c)'
    BY <1>1, <2>1 DEF Scheduled, Before, Relayed, Laid, Enqueued, Halfway
  <2> QED BY <2>2 DEF IInv
<1> QED BY <1>2, <1>3, <1>4, <1>5, <1>6, <1>7 DEF Next

\* Two operations at the same place of two streams are the same operation of G.
LEMMA IInvMatches == IInv => BroadcastsMatch
<1> SUFFICES ASSUME IInv, NEW r \in Ranks \ {Last}, NEW k \in DOMAIN bc[r] \cap DOMAIN bc[Last]
             PROVE  Same(bc[r][k], bc[Last][k])
  BY DEF BroadcastsMatch, Same
<1>1. PICK W, pos, G, c : Scheduled(W) /\ Relayed(W, pos, G, c)
  BY DEF IInv
<1>2. Last \in Ranks /\ r \in Ranks
  BY LastIsARank
<1>3. Enqueued(r, pos, G, c) /\ Enqueued(Last, pos, G, c)
  BY <1>1, <1>2 DEF Relayed
<1>4. \A s \in Ranks : IsSeq(bc[s]) => DOMAIN bc[s] = 1 .. Len(bc[s])
  BY LenProperties DEF IsSeq
<1>5. k \in 1 .. Len(bc[r]) /\ k \in 1 .. Len(bc[Last])
  BY <1>2, <1>3, <1>4 DEF Enqueued
<1>6. Same(bc[r][k], G[c + k]) /\ Same(bc[Last][k], G[c + k])
  BY <1>3, <1>5 DEF Enqueued
<1> QED BY <1>6 DEF Same

-----------------------------------------------------------------------------
\* The operations that the ranks have enqueued on their broadcast streams pair
\* up in order, kind by kind, step by step and with equal element counts,
\* however far one rank is behind another (PPHandler.receive on one side,
\* broadcast and broadcast_draft with their padding on the other).
THEOREM BroadcastsAlwaysMatch == Spec => []BroadcastsMatch
<1>1. Spec => []IInv
  BY InitIInv, NextIInv, PTL DEF Spec
<1> QED BY <1>1, IInvMatches, PTL

-----------------------------------------------------------------------------
(***************************************************************************)
(* The forwards.  What a rank is about to feed to its forward is what the  *)
(* history of the request says, although the token was sampled on another  *)
(* rank, was relayed by a stream of its own and is applied P steps later,  *)
(* when the request may have left its index.                               *)
(*                                                                         *)
(* The specification keeps no history.  The invariant says that there is   *)
(* one: the outputs W of the scheduler (as above), the drafts R rejected   *)
(* in each, and what the outputs make of the requests after each, A.       *)
(* Every rank is at some point of that history: its RequestState is that   *)
(* of the requests there, with the tokens of a step it has already         *)
(* applied; what is still to be applied is in its queue, or in the         *)
(* broadcasts on their way.                                                *)
(***************************************************************************)

-----------------------------------------------------------------------------
(* The history of the requests.                                            *)
(*                                                                         *)
(* W[t] is the scheduler output of step t, R[t] the drafts rejected in it  *)
(* (none, before it is sampled) and A[t] what the outputs up to t say of   *)
(* each request: since when it runs, the last step it had tokens in and    *)
(* the last step it sampled in; 0 where there is none.                     *)

Dead == [since |-> 0, seen |-> 0, prev |-> 0]

\* A request in step w, before and after the tokens it has in it.
Entered(a, w, q) ==
    IF q \in w.gone THEN Dead
    ELSE IF q \in w.new THEN [since |-> w.step, seen |-> 0, prev |-> 0] ELSE a
Ran(b, w, q) ==
    IF q \in DOMAIN w.rows
      THEN [since |-> b.since, seen |-> w.step,
            prev |-> IF Samples(w.rows[q]) THEN w.step ELSE b.prev]
      ELSE b

\* Computed tokens after step v, net of the drafts rejected up to step e.
Net(W, R, v, q, e) ==
    IF v = 0 THEN 0
    ELSE W[v].rows[q].old + W[v].rows[q].n - IF v <= e THEN R[v][q] ELSE 0

\* A row of step t, the request being as in b before it.
RowOK(W, R, b, t, q) ==
    LET row == W[t].rows[q]
    IN /\ row.old \in Nat /\ row.n \in Nat \ {0} /\ row.plen \in Nat
       /\ R[t][q] \in Nat /\ R[t][q] <= Drafts(row) /\ Drafts(row) <= K
       /\ b.since > 0 /\ row.prev = b.prev /\ row.old = Net(W, R, b.seen, q, t)
       /\ IF IsDecode(row)
            THEN /\ b.prev > 0 /\ b.prev + P <= t
                 /\ q \in Need(W[t].rows) /\ q \in Need(W[b.prev].rows)
            ELSE b.prev = 0 /\ row.old + row.n <= row.plen

Running(a) == {q \in Reqs : a[q].since > 0}

\* What the scheduler put into the output w, after the outputs that led to a.
OutputOK(w, a) ==
    /\ w.gone \subseteq Running(a) /\ w.new \subseteq Reqs \ Running(a)
    /\ Cardinality(Running(a) \ w.gone) + Cardinality(w.new) <= max_num_reqs
    /\ DOMAIN w.rows \subseteq Reqs

\* A request after step t.  A step that samples is followed by P - 1 others
\* before the next one.
PastOK(W, a, t, q) ==
    /\ a.since \in 0 .. t /\ a.seen \in 0 .. t /\ a.prev \in {0, a.seen}
    /\ a.since = 0 => a.seen = 0
    /\ a.seen > 0 => a.since <= a.seen /\ q \in DOMAIN W[a.seen].rows
    /\ a.prev > 0 => Samples(W[a.prev].rows[q])
    /\ a.since > 0 =>
         \A v \in a.since .. t :
            q \in DOMAIN W[v].rows /\ Samples(W[v].rows[q]) => a.prev = v \/ a.prev >= v + P

History(W, R, A) ==
    /\ A[0] = [q \in Reqs |-> Dead]
    /\ \A t \in 1 .. next - 1 :
          /\ OutputOK(W[t], A[t - 1])
          /\ A[t] = [q \in Reqs |-> Ran(Entered(A[t - 1][q], W[t], q), W[t], q)]
          /\ \A q \in DOMAIN W[t].rows : RowOK(W, R, Entered(A[t - 1][q], W[t], q), t, q)
    /\ \A t \in 0 .. next - 1 : \A q \in Reqs : PastOK(W, A[t][q], t, q)

-----------------------------------------------------------------------------
(* The scheduler.                                                          *)

IsReq(s) == s = [st |-> s.st, computed |-> s.computed, len |-> s.len,
                 plen |-> s.plen, prev |-> s.prev, since |-> s.since]

\* What the scheduler knows of a request, having processed the steps up to e.
KnownOK(s, a, W, R, q, e) ==
    /\ IsReq(s)
    /\ s.st \in {"new", "out", "run", "gone"} /\ (s.st = "run" <=> a.since > 0)
    /\ s.len \in 1 .. MaxLen
    /\ s.st \in {"new", "out"} => s.computed = 0 /\ s.prev = 0 /\ s.len < MaxLen
    /\ s.st = "run" =>
         /\ s.since = a.since /\ s.prev = a.prev /\ s.plen \in 1 .. MaxLen - 1
         /\ s.computed = Net(W, R, a.seen, q, e)
         /\ a.seen > 0 => W[a.seen].rows[q].plen = s.plen
         /\ IF a.prev = 0 THEN s.computed < s.plen /\ s.len = s.plen
            ELSE /\ s.computed >= s.plen
                 /\ IF a.prev <= e THEN s.len = Smaller(MaxLen, s.computed + 1)
                    ELSE s.len = IF IsDecode(W[a.prev].rows[q])
                                   THEN W[a.prev].rows[q].old + 1 ELSE s.plen

\* The last step that the last rank has sampled.
Sampled == next - Len(todo[Last]) - IF ph[Last] = "propose" THEN 0 ELSE 1

\* The output of step v.
ResultOK(o, w, rej) ==
    /\ o.step = w.step /\ DOMAIN o.rej = DOMAIN w.rows /\ DOMAIN o.num = DOMAIN w.rows
    /\ \A q \in DOMAIN w.rows :
          /\ o.rej[q] = rej[q]
          /\ o.num[q] = IF Samples(w.rows[q]) THEN 1 + Drafts(w.rows[q]) - rej[q] ELSE 0

Pending(W, R) ==
    /\ IsSeq(results) /\ Larger(1, next - P) + Len(results) = Sampled + 1
    /\ \A k \in 1 .. Len(results) :
          LET v == Larger(1, next - P) + k - 1 IN ResultOK(results[k], W[v], R[v])

SchedulerOK(W, R, A) ==
    /\ DOMAIN reqs = Reqs /\ Pending(W, R)
    /\ \A q \in Reqs : KnownOK(reqs[q], A[next - 1][q], W, R, q, next - 1 - P)

-----------------------------------------------------------------------------
(* The ranks.                                                              *)

Current(r) == next - Len(todo[r])

\* What rank r has made of the requests, and the last step whose relayed
\* tokens it has applied.
View(r, W, A) ==
    IF ph[r] = "update" THEN A[Current(r) - 1]
    ELSE IF ph[r] = "propose" THEN A[Current(r)]
    ELSE [q \in Reqs |-> Entered(A[Current(r) - 1][q], W[Current(r)], q)]

Applied(r) == IF r = Last THEN next
              ELSE Current(r) - P - IF ph[r] = "update" THEN 1 ELSE 0

\* The step whose drafts the last rank has not proposed yet.
Proposing(r) == IF ph[r] = "propose" THEN Current(r) ELSE 0

Relays(a, W, q, e) == a.prev > 0 /\ a.prev <= e /\ q \in Need(W[a.prev].rows)

IsSlot(s) == s = [req |-> s.req, computed |-> s.computed, last |-> s.last, draft |-> s.draft]

\* A RequestState row of a running request.
SlotOK(s, a, W, R, q, e, p) ==
    /\ s.computed = Net(W, R, a.seen, q, e)
    /\ Relays(a, W, q, e) => /\ s.last = a.prev
                             /\ K > 0 /\ a.prev # p => s.draft = a.prev

\* Every running request has one row of those in I, and the other rows are free.
Placed(I, S, a) ==
    /\ DOMAIN S = I /\ \A i \in I : IsSlot(S[i])
    /\ \A i \in I : S[i].req # None => S[i].req \in Running(a)
    /\ \A q \in Running(a) : \E i \in I : S[i].req = q
    /\ \A i, j \in I : S[i].req = S[j].req /\ S[i].req # None => i = j

\* The rows S and the generations g of a rank that has applied the steps up to e.
RowsOK(I, S, g, a, W, R, e, p) ==
    /\ Placed(I, S, a)
    /\ \A i \in I : S[i].req # None => SlotOK(S[i], a[S[i].req], W, R, S[i].req, e, p)
    /\ DOMAIN g = I /\ \A i \in I : g[i] \in Nat

\* Drafts whose rejection a rank has applied have been sampled.
Settled(a, W, e, sd) ==
    \A q \in Running(a) :
        a[q].seen > 0 /\ a[q].seen <= e /\ Drafts(W[a[q].seen].rows[q]) > 0 => a[q].seen <= sd

IsEntry(e) == e = [step |-> e.step, left |-> e.left, need |-> e.need, idx |-> e.idx,
                   gen |-> e.gen, sampled |-> e.sampled, rej |-> e.rej, draft |-> e.draft]

\* The operations of the step w that are done, when c of all are and p precede.
Done(w, p, c) == Smaller(NumOps(w), Larger(0, c - p))

\* The row of q in an entry for step v, i and h being its index and generation.
Marked(i, h, q, v, I, S, g, a) ==
    /\ i \in I /\ h \in Nat /\ h <= g[i]
    /\ h = g[i] <=> a[q].since > 0 /\ a[q].since <= v
    /\ h = g[i] => S[i].req = q

\* What has arrived of the step v, n of its operations being done.
Arrived(e, v, n, w, rej) ==
    /\ e.step = v /\ e.need = Need(w.rows) /\ e.left = NumOps(w) - n
    /\ n >= 1 => e.sampled = v
    /\ n >= 2 => e.rej = rej
    /\ n >= 3 => e.draft = v

\* An entry k of the queue is for the k-th step after the last one that is applied.
EntryOK(x, v, I, S, g, a, W, R, pos, c, cur) ==
    /\ IsEntry(x)
    /\ IF v <= 0 \/ v >= cur \/ Need(W[v].rows) = {}
         THEN x.step = 0 /\ x.need = {}
         ELSE /\ Arrived(x, v, Done(W[v], pos[v], c), W[v], R[v])
              /\ \A q \in DOMAIN W[v].rows : Marked(x.idx[q], x.gen[q], q, v, I, S, g, a)

EntriesOK(Q, I, S, g, a, W, R, pos, c, e, cur) ==
    /\ IsSeq(Q) /\ Len(Q) = P
    /\ \A k \in 1 .. P : EntryOK(Q[k], e + k, I, S, g, a, W, R, pos, c, cur)

RankOK(r, W, R, A, pos, c) ==
    /\ RowsOK(Idx, slots[r], gen[r], View(r, W, A), W, R, Applied(r), Proposing(r))
    /\ r # Last => /\ Settled(View(r, W, A), W, Applied(r), Sampled)
                   /\ EntriesOK(queue[r], Idx, slots[r], gen[r], View(r, W, A), W, R, pos, c,
                                Applied(r), Current(r))

\* The rejections on their way are those of the step.
SentOK(R) ==
    \A j \in 1 .. Len(bc[Last]) :
        bc[Last][j].step <= Sampled
        /\ (bc[Last][j].kind = "combined" => bc[Last][j].rej = R[bc[Last][j].step])

Shape == /\ max_num_reqs \in Nat /\ DOMAIN slots = Ranks /\ DOMAIN gen = Ranks
         /\ DOMAIN queue = Ranks \ {Last}

\* The inductive invariant, and what it says of one history.
Holds(W, pos, G, c, R, A) ==
    /\ Scheduled(W) /\ Relayed(W, pos, G, c) /\ History(W, R, A) /\ SchedulerOK(W, R, A)
    /\ \A r \in Ranks : RankOK(r, W, R, A, pos, c)
    /\ SentOK(R) /\ Shape

FInv == \E W, pos, G, c, R, A : Holds(W, pos, G, c, R, A)

-----------------------------------------------------------------------------
(* Rows and requests.                                                      *)

LEMMA Constants == /\ P \in Nat /\ P >= 2 /\ K \in Nat /\ MaxLen \in Nat /\ PromptLen \in Nat
                   /\ 0 < PromptLen /\ PromptLen < MaxLen
BY PAssumption, LenAssumption

LEMMA RowFacts ==
  ASSUME NEW W, NEW R, NEW b, NEW t, NEW q, RowOK(W, R, b, t, q), NEW row, row = W[t].rows[q],
         NEW rej, rej = R[t][q]
  PROVE  /\ row.old \in Nat /\ row.n \in Nat /\ row.n > 0 /\ row.plen \in Nat
         /\ rej \in Nat /\ rej < row.n
         /\ IsDecode(row) <=> row.old >= row.plen
         /\ Samples(row) <=> row.old + row.n >= row.plen
         /\ IsDecode(row) => Samples(row) /\ Drafts(row) = row.n - 1
         /\ ~ IsDecode(row) => rej = 0 /\ Drafts(row) = 0 /\ row.old + row.n <= row.plen
<1>1. /\ row.old \in Nat /\ row.n \in Nat /\ row.n > 0 /\ row.plen \in Nat
      /\ rej \in Nat /\ rej <= Drafts(row)
      /\ ~ IsDecode(row) => row.old + row.n <= row.plen
  BY DEF RowOK
<1>2. /\ IsDecode(row) <=> row.old >= row.plen
      /\ Samples(row) <=> row.old + row.n >= row.plen
  BY DEF IsDecode, Samples
<1>3. Drafts(row) = IF IsDecode(row) THEN row.n - 1 ELSE 0
  BY DEF Drafts
<1> QED BY <1>1, <1>2, <1>3

\* Processing another step changes nothing for a request that was not last in it.
LEMMA KnownMoves ==
  ASSUME NEW s, NEW a, NEW W, NEW R, NEW q, NEW e \in Int, KnownOK(s, a, W, R, q, e),
         a.seen \in Nat, a.prev \in {0, a.seen}, s.st = "run" => a.seen = 0 \/ a.seen # e + 1
  PROVE  KnownOK(s, a, W, R, q, e + 1)
<1>1. CASE s.st = "run"
  <2>1. a.seen = 0 \/ (a.seen <= e <=> a.seen <= e + 1)
    BY <1>1
  <2>2. Net(W, R, a.seen, q, e) = Net(W, R, a.seen, q, e + 1)
    BY <2>1 DEF Net
  <2>3. a.prev = 0 \/ (a.prev <= e <=> a.prev <= e + 1)
    BY <2>1
  <2> QED BY <2>2, <2>3 DEF KnownOK
<1>2. CASE s.st # "run"
  BY <1>2 DEF KnownOK
<1> QED BY <1>1, <1>2

\* What processing an output does to a request.
GiveBack(s, d, m) == [s EXCEPT !.computed = @ - d, !.len = Smaller(MaxLen, @ + m)]

LEMMA GivenBack ==
  ASSUME NEW s, IsReq(s), NEW d, NEW m, NEW x, x = GiveBack(s, d, m)
  PROVE  /\ x.computed = s.computed - d /\ x.len = Smaller(MaxLen, s.len + m) /\ IsReq(x)
         /\ x.st = s.st /\ x.plen = s.plen /\ x.prev = s.prev /\ x.since = s.since
<1>1. PICK u : u = Smaller(MaxLen, s.len + m)
  OBVIOUS
<1>2. PICK y : y = s.computed - d
  OBVIOUS
<1>3. x = [st |-> s.st, computed |-> y, len |-> u, plen |-> s.plen, prev |-> s.prev,
           since |-> s.since]
  BY <1>1, <1>2 DEF IsReq, GiveBack
<1> QED BY <1>1, <1>2, <1>3 DEF IsReq

\* The output of the last step of a request: rejected drafts are given back, and
\* what was sampled is added.
LEMMA KnownProcessed ==
  ASSUME NEW s, NEW a, NEW W, NEW R, NEW q, NEW b, NEW e \in Nat, NEW v, v = e + 1,
         KnownOK(s, a, W, R, q, e), s.st = "run", a.seen = v, a.prev \in {0, v},
         RowOK(W, R, b, v, q), Samples(W[v].rows[q]) <=> a.prev = v,
         NEW num, num = IF Samples(W[v].rows[q]) THEN 1 + Drafts(W[v].rows[q]) - R[v][q] ELSE 0,
         NEW x, x = GiveBack(s, R[v][q], num)
  PROVE  KnownOK(x, a, W, R, q, v)
<1> DEFINE row == W[v].rows[q]
           rej == R[v][q]
<1>1. /\ row.old \in Nat /\ row.n \in Nat /\ row.n > 0 /\ row.plen \in Nat
      /\ rej \in Nat /\ rej < row.n
      /\ IsDecode(row) <=> row.old >= row.plen
      /\ Samples(row) <=> row.old + row.n >= row.plen
      /\ IsDecode(row) => Samples(row) /\ Drafts(row) = row.n - 1
      /\ ~ IsDecode(row) => rej = 0 /\ Drafts(row) = 0 /\ row.old + row.n <= row.plen
  BY RowFacts
<1>2. IsReq(s) /\ s.len \in 1 .. MaxLen
  BY DEF KnownOK
<1>3. /\ s.since = a.since /\ s.prev = a.prev /\ s.plen \in 1 .. MaxLen - 1
      /\ s.computed = Net(W, R, v, q, e) /\ row.plen = s.plen /\ a.since > 0
      /\ IF a.prev = 0 THEN s.computed < s.plen /\ s.len = s.plen
         ELSE /\ s.computed >= s.plen
              /\ ~ (a.prev <= e) =>
                   s.len = IF IsDecode(W[a.prev].rows[q]) THEN W[a.prev].rows[q].old + 1
                           ELSE s.plen
  BY DEF KnownOK
<1>4. s.computed = row.old + row.n
  <2>1. ~ (v <= e) /\ v # 0
    OBVIOUS
  <2>2. Net(W, R, v, q, e) = row.old + row.n - 0
    BY <2>1 DEF Net
  <2> QED BY <1>1, <1>3, <2>2
<1>5. Net(W, R, v, q, v) = row.old + row.n - rej
  BY DEF Net
<1>6. /\ x.computed = s.computed - rej /\ x.len = Smaller(MaxLen, s.len + num) /\ IsReq(x)
      /\ x.st = s.st /\ x.plen = s.plen /\ x.prev = s.prev /\ x.since = s.since
  BY <1>2, GivenBack
<1>7. x.computed = Net(W, R, v, q, v) /\ x.computed = row.old + row.n - rej
  <2>1. x.computed = s.computed - rej
    BY <1>6
  <2>2. PICK a0, b0 : a0 = row.old /\ b0 = row.n
    OBVIOUS
  <2>3. PICK d : d = rej
    OBVIOUS
  <2>4. s.computed = a0 + b0
    BY <1>4, <2>2, Zenon
  <2>5. Net(W, R, v, q, v) = a0 + b0 - d
    BY <1>5, <2>2, <2>3
  <2>6. x.computed = a0 + b0 - d
    <3>1. PICK y, z : y = s.computed /\ z = x.computed
      OBVIOUS
    <3>2. y = a0 + b0 /\ z = y - d
      BY <2>1, <2>3, <2>4, <3>1
    <3>3. a0 \in Nat /\ b0 \in Nat /\ d \in Nat
      BY <1>1, <2>2, <2>3
    <3>4. z = a0 + b0 - d
      BY <3>2, <3>3
    <3> QED BY <3>1, <3>4
  <2> QED BY <2>2, <2>3, <2>5, <2>6, Zenon
<1>8. MaxLen \in Nat
  BY Constants
<1>9. CASE a.prev = 0
  <2>1. ~ Samples(row) /\ ~ IsDecode(row) /\ num = 0 /\ rej = 0
    BY <1>9, <1>1
  <2>2. x.len = s.len
    BY <2>1, <1>2, <1>6, <1>8 DEF Smaller
  <2> HIDE DEF row, rej
  <2>3. x.computed < x.plen /\ x.len = x.plen
    BY <2>1, <2>2, <1>1, <1>3, <1>4, <1>6, <1>9, SMTT(30)
  <2> QED BY <2>2, <2>3, <1>2, <1>3, <1>6, <1>7, <1>9 DEF KnownOK, row
<1>10. CASE a.prev # 0
  <2>1. a.prev = v /\ Samples(row) /\ ~ (a.prev <= e) /\ a.prev <= v
    BY <1>10
  <2>2. num = 1 + Drafts(row) - rej
    BY <2>1
  <2>3. s.len = IF IsDecode(row) THEN row.old + 1 ELSE s.plen
    BY <2>1, <1>3, <1>10
  <2> HIDE DEF row, rej
  <2>4. s.len + num = row.old + row.n - rej + 1
    <3>1. CASE IsDecode(row)
      BY <3>1, <2>2, <2>3, <1>1
    <3>2. CASE ~ IsDecode(row)
      <4>1. row.old + row.n = row.plen
        BY <3>2, <2>1, <1>1
      <4> QED BY <3>2, <4>1, <2>2, <2>3, <1>1, <1>3
    <3> QED BY <3>1, <3>2
  <2>5. x.len = Smaller(MaxLen, x.computed + 1)
    BY <2>4, <1>6, <1>7
  <2>6. x.computed >= x.plen /\ x.computed \in Nat
    <3>0. x.plen = row.plen /\ x.computed = row.old + row.n - rej
      BY <1>3, <1>6, <1>7
    <3>1. CASE IsDecode(row)
      <4>1. row.old >= row.plen
        BY <3>1, <1>1
      <4> QED BY <3>0, <4>1, <1>1
    <3>2. CASE ~ IsDecode(row)
      <4>1. row.old + row.n >= row.plen /\ rej = 0
        BY <3>2, <2>1, <1>1
      <4> QED BY <3>0, <4>1, <1>1
    <3> QED BY <3>1, <3>2
  <2>7. x.len \in 1 .. MaxLen
    BY <2>5, <2>6, <1>8, Constants DEF Smaller
  <2> QED BY <2>1, <2>5, <2>6, <2>7, <1>3, <1>6, <1>7, <1>10 DEF KnownOK, row
<1> QED BY <1>9, <1>10

\* Kept, for one request.
KeptOne(s, q, gone, new) ==
    IF q \in gone
      THEN [NewReq EXCEPT !.st = IF s.len = MaxLen THEN "gone" ELSE "out", !.len = s.len]
    ELSE IF q \in new THEN [s EXCEPT !.st = "run", !.plen = s.len, !.since = next]
    ELSE s

LEMMA KeptIs ==
  ASSUME NEW now, NEW gone, NEW new, NEW q \in Reqs
  PROVE  Kept(now, gone, new)[q] = KeptOne(now[q], q, gone, new)
BY DEF Kept, KeptOne

\* Finished, preempted, admitted, or none of these.
LEMMA KnownEntered ==
  ASSUME NEW W, NEW R, NEW e \in Int, NEW gone, NEW new, NEW now, NEW q,
         NEW w, w.gone = gone, w.new = new, w.step = next, next \in Nat, next > 0,
         NEW s, NEW a, KnownOK(s, a, W, R, q, e), q \in gone => s.st = "run",
         q \in new => s.st \in {"new", "out"}, s.st = "run" /\ s.len = MaxLen => q \in gone,
         NEW k, k = KeptOne(s, q, gone, new), NEW b, b = Entered(a, w, q)
  PROVE  /\ KnownOK(k, b, W, R, q, e)
         /\ k.st = "run" => k.len < MaxLen
         /\ k.st = "run" <=> (s.st = "run" /\ q \notin gone) \/ q \in new
<1>1. k = IF q \in gone
            THEN [NewReq EXCEPT !.st = IF s.len = MaxLen THEN "gone" ELSE "out", !.len = s.len]
          ELSE IF q \in new THEN [s EXCEPT !.st = "run", !.plen = s.len, !.since = next]
          ELSE s
  BY DEF KeptOne
<1>2. IsReq(s) /\ s.len \in 1 .. MaxLen /\ MaxLen \in Nat
  BY Constants DEF KnownOK
<1>3. CASE q \in gone
  <2> DEFINE st == IF s.len = MaxLen THEN "gone" ELSE "out"
  <2>1. k = [NewReq EXCEPT !.st = st, !.len = s.len] /\ b = Dead
    BY <1>1, <1>3 DEF Entered
  <2>2. st \in {"gone", "out"} /\ (st = "out" => s.len # MaxLen)
    OBVIOUS
  <2> HIDE DEF st
  <2>3. /\ IsReq(k) /\ k.st = st /\ k.len = s.len /\ k.computed = 0 /\ k.prev = 0
    BY <2>1 DEF NewReq, IsReq
  <2>4. Dead.since = 0
    BY DEF Dead
  <2>5. q \notin new
    BY <1>3
  <2> QED BY <2>1, <2>2, <2>3, <2>4, <2>5, <1>2, <1>3 DEF KnownOK
<1>4. CASE q \notin gone /\ q \in new
  <2>1. k = [s EXCEPT !.st = "run", !.plen = s.len, !.since = next]
    BY <1>1, <1>4
  <2>2. /\ IsReq(k) /\ k.st = "run" /\ k.len = s.len /\ k.computed = s.computed
        /\ k.prev = s.prev /\ k.plen = s.len /\ k.since = next
    BY <2>1, <1>2 DEF IsReq
  <2>3. s.computed = 0 /\ s.prev = 0 /\ s.len < MaxLen
    BY <1>4 DEF KnownOK
  <2>4. b.since = next /\ b.seen = 0 /\ b.prev = 0
    BY <1>4 DEF Entered
  <2>5. Net(W, R, b.seen, q, e) = 0
    BY <2>4 DEF Net
  <2>6. s.len \in 1 .. MaxLen - 1
    BY <2>3, <1>2
  <2>7. next > 0 => KnownOK(k, b, W, R, q, e)
    BY <2>2, <2>3, <2>4, <2>5, <2>6, <1>2 DEF KnownOK
  <2> QED BY <2>2, <2>3, <2>7, <1>4
<1>5. CASE q \notin gone /\ q \notin new
  <2>1. k = s /\ b = a
    BY <1>1, <1>5 DEF Entered
  <2>2. s.st = "run" => s.len < MaxLen
    BY <1>2, <1>5
  <2> QED BY <2>1, <2>2, <1>5
<1> QED BY <1>3, <1>4, <1>5

-----------------------------------------------------------------------------
(* What the history says of one request.                                   *)

\* The last row of a request is in the history, and decides on prev.
Backed(a, W, R, q) ==
    /\ a.seen \in Nat /\ a.prev \in {0, a.seen}
    /\ a.seen > 0 =>
         /\ \E b : RowOK(W, R, b, a.seen, q)
         /\ q \in DOMAIN W[a.seen].rows /\ a.since > 0 /\ a.since <= a.seen
         /\ Samples(W[a.seen].rows[q]) <=> a.prev = a.seen

LEMMA PastFacts ==
  ASSUME NEW W, NEW R, NEW A, History(W, R, A), NEW t \in 0 .. next - 1, NEW q \in Reqs,
         next \in Nat, NEW a, a = A[t][q]
  PROVE  /\ PastOK(W, a, t, q) /\ Backed(a, W, R, q) /\ a.seen \in 0 .. t /\ a.since \in 0 .. t
<1>1. PastOK(W, a, t, q)
  BY DEF History
<1>2. /\ a.since \in 0 .. t /\ a.seen \in 0 .. t /\ a.prev \in {0, a.seen}
      /\ a.since = 0 => a.seen = 0
      /\ a.seen > 0 => a.since <= a.seen /\ q \in DOMAIN W[a.seen].rows
      /\ a.prev > 0 => Samples(W[a.prev].rows[q])
  BY <1>1 DEF PastOK
<1>3. ASSUME a.seen > 0
      PROVE  /\ \E b : RowOK(W, R, b, a.seen, q)
             /\ Samples(W[a.seen].rows[q]) <=> a.prev = a.seen
  <2>1. a.seen \in 1 .. next - 1 /\ q \in DOMAIN W[a.seen].rows /\ a.since > 0
    BY <1>2, <1>3
  <2>2. RowOK(W, R, Entered(A[a.seen - 1][q], W[a.seen], q), a.seen, q)
    BY <2>1 DEF History
  <2>3. a.seen \in a.since .. t
    BY <1>2, <1>3
  <2>4. Samples(W[a.seen].rows[q]) => a.prev = a.seen \/ a.prev >= a.seen + P
    BY <2>1, <2>3, <1>1 DEF PastOK
  <2>5. ~ (0 >= a.seen + P) /\ ~ (a.seen >= a.seen + P)
    BY <1>2, <1>3, Constants
  <2>6. Samples(W[a.seen].rows[q]) => a.prev = a.seen
    BY <2>4, <2>5, <1>2
  <2> QED BY <2>2, <2>6, <1>2, <1>3
<1>4. a.seen > 0 => a.since > 0
  BY <1>2
<1> QED BY <1>1, <1>2, <1>3, <1>4 DEF Backed

\* ... and the same before the tokens of a step.
LEMMA EnteredFacts ==
  ASSUME NEW W, NEW R, NEW A, History(W, R, A), NEW t \in 1 .. next, NEW q \in Reqs,
         next \in Nat, NEW w, w.step = t, NEW b, b = Entered(A[t - 1][q], w, q)
  PROVE  /\ Backed(b, W, R, q) /\ b.seen \in 0 .. t - 1 /\ b.since \in 0 .. t
         /\ b.since > 0 <=> ~ (q \in w.gone) /\ (q \in w.new \/ A[t - 1][q].since > 0)
<1>1. t - 1 \in 0 .. next - 1
  OBVIOUS
<1>2. Backed(A[t - 1][q], W, R, q) /\ A[t - 1][q].seen \in 0 .. t - 1
      /\ A[t - 1][q].since \in 0 .. t - 1
  BY <1>1, PastFacts
<1>3. CASE q \in w.gone
  <2>1. b.seen = 0 /\ b.prev = 0 /\ b.since = 0
    BY <1>3 DEF Entered, Dead
  <2> QED BY <2>1, <1>3 DEF Backed
<1>4. CASE q \notin w.gone /\ q \in w.new
  <2>1. b.seen = 0 /\ b.prev = 0 /\ b.since = t
    BY <1>4 DEF Entered
  <2> QED BY <2>1, <1>4 DEF Backed
<1>5. CASE q \notin w.gone /\ q \notin w.new
  <2>1. b = A[t - 1][q]
    BY <1>5 DEF Entered
  <2> QED BY <2>1, <1>2, <1>5
<1> QED BY <1>3, <1>4, <1>5

\* When the next step of a request comes, its rejected drafts are known: a row
\* that verifies drafts is followed by another one only P steps later.
LEMMA NetSettles ==
  ASSUME NEW W, NEW R, NEW a, NEW q, Backed(a, W, R, q), NEW t \in Nat, NEW e \in Int,
         t - P <= e, a.seen <= t, a.prev > 0 => a.prev + P <= t
  PROVE  Net(W, R, a.seen, q, e) = Net(W, R, a.seen, q, t)
<1>1. CASE a.seen = 0
  BY <1>1 DEF Net
<1>2. CASE a.seen > 0 /\ a.seen <= e
  BY <1>2 DEF Net
<1>3. CASE a.seen > 0 /\ ~ (a.seen <= e)
  <2>1. PICK b : RowOK(W, R, b, a.seen, q)
    BY <1>3 DEF Backed
  <2>2. PICK v : v = a.seen
    OBVIOUS
  <2>3. v \in Nat /\ v > 0 /\ ~ (v + P <= t) /\ (Samples(W[v].rows[q]) => a.prev = v)
    BY <2>2, <1>3, Constants DEF Backed
  <2>4. ~ Samples(W[v].rows[q])
    BY <2>3
  <2>5. R[v][q] = 0
    BY <2>1, <2>2, <2>4, RowFacts
  <2> QED BY <2>2, <2>3, <2>5 DEF Net
<1> QED BY <1>1, <1>2, <1>3 DEF Backed

-----------------------------------------------------------------------------
(* A longer history.                                                       *)

\* V and Z say of the steps up to m what W and R say.
Prolongs(V, Z, W, R, m) == \A t \in 1 .. m : V[t] = W[t] /\ Z[t] = R[t]

LEMMA NetKeeps ==
  ASSUME NEW V, NEW Z, NEW W, NEW R, NEW m \in Nat, Prolongs(V, Z, W, R, m),
         NEW v \in 0 .. m, NEW q, NEW e
  PROVE  Net(V, Z, v, q, e) = Net(W, R, v, q, e)
<1>1. CASE v = 0
  BY <1>1 DEF Net
<1>2. CASE v # 0
  <2>1. V[v] = W[v] /\ Z[v] = R[v]
    BY <1>2 DEF Prolongs
  <2> QED BY <2>1, Zenon DEF Net
<1> QED BY <1>1, <1>2

LEMMA RowKeeps ==
  ASSUME NEW V, NEW Z, NEW W, NEW R, NEW m \in Nat, Prolongs(V, Z, W, R, m),
         NEW t \in 1 .. m, NEW q, NEW b, RowOK(W, R, b, t, q), b.seen \in 0 .. m,
         b.prev \in {0, b.seen}
  PROVE  RowOK(V, Z, b, t, q)
<1>1. V[t] = W[t] /\ Z[t] = R[t]
  BY DEF Prolongs
<1>2. Net(V, Z, b.seen, q, t) = Net(W, R, b.seen, q, t)
  BY NetKeeps
<1>3. b.prev > 0 => V[b.prev] = W[b.prev]
  BY DEF Prolongs
<1> QED BY <1>1, <1>2, <1>3, Zenon DEF RowOK

LEMMA PastKeeps ==
  ASSUME NEW V, NEW Z, NEW W, NEW R, NEW m \in Nat, Prolongs(V, Z, W, R, m),
         NEW t \in 0 .. m, NEW q, NEW a, PastOK(W, a, t, q)
  PROVE  PastOK(V, a, t, q)
<1>1. /\ a.since \in 0 .. t /\ a.seen \in 0 .. t /\ a.prev \in {0, a.seen}
      /\ a.since = 0 => a.seen = 0
      /\ a.seen > 0 => a.since <= a.seen /\ q \in DOMAIN W[a.seen].rows
      /\ a.prev > 0 => Samples(W[a.prev].rows[q])
  BY DEF PastOK
<1>2. a.seen > 0 => V[a.seen] = W[a.seen]
  BY <1>1 DEF Prolongs
<1>3. a.prev > 0 => V[a.prev] = W[a.prev]
  BY <1>1, <1>2
<1>4. a.since > 0 => \A v \in a.since .. t : V[v] = W[v]
  <2>1. a.since > 0 => \A v \in a.since .. t : v \in 1 .. m
    BY <1>1
  <2> QED BY <2>1 DEF Prolongs
<1>5. a.since > 0 =>
         \A v \in a.since .. t :
            q \in DOMAIN V[v].rows /\ Samples(V[v].rows[q]) => a.prev = v \/ a.prev >= v + P
  BY <1>4 DEF PastOK
<1>6. a.seen > 0 => a.since <= a.seen /\ q \in DOMAIN V[a.seen].rows
  BY <1>1, <1>2
<1>7. a.prev > 0 => Samples(V[a.prev].rows[q])
  BY <1>1, <1>3
<1> QED BY <1>1, <1>5, <1>6, <1>7 DEF PastOK

LEMMA KnownKeeps ==
  ASSUME NEW V, NEW Z, NEW W, NEW R, NEW m \in Nat, Prolongs(V, Z, W, R, m),
         NEW s, NEW a, NEW q, NEW e, KnownOK(s, a, W, R, q, e),
         a.seen \in 0 .. m, a.prev \in {0, a.seen}
  PROVE  KnownOK(s, a, V, Z, q, e)
<1>1. Net(V, Z, a.seen, q, e) = Net(W, R, a.seen, q, e)
  BY NetKeeps
<1>2. a.seen > 0 => V[a.seen] = W[a.seen]
  BY DEF Prolongs
<1>3. a.prev > 0 => V[a.prev] = W[a.prev]
  BY <1>2
<1>4. a.prev = 0 \/ a.prev > 0
  OBVIOUS
<1> QED BY <1>1, <1>2, <1>3, <1>4, Zenon DEF KnownOK

-----------------------------------------------------------------------------
(* Scheduling.                                                             *)

LEMMA AfterOutputIs ==
  ASSUME NEW q \in Reqs, DOMAIN reqs = Reqs
  PROVE  AfterOutput[q] = IF next <= P THEN reqs[q] ELSE Processed(q, Head(results))
BY DEF AfterOutput

LEMMA ProcessedIs ==
  ASSUME NEW q, NEW o
  PROVE  Processed(q, o) = IF reqs[q].st = "run" /\ q \in DOMAIN o.rej /\ o.step >= reqs[q].since
                             THEN GiveBack(reqs[q], o.rej[q], o.num[q]) ELSE reqs[q]
BY Zenon DEF Processed, GiveBack

LEMMA GiveNothingBack ==
  ASSUME NEW s, IsReq(s), s.len \in 1 .. MaxLen, s.computed \in Int
  PROVE  GiveBack(s, 0, 0) = s
<1>1. Smaller(MaxLen, s.len + 0) = s.len
  BY Constants DEF Smaller
<1>2. s.computed - 0 = s.computed
  OBVIOUS
<1> QED BY <1>1, <1>2, Zenon DEF GiveBack, IsReq

LEMMA NetIsInt ==
  ASSUME NEW W, NEW R, NEW a, NEW q, NEW e, Backed(a, W, R, q)
  PROVE  Net(W, R, a.seen, q, e) \in Nat
<1>1. CASE a.seen = 0
  BY <1>1 DEF Net
<1>2. CASE a.seen # 0
  <2>1. PICK b : RowOK(W, R, b, a.seen, q)
    BY <1>2 DEF Backed
  <2>2. PICK v : v = a.seen
    OBVIOUS
  <2>3. PICK row : row = W[v].rows[q]
    OBVIOUS
  <2>4. PICK rej : rej = R[v][q]
    OBVIOUS
  <2>5. row.old \in Nat /\ row.n \in Nat /\ rej \in Nat /\ rej < row.n
    BY <2>1, <2>2, <2>3, <2>4, RowFacts
  <2>6. Net(W, R, v, q, e) = row.old + row.n - IF v <= e THEN rej ELSE 0
    BY <1>2, <2>2, <2>3, <2>4 DEF Net
  <2> QED BY <2>2, <2>5, <2>6
<1> QED BY <1>1, <1>2

\* What the scheduler knows of a request once it has processed one more step.
LEMMA ProcessedKnown ==
  ASSUME NEW W, NEW R, NEW A, Scheduled(W), History(W, R, A), SchedulerOK(W, R, A),
         next > P => results # <<>>, NEW q \in Reqs
  PROVE  KnownOK(AfterOutput[q], A[next - 1][q], W, R, q, next - P)
<1>1. next \in Nat /\ next > 0 /\ \A t \in 1 .. next - 1 : W[t].step = t
  BY DEF Scheduled
<1>2. PICK a : a = A[next - 1][q]
  OBVIOUS
<1>3. PICK s : s = reqs[q]
  OBVIOUS
<1>4. next - 1 \in 0 .. next - 1 /\ next - 1 - P + 1 = next - P /\ next - 1 - P \in Int
  BY <1>1, Constants
<1>5. /\ PastOK(W, a, next - 1, q) /\ Backed(a, W, R, q) /\ a.seen \in 0 .. next - 1
      /\ a.since \in 0 .. next - 1
  BY <1>1, <1>2, <1>4, PastFacts
<1>6. KnownOK(s, a, W, R, q, next - 1 - P)
  BY <1>2, <1>3 DEF SchedulerOK
<1>7. AfterOutput[q] = IF next <= P THEN s ELSE Processed(q, Head(results))
  BY <1>3, AfterOutputIs DEF SchedulerOK
<1>8. a.seen \in Nat /\ a.prev \in {0, a.seen}
  BY <1>5 DEF Backed
<1>9. ASSUME a.seen = 0 \/ a.seen # next - P \/ s.st # "run"
      PROVE  KnownOK(s, a, W, R, q, next - P)
  <2>1. s.st = "run" => a.seen = 0 \/ a.seen # next - 1 - P + 1
    BY <1>4, <1>9
  <2>2. KnownOK(s, a, W, R, q, next - 1 - P + 1)
    BY <2>1, <1>4, <1>6, <1>8, KnownMoves
  <2> QED BY <2>2, <1>4
<1>10. CASE next <= P
  <2>1. a.seen = 0 \/ a.seen # next - P
    BY <1>1, <1>5, <1>10, Constants
  <2> QED BY <2>1, <1>2, <1>7, <1>9, <1>10
<1>11. CASE ~ (next <= P)
  <2>1. PICK v : v = next - P
    OBVIOUS
  <2>2. v \in 1 .. next - 1 /\ Larger(1, next - P) = v /\ v + 1 - 1 = v /\ P = next - v
        /\ v = next - 1 - P + 1
    BY <2>1, <1>1, <1>11, Constants DEF Larger
  <2>3. PICK o : o = Head(results)
    OBVIOUS
  <2>4. ResultOK(o, W[v], R[v])
    <3>1. /\ IsSeq(results) /\ results # <<>>
          /\ \A k \in 1 .. Len(results) : ResultOK(results[k], W[v + k - 1], R[v + k - 1])
      BY <1>1, <1>11, <2>2, Constants DEF SchedulerOK, Pending
    <3>2. o = results[1] /\ 1 \in 1 .. Len(results)
      BY <2>3, <3>1, TailIsSeq
    <3> QED BY <3>1, <3>2, <2>2
  <2>5. /\ o.step = v /\ DOMAIN o.rej = DOMAIN W[v].rows
        /\ q \in DOMAIN W[v].rows =>
             /\ o.rej[q] = R[v][q]
             /\ o.num[q] = IF Samples(W[v].rows[q]) THEN 1 + Drafts(W[v].rows[q]) - R[v][q] ELSE 0
    BY <2>2, <2>4, <1>1 DEF ResultOK
  <2>6. AfterOutput[q] = IF s.st = "run" /\ q \in DOMAIN o.rej /\ o.step >= s.since
                           THEN GiveBack(s, o.rej[q], o.num[q]) ELSE s
    BY <1>3, <1>7, <1>11, <2>3, ProcessedIs
  <2>7. s.st = "run" => s.since = a.since /\ a.since > 0
    BY <1>6 DEF KnownOK
  <2>8. CASE s.st = "run" /\ a.seen = v
    <3>1. q \in DOMAIN W[v].rows /\ a.since <= v
      BY <2>8, <2>2, <1>5 DEF Backed
    <3>2. PICK x : x = AfterOutput[q]
      OBVIOUS
    <3>3. x = GiveBack(s, R[v][q], o.num[q])
      <4>1. v >= a.since
        BY <3>1, <2>2, <1>5
      <4> QED BY <4>1, <3>1, <3>2, <2>5, <2>6, <2>7, <2>8
    <3>4. PICK b : RowOK(W, R, b, v, q) /\ (Samples(W[v].rows[q]) <=> a.prev = v)
      BY <2>2, <2>8, <1>5 DEF Backed
    <3>5. PICK e : e = next - 1 - P
      OBVIOUS
    <3>6. e \in Nat /\ v = e + 1 /\ KnownOK(s, a, W, R, q, e) /\ a.prev \in {0, v}
      BY <3>5, <2>2, <2>8, <1>1, <1>6, <1>8, Constants
    <3>7. PICK num : num = IF Samples(W[v].rows[q]) THEN 1 + Drafts(W[v].rows[q]) - R[v][q] ELSE 0
      OBVIOUS
    <3>8. x = GiveBack(s, R[v][q], num)
      BY <3>1, <3>3, <3>7, <2>5
    <3>9. KnownOK(x, a, W, R, q, v)
      BY <3>4, <3>6, <3>7, <3>8, <2>8, KnownProcessed
    <3> QED BY <3>2, <3>9, <2>1, <1>2
  <2>9. CASE ~ (s.st = "run" /\ a.seen = v)
    <3>1. KnownOK(s, a, W, R, q, next - P)
      BY <2>9, <2>1, <1>9
    <3>2. AfterOutput[q] = s
      <4>1. CASE ~ (s.st = "run" /\ q \in DOMAIN o.rej /\ o.step >= s.since)
        BY <4>1, <2>6
      <4>2. CASE s.st = "run" /\ q \in DOMAIN o.rej /\ o.step >= s.since
        <5>1. q \in DOMAIN W[v].rows /\ v \in a.since .. next - 1 /\ a.since > 0
          BY <4>2, <2>2, <2>5, <2>7, <1>5
        <5>2. ~ Samples(W[v].rows[q])
          <6>1. Samples(W[v].rows[q]) => a.prev = v \/ a.prev >= v + P
            BY <5>1, <1>5 DEF PastOK
          <6>2. ~ (a.prev = v)
            BY <2>2, <2>9, <4>2, <1>8
          <6>3. ~ (a.prev >= v + P)
            BY <2>2, <1>1, <1>5, <1>8, Constants
          <6> QED BY <6>1, <6>2, <6>3
        <5>3. RowOK(W, R, Entered(A[v - 1][q], W[v], q), v, q)
          BY <5>1, <2>2 DEF History
        <5>4. R[v][q] = 0
          BY <5>2, <5>3, RowFacts
        <5>5. AfterOutput[q] = GiveBack(s, 0, 0)
          BY <4>2, <5>1, <5>2, <5>4, <2>5, <2>6
        <5>6. IsReq(s) /\ s.len \in 1 .. MaxLen /\ s.computed \in Int
          <6>1. s.computed = Net(W, R, a.seen, q, next - P) /\ IsReq(s) /\ s.len \in 1 .. MaxLen
            BY <3>1, <4>2 DEF KnownOK
          <6>2. Net(W, R, a.seen, q, next - P) \in Nat
            BY <1>5, NetIsInt
          <6> QED BY <6>1, <6>2
        <5> QED BY <5>5, <5>6, GiveNothingBack
      <4> QED BY <4>1, <4>2
    <3> QED BY <3>1, <3>2, <1>2
  <2> QED BY <2>8, <2>9
<1> QED BY <1>10, <1>11

\* The row that the scheduler puts into its output for a running request.
NewRow(k, n) == [old |-> k.computed, n |-> n, plen |-> k.plen, prev |-> k.prev]

LEMMA Choices ==
  ASSUME NEW k, k.computed \in Nat, k.plen \in Nat, k.prev \in Int, NEW n, n \in TokenChoices(k)
  PROVE  /\ n \in Nat /\ n > 0
         /\ k.computed < k.plen => k.computed + n <= k.plen
         /\ ~ (k.computed < k.plen) => k.prev + P <= next /\ n - 1 <= K
<1>1. CASE k.computed < k.plen
  BY <1>1 DEF TokenChoices
<1>2. CASE ~ (k.computed < k.plen)
  <2>1. n \in IF k.prev + P <= next THEN {1, 1 + K} ELSE {}
    BY <1>2 DEF TokenChoices
  <2> QED BY <1>2, <2>1, Constants
<1> QED BY <1>1, <1>2

LEMMA RowIssued ==
  ASSUME NEW W, NEW R, NEW V, NEW Z, next \in Nat, next > 0, Prolongs(V, Z, W, R, next - 1),
         NEW q, NEW b, Backed(b, W, R, q), b.seen \in 0 .. next - 1, b.since > 0,
         NEW k, KnownOK(k, b, W, R, q, next - P), k.st = "run", k.len < MaxLen,
         NEW n \in TokenChoices(k), q \in DOMAIN V[next].rows,
         V[next].rows[q] = NewRow(k, n), Z[next][q] = 0
  PROVE  RowOK(V, Z, b, next, q)
<1>1. /\ k.prev = b.prev /\ k.plen \in 1 .. MaxLen - 1 /\ k.computed = Net(W, R, b.seen, q, next - P)
      /\ b.seen > 0 => W[b.seen].rows[q].plen = k.plen
      /\ IF b.prev = 0 THEN k.computed < k.plen /\ k.len = k.plen
         ELSE /\ k.computed >= k.plen
              /\ b.prev <= next - P => k.len = Smaller(MaxLen, k.computed + 1)
  BY DEF KnownOK
<1>2. Net(W, R, b.seen, q, next - P) \in Nat /\ b.seen \in Nat /\ b.prev \in {0, b.seen}
  BY NetIsInt DEF Backed
<1>3. /\ n \in Nat /\ n > 0
      /\ k.computed < k.plen => k.computed + n <= k.plen
      /\ ~ (k.computed < k.plen) => k.prev + P <= next /\ n - 1 <= K
  BY <1>1, <1>2, Choices
<1>4. PICK row : row = V[next].rows[q]
  OBVIOUS
<1>5. row.old = k.computed /\ row.n = n /\ row.plen = k.plen /\ row.prev = k.prev
  BY <1>4 DEF NewRow
<1>6. /\ IsDecode(row) <=> row.old >= row.plen
      /\ Samples(row) <=> row.old + row.n >= row.plen
      /\ Drafts(row) = IF IsDecode(row) THEN row.n - 1 ELSE 0
  BY DEF IsDecode, Samples, Drafts
<1>7. b.prev > 0 => b.prev + P <= next
  BY <1>1, <1>2, <1>3
<1>8. row.old = Net(V, Z, b.seen, q, next)
  <2>1. next - P \in Int /\ next - P <= next - P /\ b.seen <= next
    BY <1>2, Constants
  <2>2. Net(W, R, b.seen, q, next - P) = Net(W, R, b.seen, q, next)
    BY <2>1, <1>7, NetSettles
  <2>3. Net(V, Z, b.seen, q, next) = Net(W, R, b.seen, q, next)
    <3>1. next - 1 \in Nat
      OBVIOUS
    <3> QED BY <3>1, NetKeeps
  <2> QED BY <2>2, <2>3, <1>1, <1>5
<1>9. ASSUME IsDecode(row)
      PROVE  /\ b.prev > 0 /\ b.prev + P <= next
             /\ q \in Need(V[next].rows) /\ q \in Need(V[b.prev].rows)
  <2>1. b.prev > 0 /\ b.prev + P <= next /\ b.prev = b.seen
    BY <1>1, <1>2, <1>5, <1>6, <1>7, <1>9
  <2>2. k.computed + 1 < MaxLen /\ k.computed >= k.plen
    <3>1. k.len = Smaller(MaxLen, k.computed + 1) /\ k.computed >= k.plen
      BY <2>1, <1>1, <1>2, Constants
    <3> QED BY <3>1, <1>1, <1>2, Constants DEF Smaller
  <2>3. q \in Need(V[next].rows)
    <3>1. Samples(row) /\ Larger(row.old, row.plen) + 1 < MaxLen
      BY <2>2, <1>1, <1>2, <1>3, <1>5, <1>6 DEF Larger
    <3> QED BY <3>1, <1>4 DEF Need
  <2>4. q \in Need(V[b.prev].rows)
    <3>1. PICK v : v = b.seen
      OBVIOUS
    <3>2. V[v] = W[v] /\ v > 0 /\ v = b.prev
      BY <2>1, <3>1 DEF Prolongs
    <3>3. PICK b0 : RowOK(W, R, b0, v, q)
      BY <2>1, <3>1 DEF Backed
    <3>4. PICK old : old = W[v].rows[q]
      OBVIOUS
    <3>5. PICK rej : rej = R[v][q]
      OBVIOUS
    <3>6. old.old \in Nat /\ old.n \in Nat /\ rej \in Nat /\ rej < old.n
      BY <3>3, <3>4, <3>5, RowFacts
    <3>7. k.computed = old.old + old.n - IF v <= next - P THEN rej ELSE 0
      <4>1. k.computed = Net(W, R, v, q, next - P) /\ v # 0
        BY <2>1, <3>1, <1>1, <1>2
      <4> QED BY <4>1, <3>4, <3>5 DEF Net
    <3>8. old.plen = k.plen
      BY <3>1, <3>2, <3>4, <1>1
    <3>9. Larger(old.old, old.plen) + 1 < MaxLen
      BY <3>6, <3>7, <3>8, <2>2, <1>1, <1>2, Constants DEF Larger
    <3>10. Samples(old) /\ q \in DOMAIN W[v].rows
      BY <2>1, <3>1, <3>4 DEF Backed
    <3> QED BY <3>2, <3>4, <3>9, <3>10 DEF Need
  <2> QED BY <2>1, <2>3, <2>4
<1>10. ~ IsDecode(row) => b.prev = 0 /\ row.old + row.n <= row.plen
  BY <1>1, <1>2, <1>3, <1>5, <1>6
<1>11. 0 <= Drafts(row) /\ Drafts(row) <= K
  BY <1>1, <1>2, <1>3, <1>5, <1>6, Constants
<1>12. row.old \in Nat /\ row.n \in Nat \ {0} /\ row.plen \in Nat /\ row.prev = b.prev
  BY <1>1, <1>2, <1>3, <1>5
<1>13. Z[next][q] \in Nat /\ Z[next][q] <= Drafts(row)
  BY <1>11
<1> QED BY <1>4, <1>8, <1>9, <1>10, <1>11, <1>12, <1>13, Zenon DEF RowOK

\* What the scheduler knows of the request then.
LEMMA RanKnown ==
  ASSUME NEW W, NEW R, NEW V, NEW Z, next \in Nat, next > 0, Prolongs(V, Z, W, R, next - 1),
         NEW q, NEW b, Backed(b, W, R, q), b.seen \in 0 .. next - 1,
         NEW k, KnownOK(k, b, W, R, q, next - P), k.st = "run", k.len < MaxLen,
         NEW n \in TokenChoices(k), V[next].step = next, q \in DOMAIN V[next].rows,
         V[next].rows[q] = NewRow(k, n),
         NEW x, x = [k EXCEPT !.computed = @ + n,
                              !.prev = IF Samples(NewRow(k, n)) THEN next ELSE @]
  PROVE  KnownOK(x, Ran(b, V[next], q), V, Z, q, next - P)
<1>1. /\ IsReq(k) /\ k.prev = b.prev /\ k.plen \in 1 .. MaxLen - 1 /\ k.since = b.since
      /\ k.len \in 1 .. MaxLen /\ b.since > 0
      /\ k.computed = Net(W, R, b.seen, q, next - P)
      /\ IF b.prev = 0 THEN k.computed < k.plen /\ k.len = k.plen
         ELSE /\ k.computed >= k.plen
              /\ b.prev <= next - P => k.len = Smaller(MaxLen, k.computed + 1)
  BY DEF KnownOK
<1>2. k.computed \in Nat /\ b.seen \in Nat /\ b.prev \in {0, b.seen}
  <2>1. Net(W, R, b.seen, q, next - P) \in Nat
    BY NetIsInt
  <2> QED BY <2>1, <1>1 DEF Backed
<1>3. /\ n \in Nat /\ n > 0
      /\ k.computed < k.plen => k.computed + n <= k.plen
      /\ ~ (k.computed < k.plen) => k.prev + P <= next
  BY <1>1, <1>2, Choices
<1>4. PICK row : row = NewRow(k, n)
  OBVIOUS
<1>5. row.old = k.computed /\ row.n = n /\ row.plen = k.plen /\ row.prev = k.prev
  BY <1>4 DEF NewRow
<1>6. /\ IsDecode(row) <=> row.old >= row.plen
      /\ Samples(row) <=> row.old + row.n >= row.plen
  BY DEF IsDecode, Samples
<1>7. PICK prev : prev = IF Samples(row) THEN next ELSE k.prev
  OBVIOUS
<1>8. PICK computed : computed = k.computed + n
  OBVIOUS
<1>9. x = [k EXCEPT !.computed = computed, !.prev = prev]
  BY <1>4, <1>7, <1>8
<1>10. /\ IsReq(x) /\ x.st = k.st /\ x.len = k.len /\ x.plen = k.plen /\ x.since = k.since
       /\ x.computed = computed /\ x.prev = prev
  BY <1>9, <1>1 DEF IsReq
<1>11. PICK a : a = Ran(b, V[next], q)
  OBVIOUS
<1>12. a.since = b.since /\ a.seen = next /\ a.prev = prev
  <2>1. a = [since |-> b.since, seen |-> next, prev |-> IF Samples(row) THEN next ELSE b.prev]
    BY <1>4, <1>11 DEF Ran
  <2> QED BY <2>1, <1>1, <1>7
<1>13. computed = Net(V, Z, next, q, next - P)
  <2>1. ~ (next <= next - P) /\ next # 0
    BY Constants
  <2>2. Net(V, Z, next, q, next - P) = row.old + row.n - 0
    BY <2>1, <1>4 DEF Net
  <2> QED BY <2>2, <1>2, <1>3, <1>5, <1>8
<1>14. V[next].rows[q].plen = k.plen
  BY <1>4, <1>5
<1>15. IF prev = 0 THEN computed < k.plen /\ k.len = k.plen
       ELSE /\ computed >= k.plen
            /\ IF prev <= next - P THEN k.len = Smaller(MaxLen, computed + 1)
               ELSE k.len = IF IsDecode(V[prev].rows[q]) THEN V[prev].rows[q].old + 1 ELSE k.plen
  <2>1. CASE ~ Samples(row)
    BY <2>1, <1>1, <1>2, <1>3, <1>5, <1>6, <1>7, <1>8
  <2>2. CASE Samples(row)
    <3>1. prev = next /\ ~ (prev <= next - P) /\ prev # 0 /\ computed >= k.plen
      BY <2>2, <1>1, <1>2, <1>3, <1>5, <1>6, <1>7, <1>8, Constants
    <3>2. k.len = IF IsDecode(row) THEN row.old + 1 ELSE k.plen
      <4>1. CASE IsDecode(row)
        <5>1. b.prev # 0 /\ b.prev <= next - P
          BY <4>1, <1>1, <1>2, <1>3, <1>5, <1>6, Constants
        <5>2. k.len = Smaller(MaxLen, k.computed + 1)
          BY <5>1, <1>1
        <5> QED BY <4>1, <5>2, <1>1, <1>2, <1>5, Constants DEF Smaller
      <4>2. CASE ~ IsDecode(row)
        BY <4>2, <1>1, <1>2, <1>5, <1>6
      <4> QED BY <4>1, <4>2
    <3> QED BY <3>1, <3>2, <1>4
  <2> QED BY <2>1, <2>2
<1>16. next > 0 => V[next].rows[q].plen = k.plen
  BY <1>14
<1> QED BY <1>1, <1>10, <1>11, <1>12, <1>13, <1>15, <1>16, Zenon DEF KnownOK

\* What the history says of a request after the step.
LEMMA RanPast ==
  ASSUME NEW W, NEW R, NEW A, NEW V, NEW Z, next \in Nat, next > 0, History(W, R, A),
         Prolongs(V, Z, W, R, next - 1), NEW q \in Reqs, V[next].step = next,
         NEW b, b = Entered(A[next - 1][q], V[next], q),
         q \in DOMAIN V[next].rows => RowOK(V, Z, b, next, q)
  PROVE  PastOK(V, Ran(b, V[next], q), next, q)
<1>1. PICK a : a = Ran(b, V[next], q)
  OBVIOUS
<1>2. PICK w : w = V[next]
  OBVIOUS
<1>3. next \in 1 .. next /\ next - 1 \in 0 .. next - 1 /\ next - 1 \in Nat
  OBVIOUS
<1>4. /\ Backed(b, W, R, q) /\ b.seen \in 0 .. next - 1 /\ b.since \in 0 .. next
      /\ b.since > 0 <=> ~ (q \in w.gone) /\ (q \in w.new \/ A[next - 1][q].since > 0)
  BY <1>2, <1>3, EnteredFacts
<1>5. /\ b.prev \in {0, b.seen}
      /\ b.seen > 0 => /\ q \in DOMAIN W[b.seen].rows /\ b.since > 0 /\ b.since <= b.seen
                       /\ Samples(W[b.seen].rows[q]) <=> b.prev = b.seen
  BY <1>4 DEF Backed
<1>6. a = IF q \in DOMAIN w.rows
            THEN [since |-> b.since, seen |-> next,
                  prev |-> IF Samples(w.rows[q]) THEN next ELSE b.prev]
            ELSE b
  BY <1>1, <1>2 DEF Ran
<1>7. b.seen > 0 => V[b.seen] = W[b.seen]
  BY <1>4 DEF Prolongs
<1>8. ASSUME q \in DOMAIN w.rows
      PROVE  /\ b.since > 0 /\ a.since = b.since /\ a.seen = next
             /\ a.prev = IF Samples(w.rows[q]) THEN next ELSE 0
             /\ Samples(w.rows[q]) => b.prev = 0 \/ b.prev + P <= next
  <2>1. /\ b.since > 0
        /\ IF IsDecode(w.rows[q]) THEN b.prev > 0 /\ b.prev + P <= next ELSE b.prev = 0
    BY <1>2, <1>8 DEF RowOK
  <2>2. IsDecode(w.rows[q]) => Samples(w.rows[q])
    BY <1>2, <1>8, RowFacts
  <2> QED BY <2>1, <2>2, <1>6, <1>8
<1>9. a.since = b.since
  BY <1>6
<1>10. /\ a.since \in 0 .. next /\ a.seen \in 0 .. next /\ a.prev \in {0, a.seen}
       /\ a.since = 0 => a.seen = 0
  BY <1>4, <1>5, <1>6, <1>8
<1>11. a.seen > 0 => a.since <= a.seen /\ q \in DOMAIN V[a.seen].rows
  <2>1. CASE q \in DOMAIN w.rows
    BY <2>1, <1>2, <1>4, <1>8
  <2>2. CASE q \notin DOMAIN w.rows
    BY <2>2, <1>5, <1>6, <1>7
  <2> QED BY <2>1, <2>2
<1>12. a.prev > 0 => Samples(V[a.prev].rows[q])
  <2>1. CASE q \in DOMAIN w.rows
    BY <2>1, <1>2, <1>8
  <2>2. CASE q \notin DOMAIN w.rows
    <3>1. a = b
      BY <2>2, <1>6
    <3>2. a.prev > 0 => b.seen > 0 /\ b.prev = b.seen
      BY <3>1, <1>4, <1>5
    <3> QED BY <3>1, <3>2, <1>5, <1>7
  <2> QED BY <2>1, <2>2
<1>13. ASSUME a.since > 0, NEW v \in a.since .. next, q \in DOMAIN V[v].rows, Samples(V[v].rows[q])
       PROVE  a.prev = v \/ a.prev >= v + P
  <2>1. CASE v = next
    BY <2>1, <1>2, <1>8, <1>13
  <2>2. CASE v # next
    <3>1. v \in a.since .. next - 1 /\ v \in 1 .. next - 1
      BY <2>2, <1>4, <1>9, <1>13
    <3>2. q \notin w.gone /\ q \notin w.new
      <4>1. q \notin w.gone
        BY <1>4, <1>9, <1>13
      <4>2. q \in w.new => b.since = next
        BY <4>1, <1>2 DEF Entered
      <4> QED BY <4>1, <4>2, <3>1, <1>9
    <3>3. b = A[next - 1][q]
      BY <3>2, <1>2 DEF Entered
    <3>4. PastOK(W, b, next - 1, q)
      BY <3>3, <1>3 DEF History
    <3>5. q \in DOMAIN W[v].rows /\ Samples(W[v].rows[q])
      <4>1. V[v] = W[v]
        BY <3>1 DEF Prolongs
      <4> QED BY <4>1, <1>13
    <3>6. b.prev = v \/ b.prev >= v + P
      BY <3>1, <3>4, <3>5, <1>9, <1>13 DEF PastOK
    <3>7. CASE q \notin DOMAIN w.rows
      BY <3>6, <3>7, <1>6
    <3>8. CASE q \in DOMAIN w.rows
      <4>1. b.prev > 0
        BY <3>1, <3>6, <1>4, <1>5, Constants
      <4>2. RowOK(V, Z, b, next, q)
        BY <3>8, <1>2
      <4>3. IsDecode(w.rows[q])
        BY <4>1, <4>2, <1>2 DEF RowOK
      <4>4. Samples(w.rows[q])
        BY <4>2, <4>3, <1>2, RowFacts
      <4>5. a.prev = next /\ b.prev + P <= next
        BY <4>1, <4>4, <3>8, <1>8
      <4>6. b.prev \in Nat /\ v \in Nat
        BY <3>1, <1>4, <1>5
      <4> QED BY <4>5, <4>6, <3>6, Constants
    <3> QED BY <3>7, <3>8
  <2> QED BY <2>1, <2>2
<1> QED BY <1>1, <1>10, <1>11, <1>12, <1>13 DEF PastOK

\* What a step of the scheduler is.
Chosen(now, gone, new, S, n) ==
    /\ gone \subseteq {q \in Reqs : now[q].st = "run"}
    /\ new \subseteq {q \in Reqs : now[q].st \in {"new", "out"}}
    /\ {q \in {p \in Reqs : now[p].st = "run"} : now[q].len = MaxLen} \subseteq gone
    /\ Cardinality({q \in Reqs : now[q].st = "run"} \ gone) + Cardinality(new) <= max_num_reqs
    /\ S \subseteq {q \in ({q \in Reqs : now[q].st = "run"} \ gone) \cup new :
                      TokenChoices(Kept(now, gone, new)[q]) # {}}
    /\ n \in [S -> 1 .. Larger(MaxLen, 1 + K)]
    /\ \A q \in S : n[q] \in TokenChoices(Kept(now, gone, new)[q])
    /\ Issue(Kept(now, gone, new), gone, new, n)

LEMMA ScheduleChooses ==
  ASSUME Schedule
  PROVE  /\ next > P => results # <<>>
         /\ results' = IF next > P THEN Tail(results) ELSE results
         /\ ph' = ph /\ slots' = slots /\ gen' = gen /\ queue' = queue /\ bc' = bc
         /\ \E gone, new, S, n : Chosen(AfterOutput, gone, new, S, n)
<1>1. /\ next > P => results # <<>>
      /\ results' = IF next > P THEN Tail(results) ELSE results
      /\ ph' = ph /\ slots' = slots /\ gen' = gen /\ queue' = queue /\ bc' = bc
  BY DEF Schedule
<1>2. \E gone, new, S, n : Chosen(AfterOutput, gone, new, S, n)
  BY Zenon DEF Schedule, Chosen
<1> QED BY <1>1, <1>2

\* The history with one more step, of which nothing is rejected yet.
Zero(n) == [q \in DOMAIN n |-> 0]
After(A, o) == [t \in 0 .. next |->
    IF t = next THEN [q \in Reqs |-> Ran(Entered(A[next - 1][q], o, q), o, q)] ELSE A[t]]

LEMMA OutputIs ==
  ASSUME NEW gone, NEW new, NEW kept, NEW n, NEW o, o = Output(gone, new, Rows(kept, n))
  PROVE  /\ o.step = next /\ o.gone = gone /\ o.new = new /\ DOMAIN o.rows = DOMAIN n
         /\ \A q \in DOMAIN n : o.rows[q] = NewRow(kept[q], n[q])
BY DEF Output, Rows, NewRow

\* The request q in the output.
LEMMA OneScheduled ==
  ASSUME NEW W, NEW R, NEW A, Scheduled(W), History(W, R, A), SchedulerOK(W, R, A),
         next > P => results # <<>>,
         NEW gone, NEW new, NEW S, NEW n, Chosen(AfterOutput, gone, new, S, n),
         NEW kept, kept = Kept(AfterOutput, gone, new),
         NEW o, o = Output(gone, new, Rows(kept, n)),
         NEW V, V = Longer(W, o), NEW Z, Z = Longer(R, Zero(n)),
         NEW q \in Reqs, NEW a, a = A[next - 1][q], NEW b, b = Entered(a, o, q)
  PROVE  /\ q \in gone => a.since > 0
         /\ q \in new => ~ (a.since > 0)
         /\ AfterOutput[q].st = "run" <=> a.since > 0
         /\ q \in DOMAIN o.rows => RowOK(V, Z, b, next, q)
         /\ PastOK(V, Ran(b, o, q), next, q)
         /\ KnownOK(reqs'[q], Ran(b, o, q), V, Z, q, next - P)
<1>1. next \in Nat /\ next > 0 /\ next \in 1 .. next /\ next - 1 \in Nat /\ next - P \in Int
  BY Constants DEF Scheduled
<1>2. /\ V[next] = o /\ Z[next] = Zero(n) /\ Prolongs(V, Z, W, R, next - 1)
  BY <1>1 DEF Longer, Prolongs
<1>3. /\ o.step = next /\ o.gone = gone /\ o.new = new /\ DOMAIN o.rows = DOMAIN n
      /\ \A p \in DOMAIN n : o.rows[p] = NewRow(kept[p], n[p])
  BY OutputIs
<1>4. PICK now : now = AfterOutput
  OBVIOUS
<1>5. /\ gone \subseteq {p \in Reqs : now[p].st = "run"}
      /\ new \subseteq {p \in Reqs : now[p].st \in {"new", "out"}}
      /\ {p \in {p \in Reqs : now[p].st = "run"} : now[p].len = MaxLen} \subseteq gone
      /\ S \subseteq {p \in ({p \in Reqs : now[p].st = "run"} \ gone) \cup new :
                      TokenChoices(kept[p]) # {}}
      /\ n \in [S -> 1 .. Larger(MaxLen, 1 + K)]
      /\ \A p \in S : n[p] \in TokenChoices(kept[p])
      /\ Issue(kept, gone, new, n)
  BY <1>4, Zenon DEF Chosen
<1>6. KnownOK(now[q], a, W, R, q, next - P)
  BY <1>4, ProcessedKnown
<1>7. now[q].st = "run" <=> a.since > 0
  BY <1>6 DEF KnownOK
<1>8. PICK k : k = kept[q]
  OBVIOUS
<1>9. /\ KnownOK(k, b, W, R, q, next - P)
      /\ k.st = "run" => k.len < MaxLen
      /\ k.st = "run" <=> (now[q].st = "run" /\ q \notin gone) \/ q \in new
  <2>1. q \in gone => now[q].st = "run"
    BY <1>5
  <2>2. q \in new => now[q].st \in {"new", "out"}
    BY <1>5
  <2>3. now[q].st = "run" /\ now[q].len = MaxLen => q \in gone
    BY <1>5
  <2>4. PICK s : s = now[q]
    OBVIOUS
  <2>5. PICK e : e = next - P
    OBVIOUS
  <2>6. k = KeptOne(s, q, gone, new)
    BY <2>4, <1>4, <1>8, KeptIs
  <2>7. /\ e \in Int /\ KnownOK(s, a, W, R, q, e) /\ next \in Nat /\ next > 0
        /\ (q \in gone => s.st = "run") /\ o.step = next /\ o.gone = gone /\ o.new = new
        /\ (q \in new => s.st \in {"new", "out"})
        /\ (s.st = "run" /\ s.len = MaxLen => q \in gone)
    BY <2>1, <2>2, <2>3, <2>4, <2>5, <1>1, <1>3, <1>6
  <2>8. /\ KnownOK(k, b, W, R, q, e)
        /\ k.st = "run" => k.len < MaxLen
        /\ k.st = "run" <=> (s.st = "run" /\ q \notin gone) \/ q \in new
    BY <2>6, <2>7, KnownEntered
  <2> QED BY <2>4, <2>5, <2>8
<1>10. /\ Backed(b, W, R, q) /\ b.seen \in 0 .. next - 1 /\ b.since \in 0 .. next
  BY <1>1, <1>3, EnteredFacts
<1>11. reqs'[q] = IF q \in S THEN [k EXCEPT !.computed = @ + n[q],
                                     !.prev = IF Samples(NewRow(k, n[q])) THEN next ELSE @]
                            ELSE k
  <2>1. DOMAIN n = S
    BY <1>5
  <2>2. reqs' = [p \in Reqs |->
          IF p \notin DOMAIN n THEN kept[p]
          ELSE [kept[p] EXCEPT !.computed = @ + n[p],
                  !.prev = IF Samples(Rows(kept, n)[p]) THEN next ELSE @]]
    BY <1>5 DEF Issue
  <2>3. q \in S => Rows(kept, n)[q] = NewRow(k, n[q])
    BY <2>1, <1>8 DEF Rows, NewRow
  <2> QED BY <2>1, <2>2, <2>3, <1>8
<1>12. ASSUME q \in S
       PROVE  RowOK(V, Z, b, next, q) /\ KnownOK(reqs'[q], Ran(b, o, q), V, Z, q, next - P)
  <2>1. DOMAIN n = S /\ n[q] \in TokenChoices(k) /\ k.st = "run" /\ k.len < MaxLen
    BY <1>5, <1>8, <1>9, <1>12
  <2>2. q \in DOMAIN V[next].rows /\ V[next].rows[q] = NewRow(k, n[q]) /\ Z[next][q] = 0
    BY <2>1, <1>2, <1>3, <1>8, <1>12 DEF Zero
  <2>3. b.since > 0
    BY <2>1, <1>9 DEF KnownOK
  <2>4. RowOK(V, Z, b, next, q)
    BY <2>1, <2>2, <2>3, <1>1, <1>2, <1>9, <1>10, RowIssued
  <2>5. PICK m : m = n[q]
    OBVIOUS
  <2>6. PICK x : x = reqs'[q]
    OBVIOUS
  <2>7. x = [k EXCEPT !.computed = @ + m, !.prev = IF Samples(NewRow(k, m)) THEN next ELSE @]
    BY <2>5, <2>6, <1>11, <1>12
  <2>8. m \in TokenChoices(k) /\ V[next].rows[q] = NewRow(k, m) /\ V[next].step = next
    BY <2>1, <2>2, <2>5, <1>2, <1>3
  <2>9. KnownOK(x, Ran(b, V[next], q), V, Z, q, next - P)
    BY <2>1, <2>2, <2>7, <2>8, <1>1, <1>2, <1>9, <1>10, RanKnown
  <2> QED BY <2>4, <2>6, <2>9, <1>2
<1>13. q \in DOMAIN o.rows => RowOK(V, Z, b, next, q)
  <2>1. DOMAIN n = S
    BY <1>5
  <2> QED BY <2>1, <1>3, <1>12
<1>14. PastOK(V, Ran(b, o, q), next, q)
  <2>1. q \in DOMAIN V[next].rows => RowOK(V, Z, b, next, q)
    BY <1>2, <1>13
  <2>2. V[next].step = next /\ b = Entered(A[next - 1][q], V[next], q)
    BY <1>2, <1>3
  <2>3. PastOK(V, Ran(b, V[next], q), next, q)
    BY <2>1, <2>2, <1>1, <1>2, RanPast
  <2> QED BY <2>3, <1>2
<1>15. KnownOK(reqs'[q], Ran(b, o, q), V, Z, q, next - P)
  <2>1. CASE q \in S
    BY <2>1, <1>12
  <2>2. CASE q \notin S
    <3>1. DOMAIN n = S
      BY <1>5
    <3>2. reqs'[q] = k /\ Ran(b, o, q) = b
      BY <2>2, <3>1, <1>3, <1>11 DEF Ran
    <3>3. KnownOK(k, b, V, Z, q, next - P)
      BY <1>1, <1>2, <1>9, <1>10, KnownKeeps DEF Backed
    <3> QED BY <3>2, <3>3
  <2> QED BY <2>1, <2>2
<1>16. q \in gone => a.since > 0
  BY <1>5, <1>7
<1>17. q \in new => ~ (a.since > 0)
  BY <1>5, <1>7
<1> QED BY <1>4, <1>7, <1>13, <1>14, <1>15, <1>16, <1>17

LEMMA AfterIs ==
  ASSUME NEW A, NEW o, next \in Nat, next > 0, NEW B, B = After(A, o)
  PROVE  /\ \A t \in 0 .. next - 1 : B[t] = A[t]
         /\ B[next] = [q \in Reqs |-> Ran(Entered(A[next - 1][q], o, q), o, q)]
<1>1. \A t \in 0 .. next - 1 : t \in 0 .. next /\ t # next
  OBVIOUS
<1>2. next \in 0 .. next
  OBVIOUS
<1> QED BY <1>1, <1>2 DEF After

\* One more step in the history.
LEMMA HistoryGrows ==
  ASSUME NEW W, NEW R, NEW A, Scheduled(W), History(W, R, A), SchedulerOK(W, R, A),
         next > P => results # <<>>, next' = next + 1, max_num_reqs' = max_num_reqs,
         NEW gone, NEW new, NEW S, NEW n, Chosen(AfterOutput, gone, new, S, n),
         NEW kept, kept = Kept(AfterOutput, gone, new),
         NEW o, o = Output(gone, new, Rows(kept, n)),
         NEW V, V = Longer(W, o), NEW Z, Z = Longer(R, Zero(n)), NEW B, B = After(A, o)
  PROVE  /\ History(V, Z, B)'
         /\ \A q \in Reqs : KnownOK(reqs'[q], B[next][q], V, Z, q, next - P)
<1>1. next \in Nat /\ next > 0 /\ next \in 1 .. next /\ next - 1 \in Nat
  BY DEF Scheduled
<1>2. /\ V[next] = o /\ Prolongs(V, Z, W, R, next - 1)
      /\ \A t \in 1 .. next - 1 : V[t] = W[t]
  BY <1>1 DEF Longer, Prolongs
<1>3. /\ \A t \in 0 .. next - 1 : B[t] = A[t]
      /\ B[next] = [q \in Reqs |-> Ran(Entered(A[next - 1][q], o, q), o, q)]
  BY <1>1, AfterIs
<1>4. /\ o.step = next /\ o.gone = gone /\ o.new = new /\ DOMAIN o.rows = DOMAIN n
  BY OutputIs
<1>5. ASSUME NEW q \in Reqs
      PROVE  /\ q \in gone => A[next - 1][q].since > 0
             /\ q \in new => ~ (A[next - 1][q].since > 0)
             /\ AfterOutput[q].st = "run" <=> A[next - 1][q].since > 0
             /\ q \in DOMAIN o.rows => RowOK(V, Z, Entered(A[next - 1][q], o, q), next, q)
             /\ PastOK(V, B[next][q], next, q)
             /\ KnownOK(reqs'[q], B[next][q], V, Z, q, next - P)
  <2>1. PICK a : a = A[next - 1][q]
    OBVIOUS
  <2>2. PICK b : b = Entered(a, o, q)
    OBVIOUS
  <2>3. B[next][q] = Ran(b, o, q)
    BY <2>1, <2>2, <1>3
  <2>4. /\ q \in gone => a.since > 0
        /\ q \in new => ~ (a.since > 0)
        /\ AfterOutput[q].st = "run" <=> a.since > 0
        /\ q \in DOMAIN o.rows => RowOK(V, Z, b, next, q)
        /\ PastOK(V, Ran(b, o, q), next, q)
        /\ KnownOK(reqs'[q], Ran(b, o, q), V, Z, q, next - P)
    BY <2>1, <2>2, OneScheduled
  <2> QED BY <2>1, <2>2, <2>3, <2>4
<1>6. /\ gone \subseteq Reqs /\ new \subseteq Reqs /\ DOMAIN n \subseteq Reqs
      /\ Cardinality({q \in Reqs : AfterOutput[q].st = "run"} \ gone) + Cardinality(new)
           <= max_num_reqs
  <2>1. PICK now : now = AfterOutput
    OBVIOUS
  <2>2. Chosen(now, gone, new, S, n)
    BY <2>1
  <2>3. /\ gone \subseteq {p \in Reqs : now[p].st = "run"}
        /\ new \subseteq {p \in Reqs : now[p].st \in {"new", "out"}}
        /\ Cardinality({q \in Reqs : now[q].st = "run"} \ gone) + Cardinality(new) <= max_num_reqs
        /\ S \subseteq ({p \in Reqs : now[p].st = "run"} \ gone) \cup new
        /\ n \in [S -> 1 .. Larger(MaxLen, 1 + K)]
    BY <2>2 DEF Chosen
  <2> QED BY <2>1, <2>3
<1>7. OutputOK(o, A[next - 1])
  <2>1. {q \in Reqs : AfterOutput[q].st = "run"} = Running(A[next - 1])
    BY <1>5 DEF Running
  <2>2. gone \subseteq Running(A[next - 1]) /\ new \subseteq Reqs \ Running(A[next - 1])
    BY <1>5, <1>6 DEF Running
  <2> QED BY <2>1, <2>2, <1>4, <1>6 DEF OutputOK
<1>8. /\ A[0] = [q \in Reqs |-> Dead]
      /\ \A t \in 1 .. next - 1 :
          /\ OutputOK(W[t], A[t - 1])
          /\ A[t] = [q \in Reqs |-> Ran(Entered(A[t - 1][q], W[t], q), W[t], q)]
          /\ \A q \in DOMAIN W[t].rows : RowOK(W, R, Entered(A[t - 1][q], W[t], q), t, q)
      /\ \A t \in 0 .. next - 1 : \A q \in Reqs : PastOK(W, A[t][q], t, q)
  BY DEF History
<1>9. ASSUME NEW t \in 1 .. next
      PROVE  /\ OutputOK(V[t], B[t - 1])
             /\ B[t] = [q \in Reqs |-> Ran(Entered(B[t - 1][q], V[t], q), V[t], q)]
             /\ \A q \in DOMAIN V[t].rows : RowOK(V, Z, Entered(B[t - 1][q], V[t], q), t, q)
  <2>1. B[t - 1] = A[t - 1]
    BY <1>1, <1>3
  <2>2. CASE t = next
    <3>1. ASSUME NEW q \in DOMAIN o.rows PROVE RowOK(V, Z, Entered(A[next - 1][q], o, q), next, q)
      BY <1>4, <1>5, <1>6
    <3> QED BY <2>1, <2>2, <3>1, <1>2, <1>3, <1>7
  <2>3. CASE t \in 1 .. next - 1
    <3>1. B[t] = A[t] /\ V[t] = W[t]
      BY <2>3, <1>2, <1>3
    <3>2. ASSUME NEW q \in DOMAIN W[t].rows PROVE RowOK(V, Z, Entered(A[t - 1][q], W[t], q), t, q)
      <4>1. PICK b : b = Entered(A[t - 1][q], W[t], q)
        OBVIOUS
      <4>2. RowOK(W, R, b, t, q)
        BY <2>3, <4>1, <1>8
      <4>3. q \in Reqs
        BY <2>3, <1>8 DEF OutputOK
      <4>4. W[t].step = t
        BY <2>3 DEF Scheduled
      <4>5. Backed(b, W, R, q) /\ b.seen \in 0 .. t - 1
        BY <4>1, <4>3, <4>4, <1>1, EnteredFacts
      <4>6. b.seen \in 0 .. next - 1 /\ b.prev \in {0, b.seen}
        BY <2>3, <4>5, <1>1 DEF Backed
      <4>7. RowOK(V, Z, b, t, q)
        BY <2>3, <4>2, <4>6, <1>1, <1>2, RowKeeps
      <4> QED BY <4>1, <4>7
    <3> QED BY <2>1, <2>3, <3>1, <3>2, <1>8
  <2> QED BY <2>2, <2>3, <1>1
<1>10. ASSUME NEW t \in 0 .. next, NEW q \in Reqs PROVE PastOK(V, B[t][q], t, q)
  <2>1. CASE t = next
    BY <2>1, <1>5
  <2>2. CASE t \in 0 .. next - 1
    <3>1. PICK a : a = A[t][q]
      OBVIOUS
    <3>2. PastOK(W, a, t, q) /\ B[t][q] = a
      BY <2>2, <3>1, <1>3, <1>8
    <3>3. PastOK(V, a, t, q)
      BY <2>2, <3>2, <1>1, <1>2, PastKeeps
    <3> QED BY <3>2, <3>3
  <2> QED BY <2>1, <2>2, <1>1
<1>11. B[0] = [q \in Reqs |-> Dead]
  BY <1>1, <1>3, <1>8
<1>12. History(V, Z, B)'
  <2>1. next' - 1 = next
    BY <1>1
  <2>2. \A t \in 1 .. next : OutputOK(V[t], B[t - 1])'
    BY <1>9 DEF OutputOK
  <2>3. /\ B[0] = [q \in Reqs |-> Dead]
        /\ \A t \in 1 .. next' - 1 :
              /\ OutputOK(V[t], B[t - 1])'
              /\ B[t] = [q \in Reqs |-> Ran(Entered(B[t - 1][q], V[t], q), V[t], q)]
              /\ \A q \in DOMAIN V[t].rows : RowOK(V, Z, Entered(B[t - 1][q], V[t], q), t, q)
        /\ \A t \in 0 .. next' - 1 : \A q \in Reqs : PastOK(V, B[t][q], t, q)
    BY <2>1, <2>2, <1>9, <1>10, <1>11
  <2> QED BY <2>3 DEF History
<1> QED BY <1>5, <1>12

-----------------------------------------------------------------------------
(* What a rank holds, when the history goes on.                            *)

\* The requests of a view are known up to step m.
Upto(a, W, R, m) == \A q \in Running(a) : Backed(a[q], W, R, q) /\ a[q].seen \in 0 .. m

LEMMA RowsKeep ==
  ASSUME NEW V, NEW Z, NEW W, NEW R, NEW m \in Nat, Prolongs(V, Z, W, R, m),
         NEW I, NEW S, NEW g, NEW a, NEW e \in Int, NEW f \in Int, NEW p,
         RowsOK(I, S, g, a, W, R, e, p), Upto(a, W, R, m), e = f \/ (m <= e /\ m <= f)
  PROVE  RowsOK(I, S, g, a, V, Z, f, p)
<1>1. /\ Placed(I, S, a) /\ DOMAIN g = I /\ \A i \in I : g[i] \in Nat
      /\ \A i \in I : S[i].req # None => SlotOK(S[i], a[S[i].req], W, R, S[i].req, e, p)
  BY DEF RowsOK
<1>2. ASSUME NEW i \in I, S[i].req # None
      PROVE  SlotOK(S[i], a[S[i].req], V, Z, S[i].req, f, p)
  <2>1. PICK q : q = S[i].req
    OBVIOUS
  <2>2. PICK b : b = a[q]
    OBVIOUS
  <2>3. q \in Running(a) /\ SlotOK(S[i], b, W, R, q, e, p)
    BY <2>1, <2>2, <1>1, <1>2 DEF Placed
  <2>4. b.seen \in 0 .. m /\ b.prev \in {0, b.seen}
    BY <2>2, <2>3 DEF Upto, Backed
  <2>5. b.seen <= e <=> b.seen <= f
    BY <2>4
  <2>6. Net(V, Z, b.seen, q, f) = Net(W, R, b.seen, q, f)
    BY <2>4, NetKeeps
  <2>7. Net(W, R, b.seen, q, f) = Net(W, R, b.seen, q, e)
    BY <2>5 DEF Net
  <2>8. Relays(b, V, q, f) <=> Relays(b, W, q, e)
    <3>1. CASE b.prev = 0
      BY <3>1 DEF Relays
    <3>2. CASE b.prev > 0
      <4>1. V[b.prev] = W[b.prev] /\ (b.prev <= e <=> b.prev <= f)
        BY <3>2, <2>4, <2>5 DEF Prolongs
      <4> QED BY <4>1 DEF Relays
    <3> QED BY <3>1, <3>2, <2>4
  <2>9. SlotOK(S[i], b, V, Z, q, f, p)
    BY <2>3, <2>6, <2>7, <2>8 DEF SlotOK
  <2> QED BY <2>1, <2>2, <2>9
<1> QED BY <1>1, <1>2 DEF RowsOK

LEMMA SettledKeeps ==
  ASSUME NEW V, NEW Z, NEW W, NEW R, NEW m \in Nat, Prolongs(V, Z, W, R, m),
         NEW a, Upto(a, W, R, m), NEW e \in Int, NEW n \in Int, NEW o \in Int, n <= o,
         Settled(a, W, e, n)
  PROVE  Settled(a, V, e, o)
<1> SUFFICES ASSUME NEW q \in Running(a), a[q].seen > 0, a[q].seen <= e,
                    Drafts(V[a[q].seen].rows[q]) > 0
             PROVE  a[q].seen <= o
  BY DEF Settled
<1>1. PICK v : v = a[q].seen
  OBVIOUS
<1>2. v \in 1 .. m
  BY <1>1 DEF Upto
<1>3. V[v] = W[v]
  BY <1>2 DEF Prolongs
<1>4. v <= n
  BY <1>1, <1>3 DEF Settled
<1> QED BY <1>1, <1>2, <1>4

SameAt(at, pos, m) == \A t \in 1 .. m : at[t] = pos[t]

LEMMA EntriesKeep ==
  ASSUME NEW V, NEW Z, NEW W, NEW R, NEW m \in Nat, Prolongs(V, Z, W, R, m),
         NEW at, NEW pos, SameAt(at, pos, m),
         NEW Q, NEW I, NEW S, NEW g, NEW a, NEW c, NEW e \in Int, NEW cur \in 1 .. m + 1,
         EntriesOK(Q, I, S, g, a, W, R, pos, c, e, cur)
  PROVE  EntriesOK(Q, I, S, g, a, V, Z, at, c, e, cur)
<1>1. /\ IsSeq(Q) /\ Len(Q) = P
      /\ \A k \in 1 .. P : EntryOK(Q[k], e + k, I, S, g, a, W, R, pos, c, cur)
  BY DEF EntriesOK
<1>2. ASSUME NEW k \in 1 .. P PROVE EntryOK(Q[k], e + k, I, S, g, a, V, Z, at, c, cur)
  <2>1. PICK v : v = e + k
    OBVIOUS
  <2>2. EntryOK(Q[k], v, I, S, g, a, W, R, pos, c, cur) /\ v \in Int
    BY <2>1, <1>1
  <2>3. CASE v <= 0 \/ v >= cur
    <3>1. EntryOK(Q[k], v, I, S, g, a, V, Z, at, c, cur)
      BY <2>2, <2>3 DEF EntryOK
    <3> QED BY <2>1, <3>1
  <2>4. CASE ~ (v <= 0 \/ v >= cur)
    <3>1. v \in 1 .. m
      BY <2>2, <2>4
    <3>2. V[v] = W[v] /\ Z[v] = R[v] /\ at[v] = pos[v]
      BY <3>1 DEF Prolongs, SameAt
    <3>3. EntryOK(Q[k], v, I, S, g, a, V, Z, at, c, cur)
      BY <2>2, <3>2 DEF EntryOK
    <3> QED BY <2>1, <3>3
  <2> QED BY <2>3, <2>4
<1> QED BY <1>1, <1>2 DEF EntriesOK

LEMMA CurrentIs ==
  ASSUME NEW W, Scheduled(W), NEW r \in Ranks
  PROVE  /\ next \in Nat /\ next > 0 /\ Current(r) \in 1 .. next
         /\ ph[r] \in {"update", "forward", "sample", "propose"}
         /\ ph[r] # "update" => todo[r] # <<>>
         /\ todo[r] # <<>> => /\ Current(r) \in 1 .. next - 1 /\ Work(r) = W[Current(r)]
                              /\ W[Current(r)].step = Current(r)
         /\ ph[r] = "propose" => r = Last
         /\ Sampled \in 0 .. next - 1
         /\ Sampled = Current(Last) - IF ph[Last] = "propose" THEN 0 ELSE 1
<1>1. ASSUME NEW s \in Ranks
      PROVE  /\ next \in Nat /\ next > 0 /\ Current(s) \in 1 .. next
             /\ ph[s] \in {"update", "forward", "sample", "propose"}
             /\ ph[s] # "update" => todo[s] # <<>>
             /\ todo[s] # <<>> => /\ Current(s) \in 1 .. next - 1 /\ Work(s) = W[Current(s)]
                                  /\ W[Current(s)].step = Current(s)
             /\ ph[s] = "propose" => s = Last
  <2>1. /\ IsSeq(todo[s]) /\ Len(todo[s]) <= next - 1 /\ next \in Nat /\ next > 0
        /\ ph[s] \in {"update", "forward", "sample", "propose"}
        /\ ph[s] # "update" => todo[s] # <<>>
        /\ ph[s] = "propose" => s = Last
        /\ \A t \in 1 .. next - 1 : W[t].step = t
    BY DEF Scheduled, Before
  <2>2. Len(todo[s]) \in Nat
    BY <2>1, SeqLen
  <2>3. Current(s) \in 1 .. next
    BY <2>1, <2>2 DEF Current
  <2>4. ASSUME todo[s] # <<>>
        PROVE  /\ Current(s) \in 1 .. next - 1 /\ Work(s) = W[Current(s)]
               /\ W[Current(s)].step = Current(s)
    <3>1. Len(todo[s]) \in 1 .. next - 1 /\ Work(s) = W[Current(s)]
      BY <2>4, WorkIs DEF Current
    <3>2. Current(s) \in 1 .. next - 1
      BY <3>1, <2>1 DEF Current
    <3> QED BY <3>1, <3>2, <2>1
  <2> QED BY <2>1, <2>3, <2>4
<1>2. Sampled = Current(Last) - IF ph[Last] = "propose" THEN 0 ELSE 1
  BY DEF Sampled, Current
<1>3. Sampled \in 0 .. next - 1
  BY <1>1, <1>2, LastIsARank
<1> QED BY <1>1, <1>2, <1>3

\* A rank's view of the requests.
LEMMA ViewIs ==
  ASSUME NEW W, NEW R, NEW A, Scheduled(W), History(W, R, A), NEW r \in Ranks
  PROVE  /\ Upto(View(r, W, A), W, R, next - 1)
         /\ r # Last => Upto(View(r, W, A), W, R, Current(r) - 1)
         /\ \A q \in Reqs : View(r, W, A)[q] =
              IF ph[r] = "update" THEN A[Current(r) - 1][q]
              ELSE IF ph[r] = "propose" THEN A[Current(r)][q]
              ELSE Entered(A[Current(r) - 1][q], W[Current(r)], q)
<1>1. /\ next \in Nat /\ next > 0 /\ Current(r) \in 1 .. next
      /\ ph[r] \in {"update", "forward", "sample", "propose"}
      /\ ph[r] # "update" => Current(r) \in 1 .. next - 1 /\ W[Current(r)].step = Current(r)
      /\ ph[r] = "propose" => r = Last
  BY CurrentIs
<1>2. PICK t : t = Current(r)
  OBVIOUS
<1>3. \A q \in Reqs : View(r, W, A)[q] =
              IF ph[r] = "update" THEN A[t - 1][q]
              ELSE IF ph[r] = "propose" THEN A[t][q] ELSE Entered(A[t - 1][q], W[t], q)
  BY <1>2 DEF View
<1>4. ASSUME NEW q \in Reqs
      PROVE  /\ Backed(View(r, W, A)[q], W, R, q) /\ View(r, W, A)[q].seen \in 0 .. next - 1
             /\ r # Last => View(r, W, A)[q].seen \in 0 .. t - 1
  <2>1. CASE ph[r] = "update"
    <3>1. View(r, W, A)[q] = A[t - 1][q] /\ t - 1 \in 0 .. next - 1
      BY <2>1, <1>1, <1>2, <1>3
    <3>2. Backed(A[t - 1][q], W, R, q) /\ A[t - 1][q].seen \in 0 .. t - 1
      BY <3>1, <1>1, PastFacts
    <3> QED BY <3>1, <3>2, <1>1, <1>2
  <2>2. CASE ph[r] = "propose"
    <3>1. View(r, W, A)[q] = A[t][q] /\ t \in 0 .. next - 1 /\ r = Last
      BY <2>2, <1>1, <1>2, <1>3
    <3>2. Backed(A[t][q], W, R, q) /\ A[t][q].seen \in 0 .. t
      BY <3>1, <1>1, PastFacts
    <3> QED BY <3>1, <3>2, <1>1, <1>2
  <2>3. CASE ph[r] # "update" /\ ph[r] # "propose"
    <3>1. View(r, W, A)[q] = Entered(A[t - 1][q], W[t], q) /\ t \in 1 .. next - 1
          /\ W[t].step = t
      BY <2>3, <1>1, <1>2, <1>3
    <3>2. PICK b : b = Entered(A[t - 1][q], W[t], q)
      OBVIOUS
    <3>3. Backed(b, W, R, q) /\ b.seen \in 0 .. t - 1
      BY <3>1, <3>2, <1>1, EnteredFacts
    <3> QED BY <3>1, <3>2, <3>3, <1>1, <1>2
  <2> QED BY <2>1, <2>2, <2>3
<1>5. \A q \in Running(View(r, W, A)) : q \in Reqs
  BY DEF Running
<1> QED BY <1>2, <1>3, <1>4, <1>5 DEF Upto

\* Every operation is one of a step.
LEMMA OpIs ==
  ASSUME NEW W, NEW pos, NEW G, NEW c, Scheduled(W), Relayed(W, pos, G, c),
         NEW r \in Ranks, NEW j \in 1 .. Len(bc[r])
  PROVE  /\ Len(bc[r]) \in Nat /\ c \in Nat
         /\ \E t \in 1 .. next - 1 : \E i \in 1 .. NumOps(W[t]) :
              /\ c + j = pos[t] + i /\ Same(bc[r][j], OpOf(W[t], i))
              /\ bc[r][j].step = t
<1>1. c \in Nat /\ Laid(W, pos, G) /\ Enqueued(r, pos, G, c)
  BY DEF Relayed
<1>2. Len(bc[r]) \in Nat /\ pos[next] \in Nat /\ c + Len(bc[r]) <= pos[next]
  BY <1>1, NeverAhead
<1>3. PICK g : g = c + j
  OBVIOUS
<1>4. g \in 1 .. pos[next]
  BY <1>1, <1>2, <1>3
<1>5. PICK t \in 1 .. next - 1 : \E i \in 1 .. NumOps(W[t]) : g = pos[t] + i
  BY <1>1, <1>4 DEF Laid
<1>6. PICK i \in 1 .. NumOps(W[t]) : g = pos[t] + i
  BY <1>5
<1>7. G[g] = OpOf(W[t], i)
  BY <1>1, <1>6 DEF Laid
<1>8. Same(bc[r][j], G[g])
  BY <1>1, <1>3 DEF Enqueued
<1>9. Same(bc[r][j], OpOf(W[t], i))
  BY <1>7, <1>8
<1>10. W[t].step = t
  BY DEF Scheduled
<1>11. OpOf(W[t], i).step = t
  BY <1>10 DEF OpOf, Op
<1>12. bc[r][j].step = t
  BY <1>9, <1>11 DEF Same
<1> QED BY <1>1, <1>2, <1>3, <1>6, <1>9, <1>12

LEMMA OpsHaveSteps ==
  ASSUME NEW W, NEW pos, NEW G, NEW c, Scheduled(W), Relayed(W, pos, G, c),
         NEW j \in 1 .. Len(bc[Last])
  PROVE  bc[Last][j].step \in Nat \ {0}
<1>1. PICK t \in 1 .. next - 1 : bc[Last][j].step = t
  BY OpIs, LastIsARank
<1> QED BY <1>1

-----------------------------------------------------------------------------
(* Schedule preserves the invariant.                                       *)

LEMMA RankScheduled ==
  ASSUME NEW W, NEW R, NEW A, NEW pos, NEW c, Scheduled(W), History(W, R, A),
         NEW o, Issued(o), slots' = slots, gen' = gen, queue' = queue,
         max_num_reqs' = max_num_reqs,
         NEW V, V = Longer(W, o), NEW z, NEW Z, Z = Longer(R, z), NEW B, B = After(A, o),
         NEW at, SameAt(at, pos, next),
         NEW r \in Ranks, RankOK(r, W, R, A, pos, c)
  PROVE  RankOK(r, V, Z, B, at, c)' /\ Sampled' = Sampled
<1>1. /\ next \in Nat /\ next > 0 /\ Current(r) \in 1 .. next
      /\ ph[r] \in {"update", "forward", "sample", "propose"}
      /\ ph[r] # "update" => Current(r) \in 1 .. next - 1 /\ W[Current(r)].step = Current(r)
  BY CurrentIs
<1>2. /\ Prolongs(V, Z, W, R, next - 1) /\ next - 1 \in Nat
      /\ \A t \in 1 .. next - 1 : V[t] = W[t]
  BY <1>1 DEF Longer, Prolongs
<1>3. \A t \in 0 .. next - 1 : B[t] = A[t]
  <2>1. next \in Nat /\ next > 0 /\ B = After(A, o)
    BY <1>1
  <2> QED BY <2>1 DEF After
<1>4. next' = next + 1 /\ ph' = ph /\ todo' = [s \in Ranks |-> Append(todo[s], o)]
  BY DEF Issued
<1>5. ASSUME NEW s \in Ranks PROVE Current(s)' = Current(s)
  <2>1. IsSeq(todo[s])
    BY DEF Scheduled, Before
  <2>2. todo'[s] = Append(todo[s], o)
    BY <1>4
  <2>3. Len(todo[s]) \in Nat /\ Len(todo'[s]) = Len(todo[s]) + 1
    BY <2>1, <2>2, AppendIsSeq
  <2> QED BY <2>3, <1>1, <1>4 DEF Current
<1>6. Sampled' = Sampled
  <2>1. Sampled = Current(Last) - IF ph[Last] = "propose" THEN 0 ELSE 1
    BY CurrentIs, LastIsARank
  <2>2. Sampled' = Current(Last)' - IF ph'[Last] = "propose" THEN 0 ELSE 1
    BY DEF Sampled, Current
  <2> QED BY <2>1, <2>2, <1>4, <1>5, LastIsARank
<1>7. View(r, V, B)' = View(r, W, A)
  <2>1. PICK t : t = Current(r)
    OBVIOUS
  <2>2. View(r, V, B)' = IF ph[r] = "update" THEN B[t - 1]
                         ELSE IF ph[r] = "propose" THEN B[t]
                         ELSE [q \in Reqs |-> Entered(B[t - 1][q], V[t], q)]
    BY <2>1, <1>4, <1>5 DEF View
  <2>3. View(r, W, A) = IF ph[r] = "update" THEN A[t - 1]
                        ELSE IF ph[r] = "propose" THEN A[t]
                        ELSE [q \in Reqs |-> Entered(A[t - 1][q], W[t], q)]
    BY <2>1 DEF View
  <2>4. B[t - 1] = A[t - 1]
    BY <2>1, <1>1, <1>3
  <2>5. ph[r] # "update" => B[t] = A[t] /\ V[t] = W[t]
    BY <2>1, <1>1, <1>2, <1>3
  <2> QED BY <2>2, <2>3, <2>4, <2>5
<1>8. PICK a : a = View(r, W, A)
  OBVIOUS
<1>9. Upto(a, W, R, next - 1) /\ (r # Last => Upto(a, W, R, Current(r) - 1))
  BY <1>8, ViewIs
<1>10. Proposing(r)' = Proposing(r) /\ Idx' = Idx
  BY <1>4, <1>5 DEF Proposing, Idx
<1>11. IF r = Last THEN Applied(r) = next /\ Applied(r)' = next + 1
       ELSE Applied(r) \in Int /\ Applied(r)' = Applied(r)
  BY <1>1, <1>4, <1>5, Constants DEF Applied
<1>12. RowsOK(Idx, slots[r], gen[r], a, W, R, Applied(r), Proposing(r))
  BY <1>8 DEF RankOK
<1>13. RowsOK(Idx', slots'[r], gen'[r], a, V, Z, Applied(r)', Proposing(r)')
  <2>1. PICK e, f : e = Applied(r) /\ f = Applied(r)'
    OBVIOUS
  <2>2. e \in Int /\ f \in Int /\ (e = f \/ (next - 1 <= e /\ next - 1 <= f))
    BY <2>1, <1>1, <1>11
  <2>3. RowsOK(Idx, slots[r], gen[r], a, V, Z, f, Proposing(r))
    BY <2>1, <2>2, <1>2, <1>9, <1>12, RowsKeep
  <2> QED BY <2>1, <2>3, <1>10
<1>14. ASSUME r # Last
       PROVE  /\ Settled(a, V, Applied(r)', Sampled')
              /\ EntriesOK(queue'[r], Idx', slots'[r], gen'[r], a, V, Z, at, c, Applied(r)', Current(r)')
  <2>1. PICK e, n, cur : e = Applied(r) /\ n = Sampled /\ cur = Current(r)
    OBVIOUS
  <2>2. e \in Int /\ n \in Int /\ n <= n /\ cur \in 1 .. next - 1 + 1
    BY <2>1, <1>1, <1>11, <1>14, CurrentIs
  <2>3. /\ Settled(a, W, e, n)
        /\ EntriesOK(queue[r], Idx, slots[r], gen[r], a, W, R, pos, c, e, cur)
    BY <2>1, <1>8, <1>14 DEF RankOK
  <2>4. Settled(a, V, e, n)
    BY <2>2, <2>3, <1>2, <1>9, SettledKeeps
  <2>5. SameAt(at, pos, next - 1)
    BY <1>1 DEF SameAt
  <2>6. EntriesOK(queue[r], Idx, slots[r], gen[r], a, V, Z, at, c, e, cur)
    BY <2>2, <2>3, <2>5, <1>2, EntriesKeep
  <2> QED BY <2>1, <2>4, <2>6, <1>5, <1>6, <1>10, <1>11, <1>14
<1>15. RankOK(r, V, Z, B, at, c)'
  BY <1>7, <1>8, <1>13, <1>14 DEF RankOK
<1> QED BY <1>6, <1>15

LEMMA PendingScheduled ==
  ASSUME NEW W, NEW R, Scheduled(W), Pending(W, R), next > P => results # <<>>,
         next' = next + 1, Sampled' = Sampled,
         results' = IF next > P THEN Tail(results) ELSE results,
         NEW V, NEW Z, Prolongs(V, Z, W, R, next - 1)
  PROVE  Pending(V, Z)'
<1>1. /\ next \in Nat /\ next > 0 /\ Sampled \in 0 .. next - 1
  BY CurrentIs, LastIsARank
<1>2. PICK l : l = Larger(1, next - P)
  OBVIOUS
<1>3. /\ IsSeq(results) /\ l + Len(results) = Sampled + 1
      /\ \A k \in 1 .. Len(results) : ResultOK(results[k], W[l + k - 1], R[l + k - 1])
  BY <1>2 DEF Pending
<1>4. PICK n : n = Len(results)
  OBVIOUS
<1>5. n \in Nat /\ l \in Nat /\ l > 0 /\ l + n = Sampled + 1
  BY <1>1, <1>2, <1>3, <1>4, SeqLen, Constants DEF Larger
<1>6. PICK h : h = Larger(1, next' - P)
  OBVIOUS
<1>7. CASE next > P
  <2>1. l = next - P /\ h = l + 1
    BY <1>1, <1>2, <1>6, <1>7, Constants DEF Larger
  <2>2. /\ IsSeq(results') /\ Len(results') = n - 1 /\ n > 0
        /\ \A k \in 1 .. n - 1 : results'[k] = results[k + 1]
    BY <1>3, <1>4, <1>7, TailIsSeq
  <2>3. ASSUME NEW k \in 1 .. n - 1 PROVE ResultOK(results'[k], V[h + k - 1], Z[h + k - 1])
    <3>1. PICK j : j = k + 1
      OBVIOUS
    <3>2. j \in 1 .. n /\ h + k - 1 = l + j - 1 /\ l + j - 1 \in 1 .. next - 1
      <4>1. PICK sm : sm = Sampled
        OBVIOUS
      <4>2. sm \in 0 .. next - 1 /\ l + n = sm + 1
        BY <4>1, <1>1, <1>5
      <4> QED BY <4>2, <3>1, <2>1, <1>1, <1>5
    <3>3. results'[k] = results[j] /\ ResultOK(results[j], W[l + j - 1], R[l + j - 1])
      BY <3>1, <3>2, <2>2, <1>3, <1>4
    <3>4. V[l + j - 1] = W[l + j - 1] /\ Z[l + j - 1] = R[l + j - 1]
      BY <3>2 DEF Prolongs
    <3> QED BY <3>2, <3>3, <3>4
  <2>4. h + Len(results') = Sampled' + 1
    <3>1. PICK sm : sm = Sampled
      OBVIOUS
    <3>2. sm \in 0 .. next - 1 /\ l + n = sm + 1
      BY <3>1, <1>1, <1>5
    <3>3. h + (n - 1) = sm + 1
      BY <3>2, <2>1, <1>1, <1>5
    <3> QED BY <3>1, <3>3, <2>2
  <2> QED BY <2>2, <2>3, <2>4, <1>6 DEF Pending
<1>8. CASE ~ (next > P)
  <2>1. l = 1 /\ h = 1
    BY <1>1, <1>2, <1>6, <1>8, Constants DEF Larger
  <2>2. ASSUME NEW k \in 1 .. n PROVE ResultOK(results[k], V[h + k - 1], Z[h + k - 1])
    <3>1. k \in 1 .. next - 1 /\ h + k - 1 = k /\ l + k - 1 = k
      BY <2>1, <1>1, <1>3, <1>4, <1>5
    <3>2. V[k] = W[k] /\ Z[k] = R[k]
      BY <3>1 DEF Prolongs
    <3> QED BY <3>1, <3>2, <1>3, <1>4
  <2> QED BY <2>1, <2>2, <1>3, <1>4, <1>6, <1>8 DEF Pending
<1> QED BY <1>7, <1>8

LEMMA ScheduleHolds ==
  ASSUME NEW W, NEW pos, NEW G, NEW c, NEW R, NEW A, Holds(W, pos, G, c, R, A),
         Schedule, max_num_reqs' = max_num_reqs
  PROVE  FInv'
<1>1. /\ Scheduled(W) /\ Relayed(W, pos, G, c) /\ History(W, R, A) /\ SchedulerOK(W, R, A)
      /\ \A r \in Ranks : RankOK(r, W, R, A, pos, c)
      /\ SentOK(R) /\ Shape
  BY DEF Holds
<1>2. /\ next > P => results # <<>>
      /\ results' = IF next > P THEN Tail(results) ELSE results
      /\ ph' = ph /\ slots' = slots /\ gen' = gen /\ queue' = queue /\ bc' = bc
  BY ScheduleChooses
<1>3. PICK gone, new, S, n : Chosen(AfterOutput, gone, new, S, n)
  BY ScheduleChooses
<1>4. PICK kept : kept = Kept(AfterOutput, gone, new)
  OBVIOUS
<1>5. PICK o : o = Output(gone, new, Rows(kept, n))
  OBVIOUS
<1>6. Issue(kept, gone, new, n)
  BY <1>3, <1>4 DEF Chosen
<1>7. Issued(o) /\ next' = next + 1 /\ DOMAIN reqs' = Reqs
  <2>1. o.step = next
    BY <1>5, OutputIs
  <2>2. /\ todo' = [r \in Ranks |-> Append(todo[r], o)] /\ next' = next + 1 /\ DOMAIN reqs' = Reqs
    BY <1>5, <1>6 DEF Issue
  <2> QED BY <2>1, <2>2, <1>2 DEF Issued
<1>8. PICK V, at, H : /\ V = Longer(W, o) /\ \A t \in 1 .. next : at[t] = pos[t]
                      /\ Scheduled(V)' /\ Relayed(V, at, H, c)'
  BY <1>1, <1>7, ScheduleStep
<1>9. PICK Z : Z = Longer(R, Zero(n))
  OBVIOUS
<1>10. PICK B : B = After(A, o)
  OBVIOUS
<1>11. /\ History(V, Z, B)'
       /\ \A q \in Reqs : KnownOK(reqs'[q], B[next][q], V, Z, q, next - P)
  BY <1>1, <1>2, <1>3, <1>4, <1>5, <1>7, <1>8, <1>9, <1>10, HistoryGrows
<1>12. next \in Nat /\ next > 0 /\ Sampled \in 0 .. next - 1
  BY <1>1, CurrentIs, LastIsARank
<1>13. \A r \in Ranks : RankOK(r, V, Z, B, at, c)' /\ Sampled' = Sampled
  <2>1. SameAt(at, pos, next)
    BY <1>8 DEF SameAt
  <2> QED BY <2>1, <1>1, <1>2, <1>7, <1>8, <1>9, <1>10, RankScheduled
<1>14. Sampled' = Sampled
  BY <1>13, LastIsARank
<1>15. Prolongs(V, Z, W, R, next - 1)
  BY <1>8, <1>9, <1>12 DEF Longer, Prolongs
<1>16. SchedulerOK(V, Z, B)'
  <2>1. Pending(W, R)
    BY <1>1 DEF SchedulerOK
  <2>2. Pending(V, Z)'
    BY <2>1, <1>1, <1>2, <1>7, <1>14, <1>15, PendingScheduled
  <2>3. next' - 1 = next /\ next' - 1 - P = next - P
    BY <1>7, <1>12, Constants
  <2>4. \A q \in Reqs : KnownOK(reqs'[q], B[next' - 1][q], V, Z, q, next' - 1 - P)
    BY <2>3, <1>11
  <2> QED BY <2>2, <2>4, <1>7 DEF SchedulerOK
<1>17. SentOK(Z)'
  <2>1. ASSUME NEW j \in 1 .. Len(bc[Last])
        PROVE  /\ bc[Last][j].step <= Sampled
               /\ bc[Last][j].kind = "combined" => bc[Last][j].rej = Z[bc[Last][j].step]
    <3>1. /\ bc[Last][j].step <= Sampled
          /\ bc[Last][j].kind = "combined" => bc[Last][j].rej = R[bc[Last][j].step]
      BY <1>1 DEF SentOK
    <3>2. bc[Last][j].step \in Nat \ {0}
      BY <1>1, OpsHaveSteps
    <3>3. bc[Last][j].step \in 1 .. next - 1
      BY <3>1, <3>2, <1>12
    <3>4. Z[bc[Last][j].step] = R[bc[Last][j].step]
      BY <3>3, <1>15 DEF Prolongs
    <3> QED BY <3>1, <3>4
  <2> QED BY <2>1, <1>2, <1>14 DEF SentOK
<1>18. Shape'
  BY <1>1, <1>2 DEF Shape
<1>19. Holds(V, at, H, c, Z, B)'
  BY <1>8, <1>11, <1>13, <1>16, <1>17, <1>18 DEF Holds
<1> QED BY <1>19 DEF FInv

-----------------------------------------------------------------------------
(* A free index for every new request.                                     *)

LEMMA Injects ==
  ASSUME NEW S, NEW T, IsFiniteSet(S), IsFiniteSet(T), Cardinality(S) <= Cardinality(T)
  PROVE  \E f \in [S -> T] : IsInjective(f)
<1>1. PICK m, n : m = Cardinality(S) /\ n = Cardinality(T)
  OBVIOUS
<1>2. m \in Nat /\ n \in Nat /\ m <= n /\ ExistsBijection(1 .. m, S) /\ ExistsBijection(1 .. n, T)
  BY <1>1, FS_CardinalityType
<1>3. PICK g : /\ g \in [1 .. m -> S] /\ \A s \in S : \E j \in 1 .. m : g[j] = s
  BY <1>2 DEF ExistsBijection, Bijection, Injection, Surjection
<1>4. PICK h : h \in [1 .. n -> T] /\ \A i, j \in 1 .. n : h[i] = h[j] => i = j
  BY <1>2 DEF ExistsBijection, Bijection, Injection, Surjection, IsInjective
<1> DEFINE at(s) == CHOOSE j \in 1 .. m : g[j] = s
           f == [s \in S |-> h[at(s)]]
<1>5. \A s \in S : at(s) \in 1 .. m /\ g[at(s)] = s
  BY <1>3
<1> HIDE DEF at
<1>6. \A s \in S : at(s) \in 1 .. n
  BY <1>2, <1>5
<1>7. f \in [S -> T]
  BY <1>4, <1>6
<1>8. \A s, t \in S : h[at(s)] = h[at(t)] => s = t
  BY <1>4, <1>5, <1>6
<1>9. IsInjective(f)
  BY <1>8 DEF IsInjective
<1> QED BY <1>7, <1>9

\* The rows of requests that go are free again.
FreedOf(I, S, gone) == {i \in I : S[i].req \in gone}
UnusedOf(I, S, gone) == {i \in I : S[i].req = None} \cup FreedOf(I, S, gone)

LEMMA RoomForNew ==
  ASSUME NEW I, NEW S, NEW a, IsFiniteSet(I), Placed(I, S, a), IsFiniteSet(Reqs), None \notin Reqs,
         NEW gone, NEW new, new \subseteq Reqs,
         Cardinality(Running(a) \ gone) + Cardinality(new) <= Cardinality(I)
  PROVE  \E at \in [new -> UnusedOf(I, S, gone)] : IsInjective(at)
<1> DEFINE U == UnusedOf(I, S, gone)
           L == Running(a) \ gone
           h == [q \in L |-> CHOOSE i \in I : S[i].req = q]
<1>1. /\ \A i \in I : S[i].req # None => S[i].req \in Running(a)
      /\ \A q \in Running(a) : \E i \in I : S[i].req = q
      /\ \A i, j \in I : S[i].req = S[j].req /\ S[i].req # None => i = j
  BY DEF Placed
<1>2. L \subseteq Reqs
  BY DEF Running
<1>3. \A q \in L : h[q] \in I /\ S[h[q]].req = q
  BY <1>1
<1>4. \A i \in I : i \in U <=> S[i].req = None \/ S[i].req \in gone
  BY DEF UnusedOf, FreedOf
<1> HIDE DEF U
<1>5. \A q \in L : h[q] \in I \ U
  BY <1>2, <1>3, <1>4
<1>6. DOMAIN h = L
  OBVIOUS
<1>7. h \in [L -> I \ U]
  BY <1>5
<1> HIDE DEF h
<1>8. \A i \in I \ U : S[i].req \in L /\ h[S[i].req] = i
  BY <1>1, <1>3, <1>4
<1>9. h \in Bijection(L, I \ U)
  BY <1>3, <1>6, <1>7, <1>8 DEF Bijection, Injection, Surjection, IsInjective
<1>10. IsFiniteSet(L) /\ IsFiniteSet(new)
  BY <1>2, FS_Subset
<1>11. Cardinality(I \ U) = Cardinality(L)
  BY <1>9, <1>10, FS_Bijection DEF ExistsBijection
<1>12. U \subseteq I
  BY DEF U, UnusedOf, FreedOf
<1>13. IsFiniteSet(U) /\ IsFiniteSet(I \ U)
  BY <1>12, FS_Subset
<1>14. Cardinality(I) = Cardinality(U) + Cardinality(I \ U)
  <2>1. Cardinality(I \ U) = Cardinality(I) - Cardinality(I \cap U)
    BY FS_Difference
  <2>2. I \cap U = U
    BY <1>12
  <2>3. Cardinality(I) \in Nat /\ Cardinality(U) \in Nat /\ Cardinality(I \ U) \in Nat
    BY <1>13, FS_CardinalityType
  <2>4. Cardinality(I \cap U) = Cardinality(U)
    BY <2>2
  <2> QED BY <2>1, <2>3, <2>4
<1>15. Cardinality(new) <= Cardinality(U)
  <2>1. /\ Cardinality(I) \in Nat /\ Cardinality(U) \in Nat /\ Cardinality(I \ U) \in Nat
        /\ Cardinality(L) \in Nat /\ Cardinality(new) \in Nat
    BY <1>10, <1>13, FS_CardinalityType
  <2>2. Cardinality(L) + Cardinality(new) <= Cardinality(I)
    OBVIOUS
  <2> QED BY <2>1, <2>2, <1>11, <1>14
<1>16. \E at \in [new -> U] : IsInjective(at)
  BY <1>10, <1>13, <1>15, Injects
<1> QED BY <1>16 DEF U

\* The rows after finish_requests and add_requests, C being what they were.
PlacedIn(I, S, C, w, at) == [i \in I |->
    IF \E q \in w.new : at[q] = i
      THEN [NoState EXCEPT !.req = CHOOSE q \in w.new : at[q] = i]
    ELSE IF i \in FreedOf(I, S, w.gone) THEN NoState ELSE C[i]]
Bumped(I, S, g, w) == [i \in I |-> IF i \in FreedOf(I, S, w.gone) THEN g[i] + 1 ELSE g[i]]
EnteredAll(a, w) == [q \in Reqs |-> Entered(a[q], w, q)]

\* The rows S with the relayed tokens of one step more.
Takes(C, I, S, a, W, R, e, p) ==
    \A i \in I : /\ IsSlot(C[i]) /\ C[i].req = S[i].req
                 /\ S[i].req # None => SlotOK(C[i], a[S[i].req], W, R, S[i].req, e, p)

LEMMA NewSlot ==
  ASSUME NEW q, NEW s, s = [NoState EXCEPT !.req = q]
  PROVE  IsSlot(s) /\ s.req = q /\ s.computed = 0
BY DEF NoState, IsSlot

LEMMA RowsPlaced ==
  ASSUME NEW I, NEW S, NEW g, NEW a, NEW W, NEW R, NEW e, NEW f, NEW p, None \notin Reqs,
         RowsOK(I, S, g, a, W, R, e, p), NEW C, Takes(C, I, S, a, W, R, f, p),
         NEW w, w.gone \subseteq Running(a), w.new \subseteq Reqs \ Running(a),
         w.step \in Nat \ {0}, NEW at \in [w.new -> UnusedOf(I, S, w.gone)], IsInjective(at),
         NEW T, T = PlacedIn(I, S, C, w, at), NEW h, h = Bumped(I, S, g, w),
         NEW b, b = EnteredAll(a, w)
  PROVE  /\ RowsOK(I, T, h, b, W, R, f, p)
         /\ \A i \in I : S[i].req \in Running(a) \ w.gone => T[i].req = S[i].req
<1> DEFINE L == Running(a) \ w.gone
<1>1. /\ DOMAIN S = I /\ \A i \in I : IsSlot(S[i])
      /\ \A i \in I : S[i].req # None => S[i].req \in Running(a)
      /\ \A q \in Running(a) : \E i \in I : S[i].req = q
      /\ \A i, j \in I : S[i].req = S[j].req /\ S[i].req # None => i = j
      /\ DOMAIN g = I /\ \A i \in I : g[i] \in Nat
  BY DEF RowsOK, Placed
<1>2. Running(a) \subseteq Reqs /\ Running(b) \subseteq Reqs
  BY DEF Running
<1>3. \A q \in Reqs : b[q] = Entered(a[q], w, q)
  BY DEF EnteredAll
<1>4. \A q \in w.new : b[q].since > 0 /\ b[q].seen = 0 /\ b[q].prev = 0
  BY <1>3 DEF Entered
<1>5. \A q \in L : b[q] = a[q] /\ q \notin w.new
  BY <1>2, <1>3 DEF Entered
<1>6. Running(b) = L \cup w.new
  <2>1. ASSUME NEW q \in Running(b) PROVE q \in L \cup w.new
    <3>1. q \in Reqs /\ b[q].since > 0 /\ b[q] = Entered(a[q], w, q)
      BY <1>2, <1>3 DEF Running
    <3>2. q \notin w.gone
      BY <3>1 DEF Entered, Dead
    <3>3. q \in w.new \/ a[q].since > 0
      BY <3>1, <3>2 DEF Entered
    <3> QED BY <3>1, <3>2, <3>3 DEF Running
  <2>2. ASSUME NEW q \in L \cup w.new PROVE q \in Running(b)
    <3>1. q \in L => a[q].since > 0
      BY DEF Running
    <3> QED BY <3>1, <1>2, <1>4, <1>5 DEF Running
  <2> QED BY <2>1, <2>2
<1>7. \A i \in I : T[i] = IF \E q \in w.new : at[q] = i
                            THEN [NoState EXCEPT !.req = CHOOSE q \in w.new : at[q] = i]
                          ELSE IF S[i].req \in w.gone THEN NoState ELSE C[i]
  BY DEF PlacedIn, FreedOf
<1>8. DOMAIN T = I
  BY DEF PlacedIn
<1>9. \A q \in w.new : at[q] \in I /\ (S[at[q]].req = None \/ S[at[q]].req \in w.gone)
  BY DEF UnusedOf, FreedOf
<1>10. \A q, u \in w.new : at[q] = at[u] => q = u
  BY DEF IsInjective
<1>11. ASSUME NEW q \in w.new
       PROVE  /\ IsSlot(T[at[q]]) /\ T[at[q]].req = q
              /\ SlotOK(T[at[q]], b[q], W, R, q, f, p)
  <2>1. PICK i : i = at[q]
    OBVIOUS
  <2>2. (CHOOSE u \in w.new : at[u] = i) = q
    BY <2>1, <1>10
  <2>3. i \in I /\ \E u \in w.new : at[u] = i
    BY <2>1, <1>9
  <2>4. T[i] = [NoState EXCEPT !.req = q]
    BY <2>2, <2>3, <1>7
  <2>5. IsSlot(T[i]) /\ T[i].req = q /\ T[i].computed = 0
    BY <2>4, NewSlot
  <2>6. Net(W, R, b[q].seen, q, f) = 0 /\ ~ Relays(b[q], W, q, f)
    BY <1>4 DEF Net, Relays
  <2> QED BY <2>1, <2>5, <2>6 DEF SlotOK
<1>12. ASSUME NEW i \in I, S[i].req \in L
       PROVE  /\ T[i].req = S[i].req /\ IsSlot(T[i])
              /\ SlotOK(T[i], b[S[i].req], W, R, S[i].req, f, p)
  <2>1. S[i].req # None /\ S[i].req \notin w.gone
    BY <1>2, <1>12
  <2>2. ~ \E q \in w.new : at[q] = i
    BY <2>1, <1>9
  <2>3. T[i] = C[i]
    BY <2>1, <2>2, <1>7
  <2>4. IsSlot(C[i]) /\ C[i].req = S[i].req /\ SlotOK(C[i], a[S[i].req], W, R, S[i].req, f, p)
    BY <2>1 DEF Takes
  <2> QED BY <2>3, <2>4, <1>5, <1>12
<1>13. ASSUME NEW i \in I, ~ \E q \in w.new : at[q] = i, S[i].req \notin L
       PROVE  T[i].req = None /\ IsSlot(T[i])
  <2>1. CASE S[i].req \in w.gone
    <3>1. T[i] = NoState
      BY <2>1, <1>7, <1>13
    <3> QED BY <3>1 DEF NoState, IsSlot
  <2>2. CASE S[i].req \notin w.gone
    <3>1. T[i] = C[i] /\ S[i].req = None
      BY <2>2, <1>1, <1>7, <1>13
    <3> QED BY <3>1 DEF Takes
  <2> QED BY <2>1, <2>2
<1>14. ASSUME NEW i \in I
       PROVE  /\ IsSlot(T[i]) /\ (T[i].req # None => T[i].req \in Running(b))
              /\ T[i].req # None => SlotOK(T[i], b[T[i].req], W, R, T[i].req, f, p)
              /\ T[i].req \in L => T[i].req = S[i].req
              /\ T[i].req \in w.new => at[T[i].req] = i
  <2>1. CASE \E q \in w.new : at[q] = i
    <3>1. PICK q \in w.new : at[q] = i
      BY <2>1
    <3> QED BY <3>1, <1>5, <1>6, <1>11
  <2>2. CASE S[i].req \in L
    BY <2>2, <1>5, <1>6, <1>12
  <2>3. CASE ~ (\E q \in w.new : at[q] = i) /\ S[i].req \notin L
    BY <2>3, <1>2, <1>13
  <2> QED BY <2>1, <2>2, <2>3
<1>15. ASSUME NEW q \in Running(b) PROVE \E i \in I : T[i].req = q
  <2>1. CASE q \in w.new
    BY <2>1, <1>9, <1>11
  <2>2. CASE q \in L
    BY <2>2, <1>1, <1>12
  <2> QED BY <2>1, <2>2, <1>6
<1>16. ASSUME NEW i \in I, NEW j \in I, T[i].req = T[j].req, T[i].req # None PROVE i = j
  <2>1. T[i].req \in L \cup w.new
    BY <1>6, <1>14, <1>16
  <2>2. CASE T[i].req \in w.new
    BY <2>2, <1>14, <1>16
  <2>3. CASE T[i].req \in L
    BY <2>3, <1>1, <1>2, <1>14, <1>16
  <2> QED BY <2>1, <2>2, <2>3
<1>17. Placed(I, T, b)
  BY <1>8, <1>14, <1>15, <1>16 DEF Placed
<1>18. DOMAIN h = I /\ \A i \in I : h[i] \in Nat
  BY <1>1 DEF Bumped
<1>19. RowsOK(I, T, h, b, W, R, f, p)
  BY <1>14, <1>17, <1>18 DEF RowsOK
<1> QED BY <1>12, <1>19

-----------------------------------------------------------------------------
(* What update_pp_decode_requests does to the rows.                        *)

\* The entry x is for step v, P steps before t; D are the requests it is for.
WantedOf(x, g) == {q \in x.need : g[x.idx[q]] = x.gen[q]}

\* The view before step t.
AllBefore(a, W, R, t) ==
    \A q \in Reqs : /\ PastOK(W, a[q], t - 1, q) /\ Backed(a[q], W, R, q)
                    /\ a[q].seen \in 0 .. t - 1

LEMMA WantedAre ==
  ASSUME NEW W, NEW R, NEW a, NEW t \in Nat, t > 0, AllBefore(a, W, R, t), NEW v, v = t - P,
         NEW x, NEW I, NEW S, NEW g, NEW pos, NEW c, EntryOK(x, v, I, S, g, a, W, R, pos, c, t),
         v > 0 => DOMAIN W[v].rows \subseteq Reqs
  PROVE  /\ \A q \in Running(a) :
              q \in WantedOf(x, g) <=> v > 0 /\ a[q].prev = v /\ q \in Need(W[v].rows)
         /\ \A q \in WantedOf(x, g) : q \in Running(a) /\ x.idx[q] \in I /\ S[x.idx[q]].req = q
         /\ WantedOf(x, g) # {} => Arrived(x, v, Done(W[v], pos[v], c), W[v], R[v])
<1>1. v \in Int /\ v < t /\ v + P = t /\ P \in Nat /\ P >= 2
  BY Constants
<1>2. CASE v <= 0 \/ Need(W[v].rows) = {}
  <2>1. x.need = {}
    BY <1>2 DEF EntryOK
  <2> QED BY <2>1, <1>1, <1>2 DEF WantedOf
<1>3. CASE ~ (v <= 0 \/ Need(W[v].rows) = {})
  <2>1. /\ v \in 1 .. t - 1 /\ Arrived(x, v, Done(W[v], pos[v], c), W[v], R[v])
        /\ \A q \in DOMAIN W[v].rows : Marked(x.idx[q], x.gen[q], q, v, I, S, g, a)
    BY <1>1, <1>3 DEF EntryOK
  <2>2. x.need = Need(W[v].rows)
    BY <2>1 DEF Arrived
  <2>3. \A q \in Need(W[v].rows) : q \in DOMAIN W[v].rows /\ Samples(W[v].rows[q]) /\ q \in Reqs
    BY <1>1, <1>3 DEF Need
  <2>4. ASSUME NEW q \in WantedOf(x, g)
        PROVE  /\ q \in Running(a) /\ x.idx[q] \in I /\ S[x.idx[q]].req = q
               /\ a[q].prev = v /\ q \in Need(W[v].rows)
    <3>1. q \in Need(W[v].rows) /\ x.gen[q] = g[x.idx[q]]
      BY <2>2 DEF WantedOf
    <3>2. Marked(x.idx[q], x.gen[q], q, v, I, S, g, a)
      BY <3>1, <2>1, <2>3
    <3>3. x.idx[q] \in I /\ S[x.idx[q]].req = q /\ a[q].since > 0 /\ a[q].since <= v
      BY <3>1, <3>2 DEF Marked
    <3>4. PICK b : b = a[q]
      OBVIOUS
    <3>5. PastOK(W, b, t - 1, q) /\ b.seen \in 0 .. t - 1 /\ b.prev \in {0, b.seen}
      BY <3>1, <3>4, <2>3 DEF AllBefore, Backed
    <3>6. b.since \in 0 .. t - 1
      BY <3>5 DEF PastOK
    <3>7. v \in b.since .. t - 1 /\ b.since > 0
      BY <3>3, <3>4, <3>6, <2>1
    <3>8. b.prev = v \/ b.prev >= v + P
      BY <3>1, <3>5, <3>7, <2>3 DEF PastOK
    <3>9. b.prev = v
      BY <3>5, <3>8, <1>1
    <3> QED BY <3>1, <3>3, <3>4, <3>9, <2>3 DEF Running
  <2>5. ASSUME NEW q \in Running(a), a[q].prev = v, q \in Need(W[v].rows)
        PROVE  q \in WantedOf(x, g)
    <3>1. Marked(x.idx[q], x.gen[q], q, v, I, S, g, a)
      BY <2>1, <2>3, <2>5
    <3>2. a[q].since > 0 /\ a[q].since <= v
      BY <2>1, <2>3, <2>5 DEF AllBefore, Backed
    <3>3. x.gen[q] = g[x.idx[q]]
      BY <3>1, <3>2 DEF Marked
    <3> QED BY <3>3, <2>2, <2>5 DEF WantedOf
  <2> QED BY <2>1, <2>4, <2>5
<1> QED BY <1>2, <1>3

\* A row with what arrived for it.
TakenFrom(s, x, q) ==
    [s EXCEPT !.computed = @ - x.rej[q], !.last = x.sampled, !.draft = IF K > 0 THEN x.draft ELSE @]

LEMMA TakenIs ==
  ASSUME NEW s, IsSlot(s), NEW x, NEW q, NEW u, u = TakenFrom(s, x, q)
  PROVE  /\ IsSlot(u) /\ u.req = s.req /\ u.computed = s.computed - x.rej[q]
         /\ u.last = x.sampled /\ (K > 0 => u.draft = x.draft)
<1>1. PICK y, z : y = s.computed - x.rej[q] /\ z = IF K > 0 THEN x.draft ELSE s.draft
  OBVIOUS
<1>2. u = [req |-> s.req, computed |-> y, last |-> x.sampled, draft |-> z]
  BY <1>1 DEF TakenFrom, IsSlot
<1> QED BY <1>1, <1>2 DEF IsSlot

TakenAll(I, S, x, g) == [i \in I |->
    IF \E q \in WantedOf(x, g) : x.idx[q] = i
      THEN TakenFrom(S[i], x, CHOOSE q \in WantedOf(x, g) : x.idx[q] = i) ELSE S[i]]

LEMMA AllArrived ==
  ASSUME NEW x, NEW v, NEW w, NEW rej, NEW p \in Nat, NEW c \in Nat, Arrived(x, v, Done(w, p, c), w, rej),
         x.left = 0, Need(w.rows) # {}
  PROVE  /\ Done(w, p, c) = NumOps(w) /\ x.sampled = v /\ x.rej = rej /\ (K > 0 => x.draft = v)
<1>1. PICK n : n = Done(w, p, c)
  OBVIOUS
<1>2. /\ x.left = NumOps(w) - n
      /\ n >= 1 => x.sampled = v
      /\ n >= 2 => x.rej = rej
      /\ n >= 3 => x.draft = v
  BY <1>1 DEF Arrived
<1>3. NumOps(w) = IF K > 0 THEN 3 ELSE 2
  BY DEF NumOps
<1>4. n = NumOps(w)
  <2>1. PICK d : d = Larger(0, c - p)
    OBVIOUS
  <2>2. n = IF NumOps(w) <= d THEN NumOps(w) ELSE d
    BY <2>1, <1>1 DEF Done, Smaller
  <2>3. d = 0 \/ d = c - p
    BY <2>1 DEF Larger
  <2>4. n \in Int
    BY <2>2, <2>3, <1>3
  <2> QED BY <2>4, <1>2, <1>3
<1> QED BY <1>1, <1>2, <1>3, <1>4

LEMMA RowsTake ==
  ASSUME NEW W, NEW R, NEW a, NEW t \in Nat, t > 0, AllBefore(a, W, R, t), NEW v, v = t - P,
         NEW x, NEW I, NEW S, NEW g, NEW pos, v > 0 => pos[v] \in Nat,
         NEW c \in Nat, EntryOK(x, v, I, S, g, a, W, R, pos, c, t),
         v > 0 => DOMAIN W[v].rows \subseteq Reqs, None \notin Reqs,
         WantedOf(x, g) # {} => x.left = 0,
         NEW e, e = v - 1, RowsOK(I, S, g, a, W, R, e, 0)
  PROVE  Takes(TakenAll(I, S, x, g), I, S, a, W, R, v, 0)
<1>1. v \in Int /\ v < t /\ e \in Int /\ e + 1 = v
  BY Constants
<1>2. /\ \A i \in I : IsSlot(S[i])
      /\ \A i \in I : S[i].req # None => S[i].req \in Running(a)
      /\ \A i, j \in I : S[i].req = S[j].req /\ S[i].req # None => i = j
      /\ \A i \in I : S[i].req # None => SlotOK(S[i], a[S[i].req], W, R, S[i].req, e, 0)
  BY DEF RowsOK, Placed
<1>3. PICK D : D = WantedOf(x, g)
  OBVIOUS
<1>4. /\ \A q \in Running(a) : q \in D <=> v > 0 /\ a[q].prev = v /\ q \in Need(W[v].rows)
      /\ \A q \in D : q \in Running(a) /\ x.idx[q] \in I /\ S[x.idx[q]].req = q
      /\ D # {} => Arrived(x, v, Done(W[v], pos[v], c), W[v], R[v])
  BY <1>3, WantedAre
<1>5. PICK C : C = TakenAll(I, S, x, g)
  OBVIOUS
<1>6. \A i \in I : C[i] = IF \E q \in D : x.idx[q] = i
                            THEN TakenFrom(S[i], x, CHOOSE q \in D : x.idx[q] = i) ELSE S[i]
  BY <1>3, <1>5 DEF TakenAll
<1>7. ASSUME NEW i \in I
      PROVE  IsSlot(C[i]) /\ C[i].req = S[i].req
  <2>1. PICK q : q = CHOOSE u \in D : x.idx[u] = i
    OBVIOUS
  <2>2. PICK u : u = TakenFrom(S[i], x, q)
    OBVIOUS
  <2>3. C[i] = u \/ C[i] = S[i]
    BY <1>6, <2>1, <2>2
  <2>4. IsSlot(S[i])
    BY <1>2
  <2>5. IsSlot(u) /\ u.req = S[i].req
    BY <2>2, <2>4, TakenIs
  <2> QED BY <2>3, <2>4, <2>5
<1>8. Running(a) \subseteq Reqs
  BY DEF Running
<1>9. ASSUME NEW i \in I, S[i].req # None
      PROVE  SlotOK(C[i], a[S[i].req], W, R, S[i].req, v, 0)
  <2>1. PICK q, b : q = S[i].req /\ b = a[q]
    OBVIOUS
  <2>2. q \in Running(a) /\ SlotOK(S[i], b, W, R, q, e, 0)
    BY <2>1, <1>2, <1>9
  <2>3. Backed(b, W, R, q) /\ b.seen \in 0 .. t - 1 /\ b.prev \in {0, b.seen}
    BY <2>1, <2>2, <1>8 DEF AllBefore, Backed
  <2>4. /\ S[i].computed = Net(W, R, b.seen, q, e)
        /\ Relays(b, W, q, e) => /\ S[i].last = b.prev
                                 /\ K > 0 /\ b.prev # 0 => S[i].draft = b.prev
    BY <2>2 DEF SlotOK
  <2>5. CASE q \in D
    <3>1. v > 0 /\ b.prev = v /\ q \in Need(W[v].rows) /\ b.seen = v
      BY <2>1, <2>2, <2>3, <2>5, <1>1, <1>4
    <3>2. x.idx[q] = i /\ \A u \in D : x.idx[u] = i => u = q
      BY <2>1, <2>5, <1>2, <1>4, <1>9
    <3>3. (CHOOSE u \in D : x.idx[u] = i) = q
      BY <2>5, <3>2
    <3>4. C[i] = TakenFrom(S[i], x, q)
      BY <2>5, <3>2, <3>3, <1>6
    <3>5. x.sampled = v /\ x.rej = R[v] /\ (K > 0 => x.draft = v)
      <4>1. x.left = 0 /\ Arrived(x, v, Done(W[v], pos[v], c), W[v], R[v])
        BY <2>5, <1>3, <1>4
      <4>2. Need(W[v].rows) # {}
        BY <3>1
      <4>3. PICK p : p = pos[v]
        OBVIOUS
      <4>4. p \in Nat
        BY <4>3, <3>1
      <4>5. Arrived(x, v, Done(W[v], p, c), W[v], R[v])
        BY <4>1, <4>3
      <4> QED BY <4>1, <4>2, <4>4, <4>5, AllArrived
    <3>6. /\ C[i].computed = S[i].computed - R[v][q] /\ C[i].last = v
          /\ K > 0 => C[i].draft = v
      <4>1. PICK u : u = C[i]
        OBVIOUS
      <4>2. u = TakenFrom(S[i], x, q) /\ IsSlot(S[i])
        BY <4>1, <3>4, <1>2
      <4>3. u.computed = S[i].computed - x.rej[q] /\ u.last = x.sampled /\ (K > 0 => u.draft = x.draft)
        BY <4>2, TakenIs
      <4> QED BY <4>1, <4>3, <3>5
    <3>7. C[i].computed = Net(W, R, v, q, v)
      <4>1. PICK b0 : RowOK(W, R, b0, v, q)
        BY <2>3, <3>1 DEF Backed
      <4>2. PICK row, rej : row = W[v].rows[q] /\ rej = R[v][q]
        OBVIOUS
      <4>3. row.old \in Nat /\ row.n \in Nat /\ rej \in Nat
        BY <4>1, <4>2, RowFacts
      <4>4. ~ (v <= e) /\ v # 0 /\ v <= v
        BY <3>1, <1>1
      <4>5. S[i].computed = row.old + row.n - 0
        BY <2>4, <3>1, <4>2, <4>4 DEF Net
      <4>6. Net(W, R, v, q, v) = row.old + row.n - rej
        BY <4>2, <4>4 DEF Net
      <4> QED BY <3>6, <4>2, <4>3, <4>5, <4>6
    <3> QED BY <2>1, <3>1, <3>6, <3>7 DEF SlotOK
  <2>6. CASE q \notin D
    <3>1. ~ \E u \in D : x.idx[u] = i
      BY <2>1, <2>6, <1>4
    <3>2. C[i] = S[i]
      BY <3>1, <1>6
    <3>3. Net(W, R, b.seen, q, v) = Net(W, R, b.seen, q, e)
      <4>1. CASE b.seen = 0
        BY <4>1 DEF Net
      <4>2. CASE b.seen > 0 /\ b.seen # v
        <5>1. b.seen <= v <=> b.seen <= e
          BY <4>2, <2>3, <1>1
        <5> QED BY <5>1 DEF Net
      <4>3. CASE b.seen > 0 /\ b.seen = v
        <5>1. PICK b0 : RowOK(W, R, b0, v, q)
          BY <2>3, <4>3 DEF Backed
        <5>2. /\ Samples(W[v].rows[q]) <=> b.prev = v
          BY <2>3, <4>3 DEF Backed
        <5>3. b.prev = v => q \notin Need(W[v].rows)
          BY <2>1, <2>2, <2>6, <4>3, <1>4
        <5>4. IsDecode(W[v].rows[q]) => q \in Need(W[v].rows) /\ Samples(W[v].rows[q])
          BY <5>1, RowFacts DEF RowOK
        <5>5. ~ IsDecode(W[v].rows[q])
          BY <5>2, <5>3, <5>4
        <5>6. R[v][q] = 0
          BY <5>1, <5>5, RowFacts
        <5> QED BY <4>3, <5>6 DEF Net
      <4> QED BY <4>1, <4>2, <4>3, <2>3
    <3>4. Relays(b, W, q, v) => Relays(b, W, q, e)
      <4>1. ASSUME Relays(b, W, q, v) PROVE Relays(b, W, q, e)
        <5>1. b.prev > 0 /\ b.prev <= v /\ q \in Need(W[b.prev].rows)
          BY <4>1 DEF Relays
        <5>2. b.prev # v
          BY <2>1, <2>2, <2>6, <5>1, <1>4
        <5>3. b.prev <= e
          BY <2>3, <5>1, <5>2, <1>1
        <5> QED BY <5>1, <5>3 DEF Relays
      <4> QED BY <4>1
    <3> QED BY <2>1, <2>4, <3>2, <3>3, <3>4 DEF SlotOK
  <2> QED BY <2>5, <2>6
<1> QED BY <1>5, <1>7, <1>9 DEF Takes

-----------------------------------------------------------------------------
(* The entries, when the first one leaves.                                 *)

\* What the last rank has not sampled is not relayed either.
LEMMA NotYet ==
  ASSUME NEW W, NEW pos, NEW G, NEW c, Scheduled(W), Relayed(W, pos, G, c),
         NEW v \in 1 .. next - 1
  PROVE  c \in Nat /\ pos[v] \in Nat /\ (v > Sampled => c <= pos[v])
<1>1. /\ c \in Nat /\ pos \in [1 .. next -> Nat] /\ Enqueued(Last, pos, G, c)
      /\ \A t, u \in 1 .. next : t <= u => pos[t] <= pos[u]
      /\ \A t \in 1 .. next - 1 : pos[t + 1] = pos[t] + NumOps(W[t])
  BY LastIsARank DEF Relayed, Laid
<1>2. PICK t : t = Current(Last)
  OBVIOUS
<1>3. /\ next \in Nat /\ t \in 1 .. next
      /\ Sampled = t - IF ph[Last] = "propose" THEN 0 ELSE 1
      /\ ph[Last] = "propose" => t \in 1 .. next - 1 /\ todo[Last] # <<>> /\ Work(Last) = W[t]
  BY <1>2, CurrentIs, LastIsARank
<1>4. IsSeq(bc[Last]) /\ Len(bc[Last]) \in Nat /\ c + Len(bc[Last]) = pos[t] + Halfway(Last)
  BY <1>1, <1>2, SeqLen DEF Enqueued, Current
<1>5. pos[v] \in Nat /\ pos[t] \in Nat
  BY <1>1, <1>3
<1>6. ASSUME v > Sampled PROVE c <= pos[v]
  <2>1. CASE ph[Last] = "propose"
    <3>1. t \in 1 .. next - 1 /\ Sampled = t /\ t + 1 <= v /\ t + 1 \in 1 .. next
      <4>1. PICK sm : sm = Sampled
        OBVIOUS
      <4>2. sm = t /\ v > sm /\ t \in 1 .. next - 1
        BY <4>1, <2>1, <1>3, <1>6
      <4> QED BY <4>1, <4>2, <1>3
    <3>2. pos[t + 1] = pos[t] + NumOps(W[t]) /\ pos[t + 1] <= pos[v] /\ pos[t + 1] \in Nat
      <4>1. pos[t + 1] = pos[t] + NumOps(W[t])
        BY <3>1, <1>1
      <4>2. pos[t + 1] \in Nat
        BY <3>1, <1>1
      <4>3. v \in 1 .. next
        BY <1>3
      <4>4. pos[t + 1] <= pos[v]
        BY <3>1, <4>3, <1>1
      <4> QED BY <4>1, <4>2, <4>4
    <3>3. Halfway(Last) <= NumOps(W[t]) /\ Halfway(Last) \in {0, 2}
      <4>1. Work(Last) = W[t]
        BY <2>1, <1>3
      <4> QED BY <4>1 DEF Halfway, NumOps, Work
    <3>4. NumOps(W[t]) \in {0, 2, 3}
      BY NumOpsIsNat
    <3>5. PICK l, h, m, p2 : l = Len(bc[Last]) /\ h = Halfway(Last) /\ m = NumOps(W[t]) /\ p2 = pos[t + 1]
      OBVIOUS
    <3>6. /\ l \in Nat /\ h \in {0, 2} /\ m \in {0, 2, 3} /\ h <= m /\ p2 = pos[t] + m
          /\ p2 <= pos[v] /\ c + l = pos[t] + h
      BY <3>2, <3>3, <3>4, <3>5, <1>4
    <3> QED BY <3>6, <1>1, <1>5
  <2>2. CASE ph[Last] # "propose"
    <3>1. t <= v
      <4>1. PICK sm : sm = Sampled
        OBVIOUS
      <4>2. sm = t - 1 /\ v > sm
        BY <4>1, <2>2, <1>3, <1>6
      <4> QED BY <4>2, <1>3
    <3>2. pos[t] <= pos[v]
      BY <3>1, <1>1, <1>3
    <3>3. Halfway(Last) = 0
      BY <2>2 DEF Halfway
    <3>4. PICK l : l = Len(bc[Last])
      OBVIOUS
    <3>5. l \in Nat /\ c + l = pos[t]
      BY <3>3, <3>4, <1>4, <1>5
    <3> QED BY <3>2, <3>5, <1>1, <1>5
  <2> QED BY <2>1, <2>2
<1> QED BY <1>1, <1>5, <1>6

LEMMA DoneNothing ==
  ASSUME NEW w, NEW p \in Nat, NEW c \in Nat, c <= p
  PROVE  Done(w, p, c) = 0
<1>1. Larger(0, c - p) = 0
  BY DEF Larger
<1>2. NumOps(w) >= 0
  BY NumOpsIsNat
<1> QED BY <1>1, <1>2, NumOpsIsNat DEF Done, Smaller

\* A request in the view before a step, and after its bookkeeping.
LEMMA StillThere ==
  ASSUME NEW a, NEW w, w.step \in Nat \ {0}, w.gone \subseteq Running(a),
         w.new \subseteq Reqs \ Running(a), NEW b, b = EnteredAll(a, w), NEW q \in Reqs
  PROVE  /\ q \in w.gone => q \in Running(a) /\ b[q].since = 0
         /\ q \in w.new => q \notin Running(a) /\ b[q].since = w.step /\ b[q].seen = 0
         /\ ~ (q \in w.gone) /\ ~ (q \in w.new) => b[q] = a[q]
<1>1. b[q] = Entered(a[q], w, q)
  BY DEF EnteredAll
<1> QED BY <1>1 DEF Entered, Dead

LEMMA SettledNext ==
  ASSUME NEW W, NEW R, NEW a, NEW t \in Nat, t > 0, AllBefore(a, W, R, t), NEW v, v = t - P,
         NEW x, NEW I, NEW S, NEW g, NEW pos, v > 0 => pos[v] \in Nat,
         NEW c \in Nat, EntryOK(x, v, I, S, g, a, W, R, pos, c, t),
         v > 0 => DOMAIN W[v].rows \subseteq Reqs, WantedOf(x, g) # {} => x.left = 0,
         NEW sd \in Int, v > 0 /\ v > sd => c <= pos[v],
         NEW e, e = v - 1, Settled(a, W, e, sd),
         NEW w, w.step \in Nat \ {0}, w.gone \subseteq Running(a),
         w.new \subseteq Reqs \ Running(a), NEW b, b = EnteredAll(a, w)
  PROVE  Settled(b, W, v, sd)
<1>1. v \in Int /\ v < t /\ e \in Int /\ e + 1 = v
  BY Constants
<1>2. SUFFICES ASSUME NEW q \in Running(b), b[q].seen > 0, b[q].seen <= v,
                      Drafts(W[b[q].seen].rows[q]) > 0
               PROVE  b[q].seen <= sd
  BY DEF Settled
<1>3. q \in Reqs /\ b[q].since > 0
  BY DEF Running
<1>4. ~ (q \in w.gone) /\ ~ (q \in w.new) /\ b[q] = a[q] /\ q \in Running(a)
  <2>1. ~ (q \in w.gone) /\ ~ (q \in w.new)
    BY <1>2, <1>3, StillThere
  <2>2. b[q] = a[q]
    BY <2>1, <1>3, StillThere
  <2> QED BY <2>1, <2>2, <1>3 DEF Running
<1>5. PICK n : n = a[q].seen
  OBVIOUS
<1>6. Backed(a[q], W, R, q) /\ n \in 0 .. t - 1 /\ n > 0 /\ n <= v /\ Drafts(W[n].rows[q]) > 0
  BY <1>2, <1>3, <1>4, <1>5 DEF AllBefore
<1>7. CASE n <= e
  BY <1>4, <1>5, <1>6, <1>7 DEF Settled
<1>8. CASE ~ (n <= e)
  <2>1. n = v /\ v > 0
    BY <1>1, <1>6, <1>8
  <2>2. PICK b0 : RowOK(W, R, b0, v, q)
    BY <2>1, <1>5, <1>6 DEF Backed
  <2>3. q \in DOMAIN W[v].rows /\ (Samples(W[v].rows[q]) <=> a[q].prev = v)
    BY <2>1, <1>5, <1>6 DEF Backed
  <2>4. IsDecode(W[v].rows[q])
    BY <2>1, <2>2, <1>6, RowFacts
  <2>5. Samples(W[v].rows[q]) /\ q \in Need(W[v].rows)
    BY <2>2, <2>4, RowFacts DEF RowOK
  <2>6. q \in WantedOf(x, g) /\ Arrived(x, v, Done(W[v], pos[v], c), W[v], R[v])
    BY <2>1, <2>3, <2>5, <1>4, WantedAre
  <2>7. x.left = 0 /\ Need(W[v].rows) # {}
    BY <2>5, <2>6
  <2>8. PICK p, wv, rv : p = pos[v] /\ wv = W[v] /\ rv = R[v]
    OBVIOUS
  <2>9. p \in Nat /\ Arrived(x, v, Done(wv, p, c), wv, rv) /\ (v > sd => c <= p)
    BY <2>1, <2>6, <2>8
  <2>10. Done(wv, p, c) = NumOps(wv)
    <3>1. Need(wv.rows) # {} /\ x.left = 0
      BY <2>7, <2>8
    <3> QED BY <3>1, <2>9, AllArrived
  <2>11. NumOps(wv) # 0
    BY <2>7, <2>8 DEF NumOps
  <2>12. ~ (c <= p)
    BY <2>9, <2>10, <2>11, DoneNothing
  <2> QED BY <2>1, <2>9, <2>12, <1>1, <1>4, <1>5
<1> QED BY <1>7, <1>8

\* The rows of an entry, when requests come and go.
Counts(I, g) == \A j \in I : g[j] \in Nat
SameReqs(I, S, T, L) == \A i \in I : S[i].req \in L => T[i].req = S[i].req

LEMMA MarkedPlaced ==
  ASSUME NEW a, NEW w, w.step \in Nat \ {0}, w.gone \subseteq Running(a),
         w.new \subseteq Reqs \ Running(a), NEW b, b = EnteredAll(a, w), NEW q \in Reqs,
         None \notin Reqs,
         NEW I, NEW S, NEW g, NEW h, h = Bumped(I, S, g, w), Counts(I, g),
         NEW T, SameReqs(I, S, T, Running(a) \ w.gone),
         NEW v \in Int, v < w.step, NEW i, NEW k, Marked(i, k, q, v, I, S, g, a)
  PROVE  Marked(i, k, q, v, I, T, h, b)
<1> /\ \A j \in I : g[j] \in Nat
    /\ \A j \in I : S[j].req \in Running(a) \ w.gone => T[j].req = S[j].req
  BY DEF Counts, SameReqs
<1>1. /\ i \in I /\ k \in Nat /\ k <= g[i] /\ g[i] \in Nat
      /\ k = g[i] <=> a[q].since > 0 /\ a[q].since <= v
      /\ k = g[i] => S[i].req = q
  BY DEF Marked
<1>2. h[i] = IF S[i].req \in w.gone THEN g[i] + 1 ELSE g[i]
  BY <1>1 DEF Bumped, FreedOf
<1>3. /\ q \in w.gone => q \in Running(a) /\ b[q].since = 0
      /\ q \in w.new => q \notin Running(a) /\ b[q].since = w.step
      /\ ~ (q \in w.gone) /\ ~ (q \in w.new) => b[q] = a[q]
  BY StillThere
<1>4. CASE k = g[i] /\ q \in w.gone
  <2>1. h[i] = k + 1 /\ ~ (b[q].since > 0)
    BY <1>1, <1>2, <1>3, <1>4
  <2> QED BY <2>1, <1>1 DEF Marked
<1>5. CASE k = g[i] /\ ~ (q \in w.gone)
  <2>1. S[i].req = q /\ h[i] = k /\ a[q].since > 0 /\ a[q].since <= v
    BY <1>1, <1>2, <1>5
  <2>2. q \in Running(a)
    BY <2>1 DEF Running
  <2>3. b[q] = a[q] /\ T[i].req = q
    BY <2>1, <2>2, <1>1, <1>3, <1>5
  <2> QED BY <2>1, <2>3, <1>1 DEF Marked
<1>6. CASE k # g[i]
  <2>1. k < h[i]
    BY <1>1, <1>2, <1>6
  <2>2. ~ (b[q].since > 0 /\ b[q].since <= v)
    <3>1. CASE q \in w.gone \/ q \in w.new
      BY <3>1, <1>3
    <3>2. CASE ~ (q \in w.gone) /\ ~ (q \in w.new)
      BY <3>2, <1>1, <1>3, <1>6
    <3> QED BY <3>1, <3>2
  <2>3. k <= h[i] /\ k # h[i]
    BY <2>1, <1>1, <1>2
  <2> QED BY <2>2, <2>3, <1>1 DEF Marked
<1> QED BY <1>4, <1>5, <1>6
RowsWithin(W, n) == \A t \in 1 .. n : DOMAIN W[t].rows \subseteq Reqs

\* Rank's step cur, w, which takes its requests and rows from a, S, g to b, T, h.
StepOf(w, cur, W, a, b, I, S, g, T, h) ==
    /\ cur \in Nat /\ cur > 0 /\ w = W[cur] /\ w.step = cur
    /\ w.gone \subseteq Running(a) /\ w.new \subseteq Reqs \ Running(a)
    /\ b = EnteredAll(a, w) /\ RowsWithin(W, cur - 1)
    /\ h = Bumped(I, S, g, w) /\ Counts(I, g) /\ SameReqs(I, S, T, Running(a) \ w.gone)

LEMMA EntriesRotate ==
  ASSUME NEW W, NEW R, NEW cur, NEW a, NEW w, NEW b, NEW I, NEW S, NEW g, NEW h, NEW T,
         StepOf(w, cur, W, a, b, I, S, g, T, h),
         NEW Q, NEW pos, NEW c, NEW e, e = cur - P - 1,
         EntriesOK(Q, I, S, g, a, W, R, pos, c, e, cur),
         NEW f, f = cur \/ (f = cur + 1 /\ Need(w.rows) = {}),
         NEW Z, Z = Append(Tail(Q), NoRecv)
  PROVE  EntriesOK(Z, I, T, h, b, W, R, pos, c, e + 1, f)
<1> /\ cur \in Nat /\ cur > 0 /\ w = W[cur] /\ w.step = cur
    /\ w.gone \subseteq Running(a) /\ w.new \subseteq Reqs \ Running(a)
    /\ b = EnteredAll(a, w) /\ RowsWithin(W, cur - 1)
    /\ h = Bumped(I, S, g, w) /\ Counts(I, g) /\ SameReqs(I, S, T, Running(a) \ w.gone)
  BY DEF StepOf
<1> None \notin Reqs
  BY SlotsAssumption
<1>1. P \in Nat /\ P >= 2 /\ e \in Int /\ e + 1 + P = cur
  BY Constants
<1>2. /\ IsSeq(Q) /\ Len(Q) = P
      /\ \A k \in 1 .. P : EntryOK(Q[k], e + k, I, S, g, a, W, R, pos, c, cur)
  BY DEF EntriesOK
<1>3. Q # <<>>
  BY <1>1, <1>2, SeqLen
<1>4. IsSeq(Tail(Q)) /\ Len(Tail(Q)) = P - 1 /\ \A k \in 1 .. P - 1 : Tail(Q)[k] = Q[k + 1]
  BY <1>2, <1>3, TailIsSeq
<1>5. /\ IsSeq(Z) /\ Len(Z) = P /\ Z[P] = NoRecv
      /\ \A k \in 1 .. P - 1 : Z[k] = Q[k + 1]
  <2>1. /\ IsSeq(Z) /\ Len(Z) = (P - 1) + 1 /\ Z[(P - 1) + 1] = NoRecv
        /\ \A k \in 1 .. P - 1 : Z[k] = Tail(Q)[k]
    BY <1>4, AppendIsSeq
  <2>2. (P - 1) + 1 = P
    BY <1>1
  <2> QED BY <2>1, <2>2, <1>4
<1>6. ASSUME NEW k \in 1 .. P - 1
      PROVE  EntryOK(Z[k], e + 1 + k, I, T, h, b, W, R, pos, c, f)
  <2>1. PICK v : v = e + 1 + k
    OBVIOUS
  <2>2. k + 1 \in 1 .. P /\ e + (k + 1) = v /\ v \in Int /\ v < cur /\ v < f /\ f \in Int
    BY <2>1, <1>1
  <2>3. EntryOK(Z[k], v, I, S, g, a, W, R, pos, c, cur)
    BY <2>2, <1>2, <1>5
  <2>4. CASE v <= 0 \/ Need(W[v].rows) = {}
    BY <2>1, <2>3, <2>4 DEF EntryOK
  <2>5. CASE ~ (v <= 0 \/ Need(W[v].rows) = {})
    <3>1. ~ (v >= cur) /\ ~ (v >= f) /\ v \in 1 .. cur - 1
      BY <2>2, <2>5
    <3>2. /\ IsEntry(Z[k]) /\ Arrived(Z[k], v, Done(W[v], pos[v], c), W[v], R[v])
          /\ \A q \in DOMAIN W[v].rows : Marked(Z[k].idx[q], Z[k].gen[q], q, v, I, S, g, a)
      BY <2>3, <2>5, <3>1 DEF EntryOK
    <3>3. ASSUME NEW q \in DOMAIN W[v].rows
          PROVE  Marked(Z[k].idx[q], Z[k].gen[q], q, v, I, T, h, b)
      <4>1. PICK i, m : i = Z[k].idx[q] /\ m = Z[k].gen[q]
        OBVIOUS
      <4>2. q \in Reqs /\ Marked(i, m, q, v, I, S, g, a) /\ w.step \in Nat \ {0} /\ v < w.step
        <5>1. q \in Reqs
          BY <3>1 DEF RowsWithin
        <5>2. Marked(i, m, q, v, I, S, g, a)
          BY <4>1, <3>2
        <5>3. w.step \in Nat \ {0} /\ v < w.step
          BY <2>2
        <5> QED BY <5>1, <5>2, <5>3
      <4>3. Marked(i, m, q, v, I, T, h, b)
        BY <4>2, <2>2, MarkedPlaced
      <4> QED BY <4>1, <4>3
    <3> QED BY <2>1, <2>5, <3>1, <3>2, <3>3 DEF EntryOK
  <2> QED BY <2>4, <2>5
<1>7. EntryOK(Z[P], e + 1 + P, I, T, h, b, W, R, pos, c, f)
  <2>1. IsEntry(NoRecv) /\ NoRecv.step = 0 /\ NoRecv.need = {}
    BY DEF NoRecv, IsEntry
  <2>2. cur >= f \/ Need(W[cur].rows) = {}
    OBVIOUS
  <2> QED BY <2>1, <2>2, <1>1, <1>5 DEF EntryOK
<1>8. ASSUME NEW k \in 1 .. P PROVE EntryOK(Z[k], e + 1 + k, I, T, h, b, W, R, pos, c, f)
  <2>1. k = P \/ k \in 1 .. P - 1
    BY <1>1
  <2> QED BY <2>1, <1>6, <1>7
<1> QED BY <1>5, <1>8 DEF EntriesOK

-----------------------------------------------------------------------------
(* Frames.                                                                 *)

LEMMA HistoryStays ==
  ASSUME NEW W, NEW R, NEW A, History(W, R, A), next' = next, max_num_reqs' = max_num_reqs
  PROVE  History(W, R, A)'
BY DEF History, OutputOK

LEMMA RankStays ==
  ASSUME NEW W, NEW pos, NEW c, NEW R, NEW A, Scheduled(W), History(W, R, A), NEW r \in Ranks,
         RankOK(r, W, R, A, pos, c), next' = next, max_num_reqs' = max_num_reqs,
         todo'[r] = todo[r], ph'[r] = ph[r], slots'[r] = slots[r], gen'[r] = gen[r],
         r # Last => queue'[r] = queue[r], Sampled' \in Int, Sampled <= Sampled'
  PROVE  RankOK(r, W, R, A, pos, c)'
<1>1. Current(r)' = Current(r)
  BY DEF Current
<1>2. View(r, W, A)' = View(r, W, A) /\ Applied(r)' = Applied(r) /\ Proposing(r)' = Proposing(r)
  BY <1>1 DEF View, Applied, Proposing
<1>3. Idx' = Idx
  BY DEF Idx
<1>4. RowsOK(Idx, slots[r], gen[r], View(r, W, A), W, R, Applied(r), Proposing(r))'
  <2>1. RowsOK(Idx, slots[r], gen[r], View(r, W, A), W, R, Applied(r), Proposing(r))
    BY DEF RankOK
  <2> QED BY <2>1, <1>2, <1>3
<1>5. ASSUME r # Last
      PROVE  /\ Settled(View(r, W, A), W, Applied(r), Sampled')
             /\ EntriesOK(queue'[r], Idx', slots'[r], gen'[r], View(r, W, A), W, R, pos, c,
                          Applied(r), Current(r))
  <2>1. /\ Settled(View(r, W, A), W, Applied(r), Sampled)
        /\ EntriesOK(queue[r], Idx, slots[r], gen[r], View(r, W, A), W, R, pos, c,
                     Applied(r), Current(r))
    BY <1>5 DEF RankOK
  <2>2. /\ next \in Nat /\ next > 0 /\ Current(r) \in 1 .. next /\ Sampled \in 0 .. next - 1
    BY CurrentIs
  <2>3. PICK a, e, n, o, m : a = View(r, W, A) /\ e = Applied(r) /\ n = Sampled /\ o = Sampled' /\ m = next - 1
    OBVIOUS
  <2>4. e \in Int /\ n \in Int /\ o \in Int /\ n <= o /\ m \in Nat
    BY <2>2, <2>3, <1>5, Constants DEF Applied
  <2>5. Upto(a, W, R, m) /\ Prolongs(W, R, W, R, m)
    BY <2>3, ViewIs DEF Prolongs
  <2>6. Settled(a, W, e, n)
    BY <2>1, <2>3
  <2>7. Settled(a, W, e, o)
    BY <2>4, <2>5, <2>6, SettledKeeps
  <2> QED BY <2>1, <2>3, <2>7, <1>3, <1>5
<1> QED BY <1>1, <1>2, <1>4, <1>5 DEF RankOK

LEMMA SchedulerStays ==
  ASSUME NEW W, NEW R, NEW A, SchedulerOK(W, R, A), next' = next, reqs' = reqs, Pending(W, R)'
  PROVE  SchedulerOK(W, R, A)'
BY DEF SchedulerOK

LEMMA SentStays ==
  ASSUME NEW W, NEW R, Scheduled(W), SentOK(R), bc'[Last] = bc[Last], Sampled' \in Int, Sampled <= Sampled',
         NEW pos, NEW G, NEW c, Relayed(W, pos, G, c)
  PROVE  SentOK(R)'
<1>1. ASSUME NEW j \in 1 .. Len(bc[Last])
      PROVE  /\ bc[Last][j].step <= Sampled'
             /\ bc[Last][j].kind = "combined" => bc[Last][j].rej = R[bc[Last][j].step]
  <2>1. /\ bc[Last][j].step <= Sampled
        /\ bc[Last][j].kind = "combined" => bc[Last][j].rej = R[bc[Last][j].step]
    BY DEF SentOK
  <2>2. bc[Last][j].step \in Nat
    BY OpsHaveSteps
  <2>3. Sampled \in Int
    BY CurrentIs, LastIsARank
  <2> QED BY <2>1, <2>2, <2>3
<1> QED BY <1>1 DEF SentOK

-----------------------------------------------------------------------------
(* Forward preserves the invariant.                                        *)

LEMMA ForwardHolds ==
  ASSUME NEW W, NEW pos, NEW G, NEW c, NEW R, NEW A, Holds(W, pos, G, c, R, A),
         NEW r \in Ranks, Forward(r), max_num_reqs' = max_num_reqs
  PROVE  Holds(W, pos, G, c, R, A)'
<1>1. /\ Scheduled(W) /\ Relayed(W, pos, G, c) /\ History(W, R, A) /\ SchedulerOK(W, R, A)
      /\ \A s \in Ranks : RankOK(s, W, R, A, pos, c)
      /\ SentOK(R) /\ Shape
  BY DEF Holds
<1>2. /\ ph[r] = "forward" /\ ph' = [ph EXCEPT ![r] = "sample"]
      /\ next' = next /\ reqs' = reqs /\ results' = results /\ todo' = todo /\ slots' = slots
      /\ gen' = gen /\ queue' = queue /\ bc' = bc
  BY DEF Forward
<1>3. Scheduled(W)' /\ Relayed(W, pos, G, c)'
  BY <1>1, ForwardStep
<1>4. DOMAIN ph = Ranks /\ ph'[r] = "sample" /\ \A s \in Ranks \ {r} : ph'[s] = ph[s]
  BY <1>1, <1>2 DEF Scheduled
<1>5. Sampled' = Sampled /\ Sampled \in Nat
  <2>1. Sampled \in Nat
    BY <1>1, CurrentIs, LastIsARank
  <2>2. ph'[Last] = "propose" <=> ph[Last] = "propose"
    BY <1>2, <1>4, LastIsARank
  <2> QED BY <2>1, <2>2, <1>2 DEF Sampled
<1>6. ASSUME NEW s \in Ranks PROVE RankOK(s, W, R, A, pos, c)'
  <2>1. CASE s # r
    <3>1. ph'[s] = ph[s] /\ Sampled' \in Int /\ Sampled <= Sampled'
      BY <2>1, <1>4, <1>5
    <3> QED BY <3>1, <1>1, <1>2, RankStays
  <2>2. CASE s = r
    <3>1. /\ View(r, W, A)' = View(r, W, A) /\ Applied(r)' = Applied(r)
          /\ Proposing(r)' = Proposing(r) /\ Current(r)' = Current(r) /\ Idx' = Idx
      BY <1>2, <1>4 DEF View, Applied, Proposing, Current, Idx
    <3>2. RankOK(r, W, R, A, pos, c)
      BY <1>1
    <3> QED BY <2>2, <3>1, <3>2, <1>2, <1>5 DEF RankOK
  <2> QED BY <2>1, <2>2
<1>7. SchedulerOK(W, R, A)'
  <2>1. Pending(W, R)'
    BY <1>1, <1>2, <1>5 DEF SchedulerOK, Pending
  <2> QED BY <2>1, <1>1, <1>2, SchedulerStays
<1>8. SentOK(R)' /\ Shape'
  BY <1>1, <1>2, <1>5 DEF SentOK, Shape
<1> QED BY <1>1, <1>2, <1>3, <1>6, <1>7, <1>8, HistoryStays DEF Holds
-----------------------------------------------------------------------------
(* Update preserves the invariant.                                         *)

\* The rows after an Update, in the terms of the invariant.
LEMMA PlaceIs ==
  ASSUME NEW r \in Ranks, NEW w, w = Work(r), NEW S, S = slots[r], NEW C, C = Consumed(r),
         \E at \in [w.new -> UnusedOf(Idx, S, w.gone)] : IsInjective(at)
  PROVE  \E at \in [w.new -> UnusedOf(Idx, S, w.gone)] :
            IsInjective(at) /\ Place(r) = PlacedIn(Idx, S, C, w, at)
<1>1. Freed(r) = FreedOf(Idx, S, w.gone) /\ Unused(r) = UnusedOf(Idx, S, w.gone)
  BY DEF Freed, FreedOf, Unused, UnusedOf
<1> DEFINE at == CHOOSE at \in [w.new -> UnusedOf(Idx, S, w.gone)] : IsInjective(at)
<1>2. at \in [w.new -> UnusedOf(Idx, S, w.gone)] /\ IsInjective(at)
  OBVIOUS
<1>3. at = CHOOSE f \in [Work(r).new -> Unused(r)] : IsInjective(f)
  BY <1>1
<1> HIDE DEF at
<1>4. Place(r) = PlacedIn(Idx, S, C, w, at)
  BY <1>1, <1>3 DEF Place, PlacedIn
<1> QED BY <1>2, <1>4

LEMMA WantedIs == \A r : Wanted(r) = WantedOf(Head(queue[r]), gen[r])
BY DEF Wanted, WantedOf

LEMMA ConsumedIs ==
  ASSUME NEW r \in Ranks
  PROVE  Consumed(r) = IF r = Last THEN slots[r]
                       ELSE TakenAll(Idx, slots[r], Head(queue[r]), gen[r])
BY WantedIs DEF Consumed, TakenAll, TakenFrom

RanAll(a, w) == [q \in Reqs |-> Ran(Entered(a[q], w, q), w, q)]

\* The view of a rank that is to start on step t.
LEMMA ViewBefore ==
  ASSUME NEW W, NEW R, NEW A, Scheduled(W), History(W, R, A), NEW t \in 1 .. next - 1,
         NEW a, a = A[t - 1]
  PROVE  /\ AllBefore(a, W, R, t) /\ OutputOK(W[t], a) /\ W[t].step = t
         /\ A[t] = RanAll(a, W[t]) /\ RowsWithin(W, next - 1)
<1>1. next \in Nat /\ t - 1 \in 0 .. next - 1
  BY DEF Scheduled
<1>2. AllBefore(a, W, R, t)
  BY <1>1, PastFacts DEF AllBefore
<1>3. /\ OutputOK(W[t], a) /\ A[t] = [q \in Reqs |-> Ran(Entered(a[q], W[t], q), W[t], q)]
      /\ \A u \in 1 .. next - 1 : OutputOK(W[u], A[u - 1])
  BY DEF History
<1>4. \A u \in 1 .. next - 1 : DOMAIN W[u].rows \subseteq Reqs
  BY <1>3 DEF OutputOK
<1> QED BY <1>2, <1>3, <1>4 DEF Scheduled, RanAll, RowsWithin

\* Before and after the Update of r.
LEMMA UpdateMoves ==
  ASSUME NEW W, NEW R, NEW A, Scheduled(W), History(W, R, A), NEW r \in Ranks, Update(r),
         Scheduled(W)', NEW t, t = Current(r), NEW a, a = A[t - 1]
  PROVE  /\ t \in 1 .. next - 1 /\ Work(r) = W[t] /\ todo[r] # <<>>
         /\ View(r, W, A) = a /\ View(r, W, A)' = EnteredAll(a, W[t])
         /\ r # Last => Applied(r) = t - P - 1 /\ Applied(r)' = t - P
         /\ r = Last => Applied(r) = next /\ Applied(r)' = next
         /\ Proposing(r) = 0 /\ Proposing(r)' = 0
         /\ Current(r)' = t \/ (Current(r)' = t + 1 /\ Need(W[t].rows) = {})
         /\ \A s \in Ranks \ {r} : todo'[s] = todo[s] /\ ph'[s] = ph[s]
         /\ Sampled' = IF r = Last /\ W[t].rows = <<>> THEN Sampled + 1 ELSE Sampled
<1>1. /\ todo[r] # <<>> /\ ph[r] = "update" /\ next' = next
      /\ IF Work(r).rows = <<>>
           THEN todo' = [todo EXCEPT ![r] = Tail(@)] /\ ph' = ph
           ELSE ph' = [ph EXCEPT ![r] = "forward"] /\ todo' = todo
  BY DEF Update
<1>2. /\ DOMAIN todo = Ranks /\ DOMAIN ph = Ranks /\ next \in Nat
      /\ t \in 1 .. next - 1 /\ Work(r) = W[t] /\ IsSeq(todo[r])
  <2>1. t \in 1 .. next - 1 /\ Work(r) = W[t]
    BY <1>1, CurrentIs
  <2> QED BY <2>1 DEF Scheduled, Before
<1>3. CASE W[t].rows = <<>>
  <2>1. todo'[r] = Tail(todo[r]) /\ ph'[r] = "update" /\ \A s \in Ranks \ {r} : todo'[s] = todo[s]
    BY <1>1, <1>2, <1>3
  <2>2. Len(todo'[r]) = Len(todo[r]) - 1 /\ Len(todo[r]) \in Nat
    BY <2>1, <1>1, <1>2, TailIsSeq
  <2>3. Current(r)' = t + 1
    BY <2>2, <1>1, <1>2 DEF Current
  <2>4. DOMAIN W[t].rows = {} /\ Need(W[t].rows) = {}
    BY <1>3 DEF Need
  <2>5. A[t] = EnteredAll(a, W[t])
    <3>1. A[t] = RanAll(a, W[t])
      BY <1>2, ViewBefore
    <3>2. \A q \in Reqs : Ran(Entered(a[q], W[t], q), W[t], q) = Entered(a[q], W[t], q)
      BY <2>4 DEF Ran
    <3> QED BY <3>1, <3>2 DEF EnteredAll, RanAll
  <2>10. PICK u : u = t + 1
    OBVIOUS
  <2>11. Current(r)' = u
    BY <2>3, <2>10
  <2>6. View(r, W, A) = a /\ View(r, W, A)' = A[u - 1]
    <3>1. View(r, W, A) = a
      BY <1>1 DEF View
    <3>2. View(r, W, A)' = A[Current(r)' - 1]
      BY <2>1 DEF View
    <3> QED BY <3>1, <3>2, <2>11
  <2>7. /\ r # Last => Applied(r) = t - P - 1 /\ Applied(r)' = u - P - 1
        /\ r = Last => Applied(r) = next /\ Applied(r)' = next
        /\ Proposing(r) = 0 /\ Proposing(r)' = 0
    <3>1. /\ r # Last => Applied(r) = t - P - 1
          /\ r = Last => Applied(r) = next
          /\ Proposing(r) = 0
      BY <1>1 DEF Applied, Proposing
    <3>2. /\ r # Last => Applied(r)' = Current(r)' - P - 1
          /\ r = Last => Applied(r)' = next
          /\ Proposing(r)' = 0
      BY <2>1, <1>1 DEF Applied, Proposing
    <3> QED BY <3>1, <3>2, <2>11
  <2>8. u - 1 = t /\ u - P - 1 = t - P
    BY <2>10, <1>2, Constants
  <2>9. Sampled' = IF r = Last THEN Sampled + 1 ELSE Sampled
    <3>1. Sampled = Current(Last) - IF ph[Last] = "propose" THEN 0 ELSE 1
      BY CurrentIs, LastIsARank
    <3>2. Sampled' = Current(Last)' - IF ph[Last] = "propose" THEN 0 ELSE 1
      BY <1>1, <1>2, <1>3 DEF Sampled, Current
    <3>3. CASE r = Last
      <4>1. Sampled = Current(r) - 1 /\ Sampled' = Current(r)' - 1
        BY <3>1, <3>2, <3>3, <2>1, <1>1
      <4> QED BY <4>1, <3>3, <2>10, <2>11, <1>2
    <3>4. CASE r # Last
      <4>1. Current(Last)' = Current(Last)
        BY <3>4, <2>1, <1>1, LastIsARank DEF Current
      <4> QED BY <4>1, <3>1, <3>2, <3>4
    <3> QED BY <3>3, <3>4
  <2> QED BY <2>1, <2>3, <2>4, <2>5, <2>6, <2>7, <2>8, <2>9, <1>1, <1>2, <1>3
<1>4. CASE W[t].rows # <<>>
  <2>1. ph'[r] = "forward" /\ todo' = todo /\ \A s \in Ranks \ {r} : ph'[s] = ph[s]
    BY <1>1, <1>2, <1>4
  <2>2. Current(r)' = t
    BY <2>1, <1>1 DEF Current
  <2>3. View(r, W, A) = a /\ View(r, W, A)' = EnteredAll(a, W[t])
    BY <2>1, <2>2, <1>1 DEF View, EnteredAll
  <2>4. /\ r # Last => Applied(r) = t - P - 1 /\ Applied(r)' = t - P - 0
        /\ r = Last => Applied(r) = next /\ Applied(r)' = next
        /\ Proposing(r) = 0 /\ Proposing(r)' = 0
    BY <2>1, <2>2, <1>1 DEF Applied, Proposing
  <2>5. t - P - 0 = t - P
    BY <1>2, Constants
  <2>6. Sampled' = Sampled
    <3>1. ph'[Last] = "propose" <=> ph[Last] = "propose"
      BY <2>1, <1>1, LastIsARank
    <3> QED BY <3>1, <2>1, <1>1 DEF Sampled
  <2> QED BY <2>1, <2>2, <2>3, <2>4, <2>5, <2>6, <1>1, <1>2, <1>4
<1> QED BY <1>3, <1>4
LEMMA IdxIsFinite == max_num_reqs \in Nat => IsFiniteSet(Idx) /\ Cardinality(Idx) = max_num_reqs
<1> SUFFICES ASSUME max_num_reqs \in Nat PROVE IsFiniteSet(Idx) /\ Cardinality(Idx) = max_num_reqs
  OBVIOUS
<1>1. PICK n : n = max_num_reqs
  OBVIOUS
<1>2. n \in Nat /\ 1 \in Int
  BY <1>1
<1>3. IsFiniteSet(1 .. n) /\ Cardinality(1 .. n) = IF 1 > n THEN 0 ELSE n - 1 + 1
  BY <1>2, FS_Interval
<1>4. Cardinality(1 .. n) = n
  BY <1>2, <1>3
<1> QED BY <1>1, <1>3, <1>4 DEF Idx

LEMMA RankUpdated ==
  ASSUME NEW W, NEW pos, NEW G, NEW c, NEW R, NEW A, Scheduled(W), Relayed(W, pos, G, c),
         History(W, R, A), Shape, NEW r \in Ranks, RankOK(r, W, R, A, pos, c),
         Update(r), Scheduled(W)', max_num_reqs' = max_num_reqs
  PROVE  RankOK(r, W, R, A, pos, c)'
<1>1. PICK t, a : t = Current(r) /\ a = A[t - 1]
  OBVIOUS
<1>2. /\ t \in 1 .. next - 1 /\ Work(r) = W[t] /\ todo[r] # <<>>
      /\ View(r, W, A) = a /\ View(r, W, A)' = EnteredAll(a, W[t])
      /\ r # Last => Applied(r) = t - P - 1 /\ Applied(r)' = t - P
      /\ r = Last => Applied(r) = next /\ Applied(r)' = next
      /\ Proposing(r) = 0 /\ Proposing(r)' = 0
      /\ Current(r)' = t \/ (Current(r)' = t + 1 /\ Need(W[t].rows) = {})
      /\ r # Last => Sampled' = Sampled
  BY <1>1, UpdateMoves
<1>3. /\ AllBefore(a, W, R, t) /\ OutputOK(W[t], a) /\ W[t].step = t
      /\ RowsWithin(W, next - 1)
  BY <1>1, <1>2, ViewBefore
<1>4. PICK w, b : w = W[t] /\ b = EnteredAll(a, w)
  OBVIOUS
<1>5. /\ w.gone \subseteq Running(a) /\ w.new \subseteq Reqs \ Running(a) /\ w.step \in Nat \ {0}
      /\ Cardinality(Running(a) \ w.gone) + Cardinality(w.new) <= max_num_reqs
  BY <1>2, <1>3, <1>4 DEF OutputOK
<1>6. PICK I, S, g, C : I = Idx /\ S = slots[r] /\ g = gen[r] /\ C = Consumed(r)
  OBVIOUS
<1>7. PICK e, p : e = Applied(r) /\ p = 0
  OBVIOUS
<1>8. RowsOK(I, S, g, a, W, R, e, 0)
  BY <1>2, <1>6, <1>7 DEF RankOK
<1>9. Placed(I, S, a) /\ \A i \in I : g[i] \in Nat
  BY <1>8 DEF RowsOK
<1>10. None \notin Reqs /\ IsFiniteSet(Reqs)
  BY SlotsAssumption
<1>11. PICK at \in [w.new -> UnusedOf(I, S, w.gone)] : IsInjective(at) /\ Place(r) = PlacedIn(I, S, C, w, at)
  <2>1. IsFiniteSet(I) /\ Cardinality(I) = max_num_reqs
    BY <1>6, IdxIsFinite DEF Shape
  <2>2. Cardinality(Running(a) \ w.gone) + Cardinality(w.new) <= Cardinality(I) /\ w.new \subseteq Reqs
    BY <2>1, <1>5
  <2>3. \E at \in [w.new -> UnusedOf(I, S, w.gone)] : IsInjective(at)
    BY <2>1, <2>2, <1>9, <1>10, RoomForNew
  <2> QED BY <2>3, <1>2, <1>4, <1>6, PlaceIs
<1>12. PICK T, h : T = PlacedIn(I, S, C, w, at) /\ h = Bumped(I, S, g, w)
  OBVIOUS
<1>13. slots'[r] = T /\ gen'[r] = h /\ Idx' = I
  <2>1. /\ slots' = [slots EXCEPT ![r] = Place(r)]
        /\ gen' = [gen EXCEPT ![r] = [i \in Idx |-> IF i \in Freed(r) THEN @[i] + 1 ELSE @[i]]]
    BY DEF Update
  <2>2. Freed(r) = FreedOf(I, S, w.gone)
    BY <1>2, <1>4, <1>6 DEF Freed, FreedOf
  <2>3. slots'[r] = T
    BY <2>1, <1>11, <1>12 DEF Shape
  <2>4. gen'[r] = [i \in I |-> IF i \in FreedOf(I, S, w.gone) THEN g[i] + 1 ELSE g[i]]
    BY <2>1, <2>2, <1>6 DEF Shape
  <2> QED BY <2>3, <2>4, <1>6, <1>12 DEF Bumped, Idx
<1>14. CASE r = Last
  <2>1. C = S
    BY <1>6, <1>14, ConsumedIs
  <2>2. Takes(C, I, S, a, W, R, e, 0)
    BY <2>1, <1>8 DEF RowsOK, Placed, Takes
  <2>3. RowsOK(I, T, h, b, W, R, e, 0)
    BY <2>2, <1>4, <1>5, <1>8, <1>10, <1>11, <1>12, RowsPlaced
  <2>4. e = Applied(r)'
    BY <1>2, <1>7, <1>14
  <2> QED BY <2>3, <2>4, <1>2, <1>4, <1>13, <1>14 DEF RankOK
<1>15. CASE r # Last
  <2>1. PICK v, Q, x : v = t - P /\ Q = queue[r] /\ x = Head(Q)
    OBVIOUS
  <2>2. /\ t \in Nat /\ t > 0 /\ v \in Int /\ v < t /\ e = v - 1 /\ e + 1 = v /\ e = t - P - 1
        /\ P \in Nat /\ P >= 2
    BY <2>1, <1>2, <1>7, <1>15, Constants
  <2>3. /\ Settled(a, W, e, Sampled)
        /\ EntriesOK(Q, I, S, g, a, W, R, pos, c, e, t)
    BY <2>1, <1>1, <1>2, <1>6, <1>7, <1>15 DEF RankOK
  <2>4. IsSeq(Q) /\ Len(Q) = P /\ EntryOK(Q[1], e + 1, I, S, g, a, W, R, pos, c, t)
    <3>1. 1 \in 1 .. P
      BY <2>2
    <3> QED BY <3>1, <2>3 DEF EntriesOK
  <2>5. x = Q[1]
    <3>1. Q # <<>>
      BY <2>2, <2>4, SeqLen
    <3> QED BY <3>1, <2>1, <2>4, TailIsSeq
  <2>6. EntryOK(x, v, I, S, g, a, W, R, pos, c, t)
    BY <2>2, <2>4, <2>5
  <2>7. v > 0 => v \in 1 .. next - 1 /\ v \in 1 .. t - 1
    <3>1. next \in Nat
      BY DEF Scheduled
    <3> QED BY <3>1, <2>2, <1>2
  <2>8. v > 0 => DOMAIN W[v].rows \subseteq Reqs
    BY <2>7, <1>3 DEF RowsWithin
  <2>9. /\ c \in Nat
        /\ v > 0 => pos[v] \in Nat /\ (v > Sampled => c <= pos[v])
    <3>1. c \in Nat
      BY DEF Relayed
    <3> QED BY <3>1, <2>7, NotYet
  <2>10. C = TakenAll(I, S, x, g) /\ Wanted(r) = WantedOf(x, g)
    BY <2>1, <1>6, <1>15, ConsumedIs, WantedIs
  <2>11. /\ WantedOf(x, g) # {} => x.left = 0
         /\ queue' = [queue EXCEPT ![r] = Append(Tail(@), NoRecv)]
    <3>1. Rotate(r)
      BY DEF Update
    <3> QED BY <3>1, <2>1, <2>10, <1>15 DEF Rotate
  <2>12. queue'[r] = Append(Tail(Q), NoRecv)
    BY <2>1, <2>11, <1>15 DEF Shape
  <2>13. Takes(C, I, S, a, W, R, v, 0)
    BY <2>2, <2>1, <2>6, <2>8, <2>9, <2>10, <2>11, <1>3, <1>8, <1>10, RowsTake
  <2>14. /\ RowsOK(I, T, h, b, W, R, v, 0)
         /\ \A i \in I : S[i].req \in Running(a) \ w.gone => T[i].req = S[i].req
    BY <2>13, <1>4, <1>5, <1>8, <1>10, <1>11, <1>12, RowsPlaced
  <2>15. Settled(b, W, v, Sampled)
    <3>1. PICK sd : sd = Sampled
      OBVIOUS
    <3>2. /\ sd \in Int /\ (v > 0 /\ v > sd => c <= pos[v]) /\ Settled(a, W, e, sd)
          /\ v > 0 => pos[v] \in Nat
      BY <3>1, <2>3, <2>9, CurrentIs, LastIsARank
    <3>3. Settled(b, W, v, sd)
      BY <3>2, <2>1, <2>2, <2>6, <2>8, <2>9, <2>11, <1>3, <1>4, <1>5, SettledNext
    <3> QED BY <3>1, <3>3
  <2>16. EntriesOK(queue'[r], I, T, h, b, W, R, pos, c, v, Current(r)')
    <3>1. PICK f : f = Current(r)'
      OBVIOUS
    <3>2. f = t \/ (f = t + 1 /\ Need(w.rows) = {})
      BY <3>1, <1>2, <1>4
    <3>3. RowsWithin(W, t - 1) /\ Counts(I, g) /\ SameReqs(I, S, T, Running(a) \ w.gone)
      <4>1. next \in Nat
        BY DEF Scheduled
      <4>2. \A u \in 1 .. t - 1 : u \in 1 .. next - 1
        BY <4>1, <1>2
      <4>3. RowsWithin(W, t - 1)
        BY <4>2, <1>3 DEF RowsWithin
      <4> QED BY <4>3, <2>14, <1>9 DEF Counts, SameReqs
    <3>4. PICK Z : Z = Append(Tail(Q), NoRecv)
      OBVIOUS
    <3>5. w.step = t
      BY <1>3, <1>4
    <3>6. EntriesOK(Z, I, T, h, b, W, R, pos, c, e + 1, f)
      <4>1. StepOf(w, t, W, a, b, I, S, g, T, h)
        BY <2>2, <1>4, <1>5, <1>12, <3>3, <3>5 DEF StepOf
      <4>2. e = t - P - 1 /\ EntriesOK(Q, I, S, g, a, W, R, pos, c, e, t)
        BY <2>2, <2>3
      <4> QED BY <3>2, <3>4, <4>1, <4>2, EntriesRotate
    <3> QED BY <3>1, <3>4, <3>6, <2>2, <2>12
  <2>17. Applied(r)' = v
    BY <2>1, <1>2, <1>15
  <2> QED BY <2>14, <2>15, <2>16, <2>17, <1>2, <1>4, <1>13, <1>15 DEF RankOK
<1> QED BY <1>14, <1>15

\* One more output for the scheduler.
SameUpto(Z, R, s) == \A u \in 1 .. s : Z[u] = R[u]

LEMMA PendingGrows ==
  ASSUME NEW W, NEW R, Scheduled(W), Pending(W, R), next' = next, Sampled' = Sampled + 1,
         NEW o, results' = Append(results, o), NEW Z,
         SameUpto(Z, R, Sampled), ResultOK(o, W[Sampled + 1], Z[Sampled + 1])
  PROVE  Pending(W, Z)'
<1> PICK s : s = Sampled
  OBVIOUS
<1>1. /\ next \in Nat /\ next > 0 /\ s \in 0 .. next - 1
  BY CurrentIs, LastIsARank
<1>2. PICK l, n : l = Larger(1, next - P) /\ n = Len(results)
  OBVIOUS
<1>3. /\ IsSeq(results) /\ l + n = s + 1
      /\ \A k \in 1 .. n : ResultOK(results[k], W[l + k - 1], R[l + k - 1])
  BY <1>2 DEF Pending
<1>4. n \in Nat /\ l \in Nat /\ l > 0
  BY <1>1, <1>2, <1>3, SeqLen, Constants DEF Larger
<1>5. /\ IsSeq(results') /\ Len(results') = n + 1 /\ results'[n + 1] = o
      /\ \A k \in 1 .. n : results'[k] = results[k]
  BY <1>2, <1>3, AppendIsSeq
<1>6. ASSUME NEW k \in 1 .. n + 1 PROVE ResultOK(results'[k], W[l + k - 1], Z[l + k - 1])
  <2>1. CASE k = n + 1
    <3>1. l + k - 1 = s + 1
      BY <2>1, <1>1, <1>3, <1>4
    <3> QED BY <3>1, <2>1, <1>5
  <2>2. CASE k # n + 1
    <3>1. k \in 1 .. n /\ l + k - 1 \in 1 .. s
      BY <2>2, <1>1, <1>3, <1>4
    <3> QED BY <3>1, <1>3, <1>5 DEF SameUpto
  <2> QED BY <2>1, <2>2
<1>7. l + (n + 1) = s + 1 + 1
  <2>1. l + n = s + 1 /\ l \in Nat /\ n \in Nat /\ s \in Nat
    BY <1>1, <1>3, <1>4
  <2> QED BY <2>1
<1> QED BY <1>2, <1>5, <1>6, <1>7 DEF Pending

LEMMA UpdateHolds ==
  ASSUME NEW W, NEW pos, NEW G, NEW c, NEW R, NEW A, Holds(W, pos, G, c, R, A),
         NEW r \in Ranks, Update(r), max_num_reqs' = max_num_reqs
  PROVE  Holds(W, pos, G, c, R, A)'
<1>1. /\ Scheduled(W) /\ Relayed(W, pos, G, c) /\ History(W, R, A) /\ SchedulerOK(W, R, A)
      /\ \A s \in Ranks : RankOK(s, W, R, A, pos, c)
      /\ SentOK(R) /\ Shape
  BY DEF Holds
<1>2. Scheduled(W)' /\ Relayed(W, pos, G, c)'
  BY <1>1, UpdateStep
<1>3. /\ next' = next /\ reqs' = reqs /\ bc' = bc
      /\ slots' = [slots EXCEPT ![r] = Place(r)]
      /\ DOMAIN gen' = DOMAIN gen /\ \A s \in Ranks \ {r} : gen'[s] = gen[s]
      /\ IF r = Last THEN queue' = queue ELSE queue' = [queue EXCEPT ![r] = Append(Tail(@), NoRecv)]
      /\ IF r = Last /\ Work(r).rows = <<>> THEN results' = Append(results, NoOutput(Work(r).step))
                                            ELSE results' = results
  <2>1. /\ next' = next /\ reqs' = reqs /\ bc' = bc
        /\ slots' = [slots EXCEPT ![r] = Place(r)]
        /\ gen' = [gen EXCEPT ![r] = [i \in Idx |-> IF i \in Freed(r) THEN @[i] + 1 ELSE @[i]]]
        /\ IF r = Last /\ Work(r).rows = <<>>
             THEN results' = Append(results, NoOutput(Work(r).step)) ELSE results' = results
    BY Zenon DEF Update
  <2>2. Rotate(r)
    BY DEF Update
  <2> QED BY <2>1, <2>2 DEF Rotate
<1>4. PICK t : t = Current(r)
  OBVIOUS
<1>5. /\ t \in 1 .. next - 1 /\ Work(r) = W[t]
      /\ \A s \in Ranks \ {r} : todo'[s] = todo[s] /\ ph'[s] = ph[s]
      /\ Sampled' = IF r = Last /\ W[t].rows = <<>> THEN Sampled + 1 ELSE Sampled
  BY <1>1, <1>2, <1>4, UpdateMoves
<1>6. Sampled \in Nat /\ Sampled' \in Int /\ Sampled <= Sampled'
  BY <1>1, <1>5, CurrentIs, LastIsARank
<1>7. Shape'
  BY <1>1, <1>3 DEF Shape
<1>8. ASSUME NEW s \in Ranks PROVE RankOK(s, W, R, A, pos, c)'
  <2>1. CASE s = r
    BY <2>1, <1>1, <1>2, RankUpdated
  <2>2. CASE s # r
    <3>1. slots'[s] = slots[s] /\ gen'[s] = gen[s] /\ (s # Last => queue'[s] = queue[s])
      BY <2>2, <1>1, <1>3 DEF Shape
    <3> QED BY <3>1, <2>2, <1>1, <1>3, <1>5, <1>6, RankStays
  <2> QED BY <2>1, <2>2
<1>9. Pending(W, R)'
  <2>1. CASE r = Last /\ W[t].rows = <<>>
    <3>1. PICK s, o : s = Sampled /\ o = NoOutput(t)
      OBVIOUS
    <3>2. s + 1 = t /\ W[t].step = t
      <4>1. ph[Last] = "update"
        BY <2>1 DEF Update
      <4>2. s = t - 1
        BY <3>1, <4>1, <2>1, <1>1, <1>4, CurrentIs, LastIsARank
      <4> QED BY <4>2, <1>1, <1>5 DEF Scheduled
    <3>3. ResultOK(o, W[t], R[t])
      <4>1. DOMAIN W[t].rows = {}
        BY <2>1
      <4> QED BY <4>1, <3>1, <3>2 DEF ResultOK, NoOutput
    <3>4. results' = Append(results, o)
      BY <3>1, <3>2, <2>1, <1>3, <1>5
    <3>5. Pending(W, R) /\ Sampled' = Sampled + 1
      BY <2>1, <1>1, <1>5 DEF SchedulerOK
    <3>6. ResultOK(o, W[Sampled + 1], R[Sampled + 1])
      BY <3>1, <3>2, <3>3
    <3>7. SameUpto(R, R, Sampled)
      BY DEF SameUpto
    <3> QED BY <3>4, <3>5, <3>6, <3>7, <1>1, <1>3, PendingGrows
  <2>2. CASE ~ (r = Last /\ W[t].rows = <<>>)
    BY <2>2, <1>1, <1>3, <1>5 DEF SchedulerOK, Pending
  <2> QED BY <2>1, <2>2
<1>10. SchedulerOK(W, R, A)'
  BY <1>1, <1>3, <1>9, SchedulerStays
<1>11. SentOK(R)'
  BY <1>1, <1>3, <1>6, SentStays
<1> QED BY <1>1, <1>2, <1>3, <1>7, <1>8, <1>10, <1>11, HistoryStays DEF Holds
-----------------------------------------------------------------------------
(* Receive preserves the invariant.                                        *)

\* The view of a rank in the midst of step t.
RowsHold(W, R, b, t) == \A q \in DOMAIN W[t].rows : RowOK(W, R, b[q], t, q) /\ q \in Running(b)

During(W, R, b, t) ==
    \A q \in Reqs : Backed(b[q], W, R, q) /\ b[q].seen \in 0 .. t - 1 /\ b[q].since \in 0 .. t

LEMMA ViewDuring ==
  ASSUME NEW W, NEW R, NEW A, Scheduled(W), History(W, R, A), NEW r \in Ranks,
         ph[r] \in {"forward", "sample"}, NEW t, t = Current(r),
         NEW b, b = EnteredAll(A[t - 1], W[t])
  PROVE  /\ next \in Nat /\ t \in 1 .. next - 1 /\ Work(r) = W[t] /\ W[t].step = t
         /\ View(r, W, A) = b /\ A[t] = RanAll(A[t - 1], W[t])
         /\ RowsWithin(W, next - 1) /\ RowsHold(W, R, b, t) /\ During(W, R, b, t)
<1>1. /\ next \in Nat /\ t \in 1 .. next - 1 /\ Work(r) = W[t] /\ W[t].step = t
  BY CurrentIs
<1>2. View(r, W, A) = b
  BY DEF View, EnteredAll
<1>3. A[t] = RanAll(A[t - 1], W[t]) /\ RowsWithin(W, next - 1)
  BY <1>1, ViewBefore
<1>4. \A q \in Reqs : b[q] = Entered(A[t - 1][q], W[t], q)
  BY DEF EnteredAll
<1>5. RowsHold(W, R, b, t)
  <2>1. ASSUME NEW q \in DOMAIN W[t].rows PROVE RowOK(W, R, b[q], t, q) /\ q \in Running(b)
    <3>1. q \in Reqs
      BY <1>1, <1>3 DEF RowsWithin
    <3>2. RowOK(W, R, Entered(A[t - 1][q], W[t], q), t, q)
      BY <1>1 DEF History
    <3>3. RowOK(W, R, b[q], t, q)
      BY <3>1, <3>2, <1>4
    <3>4. b[q].since > 0
      BY <3>3 DEF RowOK
    <3> QED BY <3>1, <3>3, <3>4 DEF Running
  <2> QED BY <2>1 DEF RowsHold
<1>6. During(W, R, b, t)
  <2>1. ASSUME NEW q \in Reqs
        PROVE  Backed(b[q], W, R, q) /\ b[q].seen \in 0 .. t - 1 /\ b[q].since \in 0 .. t
    <3>1. PICK w, x : w = W[t] /\ x = b[q]
      OBVIOUS
    <3>2. w.step = t /\ x = Entered(A[t - 1][q], w, q) /\ t \in 1 .. next
      BY <3>1, <1>1, <1>4
    <3> QED BY <3>1, <3>2, <1>1, EnteredFacts
  <2> QED BY <2>1 DEF During
<1> QED BY <1>1, <1>2, <1>3, <1>5, <1>6

\* A request of the step, after it: Z may say more of the step than R.
LEMMA ComputedRan ==
  ASSUME NEW W, NEW R, NEW b, NEW q, NEW t \in Nat, t > 0, NEW w, w = W[t], w.step = t,
         q \in DOMAIN w.rows, RowOK(W, R, b, t, q), Backed(b, W, R, q), b.seen \in 0 .. t - 1,
         NEW e \in Int, t - P <= e, NEW C, C = Net(W, R, b.seen, q, e),
         NEW Z, Z[t][q] \in Nat, NEW D, D = C + w.rows[q].n - IF t <= e THEN Z[t][q] ELSE 0,
         NEW d, d = Ran(b, w, q)
  PROVE  /\ D = Net(W, Z, d.seen, q, e) /\ d.since = b.since /\ d.seen = t
         /\ d.prev = IF Samples(w.rows[q]) THEN t ELSE 0
         /\ Samples(w.rows[q]) \/ b.prev = 0
<1>1. PICK row : row = w.rows[q]
  OBVIOUS
<1>2. /\ row.old = Net(W, R, b.seen, q, t) /\ row.old \in Nat /\ row.n \in Nat
      /\ IF IsDecode(row) THEN b.prev > 0 /\ b.prev + P <= t /\ Samples(row) ELSE b.prev = 0
  <2>1. IsDecode(row) => Samples(row)
    BY <1>1, RowFacts
  <2> QED BY <2>1, <1>1 DEF RowOK
<1>3. C = row.old
  <2>1. b.prev > 0 => b.prev + P <= t
    BY <1>2
  <2>2. b.seen <= t
    OBVIOUS
  <2>3. Net(W, R, b.seen, q, e) = Net(W, R, b.seen, q, t)
    BY <2>1, <2>2, NetSettles
  <2> QED BY <2>3, <1>2
<1>4. d = [since |-> b.since, seen |-> t, prev |-> IF Samples(row) THEN t ELSE b.prev]
  BY <1>1 DEF Ran
<1>5. PICK z : z = IF t <= e THEN Z[t][q] ELSE 0
  OBVIOUS
<1>6. Net(W, Z, t, q, e) = row.old + row.n - z
  BY <1>1, <1>5 DEF Net
<1>7. D = row.old + row.n - z
  BY <1>1, <1>3, <1>5
<1> QED BY <1>1, <1>2, <1>4, <1>6, <1>7

\* The rows S after the forward, rows being those of the step.
MovedBy(s, n, d) == [s EXCEPT !.computed = @ + n - d]
MovedAll(I, S, rows, rej) ==
    [i \in I |-> IF S[i].req \in DOMAIN rows
                   THEN MovedBy(S[i], rows[S[i].req].n, rej[S[i].req]) ELSE S[i]]

LEMMA MovedIs ==
  ASSUME NEW s, IsSlot(s), NEW n, NEW d, NEW x, x = MovedBy(s, n, d)
  PROVE  /\ IsSlot(x) /\ x.req = s.req /\ x.computed = s.computed + n - d
         /\ x.last = s.last /\ x.draft = s.draft
<1>1. PICK y : y = s.computed + n - d
  OBVIOUS
<1>2. x = [req |-> s.req, computed |-> y, last |-> s.last, draft |-> s.draft]
  BY <1>1 DEF MovedBy, IsSlot
<1> QED BY <1>1, <1>2 DEF IsSlot

LEMMA AdvancedIs ==
  ASSUME NEW r, NEW rows, NEW rej
  PROVE  Advanced(r, rows, rej) = MovedAll(Idx, slots[r], rows, rej)
BY DEF Advanced, MovedAll, MovedBy

\* The requests that run do not change by running.
RunsOn(b, d, w) ==
    /\ Running(d) = Running(b)
    /\ \A q \in Reqs : d[q] = Ran(b[q], w, q) /\ d[q].since = b[q].since

LEMMA StillRunning ==
  ASSUME NEW a, NEW w, NEW b, b = EnteredAll(a, w), NEW d, d = RanAll(a, w)
  PROVE  RunsOn(b, d, w)
<1>1. \A q \in Reqs : d[q] = Ran(b[q], w, q)
  BY DEF EnteredAll, RanAll
<1>2. ASSUME NEW x, NEW q PROVE Ran(x, w, q).since = x.since
  BY DEF Ran
<1>3. \A q \in Reqs : d[q].since = b[q].since
  BY <1>1, <1>2
<1> QED BY <1>1, <1>3 DEF Running, RunsOn

LEMMA PlacedStays ==
  ASSUME NEW I, NEW S, NEW b, NEW d, Placed(I, S, b), Running(d) = Running(b),
         NEW T, DOMAIN T = I, \A i \in I : IsSlot(T[i]) /\ T[i].req = S[i].req
  PROVE  Placed(I, T, d)
BY DEF Placed

LEMMA RowsReceived ==
  ASSUME NEW W, NEW R, NEW t \in Nat, t > 0, NEW w, w = W[t], w.step = t,
         NEW b, NEW d, RunsOn(b, d, w), RowsHold(W, R, b, t), During(W, R, b, t),
         NEW e \in Int, e < t, t - P <= e, NEW I, NEW S, NEW g, RowsOK(I, S, g, b, W, R, e, 0),
         NEW rej, rej = Zero(w.rows), NEW T, T = MovedAll(I, S, w.rows, rej), NEW sd,
         Settled(b, W, e, sd)
  PROVE  RowsOK(I, T, g, d, W, R, e, 0) /\ Settled(d, W, e, sd)
<1>1. e \in Int /\ e < t /\ ~ (t <= e) /\ t - P <= e
  OBVIOUS
<1>2. /\ Running(d) = Running(b) /\ Running(b) \subseteq Reqs
      /\ \A q \in Reqs : d[q] = Ran(b[q], w, q) /\ d[q].since = b[q].since
  BY DEF Running, RunsOn
<1>3. /\ Placed(I, S, b) /\ DOMAIN g = I /\ \A i \in I : g[i] \in Nat
      /\ \A i \in I : S[i].req # None => SlotOK(S[i], b[S[i].req], W, R, S[i].req, e, 0)
  BY DEF RowsOK
<1>4. \A i \in I : IsSlot(S[i]) /\ (S[i].req # None => S[i].req \in Running(b))
  BY <1>3 DEF Placed
<1>5. /\ DOMAIN T = I
      /\ \A i \in I : T[i] = IF S[i].req \in DOMAIN w.rows
                               THEN MovedBy(S[i], w.rows[S[i].req].n, rej[S[i].req]) ELSE S[i]
  BY DEF MovedAll
<1>6. \A i \in I : IsSlot(T[i]) /\ T[i].req = S[i].req
  BY <1>4, <1>5, MovedIs
<1>7. Placed(I, T, d)
  BY <1>2, <1>3, <1>5, <1>6, PlacedStays
<1>8. ASSUME NEW i \in I, T[i].req # None
      PROVE  SlotOK(T[i], d[T[i].req], W, R, T[i].req, e, 0)
  <2>1. PICK q, s, x : q = S[i].req /\ s = S[i] /\ x = T[i]
    OBVIOUS
  <2>2. /\ q \in Reqs /\ x.req = q /\ IsSlot(s) /\ SlotOK(s, b[q], W, R, q, e, 0)
        /\ q # None
    BY <2>1, <1>2, <1>3, <1>4, <1>6, <1>8
  <2>3. PICK bq, dq : bq = b[q] /\ dq = d[q]
    OBVIOUS
  <2>4. dq = Ran(bq, w, q) /\ Backed(bq, W, R, q) /\ bq.seen \in 0 .. t - 1
    BY <2>2, <2>3, <1>2 DEF During
  <2>5. s.computed = Net(W, R, bq.seen, q, e)
        /\ (Relays(bq, W, q, e) => s.last = bq.prev /\ (K > 0 /\ bq.prev # 0 => s.draft = bq.prev))
    BY <2>2, <2>3 DEF SlotOK
  <2>6. CASE q \in DOMAIN w.rows
    <3>1. RowOK(W, R, bq, t, q)
      BY <2>3, <2>6 DEF RowsHold
    <3>2. R[t][q] \in Nat /\ w.rows[q].n \in Nat
      BY <3>1 DEF RowOK
    <3>3. rej[q] = 0 /\ x = MovedBy(s, w.rows[q].n, rej[q])
      BY <2>1, <2>6, <1>5 DEF Zero
    <3>4. x.computed = s.computed + w.rows[q].n - 0 /\ x.last = s.last /\ x.draft = s.draft
      BY <3>3, <2>2, MovedIs
    <3>5. PICK C, D : C = s.computed /\ D = x.computed
      OBVIOUS
    <3>6. D = C + w.rows[q].n - IF t <= e THEN R[t][q] ELSE 0
      BY <3>4, <3>5, <1>1
    <3>7. /\ D = Net(W, R, dq.seen, q, e) /\ dq.seen = t
          /\ dq.prev = IF Samples(w.rows[q]) THEN t ELSE 0
      BY <3>1, <3>2, <3>5, <3>6, <2>4, <2>5, <2>6, <1>1, ComputedRan
    <3>8. ~ Relays(dq, W, q, e)
      BY <3>7, <1>1 DEF Relays
    <3> QED BY <3>5, <3>7, <3>8, <2>1, <2>2, <2>3 DEF SlotOK
  <2>7. CASE q \notin DOMAIN w.rows
    <3>1. x = s /\ dq = bq
      BY <2>1, <2>4, <2>7, <1>5 DEF Ran
    <3> QED BY <3>1, <2>1, <2>2, <2>3
  <2> QED BY <2>6, <2>7
<1>9. RowsOK(I, T, g, d, W, R, e, 0)
  BY <1>3, <1>7, <1>8 DEF RowsOK
<1>10. Settled(d, W, e, sd)
  <2>1. SUFFICES ASSUME NEW q \in Running(d), d[q].seen > 0, d[q].seen <= e,
                        Drafts(W[d[q].seen].rows[q]) > 0
                 PROVE  d[q].seen <= sd
    BY DEF Settled
  <2>2. q \in Reqs /\ d[q] = Ran(b[q], w, q) /\ q \in Running(b)
    BY <1>2
  <2>3. q \notin DOMAIN w.rows
    BY <2>1, <2>2, <1>1 DEF Ran
  <2>4. d[q] = b[q]
    BY <2>2, <2>3 DEF Ran
  <2> QED BY <2>1, <2>2, <2>4 DEF Settled
<1> QED BY <1>9, <1>10
\* A receive that is to come.
LEMMA MarkedStays ==
  ASSUME NEW i, NEW h, NEW q, NEW v, NEW I, NEW S, NEW g, NEW b, Marked(i, h, q, v, I, S, g, b),
         NEW T, \A j \in I : T[j].req = S[j].req, NEW d, d[q].since = b[q].since
  PROVE  Marked(i, h, q, v, I, T, g, d)
BY DEF Marked

\* The entry that a rank has made for step v.
NewEntry(x, v, w, i, h) ==
    /\ IsEntry(x) /\ x.step = v /\ x.need = Need(w.rows) /\ x.left = NumOps(w)
    /\ \A q \in DOMAIN w.rows : x.idx[q] = i[q] /\ x.gen[q] = h[i[q]]

SinceSame(b, d) == \A q \in Reqs : d[q].since = b[q].since
ReqSame(I, S, T) == \A j \in I : T[j].req = S[j].req
IndexedBy(I, S, w, i) == \A q \in DOMAIN w.rows : i[q] \in I /\ S[i[q]].req = q

\* The last entry becomes x, if the step needs one.
LEMMA EntriesReceive ==
  ASSUME NEW W, NEW R, NEW t \in Nat, t > 0, NEW w, w = W[t], RowsWithin(W, t),
         NEW b, NEW d, SinceSame(b, d),
         RowsHold(W, R, b, t), During(W, R, b, t),
         NEW I, NEW S, NEW T, ReqSame(I, S, T), NEW g, Counts(I, g),
         NEW i, IndexedBy(I, S, w, i),
         NEW Q, NEW pos, NEW c, NEW e, e = t - P,
         EntriesOK(Q, I, S, g, b, W, R, pos, c, e, t), Done(w, pos[t], c) = 0,
         NEW Z, NEW x, Z = IF Need(w.rows) = {} THEN Q ELSE [Q EXCEPT ![P] = x],
         Need(w.rows) # {} => NewEntry(x, t, w, i, g)
  PROVE  EntriesOK(Z, I, T, g, d, W, R, pos, c, e, t + 1)
<1>1. P \in Nat /\ P >= 2 /\ e \in Int /\ e + P = t
  BY Constants
<1>2. /\ IsSeq(Q) /\ Len(Q) = P
      /\ \A k \in 1 .. P : EntryOK(Q[k], e + k, I, S, g, b, W, R, pos, c, t)
  BY DEF EntriesOK
<1>3. /\ IsSeq(Z) /\ Len(Z) = P
      /\ \A k \in 1 .. P : Z[k] = IF k = P /\ Need(w.rows) # {} THEN x ELSE Q[k]
  <2>1. CASE Need(w.rows) = {}
    BY <2>1, <1>2
  <2>2. CASE Need(w.rows) # {}
    <3>1. Z = [Q EXCEPT ![P] = x]
      BY <2>2
    <3>2. PICK E : Q \in Seq(E)
      BY <1>2 DEF IsSeq
    <3>7. PICK F : F = E \cup {x}
      OBVIOUS
    <3>3. Q \in Seq(F) /\ x \in F
      BY <3>2, <3>7
    <3>4. P \in 1 .. Len(Q)
      BY <1>1, <1>2
    <3>5. Z \in Seq(F) /\ Len(Z) = Len(Q)
      BY <3>1, <3>3, <3>4, ExceptSeq
    <3>6. \A k \in 1 .. P : Z[k] = IF k = P THEN x ELSE Q[k]
      BY <3>1, <3>2, <1>2, LenProperties
    <3> QED BY <3>5, <3>6, <2>2, <1>2 DEF IsSeq
  <2> QED BY <2>1, <2>2
<1>4. ASSUME NEW k \in 1 .. P - 1
      PROVE  EntryOK(Z[k], e + k, I, T, g, d, W, R, pos, c, t + 1)
  <2>1. PICK v : v = e + k
    OBVIOUS
  <2>2. k \in 1 .. P /\ k # P /\ v \in Int /\ v < t /\ v < t + 1
    BY <2>1, <1>1
  <2>3. EntryOK(Z[k], v, I, S, g, b, W, R, pos, c, t)
    BY <2>1, <2>2, <1>2, <1>3
  <2>4. CASE v <= 0 \/ Need(W[v].rows) = {}
    BY <2>1, <2>3, <2>4 DEF EntryOK
  <2>5. CASE ~ (v <= 0 \/ Need(W[v].rows) = {})
    <3>1. ~ (v >= t) /\ ~ (v >= t + 1) /\ v \in 1 .. t
      BY <2>2, <2>5
    <3>2. /\ IsEntry(Z[k]) /\ Arrived(Z[k], v, Done(W[v], pos[v], c), W[v], R[v])
          /\ \A q \in DOMAIN W[v].rows : Marked(Z[k].idx[q], Z[k].gen[q], q, v, I, S, g, b)
      BY <2>3, <2>5, <3>1 DEF EntryOK
    <3>3. ASSUME NEW q \in DOMAIN W[v].rows
          PROVE  Marked(Z[k].idx[q], Z[k].gen[q], q, v, I, T, g, d)
      <4>1. q \in Reqs
        BY <3>1 DEF RowsWithin
      <4>2. d[q].since = b[q].since
        BY <4>1 DEF SinceSame
      <4> QED BY <4>2, <3>2, MarkedStays DEF ReqSame
    <3> QED BY <2>1, <2>5, <3>1, <3>2, <3>3 DEF EntryOK
  <2> QED BY <2>4, <2>5
<1>5. EntryOK(Z[P], t, I, T, g, d, W, R, pos, c, t + 1)
  <2>1. P \in 1 .. P /\ ~ (t <= 0) /\ ~ (t >= t + 1)
    BY <1>1
  <2>2. CASE Need(w.rows) = {}
    <3>1. EntryOK(Q[P], t, I, S, g, b, W, R, pos, c, t) /\ Z[P] = Q[P]
      BY <2>1, <2>2, <1>1, <1>2, <1>3
    <3> QED BY <2>2, <3>1 DEF EntryOK
  <2>3. CASE Need(w.rows) # {}
    <3>1. Z[P] = x /\ NewEntry(x, t, w, i, g)
      BY <2>1, <2>3, <1>3
    <3>2. Arrived(x, t, 0, w, R[t])
      <4>1. NumOps(w) - 0 = NumOps(w)
        BY NumOpsIsNat
      <4> QED BY <3>1, <4>1 DEF NewEntry, Arrived
    <3>3. ASSUME NEW q \in DOMAIN w.rows PROVE Marked(x.idx[q], x.gen[q], q, t, I, T, g, d)
      <4>1. PICK j : j = i[q]
        OBVIOUS
      <4>2. j \in I /\ S[j].req = q /\ g[j] \in Nat /\ T[j].req = q
        BY <4>1 DEF IndexedBy, Counts, ReqSame
      <4>3. x.idx[q] = j /\ x.gen[q] = g[j]
        BY <3>1, <4>1 DEF NewEntry
      <4>4. q \in Reqs
        <5>1. t \in 1 .. t
          OBVIOUS
        <5> QED BY <5>1 DEF RowsWithin
      <4>5. b[q].since > 0 /\ b[q].since \in 0 .. t /\ d[q].since = b[q].since
        BY <4>4 DEF RowsHold, During, Running, SinceSame
      <4>6. d[q].since > 0 /\ d[q].since <= t
        BY <4>5
      <4> QED BY <4>2, <4>3, <4>6 DEF Marked
    <3> QED BY <2>1, <2>3, <3>1, <3>2, <3>3 DEF EntryOK, NewEntry
  <2> QED BY <2>2, <2>3
<1>6. ASSUME NEW k \in 1 .. P PROVE EntryOK(Z[k], e + k, I, T, g, d, W, R, pos, c, t + 1)
  <2>1. k = P \/ k \in 1 .. P - 1
    BY <1>1
  <2> QED BY <2>1, <1>1, <1>4, <1>5
<1> QED BY <1>3, <1>6 DEF EntriesOK
LEMMA RankReceives ==
  ASSUME NEW W, NEW pos, NEW G, NEW c, NEW R, NEW A, Scheduled(W), Relayed(W, pos, G, c),
         History(W, R, A), Shape, NEW r \in Ranks, RankOK(r, W, R, A, pos, c),
         Receive(r), max_num_reqs' = max_num_reqs
  PROVE  RankOK(r, W, R, A, pos, c)'
<1>1. PICK t, w, a, b, d : t = Current(r) /\ w = W[t] /\ a = A[t - 1] /\ b = EnteredAll(a, w)
                           /\ d = RanAll(a, w)
  OBVIOUS
<1>2. r # Last /\ ph[r] = "sample"
  BY DEF Receive
<1>3. /\ next \in Nat /\ t \in 1 .. next - 1 /\ Work(r) = w /\ w.step = t
      /\ View(r, W, A) = b /\ A[t] = d /\ RowsWithin(W, next - 1)
      /\ RowsHold(W, R, b, t) /\ During(W, R, b, t)
  BY <1>1, <1>2, ViewDuring
<1>4. PICK I, S, g, Q : I = Idx /\ S = slots[r] /\ g = gen[r] /\ Q = queue[r]
  OBVIOUS
<1>5. PICK e, sd : e = t - P /\ sd = Sampled
  OBVIOUS
<1>6. Applied(r) = e /\ Proposing(r) = 0
  <2>1. e = t - P - 0
    BY <1>3, <1>5, Constants
  <2> QED BY <2>1, <1>1, <1>2 DEF Applied, Proposing
<1>7. /\ RowsOK(I, S, g, b, W, R, e, 0) /\ Settled(b, W, e, sd)
      /\ EntriesOK(Q, I, S, g, b, W, R, pos, c, e, t)
  BY <1>1, <1>2, <1>3, <1>4, <1>5, <1>6 DEF RankOK
<1>8. PICK rej, T : rej = Zero(w.rows) /\ T = MovedAll(I, S, w.rows, rej)
  OBVIOUS
<1>9. /\ next' = next /\ todo' = [todo EXCEPT ![r] = Tail(@)] /\ ph' = [ph EXCEPT ![r] = "update"]
      /\ slots'[r] = T /\ gen' = gen /\ Idx' = I
      /\ queue'[r] = IF Need(w.rows) = {} THEN Q ELSE [Q EXCEPT ![P] = Entry(r, t, w.rows)]
  <2>1. /\ next' = next /\ todo' = [todo EXCEPT ![r] = Tail(@)] /\ ph' = [ph EXCEPT ![r] = "update"]
        /\ slots' = [slots EXCEPT ![r] = Advanced(r, w.rows, [q \in DOMAIN w.rows |-> 0])]
        /\ gen' = gen
        /\ IF Need(w.rows) = {} THEN queue' = queue
           ELSE queue' = [queue EXCEPT ![r][P] = Entry(r, t, w.rows)]
    BY <1>3 DEF Receive
  <2>2. slots'[r] = T
    BY <2>1, <1>4, <1>8, AdvancedIs DEF Shape, Zero
  <2>3. queue'[r] = IF Need(w.rows) = {} THEN Q ELSE [Q EXCEPT ![P] = Entry(r, t, w.rows)]
    BY <2>1, <1>2, <1>4 DEF Shape
  <2> QED BY <2>1, <2>2, <2>3, <1>4 DEF Idx
<1>10. Current(r)' = t + 1 /\ ph'[r] = "update"
  <2>1. DOMAIN todo = Ranks /\ DOMAIN ph = Ranks /\ IsSeq(todo[r]) /\ todo[r] # <<>>
    BY <1>2 DEF Scheduled, Before
  <2>2. Len(todo'[r]) = Len(todo[r]) - 1 /\ Len(todo[r]) \in Nat
    BY <2>1, <1>9, TailIsSeq
  <2>3. Current(r)' = t + 1
    BY <2>2, <1>1, <1>3, <1>9 DEF Current
  <2> QED BY <2>1, <2>3, <1>9
<1>11. PICK u : u = t + 1
  OBVIOUS
<1>12. View(r, W, A)' = d /\ Applied(r)' = e /\ Proposing(r)' = 0
  <2>1. View(r, W, A)' = A[Current(r)' - 1] /\ Applied(r)' = Current(r)' - P - 1 /\ Proposing(r)' = 0
    BY <1>2, <1>10 DEF View, Applied, Proposing
  <2>2. u - 1 = t /\ u - P - 1 = e
    BY <1>3, <1>5, <1>11, Constants
  <2> QED BY <2>1, <2>2, <1>3, <1>10, <1>11
<1>13. RowsWithin(W, t) /\ DOMAIN w.rows \subseteq Reqs
  <2>1. \A v \in 1 .. t : v \in 1 .. next - 1
    BY <1>3
  <2>2. t \in 1 .. t
    BY <1>3
  <2>3. RowsWithin(W, t)
    BY <2>1, <1>3 DEF RowsWithin
  <2> QED BY <2>2, <2>3, <1>1 DEF RowsWithin
<1>14. t \in Nat /\ t > 0
  BY <1>3
<1>15. RowsOK(I, T, g, d, W, R, e, 0) /\ Settled(d, W, e, sd)
  <2>1. w = W[t] /\ w.step = t /\ RunsOn(b, d, w) /\ RowsHold(W, R, b, t) /\ During(W, R, b, t)
    BY <1>1, <1>3, StillRunning
  <2>2. e \in Int /\ e < t /\ t - P <= e
    BY <1>5, <1>14, Constants
  <2>3. RowsOK(I, S, g, b, W, R, e, 0) /\ Settled(b, W, e, sd)
    BY <1>7
  <2>4. rej = Zero(w.rows) /\ T = MovedAll(I, S, w.rows, rej)
    BY <1>8
  <2> QED BY <2>1, <2>2, <2>3, <2>4, <1>14, RowsReceived
<1>16. SinceSame(b, d) /\ ReqSame(I, S, T) /\ Counts(I, g)
  <2>1. \A q \in Reqs : d[q].since = b[q].since
    BY <1>1, StillRunning DEF RunsOn
  <2>2. /\ \A j \in I : g[j] \in Nat
        /\ \A j \in I : IsSlot(S[j])
    BY <1>7 DEF RowsOK, Placed
  <2>3. \A j \in I : T[j] = IF S[j].req \in DOMAIN w.rows
                              THEN MovedBy(S[j], w.rows[S[j].req].n, rej[S[j].req]) ELSE S[j]
    BY <1>8 DEF MovedAll
  <2>4. \A j \in I : T[j].req = S[j].req
    BY <2>2, <2>3, MovedIs
  <2> QED BY <2>1, <2>2, <2>4 DEF SinceSame, ReqSame, Counts
<1>17. PICK i : i = [q \in DOMAIN w.rows |-> IndexOf(r, q)]
  OBVIOUS
<1>18. IndexedBy(I, S, w, i)
  <2>1. \A q \in Running(b) : \E j \in I : S[j].req = q
    BY <1>7 DEF RowsOK, Placed
  <2>2. ASSUME NEW q \in DOMAIN w.rows PROVE i[q] \in I /\ S[i[q]].req = q
    <3>1. \E j \in I : S[j].req = q
      BY <2>1, <1>1, <1>3 DEF RowsHold
    <3>2. i[q] = CHOOSE j \in I : S[j].req = q
      BY <1>4, <1>17 DEF IndexOf
    <3> QED BY <3>1, <3>2
  <2> QED BY <2>2 DEF IndexedBy
<1>19. Done(w, pos[t], c) = 0
  <2>1. /\ c \in Nat /\ pos[t] \in Nat /\ Enqueued(r, pos, G, c)
    BY <1>3, NotYet DEF Relayed
  <2>2. Halfway(r) = 0
    BY <1>2 DEF Halfway
  <2>3. IsSeq(bc[r]) /\ c + Len(bc[r]) = pos[t] + 0
    BY <2>1, <2>2, <1>1 DEF Enqueued, Current
  <2>4. PICK l : l = Len(bc[r])
    OBVIOUS
  <2>5. l \in Nat /\ c + l = pos[t]
    BY <2>1, <2>3, <2>4, SeqLen
  <2>6. c <= pos[t]
    BY <2>1, <2>5
  <2> QED BY <2>1, <2>6, DoneNothing
<1>20. PICK x, Z : x = Entry(r, t, w.rows) /\ Z = IF Need(w.rows) = {} THEN Q ELSE [Q EXCEPT ![P] = x]
  OBVIOUS
<1>21. Need(w.rows) # {} => NewEntry(x, t, w, i, g)
  <2>1. SUFFICES ASSUME Need(w.rows) # {} PROVE NewEntry(x, t, w, i, g)
    OBVIOUS
  <2>2. PICK n, m, l, h : n = Need(w.rows) /\ m = NumOps(w) /\ l = Len(Recvs(t, w.rows))
                          /\ h = [q \in DOMAIN w.rows |-> gen[r][IndexOf(r, q)]]
    OBVIOUS
  <2>3. l = m
    BY <2>1, <2>2, <1>3, RecvsAre
  <2>4. x = [NoRecv EXCEPT !.step = t, !.left = l, !.need = n, !.idx = i, !.gen = h]
    BY <2>2, <1>17, <1>20 DEF Entry
  <2>5. IsEntry(x) /\ x.step = t /\ x.left = l /\ x.need = n /\ x.idx = i /\ x.gen = h
    BY <2>4 DEF NoRecv, IsEntry
  <2>6. \A q \in DOMAIN w.rows : h[q] = g[i[q]]
    BY <2>2, <1>4, <1>17
  <2> QED BY <2>2, <2>3, <2>5, <2>6 DEF NewEntry
<1>22. EntriesOK(Z, I, T, g, d, W, R, pos, c, e, u)
  <2>1. EntriesOK(Z, I, T, g, d, W, R, pos, c, e, t + 1)
    BY <1>1, <1>3, <1>5, <1>7, <1>13, <1>14, <1>16, <1>18, <1>19, <1>20, <1>21, EntriesReceive
  <2> QED BY <2>1, <1>11
<1>23. Sampled' = sd
  <2>1. todo'[Last] = todo[Last] /\ ph'[Last] = ph[Last]
    BY <1>2, <1>9, LastIsARank DEF Scheduled
  <2> QED BY <2>1, <1>5, <1>9 DEF Sampled
<1> QED BY <1>2, <1>4, <1>9, <1>10, <1>11, <1>12, <1>15, <1>20, <1>22, <1>23 DEF RankOK

LEMMA ReceiveHolds ==
  ASSUME NEW W, NEW pos, NEW G, NEW c, NEW R, NEW A, Holds(W, pos, G, c, R, A),
         NEW r \in Ranks, Receive(r), max_num_reqs' = max_num_reqs
  PROVE  Holds(W, pos, G, c, R, A)'
<1>1. /\ Scheduled(W) /\ Relayed(W, pos, G, c) /\ History(W, R, A) /\ SchedulerOK(W, R, A)
      /\ \A s \in Ranks : RankOK(s, W, R, A, pos, c)
      /\ SentOK(R) /\ Shape
  BY DEF Holds
<1>2. Scheduled(W)' /\ Relayed(W, pos, G, c)'
  BY <1>1, ReceiveStep
<1>3. /\ r # Last /\ next' = next /\ reqs' = reqs /\ results' = results /\ gen' = gen
      /\ todo' = [todo EXCEPT ![r] = Tail(@)] /\ ph' = [ph EXCEPT ![r] = "update"]
      /\ DOMAIN slots' = Ranks /\ \A s \in Ranks \ {r} : slots'[s] = slots[s]
      /\ DOMAIN queue' = Ranks \ {Last} /\ \A s \in Ranks \ {r, Last} : queue'[s] = queue[s]
      /\ bc'[Last] = bc[Last]
  <2>1. /\ r # Last /\ next' = next /\ reqs' = reqs /\ results' = results /\ gen' = gen
        /\ todo' = [todo EXCEPT ![r] = Tail(@)] /\ ph' = [ph EXCEPT ![r] = "update"]
        /\ slots' = [slots EXCEPT ![r] = Advanced(r, Work(r).rows, [q \in DOMAIN Work(r).rows |-> 0])]
        /\ queue' = queue \/ queue' = [queue EXCEPT ![r][P] = Entry(r, Work(r).step, Work(r).rows)]
        /\ bc' = bc \/ bc' = [bc EXCEPT ![r] = @ \o Recvs(Work(r).step, Work(r).rows)]
    BY DEF Receive
  <2>2. bc'[Last] = bc[Last]
    BY <2>1, <1>1, LastIsARank DEF Relayed
  <2> QED BY <2>1, <2>2, <1>1 DEF Shape
<1>4. DOMAIN todo = Ranks /\ DOMAIN ph = Ranks
  BY <1>1 DEF Scheduled
<1>5. Sampled' = Sampled /\ Sampled \in Nat
  <2>1. todo'[Last] = todo[Last] /\ ph'[Last] = ph[Last]
    BY <1>3, <1>4, LastIsARank
  <2>2. Sampled \in Nat
    BY <1>1, CurrentIs, LastIsARank
  <2> QED BY <2>1, <2>2, <1>3 DEF Sampled
<1>6. Sampled' \in Int /\ Sampled <= Sampled'
  BY <1>5
<1>7. Shape'
  BY <1>1, <1>3 DEF Shape
<1>8. ASSUME NEW s \in Ranks PROVE RankOK(s, W, R, A, pos, c)'
  <2>1. CASE s = r
    BY <2>1, <1>1, RankReceives
  <2>2. CASE s # r
    <3>1. /\ slots'[s] = slots[s] /\ gen'[s] = gen[s] /\ (s # Last => queue'[s] = queue[s])
          /\ todo'[s] = todo[s] /\ ph'[s] = ph[s]
      BY <2>2, <1>3, <1>4
    <3> QED BY <3>1, <1>1, <1>3, <1>6, RankStays
  <2> QED BY <2>1, <2>2
<1>9. Pending(W, R)'
  BY <1>1, <1>3, <1>5 DEF SchedulerOK, Pending
<1>10. SchedulerOK(W, R, A)'
  BY <1>1, <1>3, <1>9, SchedulerStays
<1>11. SentOK(R)'
  BY <1>1, <1>3, <1>6, SentStays
<1> QED BY <1>1, <1>2, <1>3, <1>7, <1>8, <1>10, <1>11, HistoryStays DEF Holds
-----------------------------------------------------------------------------
(* Sample preserves the invariant.                                         *)

\* Z says of step t which drafts are rejected, and of the others what R says.
Sampling(Z, R, t, m) == \A u \in 1 .. m : u # t => Z[u] = R[u]
RejOK(W, Z, t) == \A q \in DOMAIN W[t].rows : Z[t][q] \in Nat /\ Z[t][q] <= Drafts(W[t].rows[q])

LEMMA NetSampled ==
  ASSUME NEW Z, NEW R, NEW t, NEW m \in Nat, Sampling(Z, R, t, m), NEW v \in 0 .. m, NEW q, NEW e,
         v # t \/ ~ (t <= e) \/ Z[t][q] = R[t][q], NEW W
  PROVE  Net(W, Z, v, q, e) = Net(W, R, v, q, e)
<1>1. CASE v = 0
  BY <1>1 DEF Net
<1>2. CASE v # 0 /\ v # t
  <2>1. Z[v] = R[v]
    BY <1>2 DEF Sampling
  <2> QED BY <2>1 DEF Net
<1>3. CASE v # 0 /\ v = t
  BY <1>3 DEF Net
<1> QED BY <1>1, <1>2, <1>3

LEMMA NoDraftsSame ==
  ASSUME NEW W, NEW R, NEW a, NEW q, Backed(a, W, R, q), NEW t, a.seen = t, t > 0,
         ~ (Drafts(W[t].rows[q]) > 0), NEW Z, RejOK(W, Z, t)
  PROVE  Z[t][q] = R[t][q]
<1>1. PICK b : RowOK(W, R, b, t, q)
  BY DEF Backed
<1>2. q \in DOMAIN W[t].rows
  BY DEF Backed
<1>3. PICK row, x, y : row = W[t].rows[q] /\ x = R[t][q] /\ y = Z[t][q]
  OBVIOUS
<1>4. /\ row.n \in Nat /\ row.n > 0 /\ x \in Nat
      /\ IsDecode(row) => Drafts(row) = row.n - 1
      /\ ~ IsDecode(row) => Drafts(row) = 0
  BY <1>1, <1>3, RowFacts
<1>5. x <= Drafts(row) /\ y \in Nat /\ y <= Drafts(row)
  BY <1>1, <1>2, <1>3 DEF RowOK, RejOK
<1>6. Drafts(row) \in Nat /\ ~ (Drafts(row) > 0)
  BY <1>3, <1>4
<1> QED BY <1>3, <1>4, <1>5, <1>6

\* A row that verifies drafts is P steps behind the next one.
LEMMA RowSampled ==
  ASSUME NEW W, NEW R, NEW Z, NEW b, NEW q, NEW m \in Nat, NEW t \in 1 .. m, NEW u \in 1 .. m,
         m < t + P, Sampling(Z, R, t, m), RejOK(W, Z, t), q \in DOMAIN W[u].rows,
         RowOK(W, R, b, u, q), Backed(b, W, R, q), b.seen \in 0 .. u - 1
  PROVE  RowOK(W, Z, b, u, q)
<1>1. PICK row : row = W[u].rows[q]
  OBVIOUS
<1>2. /\ row.old \in Nat /\ row.n \in Nat \ {0} /\ row.plen \in Nat
      /\ R[u][q] \in Nat /\ R[u][q] <= Drafts(row) /\ Drafts(row) <= K
      /\ b.since > 0 /\ row.prev = b.prev /\ row.old = Net(W, R, b.seen, q, u)
      /\ IF IsDecode(row)
           THEN /\ b.prev > 0 /\ b.prev + P <= u
                /\ q \in Need(W[u].rows) /\ q \in Need(W[b.prev].rows)
           ELSE b.prev = 0 /\ row.old + row.n <= row.plen
  BY <1>1 DEF RowOK
<1>3. Z[u][q] \in Nat /\ Z[u][q] <= Drafts(row)
  <2>1. CASE u = t
    BY <2>1, <1>1 DEF RejOK
  <2>2. CASE u # t
    BY <2>2, <1>2 DEF Sampling
  <2> QED BY <2>1, <2>2
<1>4. Net(W, Z, b.seen, q, u) = Net(W, R, b.seen, q, u)
  <2>1. b.seen \in 0 .. m
    OBVIOUS
  <2>2. CASE b.seen # t
    BY <2>1, <2>2, NetSampled
  <2>3. CASE b.seen = t
    <3>1. ~ (Drafts(W[t].rows[q]) > 0)
      <4>1. SUFFICES ASSUME Drafts(W[t].rows[q]) > 0 PROVE FALSE
        OBVIOUS
      <4>2. PICK b0 : RowOK(W, R, b0, t, q)
        BY <2>3 DEF Backed
      <4>3. IsDecode(W[t].rows[q]) /\ Samples(W[t].rows[q])
        BY <4>1, <4>2, RowFacts
      <4>4. b.prev = t
        BY <4>3, <2>3 DEF Backed
      <4>5. t + P <= u
        BY <4>4, <1>2
      <4> QED BY <4>5, Constants
    <3>2. Z[t][q] = R[t][q]
      BY <3>1, <2>3, NoDraftsSame
    <3> QED BY <3>2, <2>1, NetSampled
  <2> QED BY <2>2, <2>3
<1> QED BY <1>1, <1>2, <1>3, <1>4 DEF RowOK

LEMMA HistorySampled ==
  ASSUME NEW W, NEW R, NEW A, Scheduled(W), History(W, R, A), NEW m, m = next - 1,
         NEW t \in 1 .. m, m < t + P,
         NEW Z, Sampling(Z, R, t, m), RejOK(W, Z, t), next' = next, max_num_reqs' = max_num_reqs
  PROVE  History(W, Z, A)'
<1>1. next \in Nat /\ next > 0 /\ m \in Nat
  BY DEF Scheduled
<1>2. ASSUME NEW u \in 1 .. m, NEW q \in DOMAIN W[u].rows
      PROVE  RowOK(W, Z, Entered(A[u - 1][q], W[u], q), u, q)
  <2>1. PICK w, b : w = W[u] /\ b = Entered(A[u - 1][q], w, q)
    OBVIOUS
  <2>2. OutputOK(w, A[u - 1]) /\ RowOK(W, R, b, u, q)
    BY <2>1 DEF History
  <2>3. q \in Reqs /\ w.step = u /\ u \in 1 .. next
    BY <2>1, <2>2, <1>1 DEF OutputOK, Scheduled
  <2>4. Backed(b, W, R, q) /\ b.seen \in 0 .. u - 1
    BY <2>1, <2>3, <1>1, EnteredFacts
  <2>5. RowOK(W, Z, b, u, q)
    BY <2>2, <2>4, <1>1, RowSampled
  <2> QED BY <2>1, <2>5
<1> QED BY <1>2 DEF History, OutputOK

LEMMA KnownSampled ==
  ASSUME NEW W, NEW R, NEW Z, NEW t, NEW m \in Nat, Sampling(Z, R, t, m), NEW s, NEW a, NEW q,
         NEW e, KnownOK(s, a, W, R, q, e), a.seen \in 0 .. m, ~ (t <= e)
  PROVE  KnownOK(s, a, W, Z, q, e)
<1>1. Net(W, Z, a.seen, q, e) = Net(W, R, a.seen, q, e)
  BY NetSampled
<1> QED BY <1>1, Zenon DEF KnownOK

\* The rank has none of the step, or none that rejects drafts.
LEMMA RowsSampled ==
  ASSUME NEW W, NEW R, NEW Z, NEW m \in Nat, NEW t \in 1 .. m, Sampling(Z, R, t, m),
         RejOK(W, Z, t), NEW I, NEW S, NEW g, NEW a, NEW e, NEW p,
         RowsOK(I, S, g, a, W, R, e, p), Upto(a, W, R, m), NEW sd, sd = t - 1, Settled(a, W, e, sd)
  PROVE  RowsOK(I, S, g, a, W, Z, e, p)
<1>1. /\ Placed(I, S, a) /\ DOMAIN g = I /\ \A i \in I : g[i] \in Nat
      /\ \A i \in I : S[i].req # None => S[i].req \in Running(a)
      /\ \A i \in I : S[i].req # None => SlotOK(S[i], a[S[i].req], W, R, S[i].req, e, p)
  BY DEF RowsOK, Placed
<1>2. ASSUME NEW i \in I, S[i].req # None
      PROVE  SlotOK(S[i], a[S[i].req], W, Z, S[i].req, e, p)
  <2>1. PICK q, x : q = S[i].req /\ x = a[q]
    OBVIOUS
  <2>2. q \in Running(a) /\ SlotOK(S[i], x, W, R, q, e, p) /\ Backed(x, W, R, q) /\ x.seen \in 0 .. m
    BY <2>1, <1>1, <1>2 DEF Upto
  <2>3. x.seen # t \/ ~ (t <= e) \/ Z[t][q] = R[t][q]
    <3>1. SUFFICES ASSUME x.seen = t, t <= e PROVE Z[t][q] = R[t][q]
      OBVIOUS
    <3>2. ~ (t <= t - 1)
      OBVIOUS
    <3>3. ~ (Drafts(W[t].rows[q]) > 0)
      BY <3>1, <3>2, <2>1, <2>2 DEF Settled
    <3> QED BY <3>1, <3>3, <2>2, NoDraftsSame
  <2>4. Net(W, Z, x.seen, q, e) = Net(W, R, x.seen, q, e)
    BY <2>2, <2>3, NetSampled
  <2>5. SlotOK(S[i], x, W, Z, q, e, p)
    BY <2>2, <2>4, Zenon DEF SlotOK
  <2> QED BY <2>1, <2>5
<1> QED BY <1>1, <1>2 DEF RowsOK

\* Nothing of the step is on its way.
LEMMA EntriesSampled ==
  ASSUME NEW W, NEW R, NEW Z, NEW m \in Nat, NEW t \in 1 .. m, Sampling(Z, R, t, m),
         NEW Q, NEW I, NEW S, NEW g, NEW a, NEW pos, NEW c, NEW e \in Int, NEW cur \in 1 .. m + 1,
         EntriesOK(Q, I, S, g, a, W, R, pos, c, e, cur), Done(W[t], pos[t], c) = 0
  PROVE  EntriesOK(Q, I, S, g, a, W, Z, pos, c, e, cur)
<1>1. /\ IsSeq(Q) /\ Len(Q) = P
      /\ \A k \in 1 .. P : EntryOK(Q[k], e + k, I, S, g, a, W, R, pos, c, cur)
  BY DEF EntriesOK
<1>2. ASSUME NEW k \in 1 .. P PROVE EntryOK(Q[k], e + k, I, S, g, a, W, Z, pos, c, cur)
  <2>1. PICK v, x : v = e + k /\ x = Q[k]
    OBVIOUS
  <2>2. v \in Int /\ EntryOK(x, v, I, S, g, a, W, R, pos, c, cur)
    BY <2>1, <1>1, Constants
  <2>3. CASE v <= 0 \/ v >= cur \/ Need(W[v].rows) = {}
    BY <2>1, <2>2, <2>3 DEF EntryOK
  <2>4. CASE ~ (v <= 0 \/ v >= cur \/ Need(W[v].rows) = {})
    <3>1. PICK n : n = Done(W[v], pos[v], c)
      OBVIOUS
    <3>2. /\ IsEntry(x) /\ Arrived(x, v, n, W[v], R[v])
          /\ \A q \in DOMAIN W[v].rows : Marked(x.idx[q], x.gen[q], q, v, I, S, g, a)
      BY <3>1, <2>2, <2>4 DEF EntryOK
    <3>3. Arrived(x, v, n, W[v], Z[v])
      <4>1. CASE v = t
        <5>1. n = 0
          BY <4>1, <3>1
        <5> QED BY <5>1, <3>2 DEF Arrived
      <4>2. CASE v # t
        <5>1. v \in 1 .. m
          BY <2>2, <2>4
        <5>2. Z[v] = R[v]
          BY <5>1, <4>2 DEF Sampling
        <5> QED BY <5>2, <3>2
      <4> QED BY <4>1, <4>2
    <3> QED BY <2>1, <2>4, <3>1, <3>2, <3>3 DEF EntryOK
  <2> QED BY <2>3, <2>4
<1> QED BY <1>1, <1>2 DEF EntriesOK

\* The rows of the last rank.
NewToken(s, t, rows) ==
    IF s.req \in DOMAIN rows /\ Samples(rows[s.req]) THEN [s EXCEPT !.last = t] ELSE s
SampledAll(I, M, t, rows) == [i \in I |-> NewToken(M[i], t, rows)]

LEMMA NewTokenIs ==
  ASSUME NEW s, IsSlot(s), NEW t, NEW rows, NEW x, x = NewToken(s, t, rows)
  PROVE  /\ IsSlot(x) /\ x.req = s.req /\ x.computed = s.computed /\ x.draft = s.draft
         /\ x.last = IF s.req \in DOMAIN rows /\ Samples(rows[s.req]) THEN t ELSE s.last
BY DEF NewToken, IsSlot
LEMMA RowsSampledLast ==
  ASSUME NEW W, NEW R, NEW Z, NEW m \in Nat, NEW t \in 1 .. m, Sampling(Z, R, t, m), RejOK(W, Z, t),
         W[t].step = t, NEW b, NEW d, RunsOn(b, d, W[t]),
         RowsHold(W, R, b, t), During(W, R, b, t), NEW e \in Int, t <= e,
         NEW I, NEW S, NEW g, RowsOK(I, S, g, b, W, R, e, 0)
  PROVE  RowsOK(I, SampledAll(I, MovedAll(I, S, W[t].rows, Z[t]), t, W[t].rows), g, d, W, Z, e, t)
<1> PICK w, rej : w = W[t] /\ rej = Z[t]
  OBVIOUS
<1> PICK M : M = MovedAll(I, S, w.rows, rej)
  OBVIOUS
<1> PICK T : T = SampledAll(I, M, t, w.rows)
  OBVIOUS
<1>1. t - P <= e /\ t > 0 /\ t \in Nat
  BY Constants
<1>2. /\ Running(d) = Running(b) /\ Running(b) \subseteq Reqs
      /\ \A q \in Reqs : d[q] = Ran(b[q], w, q) /\ d[q].since = b[q].since
  BY DEF Running, RunsOn
<1>3. /\ Placed(I, S, b) /\ DOMAIN g = I /\ \A i \in I : g[i] \in Nat
      /\ \A i \in I : S[i].req # None => SlotOK(S[i], b[S[i].req], W, R, S[i].req, e, 0)
  BY DEF RowsOK
<1>4. \A i \in I : IsSlot(S[i]) /\ (S[i].req # None => S[i].req \in Running(b))
  BY <1>3 DEF Placed
<1>5. /\ DOMAIN T = I
      /\ \A i \in I : M[i] = IF S[i].req \in DOMAIN w.rows
                               THEN MovedBy(S[i], w.rows[S[i].req].n, rej[S[i].req]) ELSE S[i]
      /\ \A i \in I : T[i] = NewToken(M[i], t, w.rows)
  BY DEF MovedAll, SampledAll
<1>6. \A i \in I : IsSlot(M[i]) /\ M[i].req = S[i].req
  BY <1>4, <1>5, MovedIs
<1>7. \A i \in I : IsSlot(T[i]) /\ T[i].req = S[i].req
  BY <1>5, <1>6, NewTokenIs
<1>8. Placed(I, T, d)
  BY <1>2, <1>3, <1>5, <1>7, PlacedStays
<1>9. ASSUME NEW i \in I, T[i].req # None
      PROVE  SlotOK(T[i], d[T[i].req], W, Z, T[i].req, e, t)
  <2>1. PICK q, s, y, x : q = S[i].req /\ s = S[i] /\ y = M[i] /\ x = T[i]
    OBVIOUS
  <2>2. /\ q \in Reqs /\ x.req = q /\ IsSlot(s) /\ SlotOK(s, b[q], W, R, q, e, 0)
        /\ q # None /\ IsSlot(y) /\ y.req = q /\ x = NewToken(y, t, w.rows)
    BY <2>1, <1>2, <1>3, <1>4, <1>5, <1>6, <1>7, <1>9
  <2>3. PICK bq, dq : bq = b[q] /\ dq = d[q]
    OBVIOUS
  <2>4. dq = Ran(bq, w, q) /\ Backed(bq, W, R, q) /\ bq.seen \in 0 .. t - 1
    BY <2>2, <2>3, <1>2 DEF During
  <2>5. s.computed = Net(W, R, bq.seen, q, e)
        /\ (Relays(bq, W, q, e) => s.last = bq.prev /\ (K > 0 /\ bq.prev # 0 => s.draft = bq.prev))
    BY <2>2, <2>3 DEF SlotOK
  <2>6. CASE q \in DOMAIN w.rows
    <3>1. RowOK(W, R, bq, t, q)
      BY <2>3, <2>6 DEF RowsHold
    <3>2. Z[t][q] \in Nat /\ rej[q] = Z[t][q]
      BY <2>6 DEF RejOK
    <3>3. y = MovedBy(s, w.rows[q].n, rej[q])
      BY <2>1, <2>6, <1>5
    <3>4. y.computed = s.computed + w.rows[q].n - rej[q]
      BY <3>3, <2>2, MovedIs
    <3>5. /\ x.computed = y.computed
          /\ x.last = IF Samples(w.rows[q]) THEN t ELSE y.last
      BY <2>2, <2>6, NewTokenIs
    <3>6. PICK C, D : C = s.computed /\ D = x.computed
      OBVIOUS
    <3>7. D = C + w.rows[q].n - IF t <= e THEN Z[t][q] ELSE 0
      BY <3>2, <3>4, <3>5, <3>6
    <3>8. /\ D = Net(W, Z, dq.seen, q, e) /\ dq.seen = t
          /\ dq.prev = IF Samples(w.rows[q]) THEN t ELSE 0
      BY <3>1, <3>2, <3>6, <3>7, <2>4, <2>5, <2>6, <1>1, ComputedRan
    <3>9. Relays(dq, W, q, e) => x.last = dq.prev /\ ~ (K > 0 /\ dq.prev # t)
      BY <3>5, <3>8 DEF Relays
    <3>10. SlotOK(x, dq, W, Z, q, e, t)
      BY <3>6, <3>8, <3>9 DEF SlotOK
    <3> QED BY <3>10, <2>1, <2>2, <2>3
  <2>7. CASE q \notin DOMAIN w.rows
    <3>1. x = s /\ dq = bq
      BY <2>1, <2>2, <2>4, <2>7, <1>5 DEF Ran, NewToken
    <3>2. bq.seen \in 0 .. m /\ bq.seen # t
      BY <2>4
    <3>3. Net(W, Z, bq.seen, q, e) = Net(W, R, bq.seen, q, e)
      BY <3>2, NetSampled
    <3>4. Relays(dq, W, q, e) => /\ x.last = dq.prev
                                 /\ K > 0 /\ dq.prev # t => x.draft = dq.prev
      BY <3>1, <2>5 DEF Relays
    <3>5. x.computed = Net(W, Z, dq.seen, q, e)
      BY <3>1, <3>3, <2>5
    <3> QED BY <3>4, <3>5, <2>1, <2>2, <2>3 DEF SlotOK
  <2> QED BY <2>6, <2>7
<1>10. RowsOK(I, T, g, d, W, Z, e, t)
  BY <1>3, <1>8, <1>9 DEF RowsOK
<1> QED BY <1>10

\* What Sample does, rejecting rej.
SampledBy(t, rows, rej) ==
    /\ bc' = [bc EXCEPT ![Last] = @ \o Sends(t, rows, rej)]
    /\ results' = Append(results,
         [step |-> t, rej |-> rej,
          num |-> [q \in DOMAIN rows |->
              IF Samples(rows[q]) THEN 1 + Drafts(rows[q]) - rej[q] ELSE 0]])
    /\ slots' = [slots EXCEPT ![Last] =
          SampledAll(Idx, MovedAll(Idx, slots[Last], rows, rej), t, rows)]

LEMMA SampleChooses ==
  ASSUME Sample, NEW rows, rows = Work(Last).rows, NEW t, t = Work(Last).step
  PROVE  /\ ph[Last] = "sample" /\ ph' = [ph EXCEPT ![Last] = "propose"]
         /\ next' = next /\ reqs' = reqs /\ todo' = todo /\ gen' = gen /\ queue' = queue
         /\ \E rej \in [DOMAIN rows -> 0 .. K] :
               (\A q \in DOMAIN rows : rej[q] <= Drafts(rows[q])) /\ SampledBy(t, rows, rej)
<1>1. /\ ph[Last] = "sample" /\ ph' = [ph EXCEPT ![Last] = "propose"]
      /\ next' = next /\ reqs' = reqs /\ todo' = todo /\ gen' = gen /\ queue' = queue
  BY DEF Sample
<1>2. PICK rej \in [DOMAIN Work(Last).rows -> 0 .. K] :
        /\ \A q \in DOMAIN Work(Last).rows : rej[q] <= Drafts(Work(Last).rows[q])
        /\ bc' = [bc EXCEPT ![Last] = @ \o Sends(Work(Last).step, Work(Last).rows, rej)]
        /\ results' = Append(results,
             [step |-> Work(Last).step, rej |-> rej,
              num |-> [q \in DOMAIN Work(Last).rows |->
                  IF Samples(Work(Last).rows[q])
                    THEN 1 + Drafts(Work(Last).rows[q]) - rej[q] ELSE 0]])
        /\ slots' = [slots EXCEPT ![Last] = [i \in Idx |->
             IF Advanced(Last, Work(Last).rows, rej)[i].req \in DOMAIN Work(Last).rows
                  /\ Samples(Work(Last).rows[Advanced(Last, Work(Last).rows, rej)[i].req])
               THEN [Advanced(Last, Work(Last).rows, rej)[i] EXCEPT !.last = Work(Last).step]
               ELSE Advanced(Last, Work(Last).rows, rej)[i]]]
  BY Zenon DEF Sample
<1>3. PICK M : M = Advanced(Last, rows, rej)
  OBVIOUS
<1>4. slots' = [slots EXCEPT ![Last] = SampledAll(Idx, M, t, rows)]
  <2>1. slots' = [slots EXCEPT ![Last] = [i \in Idx |->
             IF M[i].req \in DOMAIN rows /\ Samples(rows[M[i].req])
               THEN [M[i] EXCEPT !.last = t] ELSE M[i]]]
    BY <1>2, <1>3
  <2> QED BY <2>1, Zenon DEF SampledAll, NewToken
<1>5. M = MovedAll(Idx, slots[Last], rows, rej)
  BY <1>3, AdvancedIs
<1>6. /\ bc' = [bc EXCEPT ![Last] = @ \o Sends(t, rows, rej)]
      /\ results' = Append(results,
           [step |-> t, rej |-> rej,
            num |-> [q \in DOMAIN rows |->
                IF Samples(rows[q]) THEN 1 + Drafts(rows[q]) - rej[q] ELSE 0]])
  BY <1>2
<1>7. SampledBy(t, rows, rej)
  BY <1>4, <1>5, <1>6 DEF SampledBy
<1>8. rej \in [DOMAIN rows -> 0 .. K] /\ \A q \in DOMAIN rows : rej[q] <= Drafts(rows[q])
  BY <1>2
<1> QED BY <1>1, <1>7, <1>8, Zenon

LEMMA RankSampledOther ==
  ASSUME NEW W, NEW pos, NEW G, NEW c, NEW R, NEW A, Scheduled(W), Relayed(W, pos, G, c),
         History(W, R, A), NEW r \in Ranks, r # Last, RankOK(r, W, R, A, pos, c),
         next' = next, max_num_reqs' = max_num_reqs, todo'[r] = todo[r], ph'[r] = ph[r],
         slots'[r] = slots[r], gen'[r] = gen[r], queue'[r] = queue[r],
         NEW m, m = next - 1, NEW t \in 1 .. m, Sampled = t - 1, Sampled' = t,
         NEW Z, Sampling(Z, R, t, m), RejOK(W, Z, t)
  PROVE  RankOK(r, W, Z, A, pos, c)'
<1>1. /\ next \in Nat /\ next > 0 /\ Current(r) \in 1 .. m + 1 /\ m \in Nat
  BY CurrentIs
<1>2. PICK a, I, S, g, Q, e, cur, p : /\ a = View(r, W, A) /\ I = Idx /\ S = slots[r] /\ g = gen[r]
                                      /\ Q = queue[r] /\ e = Applied(r) /\ cur = Current(r)
                                      /\ p = Proposing(r)
  OBVIOUS
<1>3. /\ View(r, W, A)' = a /\ Idx' = I /\ slots'[r] = S /\ gen'[r] = g /\ queue'[r] = Q
      /\ Applied(r)' = e /\ Current(r)' = cur /\ Proposing(r)' = p
  BY <1>2 DEF View, Idx, Applied, Current, Proposing
<1>4. e \in Int /\ cur \in 1 .. m + 1
  BY <1>1, <1>2, Constants DEF Applied
<1>5. PICK sd : sd = t - 1
  OBVIOUS
<1>6. /\ RowsOK(I, S, g, a, W, R, e, p) /\ Settled(a, W, e, sd)
      /\ EntriesOK(Q, I, S, g, a, W, R, pos, c, e, cur)
  BY <1>2, <1>5 DEF RankOK
<1>7. Upto(a, W, R, m)
  BY <1>2, ViewIs
<1>8. RowsOK(I, S, g, a, W, Z, e, p)
  BY <1>1, <1>5, <1>6, <1>7, RowsSampled
<1>9. Settled(a, W, e, t)
  <2>1. Prolongs(W, R, W, R, m)
    BY DEF Prolongs
  <2>2. sd \in Int /\ t \in Int /\ sd <= t
    BY <1>5
  <2> QED BY <2>1, <2>2, <1>1, <1>4, <1>6, <1>7, SettledKeeps
<1>10. Done(W[t], pos[t], c) = 0
  <2>1. c \in Nat /\ pos[t] \in Nat /\ c <= pos[t]
    <3>1. t \in 1 .. next - 1 /\ t > Sampled
      <4>1. PICK sm : sm = Sampled
        OBVIOUS
      <4>2. sm = t - 1
        BY <4>1
      <4> QED BY <4>1, <4>2
    <3> QED BY <3>1, NotYet
  <2> QED BY <2>1, DoneNothing
<1>11. EntriesOK(Q, I, S, g, a, W, Z, pos, c, e, cur)
  BY <1>1, <1>4, <1>6, <1>10, EntriesSampled
<1> QED BY <1>3, <1>8, <1>9, <1>11 DEF RankOK
LEMMA RankSampledLast ==
  ASSUME NEW W, NEW pos, NEW c, NEW R, NEW A, Scheduled(W), History(W, R, A), Shape,
         RankOK(Last, W, R, A, pos, c), ph[Last] = "sample", ph' = [ph EXCEPT ![Last] = "propose"],
         next' = next, max_num_reqs' = max_num_reqs, todo' = todo, gen' = gen,
         NEW m, m = next - 1, NEW t, t = Current(Last), NEW w, w = W[t],
         NEW rej, SampledBy(t, w.rows, rej), NEW Z, Z[t] = rej, Sampling(Z, R, t, m), RejOK(W, Z, t)
  PROVE  RankOK(Last, W, Z, A, pos, c)'
<1>1. PICK a, b, d : a = A[t - 1] /\ b = EnteredAll(a, w) /\ d = RanAll(a, w)
  OBVIOUS
<1>2. /\ next \in Nat /\ t \in 1 .. m /\ w.step = t /\ m \in Nat
      /\ View(Last, W, A) = b /\ A[t] = d
      /\ RowsHold(W, R, b, t) /\ During(W, R, b, t)
  <2>1. Last \in Ranks /\ ph[Last] \in {"forward", "sample"}
    BY LastIsARank
  <2>2. b = EnteredAll(A[t - 1], W[t])
    BY <1>1
  <2>3. /\ next \in Nat /\ t \in 1 .. next - 1 /\ W[t].step = t
        /\ View(Last, W, A) = b /\ A[t] = RanAll(A[t - 1], W[t])
        /\ RowsHold(W, R, b, t) /\ During(W, R, b, t)
    BY <2>1, <2>2, ViewDuring
  <2> QED BY <2>3, <1>1
<1>3. PICK I, S, g, e : I = Idx /\ S = slots[Last] /\ g = gen[Last] /\ e = next
  OBVIOUS
<1>4. RowsOK(I, S, g, b, W, R, e, 0)
  <2>1. Applied(Last) = e /\ Proposing(Last) = 0
    BY <1>3 DEF Applied, Proposing
  <2> QED BY <2>1, <1>2, <1>3 DEF RankOK
<1>5. PICK M, T : M = MovedAll(I, S, w.rows, rej) /\ T = SampledAll(I, M, t, w.rows)
  OBVIOUS
<1>6. slots'[Last] = T /\ gen'[Last] = g /\ Idx' = I
  <2>1. slots' = [slots EXCEPT ![Last] =
            SampledAll(Idx, MovedAll(Idx, slots[Last], w.rows, rej), t, w.rows)]
    BY DEF SampledBy
  <2>2. slots'[Last] = T
    BY <2>1, <1>3, <1>5, LastIsARank DEF Shape
  <2> QED BY <2>2, <1>3 DEF Idx
<1>7. View(Last, W, A)' = d /\ Applied(Last)' = e /\ Proposing(Last)' = t
  <2>1. ph'[Last] = "propose"
    BY LastIsARank DEF Scheduled
  <2>2. Current(Last)' = t
    BY DEF Current
  <2> QED BY <2>1, <2>2, <1>2, <1>3 DEF View, Applied, Proposing
<1>8. RowsOK(I, T, g, d, W, Z, e, t)
  <2>1. RunsOn(b, d, w)
    BY <1>1, StillRunning
  <2>2. e \in Int /\ t <= e
    BY <1>2, <1>3
  <2>3. RowsHold(W, R, b, t) /\ During(W, R, b, t) /\ w.step = t /\ t \in 1 .. m /\ m \in Nat
    BY <1>2
  <2>4. RowsOK(I, SampledAll(I, MovedAll(I, S, w.rows, Z[t]), t, w.rows), g, d, W, Z, e, t)
    BY <2>1, <2>2, <2>3, <1>4, RowsSampledLast
  <2> QED BY <2>4, <1>5
<1> QED BY <1>3, <1>6, <1>7, <1>8 DEF RankOK

\* The operations of the step that Sample enqueues.
LEMMA SendsSay ==
  ASSUME NEW t, NEW rows, NEW rej, NEW s, s = Sends(t, rows, rej)
  PROVE  /\ IsSeq(s)
         /\ \A j \in 1 .. Len(s) : s[j].step = t /\ (s[j].kind = "combined" => s[j].rej = rej)
<1>1. CASE Need(rows) = {}
  <2>1. s = <<>>
    BY <1>1 DEF Sends
  <2> QED BY <2>1, EmptyIsSeq
<1>2. CASE Need(rows) # {}
  <2>1. PICK a, b : /\ a = Op("sampled", t, NumReqs(rows) * Padded(Width(rows)), <<>>)
                    /\ b = Op("combined", t, 2 * NumReqs(rows), rej)
    OBVIOUS
  <2>2. s = <<a, b>>
    BY <2>1, <1>2 DEF Sends
  <2>3. a.step = t /\ a.kind = "sampled" /\ b.step = t /\ b.rej = rej
    BY <2>1 DEF Op
  <2>4. IsSeq(s)
    <3>1. s \in Seq({a, b})
      BY <2>2
    <3> QED BY <3>1 DEF IsSeq
  <2>5. Len(s) = 2 /\ s[1] = a /\ s[2] = b
    BY <2>2
  <2> QED BY <2>3, <2>4, <2>5
<1> QED BY <1>1, <1>2

LEMMA SentSampled ==
  ASSUME NEW W, NEW pos, NEW G, NEW c, NEW R, Scheduled(W), Relayed(W, pos, G, c), SentOK(R),
         NEW t \in 1 .. next - 1, Sampled = t - 1, Sampled' = t, NEW rows, NEW rej,
         bc' = [bc EXCEPT ![Last] = @ \o Sends(t, rows, rej)],
         NEW Z, Z[t] = rej, Sampling(Z, R, t, next - 1)
  PROVE  SentOK(Z)'
<1>1. Last \in Ranks /\ DOMAIN bc = Ranks /\ IsSeq(bc[Last])
  BY LastIsARank DEF Relayed, Enqueued
<1>2. PICK s, x : s = bc[Last] /\ x = Sends(t, rows, rej)
  OBVIOUS
<1>3. /\ IsSeq(s) /\ IsSeq(x)
      /\ \A j \in 1 .. Len(x) : x[j].step = t /\ (x[j].kind = "combined" => x[j].rej = rej)
  BY <1>1, <1>2, SendsSay
<1>4. PICK y : y = s \o x
  OBVIOUS
<1>5. bc'[Last] = y
  BY <1>1, <1>2, <1>4
<1>6. /\ Len(s) \in Nat /\ Len(x) \in Nat /\ Len(y) = Len(s) + Len(x)
      /\ \A i \in 1 .. Len(s) + Len(x) : y[i] = IF i <= Len(s) THEN s[i] ELSE x[i - Len(s)]
  BY <1>3, <1>4, ConcatIsSeq
<1>7. ASSUME NEW j \in 1 .. Len(y)
      PROVE  y[j].step <= t /\ (y[j].kind = "combined" => y[j].rej = Z[y[j].step])
  <2>1. CASE j <= Len(s)
    <3>1. j \in 1 .. Len(bc[Last]) /\ y[j] = bc[Last][j]
      BY <2>1, <1>2, <1>6
    <3>2. /\ bc[Last][j].step <= Sampled /\ bc[Last][j].step \in Nat \ {0}
          /\ bc[Last][j].kind = "combined" => bc[Last][j].rej = R[bc[Last][j].step]
      BY <3>1, OpsHaveSteps DEF SentOK
    <3>3. PICK u : u = bc[Last][j].step
      OBVIOUS
    <3>4. PICK sm : sm = Sampled
      OBVIOUS
    <3>5. u \in 1 .. next - 1 /\ u # t /\ u <= t
      <4>1. sm = t - 1 /\ u <= sm /\ u \in Nat \ {0} /\ next \in Nat
        BY <3>2, <3>3, <3>4 DEF Scheduled
      <4> QED BY <4>1
    <3>6. Z[u] = R[u]
      BY <3>5 DEF Sampling
    <3> QED BY <3>1, <3>2, <3>3, <3>5, <3>6
  <2>2. CASE ~ (j <= Len(s))
    <3>1. PICK k : k = j - Len(s)
      OBVIOUS
    <3>2. k \in 1 .. Len(x) /\ y[j] = x[k]
      BY <2>2, <3>1, <1>6
    <3> QED BY <3>2, <1>3
  <2> QED BY <2>1, <2>2
<1> QED BY <1>5, <1>7 DEF SentOK

LEMMA SampleHolds ==
  ASSUME NEW W, NEW pos, NEW G, NEW c, NEW R, NEW A, Holds(W, pos, G, c, R, A),
         Sample, max_num_reqs' = max_num_reqs
  PROVE  FInv'
<1>1. /\ Scheduled(W) /\ Relayed(W, pos, G, c) /\ History(W, R, A) /\ SchedulerOK(W, R, A)
      /\ \A s \in Ranks : RankOK(s, W, R, A, pos, c)
      /\ SentOK(R) /\ Shape
  BY DEF Holds
<1>2. Scheduled(W)' /\ Relayed(W, pos, G, c)'
  BY <1>1, SampleStep
<1>3. PICK t, w, m : t = Current(Last) /\ w = W[t] /\ m = next - 1
  OBVIOUS
<1>4. /\ ph[Last] = "sample" /\ ph' = [ph EXCEPT ![Last] = "propose"]
      /\ next' = next /\ reqs' = reqs /\ todo' = todo /\ gen' = gen /\ queue' = queue
  BY SampleChooses
<1>5. /\ next \in Nat /\ next > 0 /\ t \in 1 .. m /\ m \in Nat
      /\ Work(Last) = w /\ w.step = t /\ Sampled = t - 1
  BY <1>1, <1>3, <1>4, CurrentIs, LastIsARank
<1>6. Sampled' = t
  <2>1. ph'[Last] = "propose"
    BY <1>1, <1>4, LastIsARank DEF Scheduled
  <2>2. Sampled' = Current(Last)' - 0
    BY <2>1 DEF Sampled, Current
  <2>3. Current(Last)' = t
    BY <1>3, <1>4 DEF Current
  <2> QED BY <2>2, <2>3, <1>5
<1>7. PICK rej \in [DOMAIN w.rows -> 0 .. K] :
        (\A q \in DOMAIN w.rows : rej[q] <= Drafts(w.rows[q])) /\ SampledBy(t, w.rows, rej)
  <2>1. w.rows = Work(Last).rows /\ t = Work(Last).step
    BY <1>5
  <2> QED BY <2>1, SampleChooses
<1>8. PICK Z : Z = [u \in 1 .. m |-> IF u = t THEN rej ELSE R[u]]
  OBVIOUS
<1>9. Z[t] = rej /\ Sampling(Z, R, t, m)
  BY <1>5, <1>8 DEF Sampling
<1>10. RejOK(W, Z, t)
  <2>1. ASSUME NEW q \in DOMAIN w.rows PROVE rej[q] \in Nat /\ rej[q] <= Drafts(w.rows[q])
    BY <1>7, Constants
  <2> QED BY <2>1, <1>3, <1>9 DEF RejOK
<1>11. m < t + P
  <2>1. PICK l, n : l = Larger(1, next - P) /\ n = Len(results)
    OBVIOUS
  <2>2. IsSeq(results) /\ l + n = t - 1 + 1
    BY <2>1, <1>1, <1>5 DEF SchedulerOK, Pending
  <2>3. n \in Nat
    BY <2>1, <2>2, SeqLen
  <2>4. l \in Int /\ next - P <= l
    BY <2>1, <1>5, Constants DEF Larger
  <2> QED BY <2>2, <2>3, <2>4, <1>3, <1>5, Constants
<1>12. History(W, Z, A)'
  BY <1>1, <1>3, <1>4, <1>5, <1>9, <1>10, <1>11, HistorySampled
<1>13. Pending(W, Z)'
  <2>1. PICK s, o, num : /\ s = Sampled /\ o = [step |-> t, rej |-> rej, num |-> num]
                         /\ num = [q \in DOMAIN w.rows |->
                              IF Samples(w.rows[q]) THEN 1 + Drafts(w.rows[q]) - rej[q] ELSE 0]
    OBVIOUS
  <2>2. results' = Append(results, o)
    BY <2>1, <1>7 DEF SampledBy
  <2>3. s + 1 = t /\ s \in Nat
    BY <2>1, <1>5
  <2>4. ResultOK(o, w, rej)
    <3>1. o.step = t /\ o.rej = rej /\ o.num = num
      BY <2>1
    <3>2. DOMAIN rej = DOMAIN w.rows /\ DOMAIN num = DOMAIN w.rows
      BY <2>1, <1>7
    <3>3. \A q \in DOMAIN w.rows :
            num[q] = IF Samples(w.rows[q]) THEN 1 + Drafts(w.rows[q]) - rej[q] ELSE 0
      BY <2>1
    <3> QED BY <3>1, <3>2, <3>3, <1>5 DEF ResultOK
  <2>5. SameUpto(Z, R, Sampled)
    BY <2>1, <2>3, <1>5, <1>9 DEF Sampling, SameUpto
  <2>6. ResultOK(o, W[Sampled + 1], Z[Sampled + 1])
    BY <2>1, <2>3, <2>4, <1>3, <1>9
  <2>7. Sampled' = Sampled + 1 /\ Pending(W, R)
    BY <2>1, <2>3, <1>1, <1>6 DEF SchedulerOK
  <2> QED BY <2>2, <2>5, <2>6, <2>7, <1>1, <1>4, PendingGrows
<1>14. SchedulerOK(W, Z, A)'
  <2>1. ASSUME NEW q \in Reqs PROVE KnownOK(reqs[q], A[next - 1][q], W, Z, q, next - 1 - P)
    <3>1. PICK s, a, e : s = reqs[q] /\ a = A[next - 1][q] /\ e = next - 1 - P
      OBVIOUS
    <3>2. KnownOK(s, a, W, R, q, e)
      BY <3>1, <1>1 DEF SchedulerOK
    <3>3. a.seen \in 0 .. m
      <4>1. next - 1 \in 0 .. next - 1
        BY <1>5
      <4> QED BY <4>1, <3>1, <1>1, <1>3, <1>5, PastFacts
    <3>4. ~ (t <= e)
      BY <3>1, <1>3, <1>5, <1>11, Constants
    <3>5. KnownOK(s, a, W, Z, q, e)
      BY <3>2, <3>3, <3>4, <1>5, <1>9, KnownSampled
    <3> QED BY <3>1, <3>5
  <2> QED BY <2>1, <1>1, <1>4, <1>13 DEF SchedulerOK
<1>15. Shape'
  <2>1. DOMAIN slots' = DOMAIN slots
    BY <1>7 DEF SampledBy
  <2> QED BY <2>1, <1>1, <1>4 DEF Shape
<1>16. ASSUME NEW s \in Ranks PROVE RankOK(s, W, Z, A, pos, c)'
  <2>1. CASE s = Last
    BY <2>1, <1>1, <1>3, <1>4, <1>7, <1>9, <1>10, LastIsARank, RankSampledLast
  <2>2. CASE s # Last
    <3>1. ph'[s] = ph[s] /\ slots'[s] = slots[s]
      <4>1. ph'[s] = ph[s]
        BY <2>2, <1>1, <1>4 DEF Scheduled
      <4>2. slots'[s] = slots[s]
        BY <2>2, <1>1, <1>7 DEF SampledBy, Shape
      <4> QED BY <4>1, <4>2
    <3> QED BY <3>1, <2>2, <1>1, <1>3, <1>4, <1>5, <1>6, <1>9, <1>10, RankSampledOther
  <2> QED BY <2>1, <2>2
<1>17. SentOK(Z)'
  <2>1. bc' = [bc EXCEPT ![Last] = @ \o Sends(t, w.rows, rej)]
    BY <1>7 DEF SampledBy
  <2> QED BY <2>1, <1>1, <1>3, <1>5, <1>6, <1>9, SentSampled
<1>18. Holds(W, pos, G, c, Z, A)'
  BY <1>2, <1>12, <1>14, <1>15, <1>16, <1>17 DEF Holds
<1> QED BY <1>18 DEF FInv

-----------------------------------------------------------------------------
(* Propose preserves the invariant.                                        *)

WithDraft(s, t) == [s EXCEPT !.draft = t]
DraftAll(I, S, t, rows) == [i \in I |->
    IF S[i].req \in DOMAIN rows THEN WithDraft(S[i], t) ELSE S[i]]

LEMMA WithDraftIs ==
  ASSUME NEW s, IsSlot(s), NEW t, NEW x, x = WithDraft(s, t)
  PROVE  /\ IsSlot(x) /\ x.req = s.req /\ x.computed = s.computed /\ x.last = s.last
         /\ x.draft = t
<1>1. x = [req |-> s.req, computed |-> s.computed, last |-> s.last, draft |-> t]
  BY DEF IsSlot, WithDraft
<1> QED BY <1>1 DEF IsSlot

\* Nothing, or a draft broadcast after the others.
Drafted(t) ==
    bc' = bc \/ \E n : bc' = [bc EXCEPT ![Last] = Append(@, Op("draft", t, n, <<>>))]

LEMMA ProposeChooses ==
  ASSUME Propose, NEW rows, rows = Work(Last).rows, NEW t, t = Work(Last).step
  PROVE  /\ ph[Last] = "propose" /\ ph' = [ph EXCEPT ![Last] = "update"]
         /\ todo' = [todo EXCEPT ![Last] = Tail(@)]
         /\ next' = next /\ reqs' = reqs /\ results' = results /\ gen' = gen /\ queue' = queue
         /\ slots' = IF K = 0 THEN slots
                     ELSE [slots EXCEPT ![Last] = [i \in Idx |->
                             IF @[i].req \in DOMAIN rows THEN WithDraft(@[i], t) ELSE @[i]]]
         /\ Drafted(t)
<1>1. /\ ph[Last] = "propose" /\ ph' = [ph EXCEPT ![Last] = "update"]
      /\ todo' = [todo EXCEPT ![Last] = Tail(@)]
      /\ next' = next /\ reqs' = reqs /\ results' = results /\ gen' = gen /\ queue' = queue
  BY DEF Propose
<1>2. IF K = 0 THEN slots' = slots /\ bc' = bc
      ELSE /\ slots' = [slots EXCEPT ![Last] = [i \in Idx |->
                IF @[i].req \in DOMAIN rows THEN WithDraft(@[i], t) ELSE @[i]]]
           /\ bc' = IF Need(rows) = {} THEN bc
                    ELSE [bc EXCEPT ![Last] =
                            Append(@, Op("draft", t, NumReqs(rows) * K, <<>>))]
  BY Zenon DEF Propose, WithDraft
<1>3. Drafted(t)
  BY <1>2, Zenon DEF Drafted
<1>4. slots' = IF K = 0 THEN slots
                     ELSE [slots EXCEPT ![Last] = [i \in Idx |->
                             IF @[i].req \in DOMAIN rows THEN WithDraft(@[i], t) ELSE @[i]]]
  BY <1>2, Zenon
<1> QED BY <1>1, <1>3, <1>4, Zenon

\* The requests after step t.
Past(W, d, t) ==
    \A q \in Reqs : /\ d[q].seen \in 0 .. t /\ d[q].prev \in {0, d[q].seen}
                    /\ q \in DOMAIN W[t].rows => d[q].seen = t
                    /\ d[q].seen > 0 => q \in DOMAIN W[d[q].seen].rows

LEMMA PastIs ==
  ASSUME NEW W, NEW R, NEW A, Scheduled(W), History(W, R, A), NEW t \in 1 .. next - 1
  PROVE  Past(W, A[t], t)
<1>1. next \in Nat /\ t \in 0 .. next - 1 /\ W[t].step = t
  BY DEF Scheduled
<1>2. ASSUME NEW q \in Reqs
      PROVE  /\ A[t][q].seen \in 0 .. t /\ A[t][q].prev \in {0, A[t][q].seen}
             /\ q \in DOMAIN W[t].rows => A[t][q].seen = t
             /\ A[t][q].seen > 0 => q \in DOMAIN W[A[t][q].seen].rows
  <2>1. PICK a : a = A[t][q]
    OBVIOUS
  <2>2. Backed(a, W, R, q) /\ a.seen \in 0 .. t
    BY <2>1, <1>1, PastFacts
  <2>3. a = Ran(Entered(A[t - 1][q], W[t], q), W[t], q)
    BY <2>1 DEF History
  <2>4. q \in DOMAIN W[t].rows => a.seen = t
    BY <2>3, <1>1 DEF Ran
  <2> QED BY <2>1, <2>2, <2>4 DEF Backed
<1> QED BY <1>2 DEF Past

LEMMA RowsProposed ==
  ASSUME NEW W, NEW R, NEW t \in Nat, t > 0, NEW d, Past(W, d, t), NEW e,
         NEW I, NEW S, NEW g, RowsOK(I, S, g, d, W, R, e, t)
  PROVE  RowsOK(I, IF K = 0 THEN S ELSE DraftAll(I, S, t, W[t].rows), g, d, W, R, e, 0)
<1> PICK w : w = W[t]
  OBVIOUS
<1> PICK T : T = IF K = 0 THEN S ELSE DraftAll(I, S, t, w.rows)
  OBVIOUS
<1>1. /\ Placed(I, S, d) /\ DOMAIN g = I /\ \A i \in I : g[i] \in Nat
      /\ \A i \in I : S[i].req # None => SlotOK(S[i], d[S[i].req], W, R, S[i].req, e, t)
  BY DEF RowsOK
<1>2. /\ DOMAIN S = I /\ \A i \in I : IsSlot(S[i])
      /\ \A i \in I : S[i].req # None => S[i].req \in Running(d)
  BY <1>1 DEF Placed
<1>3. /\ DOMAIN T = I
      /\ \A i \in I : T[i] = IF K # 0 /\ S[i].req \in DOMAIN w.rows THEN WithDraft(S[i], t) ELSE S[i]
  BY <1>2 DEF DraftAll
<1>4. \A i \in I : IsSlot(T[i]) /\ T[i].req = S[i].req
  BY <1>2, <1>3, WithDraftIs
<1>5. Placed(I, T, d)
  BY <1>1, <1>3, <1>4, PlacedStays
<1>6. ASSUME NEW i \in I, T[i].req # None
      PROVE  SlotOK(T[i], d[T[i].req], W, R, T[i].req, e, 0)
  <2>1. PICK q, s, x, a : q = S[i].req /\ s = S[i] /\ x = T[i] /\ a = d[q]
    OBVIOUS
  <2>2. /\ q \in Reqs /\ x.req = q /\ IsSlot(s) /\ SlotOK(s, a, W, R, q, e, t)
        /\ x = IF K # 0 /\ q \in DOMAIN w.rows THEN WithDraft(s, t) ELSE s
    BY <2>1, <1>1, <1>2, <1>3, <1>4, <1>6 DEF Running
  <2>3. /\ a.seen \in 0 .. t /\ a.prev \in {0, a.seen}
        /\ q \in DOMAIN w.rows => a.seen = t
        /\ a.seen > 0 => q \in DOMAIN W[a.seen].rows
    BY <2>1, <2>2 DEF Past
  <2>4. /\ s.computed = Net(W, R, a.seen, q, e)
        /\ Relays(a, W, q, e) => s.last = a.prev /\ ((K > 0 /\ a.prev # t) => s.draft = a.prev)
    BY <2>2 DEF SlotOK
  <2>5. x.computed = s.computed /\ x.last = s.last
    BY <2>2, WithDraftIs
  <2>6. ASSUME K > 0, a.prev > 0, Relays(a, W, q, e) PROVE x.draft = a.prev
    <3>1. a.prev = a.seen /\ a.seen > 0
      BY <2>3, <2>6
    <3>2. CASE q \in DOMAIN w.rows
      <4>1. x = WithDraft(s, t) /\ a.prev = t
        BY <3>1, <3>2, <2>2, <2>3, <2>6
      <4>2. x.draft = t
        <5>1. IsSlot(s) /\ x = WithDraft(s, t)
          BY <4>1, <2>2
        <5> QED BY <5>1 DEF WithDraft, IsSlot
      <4> QED BY <4>1, <4>2
    <3>3. CASE q \notin DOMAIN w.rows
      <4>1. x = s /\ a.prev # t
        BY <3>1, <3>3, <2>2, <2>3
      <4> QED BY <4>1, <2>4, <2>6
    <3> QED BY <3>2, <3>3
  <2>7. Relays(a, W, q, e) => a.prev > 0
    BY DEF Relays
  <2>8. SlotOK(x, a, W, R, q, e, 0)
    BY <2>4, <2>5, <2>6, <2>7 DEF SlotOK
  <2> QED BY <2>1, <2>2, <2>8
<1>7. RowsOK(I, T, g, d, W, R, e, 0)
  BY <1>1, <1>5, <1>6 DEF RowsOK
<1> QED BY <1>7

LEMMA RankProposed ==
  ASSUME NEW W, NEW pos, NEW c, NEW R, NEW A, Scheduled(W), History(W, R, A), Shape,
         RankOK(Last, W, R, A, pos, c), Propose, max_num_reqs' = max_num_reqs
  PROVE  RankOK(Last, W, R, A, pos, c)' /\ Sampled' = Sampled
<1>1. PICK t, u, d : t = Current(Last) /\ u = t + 1 /\ d = A[t]
  OBVIOUS
<1>2. /\ ph[Last] = "propose" /\ ph' = [ph EXCEPT ![Last] = "update"]
      /\ todo' = [todo EXCEPT ![Last] = Tail(@)] /\ next' = next /\ gen' = gen
      /\ slots' = IF K = 0 THEN slots
                  ELSE [slots EXCEPT ![Last] = [i \in Idx |->
                          IF @[i].req \in DOMAIN Work(Last).rows
                            THEN WithDraft(@[i], Work(Last).step) ELSE @[i]]]
  BY ProposeChooses
<1>3. /\ next \in Nat /\ t \in 1 .. next - 1 /\ todo[Last] # <<>>
      /\ Work(Last) = W[t] /\ W[t].step = t
  BY <1>1, <1>2, CurrentIs, LastIsARank
<1>4. Past(W, d, t) /\ t \in Nat /\ t > 0
  BY <1>1, <1>3, PastIs
<1>5. PICK I, S, g, e : I = Idx /\ S = slots[Last] /\ g = gen[Last] /\ e = next
  OBVIOUS
<1>6. RowsOK(I, S, g, d, W, R, e, t)
  <2>1. View(Last, W, A) = d /\ Applied(Last) = e /\ Proposing(Last) = t
    BY <1>1, <1>2, <1>5 DEF View, Applied, Proposing
  <2> QED BY <2>1, <1>5 DEF RankOK
<1>7. PICK T : T = IF K = 0 THEN S ELSE DraftAll(I, S, t, W[t].rows)
  OBVIOUS
<1>8. slots'[Last] = T /\ gen'[Last] = g /\ Idx' = I
  <2>1. slots'[Last] = T
    BY <1>2, <1>3, <1>5, <1>7, LastIsARank DEF Shape, DraftAll
  <2> QED BY <2>1, <1>2, <1>5 DEF Idx
<1>9. RowsOK(I, T, g, d, W, R, e, 0)
  BY <1>4, <1>6, <1>7, RowsProposed
<1>10. Current(Last)' = u /\ ph'[Last] = "update" /\ Sampled' = Sampled
  <2>1. DOMAIN todo = Ranks /\ DOMAIN ph = Ranks /\ IsSeq(todo[Last])
    BY LastIsARank DEF Scheduled, Before
  <2>2. PICK l : l = Len(todo[Last])
    OBVIOUS
  <2>3. Len(todo'[Last]) = l - 1 /\ l \in Nat
    BY <2>1, <2>2, <1>2, <1>3, TailIsSeq, LastIsARank
  <2>4. ph'[Last] = "update"
    BY <2>1, <1>2, LastIsARank
  <2>5. Current(Last)' = next - (l - 1) /\ t = next - l
    BY <2>2, <2>3, <1>1, <1>2 DEF Current
  <2>6. Sampled' = next - (l - 1) - 1 /\ Sampled = next - l - 0
    BY <2>2, <2>3, <2>4, <1>2 DEF Sampled
  <2> QED BY <2>3, <2>4, <2>5, <2>6, <1>1, <1>3
<1>11. View(Last, W, A)' = d /\ Applied(Last)' = e /\ Proposing(Last)' = 0
  <2>1. View(Last, W, A)' = A[Current(Last)' - 1] /\ Applied(Last)' = e /\ Proposing(Last)' = 0
    BY <1>2, <1>5, <1>10 DEF View, Applied, Proposing
  <2>2. u - 1 = t
    BY <1>1, <1>3
  <2> QED BY <2>1, <2>2, <1>1, <1>10
<1> QED BY <1>5, <1>8, <1>9, <1>10, <1>11 DEF RankOK

LEMMA SentDraft ==
  ASSUME NEW W, NEW pos, NEW G, NEW c, NEW R, Scheduled(W), Relayed(W, pos, G, c), SentOK(R),
         NEW t, Drafted(t), t <= Sampled, Sampled' = Sampled
  PROVE  SentOK(R)'
<1>1. Last \in Ranks /\ DOMAIN bc = Ranks /\ IsSeq(bc[Last])
  BY LastIsARank DEF Relayed, Enqueued
<1>2. CASE bc' = bc
  BY <1>2 DEF SentOK
<1>3. ASSUME NEW n, bc' = [bc EXCEPT ![Last] = Append(@, Op("draft", t, n, <<>>))]
      PROVE  SentOK(R)'
  <2>1. PICK s, o, y : s = bc[Last] /\ o = Op("draft", t, n, <<>>) /\ y = Append(s, o)
    OBVIOUS
  <2>2. o.step = t /\ o.kind = "draft"
    BY <2>1 DEF Op
  <2>3. /\ Len(s) \in Nat /\ Len(y) = Len(s) + 1 /\ y[Len(s) + 1] = o
        /\ \A i \in 1 .. Len(s) : y[i] = s[i]
    BY <2>1, <1>1, AppendIsSeq
  <2>4. bc'[Last] = y
    BY <2>1, <1>1, <1>3
  <2>5. ASSUME NEW j \in 1 .. Len(y)
        PROVE  y[j].step <= Sampled /\ (y[j].kind = "combined" => y[j].rej = R[y[j].step])
    <3>1. CASE j = Len(s) + 1
      BY <3>1, <2>2, <2>3
    <3>2. CASE j # Len(s) + 1
      <4>1. j \in 1 .. Len(bc[Last]) /\ y[j] = bc[Last][j]
        BY <3>2, <2>1, <2>3
      <4> QED BY <4>1 DEF SentOK
    <3> QED BY <3>1, <3>2
  <2> QED BY <2>4, <2>5 DEF SentOK
<1> QED BY <1>2, <1>3 DEF Drafted

LEMMA ProposeHolds ==
  ASSUME NEW W, NEW pos, NEW G, NEW c, NEW R, NEW A, Holds(W, pos, G, c, R, A),
         Propose, max_num_reqs' = max_num_reqs
  PROVE  Holds(W, pos, G, c, R, A)'
<1>1. /\ Scheduled(W) /\ Relayed(W, pos, G, c) /\ History(W, R, A) /\ SchedulerOK(W, R, A)
      /\ \A s \in Ranks : RankOK(s, W, R, A, pos, c)
      /\ SentOK(R) /\ Shape
  BY DEF Holds
<1>2. Scheduled(W)' /\ Relayed(W, pos, G, c)'
  BY <1>1, ProposeStep
<1>3. /\ ph[Last] = "propose" /\ ph' = [ph EXCEPT ![Last] = "update"]
      /\ todo' = [todo EXCEPT ![Last] = Tail(@)]
      /\ next' = next /\ reqs' = reqs /\ results' = results /\ gen' = gen /\ queue' = queue
      /\ DOMAIN slots' = DOMAIN slots /\ \A s \in Ranks \ {Last} : slots'[s] = slots[s]
      /\ Drafted(Work(Last).step)
  BY <1>1, ProposeChooses DEF Shape
<1>4. RankOK(Last, W, R, A, pos, c)' /\ Sampled' = Sampled
  BY <1>1, LastIsARank, RankProposed
<1>5. Sampled \in Nat /\ Sampled' \in Int /\ Sampled <= Sampled'
  BY <1>1, <1>4, CurrentIs, LastIsARank
<1>6. Shape'
  BY <1>1, <1>3 DEF Shape
<1>7. ASSUME NEW s \in Ranks PROVE RankOK(s, W, R, A, pos, c)'
  <2>1. CASE s = Last
    BY <2>1, <1>4
  <2>2. CASE s # Last
    <3>1. /\ slots'[s] = slots[s] /\ gen'[s] = gen[s] /\ queue'[s] = queue[s]
          /\ todo'[s] = todo[s] /\ ph'[s] = ph[s]
      BY <2>2, <1>1, <1>3 DEF Scheduled
    <3> QED BY <3>1, <1>1, <1>3, <1>5, RankStays
  <2> QED BY <2>1, <2>2
<1>8. Pending(W, R)'
  BY <1>1, <1>3, <1>4 DEF SchedulerOK, Pending
<1>9. SchedulerOK(W, R, A)'
  BY <1>1, <1>3, <1>8, SchedulerStays
<1>10. SentOK(R)'
  <2>1. Work(Last).step <= Sampled
    <3>1. /\ next \in Nat /\ Work(Last).step = Current(Last) /\ Current(Last) \in 1 .. next - 1
          /\ Sampled = Current(Last) - 0
      BY <1>1, <1>3, CurrentIs, LastIsARank
    <3> QED BY <3>1
  <2> QED BY <2>1, <1>1, <1>3, <1>4, SentDraft
<1> QED BY <1>1, <1>2, <1>3, <1>6, <1>7, <1>9, <1>10, HistoryStays DEF Holds

-----------------------------------------------------------------------------
(* Broadcast preserves the invariant.                                      *)

\* The next operation of the streams is one and the same on all ranks.
IsNext(W, pos, c, u, i) ==
    /\ u \in 1 .. next - 1 /\ i \in 1 .. NumOps(W[u]) /\ c + 1 = pos[u] + i
    /\ \A r \in Ranks : Same(Head(bc[r]), OpOf(W[u], i))

LEMMA NextOp ==
  ASSUME NEW W, NEW pos, NEW G, NEW c, Scheduled(W), Relayed(W, pos, G, c),
         \A r \in Ranks : bc[r] # <<>>
  PROVE  \E u, i : IsNext(W, pos, c, u, i)
<1>1. /\ c \in Nat /\ Laid(W, pos, G)
      /\ \A r \in Ranks : Enqueued(r, pos, G, c)
  BY DEF Relayed
<1>2. ASSUME NEW r \in Ranks
      PROVE  /\ Len(bc[r]) \in Nat /\ Len(bc[r]) > 0 /\ pos[next] \in Nat
             /\ c + Len(bc[r]) <= pos[next] /\ Same(Head(bc[r]), G[c + 1])
  <2>1. Len(bc[r]) \in Nat /\ pos[next] \in Nat /\ c + Len(bc[r]) <= pos[next]
    BY <1>1, NeverAhead
  <2>2. IsSeq(bc[r]) /\ bc[r] # <<>> /\ \A j \in 1 .. Len(bc[r]) : Same(bc[r][j], G[c + j])
    BY <1>1 DEF Enqueued
  <2>3. Len(bc[r]) > 0 /\ Head(bc[r]) = bc[r][1]
    BY <2>2, TailIsSeq
  <2>4. 1 \in 1 .. Len(bc[r])
    BY <2>1, <2>3
  <2> QED BY <2>1, <2>2, <2>3, <2>4
<1>3. PICK g : g = c + 1
  OBVIOUS
<1>4. g \in 1 .. pos[next]
  <2>1. PICK l : l = Len(bc[Last])
    OBVIOUS
  <2>2. l \in Nat /\ l > 0 /\ pos[next] \in Nat /\ c + l <= pos[next]
    BY <2>1, <1>2, LastIsARank
  <2> QED BY <2>2, <1>1, <1>3
<1>5. PICK u \in 1 .. next - 1 : \E i \in 1 .. NumOps(W[u]) : g = pos[u] + i
  BY <1>1, <1>4 DEF Laid
<1>6. PICK i \in 1 .. NumOps(W[u]) : g = pos[u] + i
  BY <1>5
<1>7. G[g] = OpOf(W[u], i)
  BY <1>1, <1>6 DEF Laid
<1>8. \A r \in Ranks : Same(Head(bc[r]), OpOf(W[u], i))
  BY <1>2, <1>3, <1>7
<1> QED BY <1>3, <1>6, <1>8 DEF IsNext

\* It is one more of its step's, and none of the other steps'.
LEMMA DoneNext ==
  ASSUME NEW W, NEW pos, NEW G, NEW c, Scheduled(W), Relayed(W, pos, G, c),
         NEW u, NEW i, IsNext(W, pos, c, u, i), NEW v \in 1 .. next - 1
  PROVE  /\ v = u => Done(W[v], pos[v], c) = i - 1 /\ Done(W[v], pos[v], c + 1) = i
         /\ v # u => Done(W[v], pos[v], c + 1) = Done(W[v], pos[v], c)
<1>1. /\ next \in Nat /\ c \in Nat /\ Laid(W, pos, G)
  BY DEF Relayed, Scheduled
<1>2. /\ u \in 1 .. next - 1 /\ i \in 1 .. NumOps(W[u]) /\ c + 1 = pos[u] + i
  BY DEF IsNext
<1>3. NumOps(W[u]) \in Nat /\ NumOps(W[v]) \in Nat
  BY NumOpsIsNat
<1>4. PICK p, m, n, q : p = pos[u] /\ m = NumOps(W[u]) /\ n = NumOps(W[v]) /\ q = pos[v]
  OBVIOUS
<1>5. /\ u \in 1 .. next /\ v \in 1 .. next /\ u + 1 \in 1 .. next /\ v + 1 \in 1 .. next
  BY <1>1, <1>2
<1>6. /\ p \in Nat /\ q \in Nat
      /\ pos[u + 1] = p + m /\ pos[v + 1] = q + n
      /\ v + 1 <= u => pos[v + 1] <= p
      /\ u + 1 <= v => pos[u + 1] <= q
  BY <1>1, <1>2, <1>4, <1>5 DEF Laid
<1>7. PICK h, k : h = Done(W[v], pos[v], c) /\ k = Done(W[v], pos[v], c + 1)
  OBVIOUS
<1>8. h = Smaller(n, Larger(0, c - q)) /\ k = Smaller(n, Larger(0, (c + 1) - q))
  <2>1. Done(W[v], q, c) = Smaller(NumOps(W[v]), Larger(0, c - q))
    BY DEF Done
  <2>2. Done(W[v], q, c + 1) = Smaller(NumOps(W[v]), Larger(0, (c + 1) - q))
    BY DEF Done
  <2> QED BY <2>1, <2>2, <1>4, <1>7, Zenon
<1>9. PICK y, z : y = c - q /\ z = (c + 1) - q
  OBVIOUS
<1>10. h = Smaller(n, Larger(0, y)) /\ k = Smaller(n, Larger(0, z)) /\ y \in Int /\ z \in Int
       /\ z = y + 1
  <2>1. h = Smaller(n, Larger(0, y)) /\ k = Smaller(n, Larger(0, z))
    BY <1>8, <1>9, Zenon
  <2>2. y \in Int /\ z \in Int /\ z = y + 1
    BY <1>1, <1>6, <1>9
  <2> QED BY <2>1, <2>2
<1>11. CASE v = u
  <2>1. y = i - 1 /\ z = i /\ i \in 1 .. n /\ n \in Nat
    BY <1>9, <1>1, <1>2, <1>3, <1>4, <1>6, <1>11
  <2>2. h = i - 1 /\ k = i
    BY <2>1, <1>10 DEF Smaller, Larger
  <2> QED BY <2>2, <1>7, <1>11
<1>12. CASE v + 1 <= u
  <2>1. q + n <= p /\ i \in Nat /\ i > 0 /\ c + 1 = p + i /\ n \in Nat
    BY <1>2, <1>3, <1>4, <1>6, <1>12
  <2>2. y >= n /\ z >= n
    BY <2>1, <1>1, <1>6, <1>9
  <2>3. h = k
    BY <2>1, <2>2, <1>10 DEF Smaller, Larger
  <2>4. v # u
    BY <1>2, <1>12
  <2> QED BY <2>3, <2>4, <1>7
<1>13. CASE u + 1 <= v
  <2>1. p + m <= q /\ i <= m /\ c + 1 = p + i /\ n \in Nat /\ m \in Nat /\ i \in Nat
    BY <1>2, <1>3, <1>4, <1>6, <1>13
  <2>2. y <= 0 /\ z <= 0
    BY <2>1, <1>1, <1>6, <1>9
  <2>3. h = k
    BY <2>1, <2>2, <1>10 DEF Smaller, Larger
  <2>4. v # u
    BY <1>2, <1>13
  <2> QED BY <2>3, <2>4, <1>7
<1> QED BY <1>2, <1>11, <1>12, <1>13

LEMMA DeliveredIs ==
  ASSUME NEW e, IsEntry(e), NEW recv, NEW send, e.step = recv.step,
         NEW x, x = Delivered(e, recv, send)
  PROVE  /\ IsEntry(x) /\ x.step = e.step /\ x.need = e.need /\ x.idx = e.idx /\ x.gen = e.gen
         /\ x.left = e.left - 1
         /\ x.sampled = IF recv.kind = "sampled" THEN send.step ELSE e.sampled
         /\ x.rej = IF recv.kind = "combined" THEN send.rej ELSE e.rej
         /\ x.draft = IF recv.kind = "draft" THEN send.step ELSE e.draft
<1>1. PICK l, s, j, d : /\ l = e.left - 1
                        /\ s = IF recv.kind = "sampled" THEN send.step ELSE e.sampled
                        /\ j = IF recv.kind = "combined" THEN send.rej ELSE e.rej
                        /\ d = IF recv.kind = "draft" THEN send.step ELSE e.draft
  OBVIOUS
<1>2. x = [e EXCEPT !.left = l, !.sampled = s, !.rej = j, !.draft = d]
  BY <1>1 DEF Delivered
<1>3. x = [step |-> e.step, left |-> l, need |-> e.need, idx |-> e.idx,
           gen |-> e.gen, sampled |-> s, rej |-> j, draft |-> d]
  BY <1>2 DEF IsEntry
<1> QED BY <1>1, <1>3 DEF IsEntry

LEMMA EntryDelivered ==
  ASSUME NEW W, NEW R, NEW pos, NEW c, NEW u \in Nat, u > 0, W[u].step = u,
         NEW i \in 1 .. NumOps(W[u]), NEW v,
         v = u => Done(W[v], pos[v], c) = i - 1 /\ Done(W[v], pos[v], c + 1) = i,
         NEW cur, (v # u /\ v < cur /\ v > 0) => Done(W[v], pos[v], c + 1) = Done(W[v], pos[v], c),
         NEW recv, Same(recv, OpOf(W[u], i)), NEW send, Same(send, OpOf(W[u], i)),
         send.kind = "combined" => send.rej = R[u],
         NEW x, NEW I, NEW S, NEW g, NEW a, EntryOK(x, v, I, S, g, a, W, R, pos, c, cur), v \in Int,
         cur \in Int
  PROVE  EntryOK(Delivered(x, recv, send), v, I, S, g, a, W, R, pos, c + 1, cur)
<1>1. recv.step = u /\ send.step = u
  BY DEF Same, OpOf, Op
<1>2. CASE v <= 0 \/ v >= cur \/ Need(W[v].rows) = {}
  <2>1. IsEntry(x) /\ x.step = 0 /\ x.need = {}
    BY <1>2 DEF EntryOK
  <2>2. Delivered(x, recv, send) = x
    BY <2>1, <1>1 DEF Delivered
  <2> QED BY <2>1, <2>2, <1>2 DEF EntryOK
<1>3. CASE ~ (v <= 0 \/ v >= cur \/ Need(W[v].rows) = {})
  <2>1. /\ IsEntry(x) /\ Arrived(x, v, Done(W[v], pos[v], c), W[v], R[v])
        /\ \A q \in DOMAIN W[v].rows : Marked(x.idx[q], x.gen[q], q, v, I, S, g, a)
    BY <1>3 DEF EntryOK
  <2>2. x.step = v
    BY <2>1 DEF Arrived
  <2>3. CASE v # u
    <3>1. Delivered(x, recv, send) = x
      BY <2>2, <2>3, <1>1 DEF Delivered
    <3>2. Done(W[v], pos[v], c + 1) = Done(W[v], pos[v], c)
      BY <2>3, <1>3
    <3> QED BY <2>1, <3>1, <3>2, <1>3 DEF EntryOK
  <2>4. CASE v = u
    <3>1. PICK y, w, n : y = Delivered(x, recv, send) /\ w = W[u] /\ n = NumOps(w)
      OBVIOUS
    <3>2. /\ IsEntry(y) /\ y.step = v /\ y.need = x.need /\ y.idx = x.idx /\ y.gen = x.gen
          /\ y.left = x.left - 1
          /\ y.sampled = IF recv.kind = "sampled" THEN u ELSE x.sampled
          /\ y.rej = IF recv.kind = "combined" THEN send.rej ELSE x.rej
          /\ y.draft = IF recv.kind = "draft" THEN u ELSE x.draft
      BY <2>1, <2>2, <2>4, <1>1, <3>1, DeliveredIs
    <3>3. /\ x.need = Need(w.rows) /\ x.left = n - (i - 1)
          /\ i - 1 >= 1 => x.sampled = u
          /\ i - 1 >= 2 => x.rej = R[u]
          /\ i - 1 >= 3 => x.draft = u
      BY <2>1, <2>4, <3>1 DEF Arrived
    <3>4. n \in {0, 2, 3} /\ i \in 1 .. n
      BY <3>1, NumOpsIsNat
    <3>5. /\ i = 1 => recv.kind = "sampled"
          /\ i = 2 => recv.kind = "combined" /\ send.kind = "combined"
          /\ i = 3 => recv.kind = "draft"
      BY <3>4 DEF Same, OpOf, Op
    <3>6. y.left = n - i
      BY <3>2, <3>3, <3>4
    <3>7. /\ y.sampled = u
          /\ i >= 2 => y.rej = R[u]
          /\ i >= 3 => y.draft = u
      <4>1. CASE i = 1
        BY <4>1, <3>2, <3>5
      <4>2. CASE i = 2
        <5>1. x.sampled = u
          BY <4>2, <3>3
        <5> QED BY <5>1, <4>2, <3>2, <3>5
      <4>3. CASE i = 3
        <5>1. x.sampled = u /\ x.rej = R[u]
          BY <4>3, <3>3
        <5> QED BY <5>1, <4>3, <3>2, <3>5
      <4> QED BY <4>1, <4>2, <4>3, <3>4
    <3>8. Arrived(y, u, i, w, R[u])
      BY <2>4, <3>1, <3>2, <3>3, <3>6, <3>7 DEF Arrived
    <3>9. Arrived(y, v, Done(W[v], pos[v], c + 1), W[v], R[v])
      BY <2>4, <3>1, <3>8
    <3>10. \A q \in DOMAIN W[v].rows : Marked(y.idx[q], y.gen[q], q, v, I, S, g, a)
      BY <2>1, <3>2
    <3> QED BY <1>3, <3>1, <3>2, <3>9, <3>10 DEF EntryOK
  <2> QED BY <2>3, <2>4
<1> QED BY <1>2, <1>3

EntriesDelivered(Q, Z, recv, send) ==
    Z = [k \in 1 .. P |-> Delivered(Q[k], recv, send)]

LEMMA RankDelivered ==
  ASSUME NEW W, NEW pos, NEW G, NEW c, NEW R, Scheduled(W), Relayed(W, pos, G, c),
         NEW u, NEW i, IsNext(W, pos, c, u, i),
         NEW recv, Same(recv, OpOf(W[u], i)), NEW send, Same(send, OpOf(W[u], i)),
         send.kind = "combined" => send.rej = R[u],
         NEW Q, NEW I, NEW S, NEW g, NEW a, NEW e \in Int, NEW cur \in 1 .. next,
         EntriesOK(Q, I, S, g, a, W, R, pos, c, e, cur), NEW Z, EntriesDelivered(Q, Z, recv, send)
  PROVE  EntriesOK(Z, I, S, g, a, W, R, pos, c + 1, e, cur)
<1>1. \A k \in 1 .. P : EntryOK(Q[k], e + k, I, S, g, a, W, R, pos, c, cur)
  BY DEF EntriesOK
<1>2. /\ \A k \in 1 .. P : Z[k] = Delivered(Q[k], recv, send)
      /\ IsSeq(Z) /\ Len(Z) = P
  <2>1. Z = [k \in 1 .. P |-> Delivered(Q[k], recv, send)]
    BY DEF EntriesDelivered
  <2>2. PICK T : T = {Delivered(Q[k], recv, send) : k \in 1 .. P}
    OBVIOUS
  <2>3. Z \in [1 .. P -> T]
    BY <2>1, <2>2
  <2>4. Z \in Seq(T) /\ Len(Z) = P
    BY <2>1, <2>3, Constants
  <2> QED BY <2>1, <2>4 DEF IsSeq
<1>3. /\ u \in Nat /\ u > 0 /\ W[u].step = u /\ i \in 1 .. NumOps(W[u]) /\ next \in Nat
  BY DEF IsNext, Scheduled
<1>4. ASSUME NEW k \in 1 .. P PROVE EntryOK(Z[k], e + k, I, S, g, a, W, R, pos, c + 1, cur)
  <2>1. PICK v, x : v = e + k /\ x = Q[k]
    OBVIOUS
  <2>2. EntryOK(x, v, I, S, g, a, W, R, pos, c, cur) /\ v \in Int /\ cur \in Int
    BY <2>1, <1>1
  <2>3. v = u => Done(W[v], pos[v], c) = i - 1 /\ Done(W[v], pos[v], c + 1) = i
    <3>1. v = u => v \in 1 .. next - 1
      BY DEF IsNext
    <3> QED BY <3>1, DoneNext
  <2>4. (v # u /\ v < cur /\ v > 0) => Done(W[v], pos[v], c + 1) = Done(W[v], pos[v], c)
    <3>1. v < cur /\ v > 0 => v \in 1 .. next - 1
      BY <2>2, <1>3
    <3> QED BY <3>1, DoneNext
  <2>5. EntryOK(Delivered(x, recv, send), v, I, S, g, a, W, R, pos, c + 1, cur)
    BY <2>2, <2>3, <2>4, <1>3, EntryDelivered
  <2> QED BY <2>1, <2>5, <1>2
<1> QED BY <1>2, <1>4 DEF EntriesOK

LEMMA BroadcastHolds ==
  ASSUME NEW W, NEW pos, NEW G, NEW c, NEW R, NEW A, Holds(W, pos, G, c, R, A),
         Broadcast, max_num_reqs' = max_num_reqs
  PROVE  Holds(W, pos, G, c + 1, R, A)'
<1>1. /\ Scheduled(W) /\ Relayed(W, pos, G, c) /\ History(W, R, A) /\ SchedulerOK(W, R, A)
      /\ \A s \in Ranks : RankOK(s, W, R, A, pos, c)
      /\ SentOK(R) /\ Shape
  BY DEF Holds
<1>2. Scheduled(W)' /\ Relayed(W, pos, G, c + 1)'
  BY <1>1, BroadcastStep
<1>3. /\ \A r \in Ranks : bc[r] # <<>>
      /\ queue' = [r \in Ranks \ {Last} |-> [k \in 1 .. P |->
                    Delivered(queue[r][k], Head(bc[r]), Head(bc[Last]))]]
      /\ bc' = [r \in Ranks |-> Tail(bc[r])]
      /\ next' = next /\ reqs' = reqs /\ results' = results /\ todo' = todo /\ ph' = ph
      /\ slots' = slots /\ gen' = gen
  BY DEF Broadcast
<1>4. PICK u, i : IsNext(W, pos, c, u, i)
  BY <1>1, <1>3, NextOp
<1>5. /\ IsSeq(bc[Last]) /\ Len(bc[Last]) \in Nat /\ Len(bc[Last]) > 0
      /\ Head(bc[Last]) = bc[Last][1] /\ bc'[Last] = Tail(bc[Last])
      /\ Len(bc'[Last]) = Len(bc[Last]) - 1
      /\ \A j \in 1 .. Len(bc[Last]) - 1 : bc'[Last][j] = bc[Last][j + 1]
  <2>1. IsSeq(bc[Last]) /\ bc[Last] # <<>> /\ bc'[Last] = Tail(bc[Last])
    BY <1>1, <1>3, LastIsARank DEF Relayed, Enqueued
  <2> QED BY <2>1, TailIsSeq
<1>6. PICK send : send = Head(bc[Last])
  OBVIOUS
<1>7. Same(send, OpOf(W[u], i)) /\ (send.kind = "combined" => send.rej = R[u])
  <2>1. Same(send, OpOf(W[u], i)) /\ W[u].step = u
    BY <1>1, <1>4, <1>6, LastIsARank DEF IsNext, Scheduled
  <2>2. send.step = u
    BY <2>1 DEF Same, OpOf, Op
  <2>3. 1 \in 1 .. Len(bc[Last]) /\ send = bc[Last][1]
    BY <1>5, <1>6
  <2>4. send.kind = "combined" => send.rej = R[send.step]
    BY <2>3, <1>1 DEF SentOK
  <2> QED BY <2>1, <2>2, <2>4
<1>8. Shape' /\ Sampled' = Sampled
  BY <1>1, <1>3 DEF Shape, Sampled
<1>9. ASSUME NEW r \in Ranks PROVE RankOK(r, W, R, A, pos, c + 1)'
  <2>1. PICK I, S, g, a, e, p, cur :
          /\ I = Idx /\ S = slots[r] /\ g = gen[r] /\ a = View(r, W, A) /\ e = Applied(r)
          /\ p = Proposing(r) /\ cur = Current(r)
    OBVIOUS
  <2>2. /\ Idx' = I /\ slots'[r] = S /\ gen'[r] = g /\ View(r, W, A)' = a /\ Applied(r)' = e
        /\ Proposing(r)' = p /\ Current(r)' = cur
    BY <2>1, <1>3 DEF Idx, View, Applied, Proposing, Current
  <2>3. /\ RowsOK(I, S, g, a, W, R, e, p)
        /\ r # Last => /\ Settled(a, W, e, Sampled)
                       /\ EntriesOK(queue[r], I, S, g, a, W, R, pos, c, e, cur)
    BY <2>1, <1>1 DEF RankOK
  <2>4. CASE r = Last
    BY <2>2, <2>3, <2>4 DEF RankOK
  <2>5. CASE r # Last
    <3>1. PICK Q, Z, recv : Q = queue[r] /\ Z = queue'[r] /\ recv = Head(bc[r])
      OBVIOUS
    <3>2. EntriesDelivered(Q, Z, recv, send)
      BY <3>1, <2>5, <1>3, <1>6 DEF EntriesDelivered
    <3>3. Same(recv, OpOf(W[u], i))
      BY <3>1, <1>4 DEF IsNext
    <3>4. cur \in 1 .. next /\ e \in Int
      <4>1. cur \in 1 .. next /\ next \in Nat
        BY <2>1, <1>1, CurrentIs
      <4>2. e = cur - P - IF ph[r] = "update" THEN 1 ELSE 0
        BY <2>1, <2>5 DEF Applied
      <4> QED BY <4>1, <4>2, Constants
    <3>5. EntriesOK(Q, I, S, g, a, W, R, pos, c, e, cur)
      BY <3>1, <2>3, <2>5
    <3>6. EntriesOK(Z, I, S, g, a, W, R, pos, c + 1, e, cur)
      BY <3>2, <3>3, <3>4, <3>5, <1>1, <1>4, <1>7, RankDelivered
    <3> QED BY <3>1, <3>6, <2>2, <2>3, <2>5, <1>8 DEF RankOK
  <2> QED BY <2>4, <2>5
<1>10. Pending(W, R)'
  BY <1>1, <1>3, <1>8 DEF SchedulerOK, Pending
<1>11. SchedulerOK(W, R, A)'
  BY <1>1, <1>3, <1>10, SchedulerStays
<1>12. SentOK(R)'
  <2>1. ASSUME NEW j \in 1 .. Len(bc'[Last])
        PROVE  /\ bc'[Last][j].step <= Sampled
               /\ bc'[Last][j].kind = "combined" => bc'[Last][j].rej = R[bc'[Last][j].step]
    <3>1. j + 1 \in 1 .. Len(bc[Last]) /\ bc'[Last][j] = bc[Last][j + 1]
      BY <1>5
    <3> QED BY <3>1, <1>1 DEF SentOK
  <2> QED BY <2>1, <1>8 DEF SentOK
<1> QED BY <1>1, <1>2, <1>3, <1>8, <1>9, <1>11, <1>12, HistoryStays DEF Holds

-----------------------------------------------------------------------------
(* The initial states.                                                     *)

LEMMA RowsInit ==
  ASSUME NEW I, NEW S, S = [i \in I |-> NoState], NEW g, g = [i \in I |-> 0],
         NEW a, a = [q \in Reqs |-> Dead], NEW W, NEW R, NEW e, NEW p
  PROVE  RowsOK(I, S, g, a, W, R, e, p) /\ Settled(a, W, e, p)
<1>1. Running(a) = {}
  BY DEF Running, Dead
<1>2. \A i \in I : S[i].req = None /\ IsSlot(S[i])
  <2>1. IsSlot(NoState) /\ NoState.req = None
    BY DEF IsSlot, NoState
  <2> QED BY <2>1
<1>3. Placed(I, S, a)
  BY <1>1, <1>2 DEF Placed
<1>4. DOMAIN g = I /\ \A i \in I : g[i] \in Nat
  OBVIOUS
<1> QED BY <1>1, <1>2, <1>3, <1>4 DEF RowsOK, Settled

LEMMA EntriesInit ==
  ASSUME NEW Q, Q = [k \in 1 .. P |-> NoRecv], NEW e, e = 0 - P, NEW I, NEW S, NEW g, NEW a,
         NEW W, NEW R, NEW pos, NEW c, NEW cur
  PROVE  EntriesOK(Q, I, S, g, a, W, R, pos, c, e, cur)
<1>1. IsSeq(Q) /\ Len(Q) = P
  <2>1. Q \in Seq({NoRecv}) /\ Len(Q) = P
    BY Constants
  <2> QED BY <2>1 DEF IsSeq
<1>2. ASSUME NEW k \in 1 .. P PROVE EntryOK(Q[k], e + k, I, S, g, a, W, R, pos, c, cur)
  <2>1. PICK v, x : v = e + k /\ x = Q[k]
    OBVIOUS
  <2>2. v <= 0
    BY <2>1, Constants
  <2>3. IsEntry(x) /\ x.step = 0 /\ x.need = {}
    BY <2>1 DEF NoRecv, IsEntry
  <2>4. EntryOK(x, v, I, S, g, a, W, R, pos, c, cur)
    BY <2>2, <2>3 DEF EntryOK
  <2> QED BY <2>1, <2>4
<1> QED BY <1>1, <1>2 DEF EntriesOK

LEMMA InitFInv == Init => FInv
<1> SUFFICES ASSUME Init PROVE FInv
  OBVIOUS
<1>1. PICK W, pos, a : W = <<>> /\ pos = [t \in 1 .. 1 |-> 0] /\ a = [q \in Reqs |-> Dead]
  OBVIOUS
<1>2. PICK A : A = [t \in {0} |-> a]
  OBVIOUS
<1>3. /\ max_num_reqs \in 1 .. NumSlots
      /\ next = 1 /\ reqs = [q \in Reqs |-> NewReq] /\ results = <<>>
      /\ todo = [r \in Ranks |-> <<>>] /\ ph = [r \in Ranks |-> "update"]
      /\ slots = [r \in Ranks |-> [i \in Idx |-> NoState]]
      /\ gen = [r \in Ranks |-> [i \in Idx |-> 0]]
      /\ queue = [r \in Ranks \ {Last} |-> [k \in 1 .. P |-> NoRecv]]
      /\ bc = [r \in Ranks |-> <<>>]
  BY DEF Init
<1>4. Scheduled(W) /\ Relayed(W, pos, W, 0)
  BY <1>1, InitSchedule
<1>5. A[0] = a
  BY <1>2
<1>6. History(W, W, A)
  <2>1. \A t \in 1 .. next - 1 : FALSE
    BY <1>3
  <2>2. ASSUME NEW t \in 0 .. next - 1, NEW q \in Reqs PROVE PastOK(W, A[t][q], t, q)
    <3>1. t = 0 /\ A[t][q] = Dead
      BY <1>1, <1>3, <1>5
    <3>2. Dead.since = 0 /\ Dead.seen = 0 /\ Dead.prev = 0
      BY DEF Dead
    <3>3. PastOK(W, Dead, 0, q)
      BY <3>2 DEF PastOK
    <3> QED BY <3>1, <3>3
  <2> QED BY <2>1, <2>2, <1>1, <1>5 DEF History
<1>7. \A r \in Ranks : Current(r) = 1 /\ ph[r] = "update" /\ todo[r] = <<>>
  <2>1. ASSUME NEW r \in Ranks PROVE Current(r) = 1
    <3>1. todo[r] = <<>>
      BY <1>3
    <3>2. Len(todo[r]) = 0
      BY <3>1
    <3> QED BY <3>2, <1>3 DEF Current
  <2> QED BY <2>1, <1>3
<1>8. Sampled = 0
  <2>1. Sampled = Current(Last) - 1
    BY <1>7, LastIsARank DEF Sampled, Current
  <2> QED BY <2>1, <1>7, LastIsARank
<1>9. SchedulerOK(W, W, A)
  <2>1. IsSeq(results) /\ Len(results) = 0
    BY <1>3, EmptyIsSeq
  <2>2. Larger(1, next - P) = 1
    BY <1>3, Constants DEF Larger
  <2>3. Pending(W, W)
    BY <2>1, <2>2, <1>8 DEF Pending
  <2>4. ASSUME NEW q \in Reqs PROVE KnownOK(reqs[q], A[next - 1][q], W, W, q, next - 1 - P)
    <3>1. PICK s, b, e : s = reqs[q] /\ b = A[next - 1][q] /\ e = next - 1 - P
      OBVIOUS
    <3>2. s = NewReq /\ b = Dead
      BY <3>1, <1>1, <1>3, <1>5
    <3>3. /\ IsReq(s) /\ s.st = "new" /\ s.len = PromptLen /\ s.computed = 0 /\ s.prev = 0
          /\ b.since = 0
      BY <3>2 DEF IsReq, NewReq, Dead
    <3>4. s.len \in 1 .. MaxLen /\ s.len < MaxLen
      BY <3>3, Constants
    <3>5. KnownOK(s, b, W, W, q, e)
      BY <3>3, <3>4 DEF KnownOK
    <3> QED BY <3>1, <3>5
  <2>5. DOMAIN reqs = Reqs
    BY <1>3
  <2> QED BY <2>3, <2>4, <2>5 DEF SchedulerOK
<1>10. ASSUME NEW r \in Ranks PROVE RankOK(r, W, W, A, pos, 0)
  <2>1. View(r, W, A) = a /\ Proposing(r) = 0
    <3>1. View(r, W, A) = A[Current(r) - 1]
      BY <1>7 DEF View
    <3> QED BY <3>1, <1>5, <1>7 DEF Proposing
  <2>2. PICK e, I, S, g : e = Applied(r) /\ I = Idx /\ S = slots[r] /\ g = gen[r]
    OBVIOUS
  <2>3. S = [i \in I |-> NoState] /\ g = [i \in I |-> 0]
    BY <2>2, <1>3
  <2>4. RowsOK(I, S, g, a, W, W, e, 0) /\ Settled(a, W, e, 0)
    BY <2>3, <1>1, RowsInit
  <2>5. r # Last => EntriesOK(queue[r], I, S, g, a, W, W, pos, 0, e, Current(r))
    <3>1. SUFFICES ASSUME r # Last PROVE EntriesOK(queue[r], I, S, g, a, W, W, pos, 0, e, Current(r))
      OBVIOUS
    <3>2. queue[r] = [k \in 1 .. P |-> NoRecv]
      BY <3>1, <1>3
    <3>3. e = 0 - P
      <4>1. e = Current(r) - P - 1
        BY <3>1, <2>2, <1>7 DEF Applied
      <4> QED BY <4>1, <1>7, Constants
    <3> QED BY <3>2, <3>3, EntriesInit
  <2> QED BY <2>1, <2>2, <2>4, <2>5, <1>8 DEF RankOK
<1>11. SentOK(W)
  <2>1. Len(bc[Last]) = 0
    BY <1>3, LastIsARank, EmptyIsSeq
  <2> QED BY <2>1 DEF SentOK
<1>12. Shape
  BY <1>3, SlotsAssumption DEF Shape
<1>13. Holds(W, pos, W, 0, W, A)
  BY <1>4, <1>6, <1>9, <1>10, <1>11, <1>12 DEF Holds
<1> QED BY <1>13 DEF FInv

-----------------------------------------------------------------------------
(* The theorem.                                                            *)

LEMMA NothingHolds ==
  ASSUME NEW W, NEW pos, NEW G, NEW c, NEW R, NEW A, Holds(W, pos, G, c, R, A), UNCHANGED vars
  PROVE  Holds(W, pos, G, c, R, A)'
<1>1. /\ max_num_reqs' = max_num_reqs /\ next' = next /\ reqs' = reqs /\ results' = results
      /\ todo' = todo /\ ph' = ph /\ slots' = slots /\ gen' = gen /\ queue' = queue /\ bc' = bc
  BY DEF vars, moving
<1>2. /\ Scheduled(W) /\ Relayed(W, pos, G, c) /\ History(W, R, A) /\ SchedulerOK(W, R, A)
      /\ \A r \in Ranks : RankOK(r, W, R, A, pos, c)
      /\ SentOK(R) /\ Shape
  BY DEF Holds
<1>3. Scheduled(W)' /\ Relayed(W, pos, G, c)'
  BY <1>1, <1>2 DEF Scheduled, Before, Relayed, Laid, Enqueued, Halfway
<1>4. Sampled' = Sampled /\ Sampled \in Nat
  BY <1>1, <1>2, CurrentIs, LastIsARank DEF Sampled
<1>5. Sampled' \in Int /\ Sampled <= Sampled'
  BY <1>4
<1>6. \A r \in Ranks : RankOK(r, W, R, A, pos, c)'
  BY <1>1, <1>2, <1>5, RankStays
<1>7. Pending(W, R)'
  BY <1>1, <1>2, <1>4 DEF SchedulerOK, Pending
<1>8. SchedulerOK(W, R, A)'
  BY <1>1, <1>2, <1>7, SchedulerStays
<1>9. SentOK(R)'
  BY <1>1, <1>2, <1>5, SentStays
<1>10. Shape'
  BY <1>1, <1>2 DEF Shape
<1> QED BY <1>1, <1>2, <1>3, <1>6, <1>8, <1>9, <1>10, HistoryStays DEF Holds

LEMMA NextFInv == FInv /\ [Next]_vars => FInv'
<1> SUFFICES ASSUME FInv, [Next]_vars PROVE FInv'
  OBVIOUS
<1>1. PICK W, pos, G, c, R, A : Holds(W, pos, G, c, R, A)
  BY DEF FInv
<1>2. CASE Schedule /\ max_num_reqs' = max_num_reqs
  BY <1>1, <1>2, ScheduleHolds
<1>3. CASE Sample /\ max_num_reqs' = max_num_reqs
  BY <1>1, <1>3, SampleHolds
<1>4. CASE Propose /\ max_num_reqs' = max_num_reqs
  BY <1>1, <1>4, ProposeHolds DEF FInv
<1>5. CASE Broadcast /\ max_num_reqs' = max_num_reqs
  BY <1>1, <1>5, BroadcastHolds DEF FInv
<1>6. ASSUME NEW r \in Ranks, Rank(r), max_num_reqs' = max_num_reqs PROVE FInv'
  <2>1. CASE Update(r)
    BY <1>1, <1>6, <2>1, UpdateHolds DEF FInv
  <2>2. CASE Forward(r)
    BY <1>1, <1>6, <2>2, ForwardHolds DEF FInv
  <2>3. CASE Receive(r)
    BY <1>1, <1>6, <2>3, ReceiveHolds DEF FInv
  <2> QED BY <1>6, <2>1, <2>2, <2>3 DEF Rank
<1>7. CASE UNCHANGED vars
  BY <1>1, <1>7, NothingHolds DEF FInv
<1> QED BY <1>2, <1>3, <1>4, <1>5, <1>6, <1>7 DEF Next

LEMMA FInvAgrees == FInv => ForwardInputsAgree
<1> SUFFICES ASSUME FInv, NEW r \in Ranks, ph[r] = "forward", NEW q \in DOMAIN Work(r).rows
             PROVE  LET row == Work(r).rows[q]
                        s == slots[r][IndexOf(r, q)]
                    IN /\ s.computed = row.old
                       /\ IsDecode(row) => s.last = row.prev
                       /\ Drafts(row) > 0 => s.draft = row.prev
  BY DEF ForwardInputsAgree
<1>1. PICK W, pos, G, c, R, A : Holds(W, pos, G, c, R, A)
  BY DEF FInv
<1>2. Scheduled(W) /\ History(W, R, A) /\ RankOK(r, W, R, A, pos, c)
  BY <1>1 DEF Holds
<1>3. PICK t, b : t = Current(r) /\ b = EnteredAll(A[t - 1], W[t])
  OBVIOUS
<1>4. /\ next \in Nat /\ t \in 1 .. next - 1 /\ Work(r) = W[t] /\ View(r, W, A) = b
      /\ RowsHold(W, R, b, t) /\ During(W, R, b, t)
  BY <1>2, <1>3, ViewDuring
<1>5. PICK row, a, e, i, s : /\ row = W[t].rows[q] /\ a = b[q] /\ e = Applied(r)
                             /\ i = IndexOf(r, q) /\ s = slots[r][i]
  OBVIOUS
<1>6. /\ q \in DOMAIN W[t].rows /\ row = Work(r).rows[q]
      /\ RowOK(W, R, a, t, q) /\ q \in Running(b) /\ q \in Reqs
      /\ Backed(a, W, R, q) /\ a.seen \in 0 .. t - 1
  BY <1>4, <1>5 DEF RowsHold, During, Running
<1>7. e = IF r = Last THEN next ELSE t - P - 0
  BY <1>3, <1>5 DEF Applied
<1>8. e \in Int /\ t - P <= e
  BY <1>4, <1>7, Constants
<1>9. i \in Idx /\ s.req = q /\ SlotOK(s, a, W, R, q, e, 0)
  <2>1. /\ RowsOK(Idx, slots[r], gen[r], b, W, R, e, 0)
    BY <1>2, <1>4, <1>5 DEF RankOK, Proposing
  <2>2. \E j \in Idx : slots[r][j].req = q
    BY <2>1, <1>6 DEF RowsOK, Placed
  <2>3. i \in Idx /\ s.req = q
    BY <2>2, <1>5 DEF IndexOf
  <2>4. q # None
    BY <1>6, SlotsAssumption
  <2>5. \A j \in Idx : slots[r][j].req # None =>
          SlotOK(slots[r][j], b[slots[r][j].req], W, R, slots[r][j].req, e, 0)
    BY <2>1 DEF RowsOK
  <2> QED BY <2>3, <2>4, <2>5, <1>5
<1>10. /\ row.prev = a.prev /\ row.old = Net(W, R, a.seen, q, t) /\ Drafts(row) <= K
       /\ IF IsDecode(row) THEN /\ a.prev > 0 /\ a.prev + P <= t /\ q \in Need(W[a.prev].rows)
          ELSE a.prev = 0
  BY <1>5, <1>6 DEF RowOK
<1>11. s.computed = row.old
  <2>1. t \in Nat /\ a.seen <= t /\ (a.prev > 0 => a.prev + P <= t)
    BY <1>4, <1>6, <1>10
  <2>2. Net(W, R, a.seen, q, e) = Net(W, R, a.seen, q, t)
    BY <2>1, <1>6, <1>8, NetSettles
  <2> QED BY <2>2, <1>9, <1>10 DEF SlotOK
<1>12. ASSUME IsDecode(row)
       PROVE  s.last = row.prev /\ (K > 0 => s.draft = row.prev)
  <2>1. a.prev \in Nat
    BY <1>6 DEF Backed
  <2>2. a.prev <= e
    BY <2>1, <1>4, <1>8, <1>10, <1>12, Constants
  <2>3. Relays(a, W, q, e) /\ a.prev # 0
    BY <2>2, <1>10, <1>12 DEF Relays
  <2> QED BY <2>3, <1>9, <1>10 DEF SlotOK
<1>13. Drafts(row) > 0 => IsDecode(row) /\ K > 0
  <2>1. ~ IsDecode(row) => Drafts(row) = 0
    BY DEF Drafts
  <2>2. Drafts(row) > 0 => IsDecode(row)
    BY <2>1
  <2>3. PICK n : n = Drafts(row)
    OBVIOUS
  <2>4. IsDecode(row) => n = row.n - 1 /\ row.n \in Nat
    BY <2>3, <1>5, <1>6 DEF Drafts, RowOK
  <2>5. n > 0 => K > 0
    BY <2>2, <2>3, <2>4, <1>10, Constants
  <2> QED BY <2>2, <2>3, <2>5
<1> QED BY <1>5, <1>6, <1>11, <1>12, <1>13

\* ForwardInputsAgree: whatever a rank is about to feed to its forward is what
\* the request's history says.
THEOREM ForwardInputsAlwaysAgree == Spec => []ForwardInputsAgree
<1>1. Init => FInv
  BY InitFInv
<1>2. FInv /\ [Next]_vars => FInv'
  BY NextFInv
<1>3. FInv => ForwardInputsAgree
  BY FInvAgrees
<1> QED BY <1>1, <1>2, <1>3, PTL DEF Spec
=============================================================================
