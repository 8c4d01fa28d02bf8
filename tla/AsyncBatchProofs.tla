-------------------------- MODULE AsyncBatchProofs --------------------------
(***************************************************************************)
(* Proofs about AsyncBatch for any requests, prompt length, number of      *)
(* drafts and bounds.                                                      *)
(*                                                                         *)
(* The scheduler's counts are wrong by what it does not know yet.  The     *)
(* inductive invariant says by how much: of a request, the steps in flight *)
(* were asked for SumAsked tokens and found SumNew, so its count is ahead  *)
(* of the truth by the difference (Counts), and so is what the runner is   *)
(* told (OutOK).  The runner can undo this because what it keeps of the    *)
(* previous step (RowOK) is what the only step then in flight has found.   *)
(***************************************************************************)
EXTENDS AsyncBatch, FiniteSetTheorems, SequenceTheorems, WellFoundedInduction, TLAPS

-----------------------------------------------------------------------------
(* What a step in flight holds for a request of a generation: the tokens,   *)
(* their number, and the number the scheduler has counted for it.           *)
Said(o, r, g) == IF Reports(o, r) /\ o.asked[r].gen = g THEN get_output(o)[o.index[r]] ELSE <<>>
New(o, r, g) == Len(Said(o, r, g))
Asked(o, r, g) == IF Reports(o, r) /\ o.asked[r].gen = g THEN o.asked[r].d + 1 ELSE 0
Run(r, g, from, n) == [j \in 1 .. n |-> Real(r, g, from + j - 1)]

SumNew(fl, r, g) == (IF Len(fl) >= 1 THEN New(fl[1], r, g) ELSE 0)
                    + (IF Len(fl) >= 2 THEN New(fl[2], r, g) ELSE 0)
SumAsked(fl, r, g) == (IF Len(fl) >= 1 THEN Asked(fl[1], r, g) ELSE 0)
                      + (IF Len(fl) >= 2 THEN Asked(fl[2], r, g) ELSE 0)
\* They continue a history that has come to position `from`.
Continues(fl, r, g, from) ==
    /\ Len(fl) >= 1 => Said(fl[1], r, g) = Run(r, g, from, New(fl[1], r, g))
    /\ Len(fl) >= 2 => Said(fl[2], r, g) = Run(r, g, from + New(fl[1], r, g), New(fl[2], r, g))

-----------------------------------------------------------------------------
(* The inductive invariant.                                                *)

H(r) == SumAsked(flight, r, sched[r].gen)
N(r) == SumNew(flight, r, sched[r].gen)
Live(r) == sched[r].st # "none"
Running(r) == sched[r].st = "running"
Stepping(r) == phase # "schedule" /\ r \in DOMAIN out.k

SchedType == [st : {"none", "running", "preempted"}, gen : Nat, comp : Int, outs : Nat,
              holders : Int, last : BOOLEAN]
TruthType == [comp : Nat, len : Nat, acc : Nat]
Types ==
    /\ num_spec \in Nat /\ phase \in {"schedule", "execute", "sample"}
    /\ sched \in [Req -> SchedType] /\ truth \in [Req -> TruthType]
    /\ DOMAIN out.k \subseteq Req /\ DOMAIN out.d = DOMAIN out.k

FlightShape ==
    \/ flight = <<>>
    \/ flight = <<flight[1]>>
    \/ flight = <<flight[1], flight[2]>> /\ phase = "schedule"

\* A step finds at least one of the tokens counted for it, and asks for none of a
\* generation to come.
EntryOK(o) ==
    \A r \in Req : \A g \in Nat :
        /\ Asked(o, r, g) \in Nat /\ New(o, r, g) \in Nat
        /\ New(o, r, g) <= Asked(o, r, g) /\ Asked(o, r, g) <= num_spec + 1
        /\ New(o, r, g) = 0 => Asked(o, r, g) = 0
        /\ g > sched[r].gen => Asked(o, r, g) = 0 /\ Said(o, r, g) = <<>>
FlightOK ==
    /\ \A i \in DOMAIN flight : EntryOK(flight[i])
    /\ \A r \in Req : Live(r) => Continues(flight, r, sched[r].gen, Prompt + sched[r].outs)

\* The scheduler is ahead of the truth by the drafts that were not taken.
Counts(r) ==
    /\ truth[r].len = Prompt + sched[r].outs + N(r)
    /\ sched[r].holders = H(r) + IF Stepping(r) /\ sched[r].last THEN 1 + out.d[r] ELSE 0
    /\ Running(r) =>
         /\ sched[r].comp = truth[r].comp + H(r) - N(r) + IF Stepping(r) THEN out.k[r] ELSE 0
         /\ truth[r].comp < truth[r].len
         /\ ~ Stepping(r) => truth[r].comp > 0
    /\ sched[r].st = "preempted" => sched[r].comp = 0 /\ truth[r].comp = 0 /\ ~ sched[r].last
    /\ sched[r].last =>
         IF phase = "schedule"
         THEN truth[r].comp + 1 = truth[r].len /\ r \in DOMAIN runner["last"].prevIdx
         ELSE Stepping(r)
CountsOK == \A r \in Req : Live(r) => Counts(r)

\* What the runner is asked for: the drafts behind all known tokens.
Asks(r) ==
    /\ Running(r) /\ out.gen[r] = sched[r].gen
    /\ out.k[r] \in Nat /\ out.d[r] \in 0 .. num_spec /\ out.d[r] < out.k[r]
    /\ truth[r].comp + out.k[r] - out.d[r] <= truth[r].len
    /\ sched[r].last <=> truth[r].comp + out.k[r] - out.d[r] = truth[r].len
    /\ out.d[r] > 0 => sched[r].last /\ out.k[r] = out.d[r] + 1
    /\ out.comp[r] = truth[r].comp + H(r) - N(r)
    /\ out.nout[r] = sched[r].outs + H(r)
OutOK ==
    /\ phase # "schedule" => \A r \in DOMAIN out.k : Asks(r)
    /\ phase = "execute" =>
         /\ out.fresh \subseteq DOMAIN out.k /\ out.resumed \subseteq DOMAIN out.k
         /\ \A r \in out.fresh \cup out.resumed : H(r) = 0 /\ out.d[r] = 0
         /\ \A r \in out.fresh : out.nout[r] = 0
         /\ \A r \in DOMAIN out.k \ DOMAIN runner["last"].prevIdx : H(r) = 0 /\ out.d[r] = 0
         /\ out.finished \cap (DOMAIN out.k \ out.fresh) = {}
         /\ \A r \in Req : Live(r) => r \notin out.finished \/ r \in out.fresh
    /\ phase = "sample" => DOMAIN out.k # {}

\* The stages hold the same batch; without drafts nothing of drafts.
IsBatch(b) == b = [reqs |-> b.reqs, rows |-> b.rows, prevIdx |-> b.prevIdx, prevTok |-> b.prevTok,
                   counts |-> b.counts, drafts |-> b.drafts, prevDrafts |-> b.prevDrafts,
                   gComp |-> b.gComp, gAcc |-> b.gAcc, mask |-> b.mask, input |-> b.input]
Stages ==
    /\ "last" \in DOMAIN runner
    /\ \A s \in DOMAIN runner : s # "last" => num_spec = 0
    /\ \A s \in DOMAIN runner : runner[s] = runner["last"]
    /\ IsBatch(runner["last"])
    /\ num_spec = 0 => /\ runner["last"].counts = <<>> /\ runner["last"].drafts = <<>>
                       /\ runner["last"].prevDrafts = <<>>

\* The cached requests.
ReqOK(r) ==
    LET q == runner["last"].reqs[r] IN
    /\ r \in DOMAIN runner["last"].reqs
    /\ q.gen = sched[r].gen /\ q.outs \in Nat /\ q.prevDraft \in 0 .. num_spec
    /\ q = [gen |-> q.gen, comp |-> q.comp, outs |-> q.outs, prevDraft |-> q.prevDraft]
    /\ num_spec = 0 => q.outs = sched[r].outs + H(r)
ReqsOK == \A r \in Req : Live(r) /\ ~ (phase = "execute" /\ r \in out.fresh) => ReqOK(r)

\* The rows: one for every request of the step.
RowsShape ==
    LET rows == runner["last"].rows IN
    /\ Len(rows) \in Nat /\ rows = [i \in 1 .. Len(rows) |-> rows[i]]
    /\ \A i \in 1 .. Len(rows) :
          /\ rows[i] = [req |-> rows[i].req, comp |-> rows[i].comp, known |-> rows[i].known]
          /\ rows[i].req \in Req /\ rows[i].comp \in Int /\ rows[i].known \in Nat
    /\ \A i, j \in 1 .. Len(rows) : rows[i].req = rows[j].req => i = j

\* What the previous step has left in row i for a request that stays in the batch.
PrevOK(r, i, o) ==
    LET b == runner["last"]
        g == sched[r].gen
    IN  /\ truth[r].comp + 1 = truth[r].len
        /\ Asked(o, r, g) = b.reqs[r].prevDraft + 1 /\ New(o, r, g) = truth[r].acc
        /\ i \in DOMAIN b.prevTok /\ b.prevTok[i] = Real(r, g, truth[r].len - 1)
        /\ num_spec > 0 =>
             /\ i \in DOMAIN b.counts /\ b.counts[i] = truth[r].acc
             /\ i \in DOMAIN b.drafts
             /\ b.drafts[i] = [j \in 1 .. num_spec |-> Draft(r, g, truth[r].len - 1 + j, truth[r].len)]
        /\ b.reqs[r].prevDraft > 0 => b.gComp[i] + truth[r].acc = truth[r].comp
RowOK(r, i) ==
    LET b == runner["last"] IN
    /\ Running(r)
    /\ b.reqs[r].outs + b.reqs[r].prevDraft >= sched[r].outs + H(r)
    /\ IF r \in DOMAIN b.prevIdx THEN flight # <<>> /\ PrevOK(r, i, flight[Len(flight)])
       ELSE b.rows[i].known = truth[r].len /\ b.reqs[r].prevDraft = 0
Stays(r) == phase = "execute" => r \in DOMAIN out.k \ (out.fresh \cup out.resumed)
BatchOK ==
    LET b == runner["last"] IN
    phase # "sample" =>
        /\ \A r \in DOMAIN b.prevIdx : /\ b.prevIdx[r] \in 1 .. Len(b.rows)
                                       /\ b.rows[b.prevIdx[r]].req = r
        /\ \A i \in 1 .. Len(b.rows) : Stays(b.rows[i].req) => RowOK(b.rows[i].req, i)
        /\ phase = "schedule" => \A r \in Req :
               Live(r) /\ r \notin DOMAIN b.prevIdx /\ flight # <<>>
                   => Asked(flight[Len(flight)], r, sched[r].gen) = 0

\* The batch that has been prepared.
PreparedRow(r, i) ==
    LET b == runner["last"] IN
    /\ b.rows[i].comp = truth[r].comp /\ b.gComp[i] = truth[r].comp
    /\ b.mask[i] <=> ~ sched[r].last
    /\ ~ sched[r].last => b.rows[i].known = truth[r].len
    /\ b.reqs[r].outs = out.nout[r] /\ b.reqs[r].prevDraft = out.d[r]
    /\ b.input[i] = [j \in 1 .. out.k[r] |-> Wanted(r, truth[r].comp + j - 1)]
    /\ prev_positions(b)[i] > 0 => b.gAcc[i] = truth[r].acc
SampleOK ==
    LET b == runner["last"] IN
    phase = "sample" =>
        /\ DOMAIN b.gComp = DOMAIN b.rows /\ DOMAIN b.mask = DOMAIN b.rows
        /\ b.input = [i \in DOMAIN b.rows |-> b.input[i]]
        /\ \A i \in 1 .. Len(b.rows) : b.rows[i].req \in DOMAIN out.k
        /\ \A r \in DOMAIN out.k : \E i \in 1 .. Len(b.rows) : b.rows[i].req = r
        /\ \A i \in 1 .. Len(b.rows) : PreparedRow(b.rows[i].req, i)

IInv == /\ Types /\ FlightShape /\ FlightOK /\ CountsOK /\ OutOK /\ Stages /\ ReqsOK
        /\ RowsShape /\ BatchOK /\ SampleOK

-----------------------------------------------------------------------------
(* The steps in flight.                                                    *)

LEMMA OneEntry ==
  ASSUME NEW a
  PROVE  /\ Len(<<a>>) = 1 /\ DOMAIN <<a>> = 1 .. 1 /\ Head(<<a>>) = a /\ Tail(<<a>>) = <<>>
         /\ <<a>>[1] = a /\ Append(<<>>, a) = <<a>>
OBVIOUS

LEMMA TwoEntries ==
  ASSUME NEW a, NEW b
  PROVE  /\ Len(<<a, b>>) = 2 /\ DOMAIN <<a, b>> = 1 .. 2 /\ Head(<<a, b>>) = a
         /\ <<a, b>>[1] = a /\ <<a, b>>[2] = b
         /\ Append(<<a>>, b) = <<a, b>>
         /\ Tail(<<a, b>>) = <<b>>
<1>1. Len(<<a, b>>) = 2 /\ DOMAIN <<a, b>> = 1 .. 2 /\ Head(<<a, b>>) = a
  OBVIOUS
<1>2. Append(<<a>>, b) = <<a, b>>
  <2>1. <<a>> \in Seq({a, b}) /\ <<a, b>> \in Seq({a, b}) /\ b \in {a, b}
    OBVIOUS
  <2>2. PICK s, t : s = <<a>> /\ t = Append(s, b)
    OBVIOUS
  <2>3. s \in Seq({a, b}) /\ Len(s) = 1 /\ s[1] = a
    BY <2>1, <2>2
  <2>4. t \in Seq({a, b}) /\ Len(t) = 2 /\ t[1] = a /\ t[2] = b
    BY <2>1, <2>2, <2>3, AppendProperties
  <2>5. PICK u : u = <<a, b>>
    OBVIOUS
  <2>6. u \in Seq({a, b}) /\ Len(u) = 2 /\ u[1] = a /\ u[2] = b
    BY <2>1, <2>5
  <2>7. \A i \in 1 .. Len(t) : t[i] = u[i]
    BY <2>4, <2>6
  <2>8. t = u
    BY <2>4, <2>6, <2>7, SeqEqual
  <2> QED BY <2>2, <2>5, <2>8
<1>3. Tail(<<a, b>>) = <<b>>
  OBVIOUS
<1> QED BY <1>1, <1>2, <1>3

\* Sequences of no, one and two elements.
LEMMA ShortSequences ==
  /\ Len(<<>>) = 0 /\ DOMAIN <<>> = 1 .. 0 /\ \A a : Append(<<>>, a) = <<a>>
  /\ \A a : /\ Len(<<a>>) = 1 /\ DOMAIN <<a>> = 1 .. 1 /\ Head(<<a>>) = a
           /\ Tail(<<a>>) = <<>> /\ <<a>>[1] = a
  /\ \A a, b : /\ Len(<<a, b>>) = 2 /\ DOMAIN <<a, b>> = 1 .. 2
              /\ Head(<<a, b>>) = a /\ Tail(<<a, b>>) = <<b>>
              /\ <<a, b>>[1] = a /\ <<a, b>>[2] = b /\ Append(<<a>>, b) = <<a, b>>
<1>1. Len(<<>>) = 0 /\ DOMAIN <<>> = 1 .. 0
  OBVIOUS
<1> QED BY <1>1, OneEntry, TwoEntries

\* At most two steps are in flight, one while a step runs.
LEMMA Shapes ==
  ASSUME FlightShape
  PROVE  /\ Len(flight) \in 0 .. 2 /\ DOMAIN flight = 1 .. Len(flight)
         /\ Len(flight) = 0 <=> flight = <<>>
         /\ phase # "schedule" => Len(flight) <= 1
<1>1. CASE flight = <<>>
  BY <1>1, ShortSequences
<1>2. CASE flight = <<flight[1]>>
  <2>1. Len(flight) = 1
    BY <1>2, ShortSequences
  <2>2. DOMAIN flight = 1 .. 1
    BY <1>2
  <2> QED BY <2>1, <2>2, ShortSequences
<1>3. CASE flight = <<flight[1], flight[2]>> /\ phase = "schedule"
  <2>1. Len(flight) = 2
    BY <1>3, ShortSequences
  <2>2. DOMAIN flight = 1 .. 2
    BY <1>3
  <2> QED BY <1>3, <2>1, <2>2, ShortSequences
<1> QED BY <1>1, <1>2, <1>3 DEF FlightShape

\* What is left when the oldest step is reported.
LEMMA AfterHead ==
  ASSUME FlightShape, flight # <<>>
  PROVE  /\ Head(flight) = flight[1]
         /\ Tail(flight) = IF Len(flight) = 2 THEN <<flight[2]>> ELSE <<>>
         /\ Len(Tail(flight)) = Len(flight) - 1
         /\ Len(flight) = 2 => Tail(flight)[1] = flight[2]
<1>1. PICK a, b : a = flight[1] /\ b = flight[2]
  OBVIOUS
<1>2. CASE flight = <<a>>
  <2>1. Len(<<a>>) = 1 /\ Head(<<a>>) = a /\ Tail(<<a>>) = <<>> /\ Len(<<>>) = 0
    BY OneEntry
  <2>2. Len(flight) = 1 /\ Head(flight) = a /\ Tail(flight) = <<>>
    BY <1>2, <2>1
  <2> QED BY <1>1, <2>1, <2>2
<1>3. CASE flight = <<a, b>>
  <2>1. Len(<<a, b>>) = 2 /\ Head(<<a, b>>) = a /\ Tail(<<a, b>>) = <<b>>
    BY TwoEntries
  <2>2. Len(<<b>>) = 1 /\ <<b>>[1] = b
    BY OneEntry
  <2>3. Len(flight) = 2 /\ Head(flight) = a /\ Tail(flight) = <<b>>
    BY <1>3, <2>1
  <2> QED BY <1>1, <2>2, <2>3
<1> QED BY <1>1, <1>2, <1>3 DEF FlightShape

\* What there is when a step is added.
LEMMA AfterAppend ==
  ASSUME FlightShape, phase # "schedule", NEW o
  PROVE  /\ Append(flight, o) = IF Len(flight) = 1 THEN <<flight[1], o>> ELSE <<o>>
         /\ Len(Append(flight, o)) = Len(flight) + 1
         /\ Len(flight) = 1 => Append(flight, o)[1] = flight[1]
         /\ Append(flight, o)[Len(flight) + 1] = o
         /\ DOMAIN Append(flight, o) = 1 .. Len(flight) + 1
<1>1. PICK a, fl : a = flight[1] /\ fl = Append(flight, o)
  OBVIOUS
<1>2. CASE flight = <<>>
  <2>1. fl = <<o>> /\ Len(flight) = 0
    BY <1>1, <1>2, OneEntry
  <2>2. Len(fl) = 1 /\ DOMAIN fl = 1 .. 1 /\ fl[1] = o
    BY <2>1, OneEntry
  <2> QED BY <1>1, <2>1, <2>2
<1>3. CASE flight = <<a>>
  <2>1. fl = <<a, o>> /\ Len(flight) = 1
    <3>1. Append(<<a>>, o) = <<a, o>>
      BY TwoEntries
    <3>2. Len(<<a>>) = 1
      BY OneEntry
    <3> QED BY <1>1, <1>3, <3>1, <3>2
  <2>2. Len(fl) = 2 /\ DOMAIN fl = 1 .. 2 /\ fl[1] = a /\ fl[2] = o
    BY <2>1, TwoEntries
  <2> QED BY <1>1, <2>1, <2>2
<1> QED BY <1>1, <1>2, <1>3 DEF FlightShape

\* A step holds nothing of the generation that comes after the current one.
LEMMA EntryIs ==
  ASSUME NEW o, EntryOK(o), NEW r \in Req, sched[r].gen \in Nat
  PROVE  /\ Asked(o, r, sched[r].gen) \in Nat /\ New(o, r, sched[r].gen) \in Nat
         /\ New(o, r, sched[r].gen) <= Asked(o, r, sched[r].gen)
         /\ Asked(o, r, sched[r].gen) <= num_spec + 1
         /\ New(o, r, sched[r].gen) = 0 => Asked(o, r, sched[r].gen) = 0
         /\ Asked(o, r, sched[r].gen + 1) = 0 /\ New(o, r, sched[r].gen + 1) = 0
         /\ Said(o, r, sched[r].gen + 1) = <<>>
<1>1. sched[r].gen \in Nat /\ sched[r].gen + 1 \in Nat
  OBVIOUS
<1>2. sched[r].gen + 1 > sched[r].gen
  OBVIOUS
<1>3. /\ Asked(o, r, sched[r].gen) \in Nat /\ New(o, r, sched[r].gen) \in Nat
      /\ New(o, r, sched[r].gen) <= Asked(o, r, sched[r].gen)
      /\ Asked(o, r, sched[r].gen) <= num_spec + 1
      /\ New(o, r, sched[r].gen) = 0 => Asked(o, r, sched[r].gen) = 0
  BY <1>1 DEF EntryOK
<1>4. Asked(o, r, sched[r].gen + 1) = 0 /\ New(o, r, sched[r].gen + 1) \in Nat
      /\ New(o, r, sched[r].gen + 1) <= Asked(o, r, sched[r].gen + 1)
      /\ Said(o, r, sched[r].gen + 1) = <<>>
  BY <1>1, <1>2 DEF EntryOK
<1>5. New(o, r, sched[r].gen + 1) = 0
  BY <1>4
<1> QED BY <1>3, <1>4, <1>5

\* The sums are numbers, what is found is at most what was asked.
LEMMA SumsAre ==
  ASSUME Types, FlightShape, FlightOK, NEW r \in Req
  PROVE  /\ sched[r].gen \in Nat /\ H(r) \in Nat /\ N(r) \in Nat /\ N(r) <= H(r)
         /\ H(r) = 0 => N(r) = 0
         /\ N(r) = 0 => H(r) = 0
         /\ SumAsked(flight, r, sched[r].gen + 1) = 0 /\ SumNew(flight, r, sched[r].gen + 1) = 0
<1>1. sched[r].gen \in Nat
  BY DEF Types, SchedType
<1>2. Len(flight) >= 1 => EntryOK(flight[1])
  BY Shapes DEF FlightOK
<1>3. Len(flight) >= 2 => EntryOK(flight[2])
  BY Shapes DEF FlightOK
<1>4. Len(flight) \in 0 .. 2
  BY Shapes
<1>5. PICK a1, n1, a2, n2 : /\ a1 = Asked(flight[1], r, sched[r].gen) /\ n1 = New(flight[1], r, sched[r].gen)
                            /\ a2 = Asked(flight[2], r, sched[r].gen) /\ n2 = New(flight[2], r, sched[r].gen)
  OBVIOUS
<1>6. Len(flight) >= 1 => a1 \in Nat /\ n1 \in Nat /\ n1 <= a1 /\ (n1 = 0 => a1 = 0)
  BY <1>1, <1>2, <1>5, EntryIs
<1>7. Len(flight) >= 2 => a2 \in Nat /\ n2 \in Nat /\ n2 <= a2 /\ (n2 = 0 => a2 = 0)
  BY <1>1, <1>3, <1>5, EntryIs
<1>8. /\ H(r) = (IF Len(flight) >= 1 THEN a1 ELSE 0) + (IF Len(flight) >= 2 THEN a2 ELSE 0)
      /\ N(r) = (IF Len(flight) >= 1 THEN n1 ELSE 0) + (IF Len(flight) >= 2 THEN n2 ELSE 0)
  BY <1>5 DEF H, N, SumAsked, SumNew
<1>9. H(r) \in Nat /\ N(r) \in Nat /\ N(r) <= H(r) /\ (H(r) = 0 => N(r) = 0) /\ (N(r) = 0 => H(r) = 0)
  BY <1>4, <1>6, <1>7, <1>8
<1>10. /\ Len(flight) >= 1 => Asked(flight[1], r, sched[r].gen + 1) = 0 /\ New(flight[1], r, sched[r].gen + 1) = 0
       /\ Len(flight) >= 2 => Asked(flight[2], r, sched[r].gen + 1) = 0 /\ New(flight[2], r, sched[r].gen + 1) = 0
  BY <1>1, <1>2, <1>3, EntryIs
<1>11. SumAsked(flight, r, sched[r].gen + 1) = 0 /\ SumNew(flight, r, sched[r].gen + 1) = 0
  BY <1>4, <1>10 DEF SumAsked, SumNew
<1> QED BY <1>1, <1>9, <1>11

-----------------------------------------------------------------------------
(* The invariant at the start, and when a step is reported.                *)

\* At the start nothing is known of any request.
LEMMA InitHolds == Init => IInv
<1> SUFFICES ASSUME Init PROVE IInv
  OBVIOUS
<1> USE DEF Init
<1>1. DOMAIN <<>> = {} /\ Len(<<>>) = 0 /\ \A x \in 1 .. 0 : FALSE
  OBVIOUS
<1>2. DOMAIN out.k = {} /\ DOMAIN out.d = {} /\ num_spec \in Nat /\ Prompt \in Nat
  BY <1>1, BatchAssumption DEF NoOut
<1>3. \A r \in Req : sched[r] = NoReq /\ truth[r] = [comp |-> 0, len |-> Prompt, acc |-> 1]
  OBVIOUS
<1>4. NoReq \in SchedType /\ [comp |-> 0, len |-> Prompt, acc |-> 1] \in TruthType
  BY <1>2 DEF NoReq, SchedType, TruthType
<1>5. Types
  BY <1>2, <1>4 DEF Types
<1>6. \A r \in Req : ~ Live(r)
  BY <1>3 DEF Live, NoReq
<1>7. "last" \in DOMAIN runner /\ \A s \in DOMAIN runner : runner[s] = EmptyRunner
  OBVIOUS
<1>8. /\ runner["last"] = EmptyRunner /\ runner["last"].rows = <<>> /\ runner["last"].prevIdx = <<>>
      /\ runner["last"].counts = <<>> /\ runner["last"].drafts = <<>>
      /\ runner["last"].prevDrafts = <<>>
  BY <1>7 DEF EmptyRunner
<1>9. IsBatch(EmptyRunner)
  BY DEF IsBatch, EmptyRunner
<1>10. Stages
  BY <1>7, <1>8, <1>9 DEF Stages
<1>11. FlightShape /\ FlightOK
  BY <1>1, <1>6 DEF FlightShape, FlightOK
<1>12. CountsOK /\ OutOK /\ ReqsOK /\ SampleOK
  BY <1>6 DEF CountsOK, OutOK, ReqsOK, SampleOK
<1>13. RowsShape
  <2>1. <<>> = [i \in 1 .. 0 |-> <<>>[i]]
    OBVIOUS
  <2> QED BY <1>1, <1>8, <2>1 DEF RowsShape
<1>14. BatchOK
  BY <1>1, <1>6, <1>8 DEF BatchOK
<1> QED BY <1>5, <1>10, <1>11, <1>12, <1>13, <1>14 DEF IInv

-----------------------------------------------------------------------------
\* What a report of n tokens, m drafts having been rejected, makes of a request.
LEMMA ReportedIs ==
  ASSUME NEW q \in SchedType, NEW n \in Nat, NEW m \in Int
  PROVE  /\ Reported(q, n, m) \in SchedType
         /\ Reported(q, n, m).st = q.st /\ Reported(q, n, m).gen = q.gen
         /\ Reported(q, n, m).last = q.last /\ Reported(q, n, m).outs = q.outs + n
         /\ Reported(q, n, m).holders = q.holders - n - m
         /\ Reported(q, n, m).comp = IF q.comp > 0 THEN q.comp - m ELSE 0
<1>1. q = [st |-> q.st, gen |-> q.gen, comp |-> q.comp, outs |-> q.outs, holders |-> q.holders,
           last |-> q.last]
  BY DEF SchedType
<1>2. PICK x, y, z : /\ x = q.outs + n /\ y = q.holders - n - m
                     /\ z = IF q.comp > 0 THEN q.comp - m ELSE 0
  OBVIOUS
<1>3. x \in Nat /\ y \in Int /\ z \in Int
  BY <1>2 DEF SchedType
<1>4. Reported(q, n, m) = [q EXCEPT !.outs = x, !.holders = y, !.comp = z]
  BY <1>2 DEF Reported
<1>5. PICK p1 : p1 = [q EXCEPT !.outs = x]
  OBVIOUS
<1>6. p1 = [st |-> q.st, gen |-> q.gen, comp |-> q.comp, outs |-> x, holders |-> q.holders,
            last |-> q.last]
  BY <1>1, <1>5
<1>7. PICK p2 : p2 = [p1 EXCEPT !.holders = y]
  OBVIOUS
<1>8. p2 = [st |-> q.st, gen |-> q.gen, comp |-> q.comp, outs |-> x, holders |-> y, last |-> q.last]
  BY <1>6, <1>7
<1>9. [p2 EXCEPT !.comp = z]
        = [st |-> q.st, gen |-> q.gen, comp |-> z, outs |-> x, holders |-> y, last |-> q.last]
  BY <1>8
<1>10. Reported(q, n, m)
        = [st |-> q.st, gen |-> q.gen, comp |-> z, outs |-> x, holders |-> y, last |-> q.last]
  BY <1>4, <1>5, <1>7, <1>9
<1>11. Reported(q, n, m) \in SchedType
  BY <1>3, <1>10 DEF SchedType
<1> QED BY <1>2, <1>10, <1>11

\* What Report does to a request that the scheduler knows.
LEMMA ReportIs ==
  ASSUME IInv, Report, NEW r \in Req
  PROVE  /\ flight[1] = Head(flight) /\ EntryOK(Head(flight)) /\ sched[r].gen \in Nat
         /\ sched'[r] \in SchedType /\ sched' = [t \in Req |-> sched'[t]]
         /\ sched'[r].st = sched[r].st /\ sched'[r].gen = sched[r].gen
         /\ sched'[r].last = sched[r].last
         /\ Live(r) =>
              /\ sched'[r].outs = sched[r].outs + New(Head(flight), r, sched[r].gen)
              /\ sched'[r].holders = sched[r].holders - Asked(Head(flight), r, sched[r].gen)
              /\ sched'[r].comp = IF sched[r].comp > 0
                     THEN sched[r].comp - (Asked(Head(flight), r, sched[r].gen)
                                           - New(Head(flight), r, sched[r].gen))
                     ELSE sched[r].comp
<1> DEFINE o == Head(flight)
           g == sched[r].gen
<1>1. flight # <<>> /\ flight[1] = o /\ 1 \in DOMAIN flight
  <2>1. flight # <<>> /\ FlightShape
    BY DEF Report, IInv
  <2> QED BY <2>1, Shapes, AfterHead
<1>2. EntryOK(o) /\ sched[r] \in SchedType /\ g \in Nat
  BY <1>1 DEF IInv, FlightOK, Types, SchedType
<1> DEFINE n == New(o, r, g)
           a == Asked(o, r, g)
           p == Reports(o, r) /\ o.asked[r].gen = g /\ sched[r].st # "none"
<1>3. n \in Nat /\ a \in Nat /\ n <= a
  BY <1>2, EntryIs
<1>4. sched' = [q \in Req |->
        IF Reports(o, q) /\ o.asked[q].gen = sched[q].gen /\ sched[q].st # "none"
        THEN Reported(sched[q], Len(get_output(o)[o.index[q]]),
                      (o.asked[q].d + 1) - Len(get_output(o)[o.index[q]]))
        ELSE sched[q]]
  BY DEF Report
<1>5. CASE p
  <2>1. n = Len(get_output(o)[o.index[r]]) /\ a = o.asked[r].d + 1
    BY <1>5 DEF New, Said, Asked
  <2>2. sched'[r] = Reported(sched[r], n, a - n)
    <3>1. sched'[r] = Reported(sched[r], Len(get_output(o)[o.index[r]]),
                               (o.asked[r].d + 1) - Len(get_output(o)[o.index[r]]))
      BY <1>4, <1>5
    <3>2. PICK x, y : x = Len(get_output(o)[o.index[r]]) /\ y = o.asked[r].d + 1
      OBVIOUS
    <3>3. sched'[r] = Reported(sched[r], x, y - x)
      BY <3>1, <3>2
    <3>4. n = x /\ a = y
      BY <2>1, <3>2
    <3> HIDE DEF n, a
    <3> QED BY <3>3, <3>4
  <2>3. PICK q : q = sched[r]
    OBVIOUS
  <2>4. q \in SchedType /\ Live(r)
    BY <1>2, <1>5, <2>3 DEF Live
  <2>5. q.comp >= 0
    <3>1. Counts(r) /\ phase = "schedule"
      BY <2>4 DEF IInv, CountsOK, Report
    <3>2. q.st = "running" => q.comp = truth[r].comp + H(r) - N(r) + 0
      BY <2>3, <3>1 DEF Counts, Running, Stepping
    <3>3. truth[r].comp \in Nat
      BY DEF IInv, Types, TruthType
    <3>4. H(r) \in Nat /\ N(r) \in Nat /\ N(r) <= H(r)
      BY SumsAre DEF IInv
    <3>5. q.st = "preempted" => q.comp = 0
      BY <2>3, <3>1 DEF Counts
    <3>6. PICK t, m, l : t = truth[r].comp /\ m = H(r) /\ l = N(r)
      OBVIOUS
    <3>7. t \in Nat /\ m \in Nat /\ l \in Nat /\ l <= m /\ (q.st = "running" => q.comp = t + m - l + 0)
      BY <3>2, <3>3, <3>4, <3>6
    <3>8. q.st = "running" \/ q.st = "preempted"
      BY <2>3, <2>4 DEF SchedType, Live
    <3> QED BY <3>5, <3>7, <3>8
  <2> HIDE DEF n, a
  <2>6. a - n \in Int
    BY <1>3
  <2>7. /\ sched'[r] \in SchedType /\ sched'[r].st = q.st /\ sched'[r].gen = q.gen
        /\ sched'[r].last = q.last
        /\ sched'[r].outs = q.outs + n /\ sched'[r].holders = q.holders - n - (a - n)
        /\ sched'[r].comp = IF q.comp > 0 THEN q.comp - (a - n) ELSE 0
    <3>1. PICK m : m = a - n /\ m \in Int
      BY <2>6
    <3>2. sched'[r] = Reported(q, n, m) /\ n \in Nat
      BY <1>3, <2>2, <2>3, <3>1
    <3>3. /\ Reported(q, n, m) \in SchedType
          /\ Reported(q, n, m).st = q.st /\ Reported(q, n, m).gen = q.gen
          /\ Reported(q, n, m).last = q.last /\ Reported(q, n, m).outs = q.outs + n
          /\ Reported(q, n, m).holders = q.holders - n - m
          /\ Reported(q, n, m).comp = IF q.comp > 0 THEN q.comp - m ELSE 0
      BY <2>4, <3>1, <3>2, ReportedIs
    <3> QED BY <3>1, <3>2, <3>3
  <2>8. q.holders \in Int /\ q.comp \in Int
    BY <2>4 DEF SchedType
  <2>9. q.holders - n - (a - n) = q.holders - a
    BY <1>3, <2>8
  <2>10. q.comp > 0 \/ q.comp = 0
    BY <2>5, <2>8
  <2>11. sched' = [t \in Req |-> sched'[t]]
    BY <1>4
  <2> QED BY <1>1, <1>2, <2>3, <2>7, <2>9, <2>10, <2>11 DEF n, a
<1>6. CASE ~ p
  <2>1. sched'[r] = sched[r]
    BY <1>4, <1>6
  <2>2. Live(r) => a = 0
    BY <1>6 DEF Asked, Live
  <2>3. Live(r) => n = 0
    BY <1>3, <2>2
  <2>4. PICK q : q = sched[r]
    OBVIOUS
  <2>5. q.outs \in Nat /\ q.holders \in Int /\ q.comp \in Int
    BY <1>2, <2>4 DEF SchedType
  <2>6. q.outs + 0 = q.outs /\ q.holders - 0 = q.holders /\ q.comp - (0 - 0) = q.comp
    BY <2>5
  <2>7. sched' = [t \in Req |-> sched'[t]]
    BY <1>4
  <2>8. /\ sched'[r] \in SchedType
        /\ sched'[r].st = sched[r].st /\ sched'[r].gen = sched[r].gen
        /\ sched'[r].last = sched[r].last
    BY <1>2, <2>1
  <2>9. Live(r) => /\ sched'[r].outs = sched[r].outs + n /\ sched'[r].holders = sched[r].holders - a
                   /\ sched'[r].comp = sched[r].comp
                   /\ sched[r].comp - (a - n) = sched[r].comp
    <3> HIDE DEF n, a
    <3> QED BY <2>1, <2>2, <2>3, <2>4, <2>6
  <2> QED BY <1>1, <1>2, <2>7, <2>8, <2>9
<1> QED BY <1>5, <1>6

\* A report takes what its step holds from what is in flight.
LEMMA ReportSums ==
  ASSUME IInv, Report, NEW r \in Req, Live(r)
  PROVE  /\ H(r)' \in Nat /\ N(r)' \in Nat /\ New(Head(flight), r, sched[r].gen) \in Nat
         /\ Asked(Head(flight), r, sched[r].gen) \in Nat
         /\ H(r)' = H(r) - Asked(Head(flight), r, sched[r].gen)
         /\ N(r)' = N(r) - New(Head(flight), r, sched[r].gen)
         /\ num_spec = 0 => Asked(Head(flight), r, sched[r].gen) = New(Head(flight), r, sched[r].gen)
<1> DEFINE g == sched[r].gen
<1>1. /\ FlightShape /\ flight # <<>> /\ flight' = Tail(flight) /\ sched'[r].gen = g /\ g \in Nat
      /\ flight[1] = Head(flight)
  BY ReportIs DEF IInv, Report
<1>2. Len(flight) \in 1 .. 2 /\ DOMAIN flight = 1 .. Len(flight)
  BY <1>1, Shapes
<1>3. EntryOK(flight[1]) /\ (Len(flight) = 2 => EntryOK(flight[2]))
  BY <1>2 DEF IInv, FlightOK
<1>4. PICK a1, n1, a2, n2 : /\ a1 = Asked(flight[1], r, g) /\ n1 = New(flight[1], r, g)
                            /\ a2 = Asked(flight[2], r, g) /\ n2 = New(flight[2], r, g)
  OBVIOUS
<1>5. a1 \in Nat /\ n1 \in Nat /\ n1 <= a1 /\ a1 <= num_spec + 1 /\ (n1 = 0 => a1 = 0)
  BY <1>1, <1>3, <1>4, EntryIs
<1>6. Len(flight) = 2 => a2 \in Nat /\ n2 \in Nat
  BY <1>1, <1>3, <1>4, EntryIs
<1>7. /\ H(r) = a1 + (IF Len(flight) >= 2 THEN a2 ELSE 0)
      /\ N(r) = n1 + (IF Len(flight) >= 2 THEN n2 ELSE 0)
  BY <1>2, <1>4 DEF H, N, SumAsked, SumNew
<1>8. /\ H(r)' = (IF Len(flight) = 2 THEN a2 ELSE 0)
      /\ N(r)' = (IF Len(flight) = 2 THEN n2 ELSE 0)
  <2>1. Len(flight') = Len(flight) - 1 /\ (Len(flight) = 2 => flight'[1] = flight[2])
    BY <1>1, AfterHead
  <2>2. /\ H(r)' = SumAsked(flight', r, g) /\ N(r)' = SumNew(flight', r, g)
    BY <1>1 DEF H, N
  <2>3. CASE Len(flight) = 2
    <3>1. PICK x : x = flight[2]
      OBVIOUS
    <3>2. Len(flight') = 1 /\ flight'[1] = x /\ a2 = Asked(x, r, g) /\ n2 = New(x, r, g)
      BY <1>4, <2>1, <2>3, <3>1
    <3>3. a2 + 0 = a2 /\ n2 + 0 = n2
      BY <1>6, <2>3
    <3> QED BY <2>2, <2>3, <3>2, <3>3 DEF SumAsked, SumNew
  <2>4. CASE Len(flight) = 1
    BY <2>1, <2>2, <2>4 DEF SumAsked, SumNew
  <2> QED BY <1>2, <2>3, <2>4
<1>9. /\ H(r)' \in Nat /\ N(r)' \in Nat /\ H(r)' = H(r) - a1 /\ N(r)' = N(r) - n1
  <2>1. PICK l : l = Len(flight) /\ l \in 1 .. 2
    BY <1>2
  <2> QED BY <1>5, <1>6, <1>7, <1>8, <2>1
<1>10. num_spec = 0 => a1 = n1
  BY <1>5
<1> QED BY <1>1, <1>4, <1>5, <1>9, <1>10

\* The invariant survives a report: count and flight lose the same.
LEMMA ReportKeeps == IInv /\ Report => IInv'
<1> SUFFICES ASSUME IInv, Report PROVE IInv'
  OBVIOUS
<1> DEFINE o == Head(flight)
           b == runner["last"]
<1>1. /\ phase = "schedule" /\ flight # <<>> /\ flight' = Tail(flight) /\ UNCHANGED phase
      /\ UNCHANGED runner /\ UNCHANGED out /\ UNCHANGED truth /\ UNCHANGED num_spec
      /\ Len(flight) = 2 \/ b.rows = <<>>
  BY DEF Report
<1>2. FlightShape /\ Types /\ FlightOK /\ CountsOK /\ Stages /\ ReqsOK /\ RowsShape /\ BatchOK
  BY DEF IInv
<1>3. \A r \in Req : /\ sched'[r].st = sched[r].st /\ sched'[r].gen = sched[r].gen
                     /\ sched'[r].last = sched[r].last /\ sched'[r] \in SchedType
                     /\ sched[r].gen \in Nat
  BY ReportIs
<1>4. \A r \in Req : /\ Live(r)' <=> Live(r)
                     /\ Running(r)' <=> Running(r)
                     /\ ~ Stepping(r) /\ ~ Stepping(r)'
  BY <1>1, <1>3 DEF Live, Running, Stepping
<1>5. /\ Len(flight) \in 1 .. 2 /\ DOMAIN flight = 1 .. Len(flight)
      /\ Len(flight') = Len(flight) - 1
      /\ Len(flight) = 2 => flight' = <<flight[2]>> /\ flight'[1] = flight[2]
      /\ Len(flight) = 1 => flight' = <<>>
  BY <1>1, <1>2, Shapes, AfterHead
<1>6. /\ DOMAIN flight' = IF Len(flight) = 2 THEN 1 .. 1 ELSE {}
      /\ Len(flight) = 2 => flight'[Len(flight')] = flight[2] /\ flight[Len(flight)] = flight[2]
  <2>1. \A x : DOMAIN <<x>> = 1 .. 1
    OBVIOUS
  <2>2. DOMAIN <<>> = {}
    OBVIOUS
  <2>3. Len(flight) = 2 => Len(flight') = 1
    BY <1>5
  <2> QED BY <1>5, <2>1, <2>2, <2>3
<1>7. Types'
  <2>1. sched' = [r \in Req |-> sched'[r]]
    BY ReportIs DEF Report
  <2>2. sched' \in [Req -> SchedType]
    BY <1>3, <2>1
  <2> QED BY <1>1, <1>2, <2>2 DEF Types
<1>8. FlightShape'
  <2>1. CASE Len(flight) = 2
    <3>1. PICK x : x = flight[2]
      OBVIOUS
    <3>2. flight' = <<x>> /\ flight'[1] = x
      BY <1>5, <2>1, <3>1
    <3>3. flight' = <<flight'[1]>>
      BY <3>2
    <3> QED BY <3>3 DEF FlightShape
  <2>2. CASE Len(flight) = 1
    BY <1>5, <2>2 DEF FlightShape
  <2> QED BY <1>5, <2>1, <2>2
<1>9. FlightOK'
  <2>1. \A i \in DOMAIN flight' : EntryOK(flight[i])'
    <3>1. SUFFICES ASSUME Len(flight) = 2 PROVE EntryOK(flight[1])'
      BY <1>5, <1>6
    <3>2. PICK x : x = flight[2] /\ flight'[1] = x
      BY <1>5, <3>1
    <3>3. EntryOK(x)
      BY <1>2, <1>5, <3>1, <3>2 DEF FlightOK
    <3>4. EntryOK(x)'
      BY <1>1, <1>3, <3>3 DEF EntryOK
    <3> QED BY <3>2, <3>4
  <2>2. ASSUME NEW r \in Req, Live(r)'
        PROVE  Continues(flight, r, sched[r].gen, Prompt + sched[r].outs)'
    <3> DEFINE g == sched[r].gen
               f == Prompt + sched[r].outs
    <3>1. Continues(flight, r, g, f) /\ g \in Nat
      BY <1>2, <1>3, <1>4, <2>2 DEF FlightOK
    <3>2. sched'[r].outs = sched[r].outs + New(flight[1], r, g) /\ New(flight[1], r, g) \in Nat
      BY <1>4, <2>2, ReportIs, ReportSums
    <3>3. sched[r].outs \in Nat /\ Prompt \in Nat
      BY <1>2, BatchAssumption DEF Types, SchedType
    <3>4. Prompt + sched'[r].outs = f + New(flight[1], r, g)
      BY <3>2, <3>3
    <3>5. Len(flight) = 2 => Said(flight[2], r, g) = Run(r, g, f + New(flight[1], r, g), New(flight[2], r, g))
      BY <3>1 DEF Continues
    <3>6. /\ Len(flight') >= 1 => Said(flight'[1], r, g)
                                  = Run(r, g, Prompt + sched'[r].outs, New(flight'[1], r, g))
          /\ ~ Len(flight') >= 2
      <4>1. Len(flight') >= 1 => Len(flight) = 2
        BY <1>5
      <4>2. ~ Len(flight') >= 2
        BY <1>5
      <4> QED BY <1>5, <3>4, <3>5, <4>1, <4>2
    <3>7. Continues(flight', r, g, Prompt + sched'[r].outs)
      BY <3>6 DEF Continues
    <3> QED BY <1>3, <3>7
  <2> QED BY <2>1, <2>2 DEF FlightOK
<1>10. CountsOK'
  <2>1. SUFFICES ASSUME NEW r \in Req, Live(r)' PROVE Counts(r)'
    BY DEF CountsOK
  <2> DEFINE g == sched[r].gen
  <2>2. Live(r) /\ Counts(r) /\ truth[r] \in TruthType /\ sched[r] \in SchedType
    BY <1>2, <1>4, <2>1 DEF CountsOK, Types
  <2>3. PICK q, t, a, n, h, m : /\ q = sched[r] /\ t = truth[r]
                                /\ a = Asked(o, r, g) /\ n = New(o, r, g) /\ h = H(r) /\ m = N(r)
    OBVIOUS
  <2>4. /\ h \in Nat /\ m \in Nat /\ m <= h /\ a \in Nat /\ n \in Nat /\ q.outs \in Nat /\ q.holders \in Int
        /\ q.comp \in Int /\ t.comp \in Nat /\ t.len \in Nat /\ Prompt \in Nat
    BY <1>2, <2>2, <2>3, ReportSums, SumsAre, BatchAssumption DEF SchedType, TruthType
  <2>5. /\ H(r)' = h - a /\ N(r)' = m - n /\ truth'[r] = t
    BY <1>1, <2>2, <2>3, ReportSums
  <2>6. /\ sched'[r].outs = q.outs + n /\ sched'[r].holders = q.holders - a
        /\ sched'[r].comp = IF q.comp > 0 THEN q.comp - (a - n) ELSE q.comp
    BY <2>2, <2>3, ReportIs
  <2>7. t.len = Prompt + q.outs + m /\ q.holders = h + 0
    BY <1>4, <2>2, <2>3 DEF Counts
  <2>8. /\ truth'[r].len = Prompt + sched'[r].outs + N(r)'
        /\ sched'[r].holders = H(r)' + 0
    BY <2>4, <2>5, <2>6, <2>7
  <2>9. Running(r)' => /\ sched'[r].comp = truth'[r].comp + H(r)' - N(r)' + 0
                       /\ truth'[r].comp < truth'[r].len
                       /\ truth'[r].comp > 0
    <3> SUFFICES ASSUME Running(r)'
                 PROVE  /\ sched'[r].comp = truth'[r].comp + H(r)' - N(r)' + 0
                        /\ truth'[r].comp < truth'[r].len
                        /\ truth'[r].comp > 0
      OBVIOUS
    <3>1. q.comp = t.comp + h - m + 0 /\ t.comp < t.len /\ t.comp > 0
      BY <1>4, <2>2, <2>3 DEF Counts
    <3>2. q.comp > 0
      BY <2>4, <3>1
    <3> QED BY <2>4, <2>5, <2>6, <3>1, <3>2
  <2>10. sched'[r].st = "preempted" => sched'[r].comp = 0 /\ truth'[r].comp = 0 /\ ~ sched'[r].last
    BY <1>3, <2>2, <2>3, <2>5, <2>6 DEF Counts
  <2>11. sched'[r].last => truth'[r].comp + 1 = truth'[r].len /\ r \in DOMAIN b.prevIdx
    BY <1>1, <1>3, <2>2, <2>3, <2>5 DEF Counts
  <2> QED BY <1>1, <1>4, <2>8, <2>9, <2>10, <2>11 DEF Counts
<1>11. OutOK' /\ Stages' /\ RowsShape' /\ SampleOK'
  BY <1>1, <1>2 DEF OutOK, Stages, RowsShape, SampleOK
<1>12. ReqsOK'
  <2>1. SUFFICES ASSUME NEW r \in Req, Live(r)' PROVE ReqOK(r)'
    BY DEF ReqsOK
  <2>2. Live(r) /\ ReqOK(r)
    BY <1>1, <1>2, <1>4, <2>1 DEF ReqsOK
  <2>3. num_spec = 0 => b.reqs[r].outs = sched'[r].outs + H(r)'
    <3> SUFFICES ASSUME num_spec = 0 PROVE b.reqs[r].outs = sched'[r].outs + H(r)'
      OBVIOUS
    <3>1. PICK a, x, h : a = Asked(o, r, sched[r].gen) /\ x = sched[r].outs /\ h = H(r)
      OBVIOUS
    <3>2. h \in Nat /\ a \in Nat /\ x \in Nat
      BY <1>2, <2>2, <3>1, ReportSums, SumsAre DEF Types, SchedType
    <3>3. H(r)' = h - a /\ sched'[r].outs = x + a
      BY <2>2, <3>1, ReportSums, ReportIs
    <3>4. b.reqs[r].outs = x + h
      BY <2>2, <3>1 DEF ReqOK
    <3> QED BY <3>2, <3>3, <3>4
  <2> QED BY <1>1, <1>3, <2>2, <2>3 DEF ReqOK
<1>13. BatchOK'
  <2>1. \A r \in DOMAIN b.prevIdx : b.prevIdx[r] \in 1 .. Len(b.rows) /\ b.rows[b.prevIdx[r]].req = r
    BY <1>1, <1>2 DEF BatchOK
  <2>2. ASSUME Len(flight) = 1
        PROVE  Len(b.rows) = 0
    BY <1>1, <2>2
  <2>3. ASSUME NEW i \in 1 .. Len(b.rows), NEW r, r = b.rows[i].req PROVE RowOK(r, i)'
    <3>1. Len(flight) = 2
      BY <1>5, <2>2, <2>3
    <3>2. RowOK(r, i) /\ r \in Req
      BY <1>1, <1>2, <2>3 DEF BatchOK, Stays, RowsShape
    <3>3. Live(r) /\ Running(r)'
      BY <1>4, <3>2 DEF RowOK, Running, Live
    <3>4. b.reqs[r].outs + b.reqs[r].prevDraft >= sched'[r].outs + H(r)'
      <4>1. PICK a, n, x, h, y : /\ a = Asked(o, r, sched[r].gen) /\ x = sched[r].outs /\ h = H(r)
                                 /\ n = New(o, r, sched[r].gen)
                                 /\ y = b.reqs[r].outs + b.reqs[r].prevDraft
        OBVIOUS
      <4>2. h \in Nat /\ a \in Nat /\ x \in Nat /\ n \in Nat
        BY <1>2, <3>2, <3>3, <4>1, ReportSums, SumsAre DEF Types, SchedType
      <4>3. H(r)' = h - a /\ sched'[r].outs = x + n
        BY <3>2, <3>3, <4>1, ReportSums, ReportIs
      <4>4. y >= x + h /\ y \in Int
        <5>1. b.reqs[r].outs \in Nat /\ b.reqs[r].prevDraft \in 0 .. num_spec /\ num_spec \in Nat
          BY <1>1, <1>2, <3>2, <3>3 DEF ReqsOK, ReqOK, Types
        <5> QED BY <3>2, <4>1, <5>1 DEF RowOK
      <4>5. n <= a
        BY <3>2, <4>1, ReportIs, EntryIs
      <4> QED BY <4>1, <4>2, <4>3, <4>4, <4>5
    <3>5. flight'[Len(flight')] = flight[Len(flight)] /\ flight' # <<>>
      BY <1>5, <1>6, <3>1
    <3>6. PICK x : x = flight[Len(flight)]
      OBVIOUS
    <3>7. PrevOK(r, i, x) => PrevOK(r, i, x)'
      BY <1>1, <1>3, <3>2 DEF PrevOK
    <3> QED BY <1>1, <3>2, <3>3, <3>4, <3>5, <3>6, <3>7 DEF RowOK
  <2>4. ASSUME NEW r \in Req, Live(r)', r \notin DOMAIN b.prevIdx, flight' # <<>>
        PROVE  Asked(flight'[Len(flight')], r, sched'[r].gen) = 0
    <3>1. Len(flight) = 2 /\ Live(r)
      BY <1>4, <1>5, <2>4
    <3>2. Asked(flight[Len(flight)], r, sched[r].gen) = 0
      BY <1>1, <1>2, <2>4, <3>1 DEF BatchOK
    <3> QED BY <1>3, <1>6, <3>1, <3>2
  <2> QED BY <1>1, <2>1, <2>3, <2>4 DEF BatchOK
<1> QED BY <1>7, <1>8, <1>9, <1>10, <1>11, <1>12, <1>13 DEF IInv

-----------------------------------------------------------------------------
(* A step is scheduled.                                                    *)

\* What is known of a request and not yet computed, as the scheduler counts.
LEMMA KnownIs ==
  ASSUME IInv, phase = "schedule", NEW r \in Req, Live(r)
  PROVE  /\ sched[r] \in SchedType /\ truth[r] \in TruthType /\ Prompt \in Nat /\ Prompt > 0
         /\ H(r) \in Nat /\ N(r) \in Nat /\ N(r) <= H(r) /\ (H(r) = 0 <=> N(r) = 0)
         /\ truth[r].len = Prompt + sched[r].outs + N(r) /\ sched[r].holders = H(r)
         /\ Running(r) =>
              /\ Prompt + sched[r].outs + sched[r].holders - sched[r].comp = truth[r].len - truth[r].comp
              /\ sched[r].comp = truth[r].comp + H(r) - N(r)
              /\ truth[r].comp < truth[r].len /\ truth[r].comp > 0
         /\ sched[r].st = "preempted" => truth[r].comp = 0 /\ ~ sched[r].last
         /\ sched[r].last => truth[r].comp + 1 = truth[r].len /\ r \in DOMAIN runner["last"].prevIdx
<1>1. Counts(r) /\ sched[r] \in SchedType /\ truth[r] \in TruthType /\ ~ Stepping(r)
  BY DEF IInv, CountsOK, Types, Stepping
<1>2. H(r) \in Nat /\ N(r) \in Nat /\ N(r) <= H(r) /\ (H(r) = 0 <=> N(r) = 0)
  BY SumsAre DEF IInv
<1>3. PICK q, t, h, n : q = sched[r] /\ t = truth[r] /\ h = H(r) /\ n = N(r)
  OBVIOUS
<1>4. /\ q.outs \in Nat /\ q.holders \in Int /\ q.comp \in Int /\ t.comp \in Nat /\ t.len \in Nat
      /\ h \in Nat /\ n \in Nat /\ Prompt \in Nat /\ Prompt > 0
  BY <1>1, <1>2, <1>3, BatchAssumption DEF SchedType, TruthType
<1>5. /\ t.len = Prompt + q.outs + n /\ q.holders = h + 0
      /\ Running(r) => q.comp = t.comp + h - n + 0 /\ t.comp < t.len /\ t.comp > 0
  BY <1>1, <1>3 DEF Counts
<1>6. /\ q.holders = h
      /\ Running(r) => q.comp = t.comp + h - n /\ Prompt + q.outs + q.holders - q.comp = t.len - t.comp
  BY <1>4, <1>5
<1>7. /\ q.st = "preempted" => t.comp = 0 /\ ~ q.last
      /\ q.last => t.comp + 1 = t.len /\ r \in DOMAIN runner["last"].prevIdx
  BY <1>1, <1>3 DEF Counts
<1> QED BY <1>1, <1>2, <1>3, <1>4, <1>5, <1>6, <1>7

Acts == {"skip", "new", "finish", "resume", "preempt", "run"}

\* What the scheduler may do with a request.
Allowed(r, c) ==
    /\ c = [act |-> c.act, k |-> c.k, d |-> c.d]
    /\ c.act \in Acts /\ c.k \in Nat /\ c.d \in 0 .. num_spec
    /\ c.act # "run" => c.d = 0
    /\ c.act = "new" => sched[r].st \in {"none", "running"} /\ c.k \in 1 .. Prompt
    /\ c.act = "finish" => Live(r)
    /\ c.act = "preempt" => Running(r)
    /\ c.act = "resume" => /\ sched[r].st = "preempted" /\ H(r) = 0
                           /\ c.k > 0 /\ c.k <= truth[r].len
    /\ c.act = "run" => /\ Running(r) /\ c.k > c.d /\ truth[r].comp + c.k - c.d <= truth[r].len
                        /\ c.d > 0 => /\ r \in DOMAIN runner["last"].prevIdx /\ c.k = c.d + 1
                                      /\ truth[r].comp + c.k - c.d = truth[r].len

\* A request that no step in flight has asked for anything has nothing coming.
LEMMA NotInFlight ==
  ASSUME IInv, NEW r \in Req, ~ InFlight(r)
  PROVE  H(r) = 0
<1>1. \A i \in DOMAIN flight : Asked(flight[i], r, sched[r].gen) = 0
  BY DEF InFlight, Asked
<1>2. Len(flight) \in 0 .. 2 /\ DOMAIN flight = 1 .. Len(flight)
  BY Shapes DEF IInv
<1>3. /\ Len(flight) >= 1 => Asked(flight[1], r, sched[r].gen) = 0
      /\ Len(flight) >= 2 => Asked(flight[2], r, sched[r].gen) = 0
  BY <1>1, <1>2
<1> QED BY <1>2, <1>3 DEF H, SumAsked

LEMMA OptionsAre ==
  ASSUME IInv, phase = "schedule", NEW r \in Req, NEW c \in OptionsOf(r)
  PROVE  Allowed(r, c)
<1> DEFINE q == sched[r]
           known == Prompt + q.outs + q.holders
           left == known - q.comp
<1>1. q \in SchedType /\ num_spec \in Nat /\ Prompt \in Nat
  BY BatchAssumption DEF IInv, Types
<1>2. q.st \in {"none", "preempted", "running"}
  BY <1>1 DEF SchedType
<1>3. ASSUME NEW a \in Acts, NEW k \in Nat, NEW d \in 0 .. num_spec, c = Choice(a, k, d)
      PROVE  /\ c = [act |-> c.act, k |-> c.k, d |-> c.d] /\ c.act = a /\ c.k = k /\ c.d = d
             /\ c.act \in Acts /\ c.k \in Nat /\ c.d \in 0 .. num_spec
  BY <1>3 DEF Choice
<1>4. 0 \in Nat /\ 0 \in 0 .. num_spec
  BY <1>1
<1>5. ASSUME c = Choice("skip", 0, 0) PROVE Allowed(r, c)
  <2>1. c.act = "skip" /\ c.d = 0 /\ c = [act |-> c.act, k |-> c.k, d |-> c.d] /\ c.k = 0
    BY <1>3, <1>4, <1>5 DEF Acts
  <2> QED BY <1>4, <2>1 DEF Allowed, Acts
<1>6. ASSUME c = Choice("finish", 0, 0), Live(r) PROVE Allowed(r, c)
  <2>1. c.act = "finish" /\ c.d = 0 /\ c = [act |-> c.act, k |-> c.k, d |-> c.d] /\ c.k = 0
    BY <1>3, <1>4, <1>6 DEF Acts
  <2> QED BY <1>4, <1>6, <2>1 DEF Allowed, Acts
<1>7. ASSUME c \in Start(r), q.st \in {"none", "running"} PROVE Allowed(r, c)
  <2>1. PICK k \in 1 .. Prompt : c = Choice("new", k, 0)
    BY <1>7 DEF Start
  <2>2. c.act = "new" /\ c.d = 0 /\ c.k = k /\ c = [act |-> c.act, k |-> c.k, d |-> c.d] /\ k \in Nat
    BY <1>1, <1>3, <1>4, <2>1 DEF Acts
  <2> QED BY <1>4, <1>7, <2>2 DEF Allowed, Acts
<1>8. CASE q.st = "none"
  <2>1. OptionsOf(r) = {Choice("skip", 0, 0)} \cup Start(r)
    BY <1>8 DEF OptionsOf
  <2> QED BY <1>5, <1>7, <1>8, <2>1
<1>9. CASE q.st = "preempted"
  <2>1. OptionsOf(r) = {Choice("skip", 0, 0), Choice("finish", 0, 0)}
             \cup (IF InFlight(r) THEN {} ELSE {Choice("resume", k, 0) : k \in 1 .. known})
    BY <1>9 DEF OptionsOf
  <2>2. Live(r)
    BY <1>9 DEF Live
  <2>3. ASSUME NEW k \in 1 .. known, c = Choice("resume", k, 0), ~ InFlight(r)
        PROVE  Allowed(r, c)
    <3>1. H(r) = 0
      BY <2>3, NotInFlight
    <3>2. q.outs \in Nat /\ q.holders = 0 /\ truth[r].len = Prompt + q.outs + N(r) /\ N(r) = 0
      BY <2>2, <3>1, KnownIs DEF SchedType
    <3>3. known = truth[r].len /\ known \in Nat
      BY <1>1, <3>2
    <3> HIDE DEF known
    <3>4. k \in Nat /\ k > 0 /\ k <= truth[r].len
      BY <3>3
    <3>5. c.act = "resume" /\ c.d = 0 /\ c.k = k /\ c = [act |-> c.act, k |-> c.k, d |-> c.d]
      BY <1>3, <1>4, <2>3, <3>4 DEF Acts
    <3> QED BY <1>4, <1>9, <3>1, <3>4, <3>5 DEF Allowed, Acts
  <2> QED BY <1>5, <1>6, <2>1, <2>2, <2>3
<1>10. CASE q.st = "running"
  <2>1. OptionsOf(r) = {Choice("skip", 0, 0), Choice("finish", 0, 0), Choice("preempt", 0, 0)}
             \cup Start(r)
             \cup {x \in Chunks(left, IF q.last THEN num_spec ELSE 0) : q.outs + q.holders + x.d < MaxOut}
    BY <1>10 DEF OptionsOf
  <2>2. Live(r) /\ Running(r)
    BY <1>10 DEF Live, Running
  <2>3. /\ left = truth[r].len - truth[r].comp /\ truth[r].comp < truth[r].len
        /\ truth[r].comp \in Nat /\ truth[r].len \in Nat
        /\ q.last => truth[r].comp + 1 = truth[r].len /\ r \in DOMAIN runner["last"].prevIdx
    <3>1. /\ Prompt + q.outs + q.holders - q.comp = truth[r].len - truth[r].comp
          /\ truth[r] \in TruthType /\ truth[r].comp < truth[r].len
          /\ q.last => truth[r].comp + 1 = truth[r].len /\ r \in DOMAIN runner["last"].prevIdx
      BY <2>2, KnownIs
    <3>2. PICK x, y, z : x = q.outs /\ y = q.holders /\ z = q.comp
      OBVIOUS
    <3>3. x \in Nat /\ y \in Int /\ z \in Int
      BY <1>1, <3>2 DEF SchedType
    <3>4. left = Prompt + x + y - z
      BY <1>1, <3>2, <3>3
    <3>5. left = truth[r].len - truth[r].comp
      BY <3>1, <3>2, <3>4
    <3> QED BY <3>1, <3>5 DEF TruthType
  <2>4. PICK n, t : n = left /\ t = truth[r]
    OBVIOUS
  <2>5. n \in Nat /\ n > 0 /\ t.comp \in Nat /\ t.len = t.comp + n /\ (q.last => n = 1)
    BY <2>3, <2>4
  <2>6. ASSUME c = Choice("preempt", 0, 0) PROVE Allowed(r, c)
    <3>1. c.act = "preempt" /\ c.d = 0 /\ c = [act |-> c.act, k |-> c.k, d |-> c.d] /\ c.k = 0
      BY <1>3, <1>4, <2>6 DEF Acts
    <3> QED BY <1>4, <2>2, <3>1 DEF Allowed, Acts
  <2>7. ASSUME NEW k \in 1 .. n, c = Choice("run", k, 0) PROVE Allowed(r, c)
    <3>1. k \in Nat /\ k > 0 /\ t.comp + k - 0 <= t.len
      BY <2>5
    <3>2. c.act = "run" /\ c.d = 0 /\ c.k = k /\ c = [act |-> c.act, k |-> c.k, d |-> c.d]
      BY <1>3, <1>4, <2>7, <3>1 DEF Acts
    <3> QED BY <1>4, <2>2, <2>4, <3>1, <3>2 DEF Allowed, Acts
  <2>8. ASSUME NEW d \in 1 .. (IF q.last THEN num_spec ELSE 0), c = Choice("run", n + d, d)
        PROVE  Allowed(r, c)
    <3>1. q.last /\ d \in 1 .. num_spec
      BY <1>1
    <3>2. n = 1 /\ r \in DOMAIN runner["last"].prevIdx
      BY <2>3, <2>5, <3>1
    <3>3. PICK k : k = n + d
      OBVIOUS
    <3>4. k \in Nat /\ d \in 0 .. num_spec /\ d > 0 /\ k = d + 1 /\ k > d /\ t.comp + k - d = t.len
      BY <2>5, <3>1, <3>2, <3>3
    <3>5. c.act = "run" /\ c.d = d /\ c.k = k /\ c = [act |-> c.act, k |-> c.k, d |-> c.d]
      BY <1>3, <2>8, <3>3, <3>4 DEF Acts
    <3>6. t.comp + k - d <= t.len
      BY <2>5, <3>4
    <3> QED BY <2>2, <2>4, <3>2, <3>4, <3>5, <3>6 DEF Allowed, Acts
  <2>9. Chunks(left, IF q.last THEN num_spec ELSE 0)
          = {Choice("run", k, 0) : k \in 1 .. n}
            \cup {Choice("run", n + d, d) : d \in 1 .. (IF q.last THEN num_spec ELSE 0)}
    BY <2>4 DEF Chunks
  <2>10. c \in Chunks(left, IF q.last THEN num_spec ELSE 0) => Allowed(r, c)
    BY <2>7, <2>8, <2>9
  <2> QED BY <1>5, <1>6, <1>7, <1>10, <2>1, <2>2, <2>6, <2>10
<1> QED BY <1>2, <1>8, <1>9, <1>10

\* What the scheduler makes of a request that is in the step.
Started(s, k, last, h) ==
    [s EXCEPT !.st = "running", !.comp = @ + k, !.last = last, !.holders = @ + h]
\* The record of a request that is in the step, and of one put aside.
LEMMA StartedIs ==
  ASSUME NEW s \in SchedType, NEW k \in Nat, NEW l \in BOOLEAN, NEW h \in Nat
  PROVE  Started(s, k, l, h)
           = [st |-> "running", gen |-> s.gen, comp |-> s.comp + k, outs |-> s.outs,
              holders |-> s.holders + h, last |-> l]
<1>1. s = [st |-> s.st, gen |-> s.gen, comp |-> s.comp, outs |-> s.outs, holders |-> s.holders,
           last |-> s.last]
  BY DEF SchedType
<1>2. PICK x, y : x = s.comp + k /\ y = s.holders + h
  OBVIOUS
<1>3. PICK p1 : p1 = [s EXCEPT !.st = "running"]
  OBVIOUS
<1>4. p1 = [st |-> "running", gen |-> s.gen, comp |-> s.comp, outs |-> s.outs,
            holders |-> s.holders, last |-> s.last]
  BY <1>1, <1>3
<1>5. PICK p2 : p2 = [p1 EXCEPT !.comp = x]
  OBVIOUS
<1>6. p2 = [st |-> "running", gen |-> s.gen, comp |-> x, outs |-> s.outs,
            holders |-> s.holders, last |-> s.last]
  BY <1>4, <1>5
<1>7. PICK p3 : p3 = [p2 EXCEPT !.last = l]
  OBVIOUS
<1>8. p3 = [st |-> "running", gen |-> s.gen, comp |-> x, outs |-> s.outs,
            holders |-> s.holders, last |-> l]
  BY <1>6, <1>7
<1>9. PICK p4 : p4 = [p3 EXCEPT !.holders = y]
  OBVIOUS
<1>10. p4 = [st |-> "running", gen |-> s.gen, comp |-> x, outs |-> s.outs,
             holders |-> y, last |-> l]
  BY <1>8, <1>9
<1>11. Started(s, k, l, h) = [s EXCEPT !.st = "running", !.comp = x, !.last = l, !.holders = y]
  BY <1>2 DEF Started
<1> QED BY <1>2, <1>3, <1>5, <1>7, <1>9, <1>10, <1>11

Ended(s, z) == [s EXCEPT !.last = FALSE, !.st = z]
LEMMA EndedIs ==
  ASSUME NEW s \in SchedType, NEW z
  PROVE  Ended(s, z)
           = [st |-> z, gen |-> s.gen, comp |-> s.comp, outs |-> s.outs,
              holders |-> s.holders, last |-> FALSE]
<1>1. s = [st |-> s.st, gen |-> s.gen, comp |-> s.comp, outs |-> s.outs, holders |-> s.holders,
           last |-> s.last]
  BY DEF SchedType
<1>2. PICK l : l = FALSE
  OBVIOUS
<1>3. PICK p1 : p1 = [s EXCEPT !.last = l]
  OBVIOUS
<1>4. p1 = [st |-> s.st, gen |-> s.gen, comp |-> s.comp, outs |-> s.outs, holders |-> s.holders,
            last |-> l]
  BY <1>1, <1>3
<1>5. [p1 EXCEPT !.st = z]
        = [st |-> z, gen |-> s.gen, comp |-> s.comp, outs |-> s.outs, holders |-> s.holders,
           last |-> l]
  BY <1>4
<1>6. Ended(s, z) = [p1 EXCEPT !.st = z]
  BY <1>2, <1>3 DEF Ended
<1> QED BY <1>2, <1>5, <1>6

\* What a request is in the step from: as it was, a new one, one that starts again.
From(r, c) ==
    CASE c.act = "new" -> [st |-> "none", gen |-> sched[r].gen + 1, comp |-> 0, outs |-> 0,
                           holders |-> 0, last |-> FALSE]
      [] c.act \in {"resume", "preempt"} -> [sched[r] EXCEPT !.comp = 0]
      [] c.act = "finish" -> [st |-> "none", gen |-> sched[r].gen, comp |-> 0, outs |-> 0,
                              holders |-> 0, last |-> FALSE]
      [] OTHER -> sched[r]

\* The record of a request after the choice c, field by field.
LEMMA AfterScheduleIs ==
  ASSUME IInv, phase = "schedule", NEW r \in Req, NEW c, Allowed(r, c)
  PROVE  /\ From(r, c) \in SchedType /\ AfterSchedule(r, c) \in SchedType
         /\ c.act \in {"new", "run", "resume"} =>
              AfterSchedule(r, c)
                = [st |-> "running", gen |-> From(r, c).gen, comp |-> From(r, c).comp + c.k,
                   outs |-> From(r, c).outs,
                   holders |-> From(r, c).holders + IF Reaches(r, c) THEN 1 + c.d ELSE 0,
                   last |-> Reaches(r, c)]
         /\ c.act \notin {"new", "run", "resume"} =>
              AfterSchedule(r, c)
                = [st |-> IF c.act = "preempt" THEN "preempted" ELSE From(r, c).st,
                   gen |-> From(r, c).gen, comp |-> From(r, c).comp, outs |-> From(r, c).outs,
                   holders |-> From(r, c).holders, last |-> FALSE]
<1>1. sched[r] \in SchedType /\ num_spec \in Nat
  BY DEF IInv, Types
<1>2. c.act \in Acts /\ c.k \in Nat /\ c.d \in Nat
  BY <1>1 DEF Allowed
<1>3. PICK f : f = From(r, c)
  OBVIOUS
<1>4. f \in SchedType
  <2>1. sched[r].gen \in Nat /\ sched[r].gen + 1 \in Nat
    BY <1>1 DEF SchedType
  <2>2. [sched[r] EXCEPT !.comp = 0] \in SchedType
    BY <1>1 DEF SchedType
  <2> QED BY <1>1, <1>3, <2>1, <2>2 DEF From, SchedType
<1>5. /\ c.act = "new" => [NoReq EXCEPT !.gen = sched[r].gen + 1] = f
      /\ c.act = "finish" => [NoReq EXCEPT !.gen = sched[r].gen] = f
      /\ c.act \in {"resume", "preempt"} => [sched[r] EXCEPT !.comp = 0] = f
      /\ c.act \in {"skip", "run"} => sched[r] = f
  <2>1. ASSUME NEW g
        PROVE  [NoReq EXCEPT !.gen = g]
                 = [st |-> "none", gen |-> g, comp |-> 0, outs |-> 0, holders |-> 0, last |-> FALSE]
    <3>1. PICK n, z, l : n = "none" /\ z = 0 /\ l = FALSE
      OBVIOUS
    <3>2. PICK p : p = NoReq
      OBVIOUS
    <3>3. p = [st |-> n, gen |-> z, comp |-> z, outs |-> z, holders |-> z, last |-> l]
      BY <3>1, <3>2 DEF NoReq
    <3>4. [p EXCEPT !.gen = g]
            = [st |-> n, gen |-> g, comp |-> z, outs |-> z, holders |-> z, last |-> l]
      BY <3>3
    <3> QED BY <3>1, <3>2, <3>4
  <2>2. /\ c.act = "new" => f = [st |-> "none", gen |-> sched[r].gen + 1, comp |-> 0, outs |-> 0,
                                 holders |-> 0, last |-> FALSE]
        /\ c.act = "finish" => f = [st |-> "none", gen |-> sched[r].gen, comp |-> 0, outs |-> 0,
                                    holders |-> 0, last |-> FALSE]
        /\ c.act \in {"resume", "preempt"} => [sched[r] EXCEPT !.comp = 0] = f
        /\ c.act \in {"skip", "run"} => sched[r] = f
    BY <1>3 DEF From
  <2> QED BY <2>1, <2>2
<1>6. Reaches(r, c) \in BOOLEAN
  BY DEF Reaches
<1>7. PICK l, h : l = Reaches(r, c) /\ h = IF l THEN 1 + c.d ELSE 0
  OBVIOUS
<1>8. l \in BOOLEAN /\ h \in Nat
  BY <1>2, <1>6, <1>7
<1>9. CASE c.act \in {"new", "run", "resume"}
  <2>1. AfterSchedule(r, c)
          = [f EXCEPT !.st = "running", !.comp = @ + c.k, !.last = l, !.holders = @ + h]
    BY <1>5, <1>7, <1>9 DEF AfterSchedule
  <2>2. AfterSchedule(r, c) = Started(f, c.k, l, h)
    BY <2>1 DEF Started
  <2>3. AfterSchedule(r, c) = [st |-> "running", gen |-> f.gen, comp |-> f.comp + c.k, outs |-> f.outs,
                               holders |-> f.holders + h, last |-> l]
    BY <1>2, <1>4, <1>8, <2>2, StartedIs
  <2>4. AfterSchedule(r, c) \in SchedType
    <3>1. f.comp + c.k \in Int /\ f.holders + h \in Int /\ f.gen \in Nat /\ f.outs \in Nat
      BY <1>2, <1>4, <1>8 DEF SchedType
    <3> QED BY <1>8, <2>3, <3>1 DEF SchedType
  <2> QED BY <1>3, <1>4, <1>7, <1>9, <2>3, <2>4
<1>10. CASE c.act \notin {"new", "run", "resume"}
  <2>1. AfterSchedule(r, c) = Ended(f, IF c.act = "preempt" THEN "preempted" ELSE f.st)
    <3>1. PICK p : p = [f EXCEPT !.last = FALSE]
      OBVIOUS
    <3>2. p.st = f.st
      BY <1>4, <3>1 DEF SchedType
    <3>3. AfterSchedule(r, c) = [p EXCEPT !.st = IF c.act = "preempt" THEN "preempted" ELSE p.st]
      BY <1>2, <1>5, <1>10, <3>1 DEF AfterSchedule, Acts
    <3> QED BY <3>1, <3>2, <3>3 DEF Ended
  <2>2. AfterSchedule(r, c)
          = [st |-> IF c.act = "preempt" THEN "preempted" ELSE f.st, gen |-> f.gen, comp |-> f.comp,
             outs |-> f.outs, holders |-> f.holders, last |-> FALSE]
    BY <1>4, <2>1, EndedIs
  <2>3. AfterSchedule(r, c) \in SchedType
    BY <1>4, <2>2 DEF SchedType
  <2> QED BY <1>3, <1>4, <1>10, <2>2, <2>3
<1> QED BY <1>9, <1>10

\* The step that the choices c make.
ScheduledAs(c) ==
    /\ \A r \in Req : c[r] \in OptionsOf(r)
    /\ sched' = [r \in Req |-> AfterSchedule(r, c[r])]
    /\ out' = [finished |-> {r \in Req : /\ c[r].act \in {"finish", "new"}
                                         /\ sched[r].st # "none"},
               fresh |-> {r \in Req : c[r].act = "new"},
               resumed |-> {r \in Req : c[r].act = "resume"},
               k |-> [r \in Scheduled(c) |-> c[r].k],
               d |-> [r \in Scheduled(c) |-> c[r].d],
               comp |-> [r \in Scheduled(c) |-> IF c[r].act = "run" THEN sched[r].comp ELSE 0],
               nout |-> [r \in Scheduled(c) |-> IF c[r].act = "new" THEN 0
                                                ELSE sched[r].outs + sched[r].holders],
               gen |-> [r \in Scheduled(c) |-> sched'[r].gen]]
    /\ truth' = [r \in Req |-> CASE c[r].act = "new" -> [comp |-> 0, len |-> Prompt, acc |-> 1]
                                 [] c[r].act = "preempt" -> [truth[r] EXCEPT !.comp = 0, !.acc = 1]
                                 [] OTHER -> truth[r]]

\* The scheduler output of the choices c.
LEMMA ScheduledOut ==
  ASSUME IInv, Schedule, NEW c, ScheduledAs(c)
  PROVE  /\ DOMAIN out'.k = Scheduled(c) /\ DOMAIN out'.d = Scheduled(c)
         /\ out'.fresh = {r \in Req : c[r].act = "new"}
         /\ out'.resumed = {r \in Req : c[r].act = "resume"}
         /\ out'.finished = {r \in Req : c[r].act \in {"finish", "new"} /\ sched[r].st # "none"}
         /\ \A r \in Scheduled(c) :
               /\ out'.k[r] = c[r].k /\ out'.d[r] = c[r].d /\ out'.gen[r] = sched'[r].gen
               /\ out'.comp[r] = IF c[r].act = "run" THEN sched[r].comp ELSE 0
               /\ out'.nout[r] = IF c[r].act = "new" THEN 0 ELSE sched[r].outs + sched[r].holders
BY DEF ScheduledAs

\* Scheduling computes nothing: it only makes a new request start and a preempted
\* one start again.
LEMMA ScheduledTruth ==
  ASSUME IInv, Schedule, NEW c, ScheduledAs(c), NEW r \in Req
  PROVE  /\ truth'[r] \in TruthType
         /\ c[r].act = "new" => truth'[r] = [comp |-> 0, len |-> Prompt, acc |-> 1]
         /\ c[r].act = "preempt" => truth'[r].comp = 0 /\ truth'[r].len = truth[r].len
         /\ c[r].act \notin {"new", "preempt"} => truth'[r] = truth[r]
<1>1. truth[r] \in TruthType /\ Prompt \in Nat
  BY BatchAssumption DEF IInv, Types
<1>2. truth'[r] = CASE c[r].act = "new" -> [comp |-> 0, len |-> Prompt, acc |-> 1]
                    [] c[r].act = "preempt" -> [truth[r] EXCEPT !.comp = 0, !.acc = 1]
                    [] OTHER -> truth[r]
  BY DEF ScheduledAs
<1>3. CASE c[r].act = "new"
  BY <1>1, <1>2, <1>3 DEF TruthType
<1>4. CASE c[r].act = "preempt"
  <2>1. PICK t, p, z, o : t = truth[r] /\ z = 0 /\ o = 1 /\ p = [t EXCEPT !.comp = z]
    OBVIOUS
  <2>2. t = [comp |-> t.comp, len |-> t.len, acc |-> t.acc] /\ t.len \in Nat
    BY <1>1, <2>1 DEF TruthType
  <2>3. p = [comp |-> z, len |-> t.len, acc |-> t.acc]
    BY <2>1, <2>2
  <2>4. [p EXCEPT !.acc = o] = [comp |-> z, len |-> t.len, acc |-> o]
    BY <2>3
  <2>5. truth'[r] = [comp |-> z, len |-> t.len, acc |-> o]
    BY <1>2, <1>4, <2>1, <2>4
  <2>6. truth'[r] \in TruthType
    BY <2>1, <2>2, <2>5 DEF TruthType
  <2> QED BY <1>4, <2>1, <2>5, <2>6
<1>5. CASE c[r].act \notin {"new", "preempt"}
  BY <1>1, <1>2, <1>5
<1> QED BY <1>3, <1>4, <1>5

\* What the steps in flight hold for a request does not change, except that they hold
\* nothing for a new one.
LEMMA ScheduledSums ==
  ASSUME IInv, Schedule, NEW c, ScheduledAs(c), NEW r \in Req
  PROVE  /\ Allowed(r, c[r]) /\ sched'[r] = AfterSchedule(r, c[r]) /\ sched'[r] \in SchedType
         /\ sched'[r].gen = IF c[r].act = "new" THEN sched[r].gen + 1 ELSE sched[r].gen
         /\ c[r].act \notin {"new", "finish"} => sched'[r].outs = sched[r].outs
         /\ c[r].act = "new" => sched'[r].outs = 0
         /\ H(r)' = IF c[r].act = "new" THEN 0 ELSE H(r)
         /\ N(r)' = IF c[r].act = "new" THEN 0 ELSE N(r)
<1>1. phase = "schedule" /\ UNCHANGED flight
  BY DEF Schedule
<1>2. Allowed(r, c[r])
  BY <1>1, OptionsAre DEF ScheduledAs
<1>3. sched'[r] = AfterSchedule(r, c[r]) /\ sched'[r] \in SchedType
  BY <1>1, <1>2, AfterScheduleIs DEF ScheduledAs
<1>4. sched[r] \in SchedType /\ c[r].act \in Acts
  BY <1>2 DEF IInv, Types, Allowed
<1>5. sched'[r].gen = From(r, c[r]).gen /\ sched'[r].outs = From(r, c[r]).outs
  BY <1>1, <1>2, <1>3, AfterScheduleIs
<1>6. /\ From(r, c[r]).gen = IF c[r].act = "new" THEN sched[r].gen + 1 ELSE sched[r].gen
      /\ c[r].act \notin {"new", "finish"} => From(r, c[r]).outs = sched[r].outs
      /\ c[r].act = "new" => From(r, c[r]).outs = 0
  BY <1>4 DEF From, Acts, SchedType
<1>7. /\ H(r)' = SumAsked(flight, r, sched'[r].gen)
      /\ N(r)' = SumNew(flight, r, sched'[r].gen)
  BY <1>1 DEF H, N
<1>8. H(r) = SumAsked(flight, r, sched[r].gen) /\ N(r) = SumNew(flight, r, sched[r].gen)
  BY DEF H, N
<1>9. SumAsked(flight, r, sched[r].gen + 1) = 0 /\ SumNew(flight, r, sched[r].gen + 1) = 0
  BY SumsAre DEF IInv
<1> QED BY <1>2, <1>3, <1>5, <1>6, <1>7, <1>8, <1>9

\* A request in the step: what it is asked for follows what is true of it.
LEMMA ScheduledStart ==
  ASSUME IInv, Schedule, NEW c, ScheduledAs(c), NEW r \in Scheduled(c)
  PROVE  Asks(r)' /\ Counts(r)'
<1>1. r \in Req /\ c[r].act \in {"new", "run", "resume"} /\ phase = "schedule" /\ phase' = "execute"
      /\ UNCHANGED num_spec /\ UNCHANGED flight
  BY DEF Scheduled, Schedule
<1>2. /\ Allowed(r, c[r]) /\ sched'[r] = AfterSchedule(r, c[r]) /\ sched'[r] \in SchedType
      /\ H(r)' = IF c[r].act = "new" THEN 0 ELSE H(r)
      /\ N(r)' = IF c[r].act = "new" THEN 0 ELSE N(r)
  BY <1>1, ScheduledSums
<1>3. PICK f, k, d, l : f = From(r, c[r]) /\ k = c[r].k /\ d = c[r].d /\ l = Reaches(r, c[r])
  OBVIOUS
<1>4. /\ sched'[r] = [st |-> "running", gen |-> f.gen, comp |-> f.comp + k, outs |-> f.outs,
                      holders |-> f.holders + IF l THEN 1 + d ELSE 0, last |-> l]
      /\ f \in SchedType
  BY <1>1, <1>2, <1>3, AfterScheduleIs
<1>5. num_spec \in Nat /\ k \in Nat /\ d \in 0 .. num_spec /\ sched[r] \in SchedType
      /\ Prompt \in Nat /\ Prompt > 0
  <2>1. k \in Nat /\ d \in 0 .. num_spec
    BY <1>2, <1>3 DEF Allowed
  <2>2. num_spec \in Nat /\ sched[r] \in SchedType
    BY <1>1 DEF IInv, Types
  <2> QED BY <2>1, <2>2, BatchAssumption
<1>6. /\ r \in DOMAIN out'.k /\ out'.k[r] = k /\ out'.d[r] = d /\ out'.gen[r] = sched'[r].gen
      /\ out'.comp[r] = IF c[r].act = "run" THEN sched[r].comp ELSE 0
      /\ out'.nout[r] = IF c[r].act = "new" THEN 0 ELSE sched[r].outs + sched[r].holders
  BY <1>3, ScheduledOut
<1>7. PICK t, h, n : t = truth'[r] /\ h = H(r)' /\ n = N(r)'
  OBVIOUS
<1>8. t \in TruthType
  BY <1>1, <1>7, ScheduledTruth
<1>9. /\ h \in Nat /\ n \in Nat /\ f.comp = t.comp + h - n /\ f.holders = h
      /\ t.len = Prompt + f.outs + n /\ t.comp < t.len
      /\ d < k /\ t.comp + k - d <= t.len /\ (l <=> t.comp + k - d = t.len)
      /\ d > 0 => l /\ k = d + 1
      /\ out'.comp[r] = f.comp /\ out'.nout[r] = f.outs + h
  <2>1. CASE c[r].act = "new"
    <3>1. h = 0 /\ n = 0 /\ d = 0 /\ k \in 1 .. Prompt
      BY <1>2, <1>3, <1>7, <2>1 DEF Allowed
    <3>2. t.comp = 0 /\ t.len = Prompt
      BY <1>1, <1>7, <2>1, ScheduledTruth
    <3>3. f.comp = 0 /\ f.holders = 0 /\ f.outs = 0
      BY <1>3, <2>1 DEF From
    <3>4. l <=> k = Prompt
      BY <1>3, <2>1 DEF Reaches
    <3>5. out'.comp[r] = 0 /\ out'.nout[r] = 0
      BY <1>6, <2>1
    <3> QED BY <1>5, <3>1, <3>2, <3>3, <3>4, <3>5
  <2>2. CASE c[r].act = "resume"
    <3>1. sched[r].st = "preempted" /\ Live(r) /\ H(r) = 0 /\ d = 0 /\ k > 0 /\ k <= truth[r].len
      BY <1>2, <1>3, <2>2 DEF Allowed, Live
    <3>2. t = truth[r] /\ t.comp = 0 /\ h = 0 /\ n = 0
          /\ t.len = Prompt + sched[r].outs + n /\ sched[r].holders = h
      BY <1>1, <1>2, <1>7, <2>2, <3>1, ScheduledTruth, KnownIs
    <3>3. f.comp = 0 /\ f.holders = sched[r].holders /\ f.outs = sched[r].outs /\ f.outs \in Nat
      BY <1>3, <1>5, <2>2 DEF From, SchedType
    <3>4. l <=> k = Prompt + sched[r].outs
      BY <1>3, <2>2 DEF Reaches
    <3>5. out'.comp[r] = 0 /\ out'.nout[r] = sched[r].outs + sched[r].holders
      BY <1>6, <2>2
    <3>6. t.len \in Nat
      BY <1>8 DEF TruthType
    <3>7. PICK o, m : o = f.outs /\ m = t.len
      OBVIOUS
    <3>8. /\ o \in Nat /\ m = Prompt + o /\ k <= m /\ (l <=> k = Prompt + o) /\ out'.nout[r] = o + h
          /\ t.len = Prompt + o + n
      BY <1>5, <3>1, <3>2, <3>3, <3>4, <3>5, <3>7
    <3> QED BY <1>5, <3>1, <3>2, <3>3, <3>5, <3>7, <3>8
  <2>3. CASE c[r].act = "run"
    <3>1. /\ Running(r) /\ Live(r) /\ k > d /\ truth[r].comp + k - d <= truth[r].len
          /\ d > 0 => k = d + 1 /\ truth[r].comp + k - d = truth[r].len
      BY <1>2, <1>3, <2>3 DEF Allowed, Live, Running
    <3>2. t = truth[r] /\ h = H(r) /\ n = N(r)
      BY <1>1, <1>2, <1>7, <2>3, ScheduledTruth
    <3>3. /\ t.len = Prompt + sched[r].outs + n /\ sched[r].holders = h
          /\ sched[r].comp = t.comp + h - n /\ t.comp < t.len /\ h \in Nat /\ n \in Nat
      BY <1>1, <3>1, <3>2, KnownIs
    <3>4. f = sched[r]
      BY <1>3, <2>3 DEF From
    <3>5. l <=> f.comp + k - d = Prompt + f.outs + f.holders
      BY <1>3, <2>3, <3>4 DEF Reaches
    <3>6. out'.comp[r] = f.comp /\ out'.nout[r] = f.outs + f.holders
      BY <1>6, <2>3, <3>4
    <3>7. PICK o, m, u : o = f.outs /\ m = t.len /\ u = t.comp
      OBVIOUS
    <3>8. /\ o \in Nat /\ m \in Nat /\ u \in Nat /\ m = Prompt + o + n
          /\ f.comp = u + h - n /\ f.holders = h /\ u < m
      BY <1>4, <1>8, <3>3, <3>4, <3>7 DEF SchedType, TruthType
    <3>9. l <=> u + k - d = m
      BY <1>5, <3>3, <3>5, <3>7, <3>8
    <3>10. d > 0 => l /\ k = d + 1
      BY <3>1, <3>2, <3>7, <3>9
    <3> QED BY <3>1, <3>2, <3>3, <3>4, <3>6, <3>7, <3>8, <3>9, <3>10
  <2> QED BY <1>1, <2>1, <2>2, <2>3
<1>10. PICK o, u, m, e : o = f.outs /\ u = t.comp /\ m = t.len /\ e = f.comp
  OBVIOUS
<1>11. /\ o \in Nat /\ u \in Nat /\ m \in Nat /\ e = u + h - n /\ m = Prompt + o + n /\ u < m
       /\ d < k /\ u + k - d <= m /\ (l <=> u + k - d = m) /\ (d > 0 => l /\ k = d + 1)
       /\ d \in Nat /\ l \in BOOLEAN
  <2>1. o \in Nat /\ u \in Nat /\ m \in Nat /\ d \in Nat
    BY <1>4, <1>5, <1>8, <1>10 DEF SchedType, TruthType
  <2>2. l \in BOOLEAN
    BY <1>3 DEF Reaches
  <2>3. /\ e = u + h - n /\ m = Prompt + o + n /\ u < m
        /\ d < k /\ u + k - d <= m /\ (l <=> u + k - d = m) /\ (d > 0 => l /\ k = d + 1)
    BY <1>9, <1>10
  <2> QED BY <2>1, <2>2, <2>3
<1>12. /\ sched'[r].st = "running" /\ sched'[r].comp = e + k /\ sched'[r].outs = o
       /\ sched'[r].holders = h + IF l THEN 1 + d ELSE 0
       /\ sched'[r].last = l
  BY <1>4, <1>9, <1>10
<1>13. Asks(r)'
  <2>1. out'.comp[r] = u + h - n /\ out'.nout[r] = o + h
    BY <1>9, <1>10, <1>11
  <2>2. Running(r)' /\ r \in DOMAIN out'.k
    BY <1>6, <1>12 DEF Running
  <2> QED BY <1>1, <1>5, <1>6, <1>7, <1>9, <1>10, <1>11, <1>12, <2>1, <2>2 DEF Asks
<1>14. Counts(r)'
  <2>1. Stepping(r)' /\ phase' # "schedule"
    BY <1>1, <1>6 DEF Stepping
  <2>2. sched'[r].comp = u + h - n + k
    BY <1>5, <1>9, <1>11, <1>12
  <2>3. truth'[r].len = Prompt + sched'[r].outs + N(r)'
    BY <1>7, <1>10, <1>11, <1>12
  <2>4. sched'[r].holders = H(r)' + IF Stepping(r)' /\ sched'[r].last THEN 1 + out'.d[r] ELSE 0
    BY <1>6, <1>7, <1>12, <2>1
  <2>5. /\ sched'[r].comp = truth'[r].comp + H(r)' - N(r)' + IF Stepping(r)' THEN out'.k[r] ELSE 0
        /\ truth'[r].comp < truth'[r].len
    BY <1>6, <1>7, <1>10, <1>11, <2>1, <2>2
  <2> QED BY <1>12, <2>1, <2>3, <2>4, <2>5 DEF Counts, Running
<1> QED BY <1>13, <1>14

\* A request that the scheduler keeps out of the step.
LEMMA ScheduledRest ==
  ASSUME IInv, Schedule, NEW c, ScheduledAs(c), NEW r \in Req \ Scheduled(c), Live(r)'
  PROVE  Counts(r)' /\ Live(r) /\ ~ sched'[r].last
<1>1. /\ c[r].act \notin {"new", "run", "resume"} /\ phase = "schedule" /\ phase' = "execute"
      /\ UNCHANGED num_spec /\ UNCHANGED flight
  BY DEF Scheduled, Schedule
<1>2. /\ Allowed(r, c[r]) /\ sched'[r] = AfterSchedule(r, c[r])
      /\ H(r)' = H(r) /\ N(r)' = N(r)
  BY <1>1, ScheduledSums
<1>3. PICK f : f = From(r, c[r])
  OBVIOUS
<1>4. sched'[r] = [st |-> IF c[r].act = "preempt" THEN "preempted" ELSE f.st,
                   gen |-> f.gen, comp |-> f.comp, outs |-> f.outs,
                   holders |-> f.holders, last |-> FALSE]
  BY <1>1, <1>2, <1>3, AfterScheduleIs
<1>5. c[r].act \in {"skip", "preempt", "finish"} /\ sched[r] \in SchedType
  BY <1>1, <1>2 DEF Allowed, Acts, IInv, Types
<1>6. c[r].act # "finish"
  <2>1. SUFFICES ASSUME c[r].act = "finish" PROVE FALSE
    OBVIOUS
  <2>2. f.st = "none"
    BY <1>3, <2>1 DEF From
  <2>3. sched'[r].st = "none"
    BY <1>4, <2>1, <2>2
  <2> QED BY <2>3 DEF Live
<1>7. ~ Stepping(r)'
  BY ScheduledOut DEF Stepping
<1>8. CASE c[r].act = "preempt"
  <2>1. Running(r) /\ Live(r)
    BY <1>2, <1>8 DEF Allowed, Live, Running
  <2>2. /\ f.comp = 0 /\ f.outs = sched[r].outs /\ f.holders = sched[r].holders
    BY <1>3, <1>5, <1>8 DEF From, SchedType
  <2>3. truth'[r].comp = 0 /\ truth'[r].len = truth[r].len
    BY <1>8, ScheduledTruth
  <2>4. truth[r].len = Prompt + sched[r].outs + N(r) /\ sched[r].holders = H(r) /\ H(r) \in Nat
    BY <1>1, <2>1, KnownIs
  <2>5. H(r) + 0 = H(r)
    BY <2>4
  <2>6. sched'[r].st = "preempted" /\ sched'[r].comp = 0 /\ sched'[r].outs = sched[r].outs
        /\ sched'[r].holders = sched[r].holders /\ ~ sched'[r].last
    BY <1>4, <1>8, <2>2
  <2> QED BY <1>2, <1>7, <2>1, <2>3, <2>4, <2>5, <2>6 DEF Counts, Running
<1>9. CASE c[r].act = "skip"
  <2>1. f = sched[r] /\ truth'[r] = truth[r]
    BY <1>3, <1>9, ScheduledTruth DEF From
  <2>2. /\ sched'[r].st = sched[r].st /\ sched'[r].comp = sched[r].comp
        /\ sched'[r].outs = sched[r].outs /\ sched'[r].holders = sched[r].holders
        /\ ~ sched'[r].last
    BY <1>4, <1>9, <2>1
  <2>3. Live(r)
    BY <2>2 DEF Live
  <2>4. Counts(r) /\ ~ Stepping(r)
    BY <1>1, <2>3 DEF IInv, CountsOK, Stepping
  <2> QED BY <1>2, <1>7, <2>1, <2>2, <2>3, <2>4 DEF Counts, Running
<1> QED BY <1>5, <1>6, <1>8, <1>9

\* The invariant survives scheduling, whatever is chosen for each request.
LEMMA ScheduleKeeps == IInv /\ Schedule => IInv'
<1> SUFFICES ASSUME IInv, Schedule PROVE IInv'
  OBVIOUS
<1> DEFINE b == runner["last"]
<1>1. PICK c : ScheduledAs(c)
  BY DEF Schedule, ScheduledAs
<1>2. /\ phase = "schedule" /\ phase' = "execute" /\ Len(flight) <= 1
      /\ UNCHANGED num_spec /\ UNCHANGED flight /\ UNCHANGED runner
  BY DEF Schedule
<1>3. FlightShape /\ Types /\ FlightOK /\ CountsOK /\ Stages /\ ReqsOK /\ RowsShape /\ BatchOK
  BY DEF IInv
<1>4. Scheduled(c) = {r \in Req : c[r].act \in {"new", "run", "resume"}}
  BY DEF Scheduled
<1>5. /\ DOMAIN out'.k = Scheduled(c) /\ DOMAIN out'.d = Scheduled(c)
      /\ out'.fresh = {r \in Req : c[r].act = "new"}
      /\ out'.resumed = {r \in Req : c[r].act = "resume"}
      /\ out'.finished = {r \in Req : c[r].act \in {"finish", "new"} /\ sched[r].st # "none"}
      /\ \A r \in Scheduled(c) : out'.d[r] = c[r].d
  BY <1>1, ScheduledOut
<1>6. ASSUME NEW r \in Req
      PROVE  /\ Allowed(r, c[r]) /\ sched'[r] \in SchedType /\ sched[r].gen \in Nat
             /\ sched'[r].gen = IF c[r].act = "new" THEN sched[r].gen + 1 ELSE sched[r].gen
             /\ c[r].act \notin {"new", "finish"} => sched'[r].outs = sched[r].outs
             /\ c[r].act = "new" => sched'[r].outs = 0
             /\ H(r)' = IF c[r].act = "new" THEN 0 ELSE H(r)
             /\ N(r)' = IF c[r].act = "new" THEN 0 ELSE N(r)
  BY <1>1, <1>3, <1>6, ScheduledSums DEF Types, SchedType
<1>7. ASSUME NEW r \in Req, Live(r)', c[r].act # "new"
      PROVE  c[r].act \notin {"new", "finish"} /\ Live(r)
  <2>1. CASE r \in Scheduled(c)
    <3>1. c[r].act \in {"run", "resume"} /\ Allowed(r, c[r])
      BY <1>4, <1>6, <1>7, <2>1
    <3> QED BY <3>1 DEF Allowed, Live, Running
  <2>2. CASE r \notin Scheduled(c)
    <3>1. Live(r)
      BY <1>1, <1>7, <2>2, ScheduledRest
    <3>2. c[r].act # "finish"
      <4>1. SUFFICES ASSUME c[r].act = "finish" PROVE FALSE
        OBVIOUS
      <4>2. AfterSchedule(r, c[r]).st = From(r, c[r]).st
        BY <1>2, <1>6, <4>1, AfterScheduleIs
      <4>3. From(r, c[r]).st = "none"
        BY <4>1 DEF From
      <4>4. sched'[r] = AfterSchedule(r, c[r])
        BY <1>1, ScheduledSums
      <4> QED BY <1>7, <4>2, <4>3, <4>4 DEF Live
    <3> QED BY <1>7, <3>1, <3>2
  <2> QED BY <2>1, <2>2
<1>8. Types'
  <2>1. sched' \in [Req -> SchedType]
    BY <1>1, <1>6 DEF ScheduledAs
  <2>2. truth' \in [Req -> TruthType]
    <3>1. \A r \in Req : truth'[r] \in TruthType
      BY <1>1, ScheduledTruth
    <3>2. truth' = [r \in Req |-> truth'[r]]
      BY <1>1 DEF ScheduledAs
    <3> QED BY <3>1, <3>2
  <2>3. Scheduled(c) \subseteq Req
    BY <1>4
  <2> QED BY <1>2, <1>3, <1>5, <2>1, <2>2, <2>3 DEF Types
<1>9. FlightShape'
  BY <1>2, <1>3, Shapes, ShortSequences DEF FlightShape
<1>10. FlightOK'
  <2>1. ASSUME NEW o, EntryOK(o) PROVE EntryOK(o)'
    <3>1. \A r \in Req : sched'[r].gen \in Nat /\ sched[r].gen \in Nat /\ sched'[r].gen >= sched[r].gen
      BY <1>6
    <3>2. ASSUME NEW r \in Req, NEW g \in Nat, g > sched'[r].gen PROVE g > sched[r].gen
      BY <3>1, <3>2
    <3> QED BY <1>2, <2>1, <3>2 DEF EntryOK
  <2>2. ASSUME NEW i \in DOMAIN flight' PROVE EntryOK(flight[i])'
    <3>1. PICK x : x = flight[i] /\ x = flight'[i] /\ EntryOK(x)
      BY <1>2, <1>3, <2>2 DEF FlightOK
    <3>2. EntryOK(x)'
      BY <2>1, <3>1
    <3> QED BY <3>1, <3>2
  <2>3. ASSUME NEW r \in Req, Live(r)'
        PROVE  Continues(flight, r, sched'[r].gen, Prompt + sched'[r].outs)
    <3>1. CASE c[r].act = "new"
      <4>1. sched'[r].gen = sched[r].gen + 1 /\ sched'[r].outs = 0 /\ sched[r].gen \in Nat
        BY <1>6, <3>1
      <4>2. Len(flight) \in 0 .. 1 /\ DOMAIN flight = 1 .. Len(flight)
        BY <1>2, <1>3, Shapes
      <4>3. Len(flight) >= 1 => EntryOK(flight[1])
        BY <1>3, <4>2 DEF FlightOK
      <4>4. Len(flight) >= 1 => Said(flight[1], r, sched'[r].gen) = <<>> /\ New(flight[1], r, sched'[r].gen) = 0
        BY <4>1, <4>3, EntryIs
      <4>5. \A g, f : Run(r, g, f, 0) = <<>>
        BY DEF Run
      <4> QED BY <4>2, <4>4, <4>5 DEF Continues
    <3>2. CASE c[r].act # "new"
      <4>1. Live(r) /\ sched'[r].gen = sched[r].gen /\ sched'[r].outs = sched[r].outs
        BY <1>6, <1>7, <2>3, <3>2
      <4> QED BY <1>3, <4>1 DEF FlightOK
    <3> QED BY <3>1, <3>2
  <2> QED BY <1>2, <2>2, <2>3 DEF FlightOK
<1>11. CountsOK'
  <2>1. SUFFICES ASSUME NEW r \in Req, Live(r)' PROVE Counts(r)'
    BY DEF CountsOK
  <2> QED BY <1>1, <2>1, ScheduledStart, ScheduledRest
<1>12. OutOK'
  <2>1. \A r \in DOMAIN out'.k : Asks(r)'
    BY <1>1, <1>5, ScheduledStart
  <2>2. out'.fresh \subseteq DOMAIN out'.k /\ out'.resumed \subseteq DOMAIN out'.k
    BY <1>4, <1>5
  <2>3. \A r \in out'.fresh \cup out'.resumed : H(r)' = 0 /\ out'.d[r] = 0
    <3>1. SUFFICES ASSUME NEW r \in out'.fresh \cup out'.resumed PROVE H(r)' = 0 /\ out'.d[r] = 0
      OBVIOUS
    <3>2. r \in Req /\ r \in Scheduled(c) /\ c[r].act \in {"new", "resume"}
      BY <1>4, <1>5
    <3>3. Allowed(r, c[r]) /\ out'.d[r] = c[r].d /\ H(r)' = IF c[r].act = "new" THEN 0 ELSE H(r)
      BY <1>5, <1>6, <3>2
    <3> QED BY <3>2, <3>3 DEF Allowed
  <2>4. \A r \in DOMAIN out'.k \ DOMAIN b.prevIdx : H(r)' = 0 /\ out'.d[r] = 0
    <3>1. SUFFICES ASSUME NEW r \in Scheduled(c), r \notin DOMAIN b.prevIdx PROVE H(r)' = 0 /\ out'.d[r] = 0
      BY <1>5
    <3>2. r \in Req /\ c[r].act \in {"new", "run", "resume"}
      BY <1>4
    <3>3. CASE c[r].act \in {"new", "resume"}
      BY <1>5, <2>3, <3>2, <3>3
    <3>4. CASE c[r].act = "run"
      <4>1. Allowed(r, c[r]) /\ out'.d[r] = c[r].d /\ H(r)' = H(r) /\ num_spec \in Nat
        BY <1>3, <1>5, <1>6, <3>2, <3>4 DEF Types
      <4>2. Live(r) /\ c[r].d \in 0 .. num_spec /\ ~ c[r].d > 0
        BY <3>1, <3>4, <4>1 DEF Allowed, Live, Running
      <4>3. flight # <<>> => Asked(flight[Len(flight)], r, sched[r].gen) = 0
        BY <1>2, <1>3, <3>1, <3>2, <4>2 DEF BatchOK
      <4>4. Len(flight) \in 0 .. 1 /\ (Len(flight) = 0 <=> flight = <<>>)
        BY <1>2, <1>3, Shapes
      <4>5. Len(flight) >= 1 => Asked(flight[1], r, sched[r].gen) = 0
        <5>1. SUFFICES ASSUME Len(flight) >= 1 PROVE Asked(flight[1], r, sched[r].gen) = 0
          OBVIOUS
        <5>2. PICK n : n = Len(flight)
          OBVIOUS
        <5>3. n = 1 /\ flight # <<>> /\ Asked(flight[n], r, sched[r].gen) = 0
          BY <4>3, <4>4, <5>1, <5>2
        <5> QED BY <5>3
      <4>6. H(r) = 0
        BY <4>4, <4>5 DEF H, SumAsked
      <4>7. c[r].d = 0
        BY <4>1, <4>2
      <4> QED BY <4>1, <4>6, <4>7
    <3> QED BY <3>2, <3>3, <3>4
  <2>5. out'.finished \cap (DOMAIN out'.k \ out'.fresh) = {}
    BY <1>4, <1>5
  <2>6. \A r \in Req : Live(r)' => r \notin out'.finished \/ r \in out'.fresh
    BY <1>5, <1>7
  <2>7. \A r \in out'.fresh : out'.nout[r] = 0
    BY <1>1, <1>4, <1>5, ScheduledOut
  <2> QED BY <1>2, <2>1, <2>2, <2>3, <2>4, <2>5, <2>6, <2>7 DEF OutOK
<1>13. Stages' /\ RowsShape'
  BY <1>2, <1>3 DEF Stages, RowsShape
<1>14. SampleOK'
  BY <1>2 DEF SampleOK
<1>15. ReqsOK'
  <2>1. SUFFICES ASSUME NEW r \in Req, Live(r)', r \notin out'.fresh PROVE ReqOK(r)'
    BY <1>2 DEF ReqsOK
  <2>2. c[r].act # "new"
    BY <1>5, <2>1
  <2>3. Live(r) /\ sched'[r].gen = sched[r].gen /\ sched'[r].outs = sched[r].outs /\ H(r)' = H(r)
    BY <1>6, <1>7, <2>1, <2>2
  <2>4. ReqOK(r)
    BY <1>2, <1>3, <2>3 DEF ReqsOK
  <2> QED BY <1>2, <2>3, <2>4 DEF ReqOK
<1>16. BatchOK'
  <2>1. \A r \in DOMAIN b.prevIdx : b.prevIdx[r] \in 1 .. Len(b.rows) /\ b.rows[b.prevIdx[r]].req = r
    BY <1>2, <1>3 DEF BatchOK
  <2>2. ASSUME NEW i \in 1 .. Len(b.rows), NEW r, r = b.rows[i].req, Stays(r)' PROVE RowOK(r, i)'
    <3>1. RowOK(r, i) /\ r \in Req
      BY <1>2, <1>3, <2>2 DEF BatchOK, Stays, RowsShape
    <3>2. c[r].act = "run"
      BY <1>2, <1>4, <1>5, <2>2 DEF Stays
    <3>3. sched'[r].gen = sched[r].gen /\ sched'[r].outs = sched[r].outs /\ H(r)' = H(r)
      BY <1>6, <3>1, <3>2
    <3>4. Running(r)'
      <4>1. Asks(r)'
        BY <1>1, <1>4, <3>1, <3>2, ScheduledStart
      <4> QED BY <4>1 DEF Asks
    <3>5. truth'[r] = truth[r]
      BY <1>1, <3>1, <3>2, ScheduledTruth
    <3>6. PICK x : x = flight[Len(flight)]
      OBVIOUS
    <3>7. PrevOK(r, i, x) => PrevOK(r, i, x)'
      BY <1>2, <3>3, <3>5 DEF PrevOK
    <3> QED BY <1>2, <3>1, <3>3, <3>4, <3>5, <3>6, <3>7 DEF RowOK
  <2> QED BY <1>2, <2>1, <2>2 DEF BatchOK
<1> QED BY <1>8, <1>9, <1>10, <1>11, <1>12, <1>13, <1>14, <1>15, <1>16 DEF IInv

-----------------------------------------------------------------------------
(* A step is executed: what is left of the batch of the previous one.      *)

Gone == out.finished
        \cup ({runner["last"].rows[i].req : i \in DOMAIN runner["last"].rows}
              \ (DOMAIN out.k \ (out.resumed \cup out.fresh)))
Left == Removed(runner["last"])
HasRow(r) == RowOf(Left.rows, r) # {}

\* The batch without the requests that are gone, field by field.
LEMMA RemoveRequestsIs ==
  ASSUME NEW b, IsBatch(b), NEW gone
  PROVE  RemoveRequests(b, gone)
           = [reqs |-> b.reqs,
              rows |-> [i \in DOMAIN b.rows |-> IF b.rows[i].req \in gone THEN EmptyRow ELSE b.rows[i]],
              prevIdx |-> Restrict(b.prevIdx, DOMAIN b.prevIdx \ gone), prevTok |-> b.prevTok,
              counts |-> b.counts, drafts |-> b.drafts, prevDrafts |-> b.prevDrafts,
              gComp |-> b.gComp, gAcc |-> b.gAcc, mask |-> b.mask, input |-> b.input]
<1>1. PICK x, y : /\ x = [i \in DOMAIN b.rows |-> IF b.rows[i].req \in gone THEN EmptyRow ELSE b.rows[i]]
                  /\ y = Restrict(b.prevIdx, DOMAIN b.prevIdx \ gone)
  OBVIOUS
<1>2. RemoveRequests(b, gone) = [b EXCEPT !.rows = x, !.prevIdx = y]
  BY <1>1 DEF RemoveRequests
<1>3. PICK p : p = [b EXCEPT !.rows = x]
  OBVIOUS
<1>4. p = [reqs |-> b.reqs, rows |-> x, prevIdx |-> b.prevIdx, prevTok |-> b.prevTok,
           counts |-> b.counts, drafts |-> b.drafts, prevDrafts |-> b.prevDrafts,
           gComp |-> b.gComp, gAcc |-> b.gAcc, mask |-> b.mask, input |-> b.input]
  BY <1>3 DEF IsBatch
<1>5. [p EXCEPT !.prevIdx = y]
        = [reqs |-> b.reqs, rows |-> x, prevIdx |-> y, prevTok |-> b.prevTok,
           counts |-> b.counts, drafts |-> b.drafts, prevDrafts |-> b.prevDrafts,
           gComp |-> b.gComp, gAcc |-> b.gAcc, mask |-> b.mask, input |-> b.input]
  BY <1>4
<1> QED BY <1>1, <1>2, <1>3, <1>5

\* What is left of the last batch once the finished and unscheduled requests are gone.
LEMMA LeftIs ==
  ASSUME IInv
  PROVE  /\ IsBatch(Left)
         /\ Left.reqs = Restrict(runner["last"].reqs, DOMAIN runner["last"].reqs \ out.finished)
         /\ Left.rows = [i \in DOMAIN runner["last"].rows |->
                IF runner["last"].rows[i].req \in Gone THEN EmptyRow ELSE runner["last"].rows[i]]
         /\ Left.prevIdx = Restrict(runner["last"].prevIdx, DOMAIN runner["last"].prevIdx \ Gone)
         /\ Left.prevTok = runner["last"].prevTok /\ Left.counts = runner["last"].counts
         /\ Left.drafts = runner["last"].drafts /\ Left.gComp = runner["last"].gComp
<1> DEFINE b == runner["last"]
<1>1. IsBatch(b)
  BY DEF IInv, Stages
<1>2. PICK q : q = Restrict(b.reqs, DOMAIN b.reqs \ out.finished)
  OBVIOUS
<1>3. PICK x : x = [b EXCEPT !.reqs = q]
  OBVIOUS
<1>4. x = [reqs |-> q, rows |-> b.rows, prevIdx |-> b.prevIdx, prevTok |-> b.prevTok,
           counts |-> b.counts, drafts |-> b.drafts, prevDrafts |-> b.prevDrafts,
           gComp |-> b.gComp, gAcc |-> b.gAcc, mask |-> b.mask, input |-> b.input]
  BY <1>1, <1>3 DEF IsBatch
<1>5. Left = RemoveRequests(x, Gone)
  BY <1>2, <1>3 DEF Left, Removed, Gone
<1>6. IsBatch(x)
  BY <1>4 DEF IsBatch
<1>7. Left = [reqs |-> q,
              rows |-> [i \in DOMAIN b.rows |-> IF b.rows[i].req \in Gone THEN EmptyRow ELSE b.rows[i]],
              prevIdx |-> Restrict(b.prevIdx, DOMAIN b.prevIdx \ Gone), prevTok |-> b.prevTok,
              counts |-> b.counts, drafts |-> b.drafts, prevDrafts |-> b.prevDrafts,
              gComp |-> b.gComp, gAcc |-> b.gAcc, mask |-> b.mask, input |-> b.input]
  <2>1. RemoveRequests(x, Gone)
          = [reqs |-> x.reqs,
             rows |-> [i \in DOMAIN x.rows |-> IF x.rows[i].req \in Gone THEN EmptyRow ELSE x.rows[i]],
             prevIdx |-> Restrict(x.prevIdx, DOMAIN x.prevIdx \ Gone), prevTok |-> x.prevTok,
             counts |-> x.counts, drafts |-> x.drafts, prevDrafts |-> x.prevDrafts,
             gComp |-> x.gComp, gAcc |-> x.gAcc, mask |-> x.mask, input |-> x.input]
    BY <1>6, RemoveRequestsIs
  <2>2. /\ x.reqs = q /\ x.rows = b.rows /\ x.prevIdx = b.prevIdx /\ x.prevTok = b.prevTok
        /\ x.counts = b.counts /\ x.drafts = b.drafts /\ x.prevDrafts = b.prevDrafts
        /\ x.gComp = b.gComp /\ x.gAcc = b.gAcc /\ x.mask = b.mask /\ x.input = b.input
    BY <1>4
  <2> HIDE DEF b
  <2> QED BY <1>5, <2>1, <2>2
<1>8. IsBatch(Left)
  <2>1. PICK l : l = Left
    OBVIOUS
  <2>2. l = [reqs |-> l.reqs, rows |-> l.rows, prevIdx |-> l.prevIdx, prevTok |-> l.prevTok,
             counts |-> l.counts, drafts |-> l.drafts, prevDrafts |-> l.prevDrafts,
             gComp |-> l.gComp, gAcc |-> l.gAcc, mask |-> l.mask, input |-> l.input]
    BY <1>7, <2>1
  <2> QED BY <2>1, <2>2 DEF IsBatch
<1> QED BY <1>2, <1>7, <1>8

\* A request of the step that still has a row: the row stands as the previous step left it.
LEMMA AtHome ==
  ASSUME IInv, phase = "execute", NEW r \in DOMAIN out.k, HasRow(r)
  PROVE  /\ Stays(r) /\ r \notin Gone
         /\ \E j \in 1 .. Len(runner["last"].rows) :
               /\ RowOf(Left.rows, r) = {j} /\ Left.rows[j] = runner["last"].rows[j]
               /\ runner["last"].rows[j].req = r /\ RowOK(r, j)
               /\ r \in DOMAIN Left.prevIdx <=> r \in DOMAIN runner["last"].prevIdx
               /\ r \in DOMAIN Left.prevIdx => Left.prevIdx[r] = j
<1> DEFINE b == runner["last"]
<1>1. /\ DOMAIN b.rows = 1 .. Len(b.rows)
      /\ \A i, j \in 1 .. Len(b.rows) : b.rows[i].req = b.rows[j].req => i = j
  BY DEF IInv, RowsShape
<1>2. r \in Req /\ <<>> \notin Req
  BY BatchAssumption DEF IInv, Types
<1>3. Left.rows = [i \in 1 .. Len(b.rows) |->
                     IF b.rows[i].req \in Gone THEN EmptyRow ELSE b.rows[i]]
  BY <1>1, LeftIs
<1>4. EmptyRow.req = <<>>
  BY DEF EmptyRow, Hole
<1>5. PICK j \in RowOf(Left.rows, r) : TRUE
  BY DEF HasRow
<1>6. j \in 1 .. Len(b.rows) /\ Left.rows[j].req = r
  BY <1>3, <1>5 DEF RowOf
<1>7. b.rows[j].req \notin Gone /\ Left.rows[j] = b.rows[j] /\ b.rows[j].req = r
  BY <1>2, <1>3, <1>4, <1>6
<1>8. RowOf(Left.rows, r) = {j}
  BY <1>1, <1>2, <1>3, <1>4, <1>6, <1>7 DEF RowOf
<1>9. r \in DOMAIN out.k \ (out.resumed \cup out.fresh)
  BY <1>1, <1>6, <1>7 DEF Gone
<1>10. Stays(r)
  BY <1>9 DEF Stays
<1>11. RowOK(r, j) /\ \A q \in DOMAIN b.prevIdx : b.prevIdx[q] \in 1 .. Len(b.rows) /\ b.rows[b.prevIdx[q]].req = q
  BY <1>6, <1>7, <1>10 DEF IInv, BatchOK
<1>12. Left.prevIdx = Restrict(b.prevIdx, DOMAIN b.prevIdx \ Gone)
  BY LeftIs
<1>13. r \in DOMAIN Left.prevIdx <=> r \in DOMAIN b.prevIdx
  BY <1>7, <1>12 DEF Restrict
<1>14. r \in DOMAIN Left.prevIdx => Left.prevIdx[r] = j
  BY <1>1, <1>6, <1>7, <1>11, <1>12 DEF Restrict
<1> QED BY <1>6, <1>7, <1>8, <1>10, <1>11, <1>13, <1>14

\* One that has none comes without drafts, and nothing of it is in flight.
LEMMA Away ==
  ASSUME IInv, phase = "execute", NEW r \in DOMAIN out.k, ~ HasRow(r)
  PROVE  H(r) = 0 /\ N(r) = 0 /\ out.d[r] = 0 /\ r \notin DOMAIN Left.prevIdx
<1> DEFINE b == runner["last"]
<1>1. DOMAIN b.rows = 1 .. Len(b.rows) /\ r \in Req
  BY DEF IInv, RowsShape, Types
<1>2. Left.rows = [i \in 1 .. Len(b.rows) |->
                     IF b.rows[i].req \in Gone THEN EmptyRow ELSE b.rows[i]]
  BY <1>1, LeftIs
<1>3. ASSUME r \in DOMAIN b.prevIdx, r \notin Gone PROVE FALSE
  <2>1. b.prevIdx[r] \in 1 .. Len(b.rows) /\ b.rows[b.prevIdx[r]].req = r
    BY <1>3 DEF IInv, BatchOK
  <2>2. PICK j \in 1 .. Len(b.rows) : b.rows[j].req = r
    BY <2>1
  <2>3. Left.rows[j] = b.rows[j] /\ j \in DOMAIN Left.rows
    BY <1>2, <1>3, <2>2
  <2>4. j \in RowOf(Left.rows, r)
    BY <2>2, <2>3 DEF RowOf
  <2> QED BY <2>4 DEF HasRow
<1>4. r \notin DOMAIN Left.prevIdx
  BY <1>3, LeftIs DEF Restrict
<1>5. /\ \A q \in out.fresh \cup out.resumed : H(q) = 0 /\ out.d[q] = 0
      /\ \A q \in DOMAIN out.k \ DOMAIN b.prevIdx : H(q) = 0 /\ out.d[q] = 0
      /\ out.finished \cap (DOMAIN out.k \ out.fresh) = {}
  BY DEF IInv, OutOK
<1>6. r \in DOMAIN b.prevIdx => r \in out.fresh \cup out.resumed
  BY <1>3, <1>5 DEF Gone
<1>7. H(r) = 0 /\ out.d[r] = 0
  BY <1>5, <1>6
<1> QED BY <1>1, <1>4, <1>7, SumsAre DEF IInv

-----------------------------------------------------------------------------
(* The updated batch.                                                      *)

Known(r) == IF HasRow(r) THEN Left.rows[CHOOSE i \in RowOf(Left.rows, r) : TRUE].known
            ELSE Prompt + out.nout[r]
CompOf(r) == IF r \in out.fresh THEN 0 ELSE out.comp[r]
ReqsOf == [r \in DOMAIN Left.reqs \cup out.fresh |->
              IF r \in DOMAIN out.k
              THEN [gen |-> sched[r].gen, comp |-> CompOf(r), outs |-> out.nout[r],
                    prevDraft |-> out.d[r]]
              ELSE Left.reqs[r]]
RowsOf(order) == [i \in DOMAIN order |->
                     [req |-> order[i], comp |-> out.comp[order[i]], known |-> Known(order[i])]]
Updated(order) ==
    [reqs |-> ReqsOf, rows |-> RowsOf(order), prevIdx |-> Left.prevIdx, prevTok |-> Left.prevTok,
     counts |-> Left.counts, drafts |-> Left.drafts, prevDrafts |-> PrevDrafts(Left),
     gComp |-> Left.gComp, gAcc |-> Left.gAcc, mask |-> Left.mask, input |-> Left.input]

\* What the runner has of a request of the step it knows, and what it is asked for.
LEMMA AskedOf ==
  ASSUME IInv, phase = "execute", NEW r \in DOMAIN out.k
  PROVE  /\ r \in Req /\ Live(r) /\ sched[r] \in SchedType /\ truth[r] \in TruthType
         /\ num_spec \in Nat /\ Prompt \in Nat /\ H(r) \in Nat /\ N(r) \in Nat /\ N(r) <= H(r)
         /\ (H(r) = 0 <=> N(r) = 0)
         /\ Asks(r) /\ Counts(r) /\ Stepping(r)
         /\ out.nout[r] = sched[r].outs + H(r) /\ out.nout[r] \in Nat
         /\ out.comp[r] = truth[r].comp + H(r) - N(r)
         /\ truth[r].len = Prompt + sched[r].outs + N(r)
         /\ out.k[r] \in Nat /\ out.d[r] \in Nat
<1>1. r \in Req /\ num_spec \in Nat /\ sched[r] \in SchedType /\ truth[r] \in TruthType
  BY DEF IInv, Types
<1>2. Prompt \in Nat
  BY BatchAssumption
<1>3. H(r) \in Nat /\ N(r) \in Nat /\ N(r) <= H(r) /\ (H(r) = 0 <=> N(r) = 0)
  BY <1>1, SumsAre DEF IInv
<1>4. Asks(r) /\ Stepping(r)
  BY DEF IInv, OutOK, Stepping
<1>5. Live(r)
  BY <1>4 DEF Asks, Running, Live
<1>6. Counts(r)
  BY <1>1, <1>5 DEF IInv, CountsOK
<1>7. /\ out.nout[r] = sched[r].outs + H(r) /\ out.comp[r] = truth[r].comp + H(r) - N(r)
      /\ out.k[r] \in Nat /\ out.d[r] \in 0 .. num_spec
  BY <1>4 DEF Asks
<1>8. truth[r].len = Prompt + sched[r].outs + N(r)
  BY <1>6 DEF Counts
<1>9. sched[r].outs \in Nat
  BY <1>1 DEF SchedType
<1>10. out.nout[r] \in Nat /\ out.d[r] \in Nat
  BY <1>1, <1>3, <1>7, <1>9
<1> QED BY <1>1, <1>2, <1>3, <1>4, <1>5, <1>6, <1>7, <1>8, <1>10

\* A cached request is one the runner has kept.
LEMMA HeldOf ==
  ASSUME IInv, phase = "execute", NEW r \in Cached
  PROVE  /\ r \in DOMAIN out.k /\ r \notin out.fresh /\ ReqOK(r)
         /\ r \in DOMAIN Left.reqs /\ Left.reqs[r] = runner["last"].reqs[r]
<1>1. r \in DOMAIN out.k /\ r \notin out.fresh
  BY DEF Cached
<1>2. r \in Req /\ Live(r)
  BY <1>1, AskedOf
<1>3. ReqOK(r)
  BY <1>1, <1>2 DEF IInv, ReqsOK
<1>4. r \notin out.finished
  BY <1>1 DEF IInv, OutOK
<1>5. r \in DOMAIN runner["last"].reqs
  BY <1>3 DEF ReqOK
<1>6. Left.reqs = Restrict(runner["last"].reqs, DOMAIN runner["last"].reqs \ out.finished)
  BY LeftIs
<1> QED BY <1>1, <1>3, <1>4, <1>5, <1>6 DEF Restrict

\* The outputs of a cached request are cut to what the scheduler counts.
LEMMA CachedIs ==
  ASSUME IInv, phase = "execute", NEW s \in DOMAIN runner, NEW r \in Cached
  PROVE  CachedRequest(s, Left, r)
           = [gen |-> sched[r].gen, comp |-> out.comp[r], outs |-> out.nout[r],
              prevDraft |-> out.d[r]]
<1>1. PICK q : q = Left.reqs[r]
  OBVIOUS
<1>2. PICK n : n = out.nout[r]
  OBVIOUS
<1>3. /\ r \in DOMAIN out.k /\ r \notin out.fresh
      /\ q.gen = sched[r].gen /\ q.outs \in Nat /\ q.prevDraft \in 0 .. num_spec
      /\ q = [gen |-> q.gen, comp |-> q.comp, outs |-> q.outs, prevDraft |-> q.prevDraft]
      /\ num_spec = 0 => q.outs = sched[r].outs + H(r)
      /\ runner["last"].reqs[r] = q
  BY <1>1, HeldOf DEF ReqOK
<1>4. n \in Nat /\ n = sched[r].outs + H(r) /\ num_spec \in Nat
  BY <1>2, <1>3, AskedOf
<1>5. s # "last" => num_spec = 0
  BY DEF IInv, Stages
<1>6. HasRow(r) => q.outs + q.prevDraft >= n
  <2> SUFFICES ASSUME HasRow(r) PROVE q.outs + q.prevDraft >= n
    OBVIOUS
  <2>1. PICK j : RowOK(r, j)
    BY <1>3, AtHome
  <2> QED BY <1>3, <1>4, <2>1 DEF RowOK
<1>7. PICK o : o = IF r \in Optimistic(Left) THEN q.prevDraft ELSE 0
  OBVIOUS
<1>8. o = IF q.prevDraft > 0 /\ HasRow(r) THEN q.prevDraft ELSE 0
  BY <1>1, <1>7 DEF Optimistic, HasRow
<1>9. PICK kept : kept = IF s = "last" /\ n < q.outs + o THEN n ELSE q.outs + o
  OBVIOUS
<1>10. PICK z : z = IF RowOf(Left.rows, r) = {} /\ n > 0 THEN n ELSE kept
  OBVIOUS
<1>11. CachedRequest(s, Left, r)
         = [q EXCEPT !.comp = out.comp[r], !.prevDraft = out.d[r], !.outs = z]
  BY <1>1, <1>2, <1>7, <1>9, <1>10 DEF CachedRequest
<1>12. z = n
  <2>1. CASE HasRow(r)
    <3>1. o = q.prevDraft
      BY <1>3, <1>4, <1>8, <2>1
    <3> QED BY <1>3, <1>4, <1>5, <1>6, <1>9, <1>10, <2>1, <3>1 DEF HasRow
  <2>2. CASE ~ HasRow(r)
    <3>1. o = 0
      BY <1>8, <2>2
    <3> QED BY <1>3, <1>4, <1>5, <1>9, <1>10, <2>2, <3>1 DEF HasRow
  <2> QED BY <2>1, <2>2
<1>13. PICK q1 : q1 = [q EXCEPT !.comp = out.comp[r]]
  OBVIOUS
<1>14. q1 = [gen |-> q.gen, comp |-> out.comp[r], outs |-> q.outs, prevDraft |-> q.prevDraft]
  BY <1>3, <1>13
<1>15. PICK q2 : q2 = [q1 EXCEPT !.prevDraft = out.d[r]]
  OBVIOUS
<1>16. q2 = [gen |-> q.gen, comp |-> out.comp[r], outs |-> q.outs, prevDraft |-> out.d[r]]
  BY <1>14, <1>15
<1>17. [q2 EXCEPT !.outs = z]
         = [gen |-> q.gen, comp |-> out.comp[r], outs |-> z, prevDraft |-> out.d[r]]
  BY <1>16
<1>18. CachedRequest(s, Left, r) = [q2 EXCEPT !.outs = z]
  BY <1>11, <1>13, <1>15
<1> QED BY <1>2, <1>3, <1>12, <1>17, <1>18

\* The row of a request, kept or new, has the same contents.
LEMMA RowIs ==
  ASSUME IInv, phase = "execute", NEW r \in DOMAIN out.k
  PROVE  (IF RowOf(Left.rows, r) = {} THEN NewRow(r, ReqsOf)
          ELSE [Left.rows[CHOOSE i \in RowOf(Left.rows, r) : TRUE] EXCEPT !.comp = out.comp[r]])
         = [req |-> r, comp |-> out.comp[r], known |-> Known(r)]
<1>1. CASE HasRow(r)
  <2>1. PICK j \in 1 .. Len(runner["last"].rows) :
            /\ RowOf(Left.rows, r) = {j} /\ Left.rows[j] = runner["last"].rows[j]
            /\ runner["last"].rows[j].req = r
    BY <1>1, AtHome
  <2>2. (CHOOSE i \in RowOf(Left.rows, r) : TRUE) = j
    BY <2>1
  <2>3. PICK x : x = Left.rows[j]
    OBVIOUS
  <2>4. x = [req |-> r, comp |-> x.comp, known |-> x.known]
    BY <2>1, <2>3 DEF IInv, RowsShape
  <2>5. [x EXCEPT !.comp = out.comp[r]] = [req |-> r, comp |-> out.comp[r], known |-> x.known]
    BY <2>4
  <2>6. Known(r) = x.known
    BY <1>1, <2>2, <2>3 DEF Known
  <2> QED BY <1>1, <2>2, <2>3, <2>5, <2>6 DEF HasRow
<1>2. CASE ~ HasRow(r)
  <2>1. r \in DOMAIN ReqsOf
    <3>1. CASE r \in out.fresh
      BY <3>1 DEF ReqsOf
    <3>2. CASE r \notin out.fresh
      <4>1. r \in DOMAIN Left.reqs
        BY <3>2, HeldOf DEF Cached
      <4> QED BY <4>1 DEF ReqsOf
    <3> QED BY <3>1, <3>2
  <2>2. ReqsOf[r].outs = out.nout[r]
    BY <2>1 DEF ReqsOf
  <2>3. Known(r) = Prompt + out.nout[r]
    BY <1>2 DEF Known
  <2> QED BY <1>2, <2>2, <2>3 DEF HasRow, NewRow
<1> QED BY <1>1, <1>2

\* Every stage comes to the same cached requests.
LEMMA ReqsAre ==
  ASSUME IInv, phase = "execute", NEW s \in DOMAIN runner
  PROVE  [r \in DOMAIN Left.reqs \cup out.fresh |->
              IF r \in out.fresh THEN NewRequest(r)
              ELSE IF r \in Cached THEN CachedRequest(s, Left, r) ELSE Left.reqs[r]]
         = ReqsOf
<1>1. out.fresh \subseteq DOMAIN out.k /\ \A r \in out.fresh : out.d[r] = 0 /\ out.nout[r] = 0
  BY DEF IInv, OutOK
<1>2. ASSUME NEW r \in out.fresh
      PROVE  NewRequest(r) = [gen |-> sched[r].gen, comp |-> CompOf(r), outs |-> out.nout[r],
                              prevDraft |-> out.d[r]]
  <2>1. out.gen[r] = sched[r].gen
    BY <1>1, AskedOf DEF Asks
  <2> QED BY <1>1, <2>1 DEF NewRequest, CompOf
<1>3. ASSUME NEW r \in Cached
      PROVE  /\ r \in DOMAIN out.k /\ r \notin out.fresh
             /\ CachedRequest(s, Left, r)
                  = [gen |-> sched[r].gen, comp |-> CompOf(r), outs |-> out.nout[r],
                     prevDraft |-> out.d[r]]
  BY CachedIs DEF Cached, CompOf
<1>4. ASSUME NEW r, r \notin out.fresh, r \notin Cached
      PROVE  r \notin DOMAIN out.k
  BY <1>4 DEF Cached
<1>5. ASSUME NEW r \in DOMAIN Left.reqs \cup out.fresh
      PROVE  (IF r \in out.fresh THEN NewRequest(r)
              ELSE IF r \in Cached THEN CachedRequest(s, Left, r) ELSE Left.reqs[r])
             = (IF r \in DOMAIN out.k
                THEN [gen |-> sched[r].gen, comp |-> CompOf(r), outs |-> out.nout[r],
                      prevDraft |-> out.d[r]]
                ELSE Left.reqs[r])
  <2>1. CASE r \in out.fresh
    BY <1>1, <1>2, <2>1
  <2>2. CASE r \in Cached
    BY <1>3, <2>2
  <2>3. CASE r \notin out.fresh /\ r \notin Cached
    BY <1>4, <2>3
  <2> QED BY <2>1, <2>2, <2>3
<1> QED BY <1>5 DEF ReqsOf

\* All stages make the same of it.
LEMMA UpdatedIs ==
  ASSUME IInv, phase = "execute", NEW s \in DOMAIN runner, NEW order \in Orders
  PROVE  _update_states(s, runner[s], order) = Updated(order)
<1>1. Removed(runner[s]) = Left
  BY DEF IInv, Stages, Left
<1>2. IsBatch(Left)
  BY LeftIs
<1>3. PICK q : q = [r \in DOMAIN Left.reqs \cup out.fresh |->
                      IF r \in out.fresh THEN NewRequest(r)
                      ELSE IF r \in Cached THEN CachedRequest(s, Left, r) ELSE Left.reqs[r]]
  OBVIOUS
<1>4. q = ReqsOf
  BY <1>3, ReqsAre
<1>5. PICK x : x = [i \in DOMAIN order |->
                      IF RowOf(Left.rows, order[i]) = {} THEN NewRow(order[i], q)
                      ELSE [Left.rows[CHOOSE j \in RowOf(Left.rows, order[i]) : TRUE]
                              EXCEPT !.comp = out.comp[order[i]]]]
  OBVIOUS
<1>6. x = RowsOf(order)
  <2>1. \A i \in DOMAIN order : order[i] \in DOMAIN out.k
    BY DEF Orders
  <2> QED BY <1>4, <1>5, <2>1, RowIs DEF RowsOf
<1>7. PICK y : y = PrevDrafts(Left)
  OBVIOUS
<1>8. _update_states(s, runner[s], order)
        = [Left EXCEPT !.reqs = q, !.prevDrafts = y, !.rows = x]
  BY <1>1, <1>3, <1>5, <1>7 DEF _update_states
<1>9. PICK l : l = Left
  OBVIOUS
<1>10. l = [reqs |-> l.reqs, rows |-> l.rows, prevIdx |-> l.prevIdx, prevTok |-> l.prevTok,
            counts |-> l.counts, drafts |-> l.drafts, prevDrafts |-> l.prevDrafts,
            gComp |-> l.gComp, gAcc |-> l.gAcc, mask |-> l.mask, input |-> l.input]
  BY <1>2, <1>9 DEF IsBatch
<1>11. PICK l1 : l1 = [l EXCEPT !.reqs = q]
  OBVIOUS
<1>12. l1 = [reqs |-> q, rows |-> l.rows, prevIdx |-> l.prevIdx, prevTok |-> l.prevTok,
            counts |-> l.counts, drafts |-> l.drafts, prevDrafts |-> l.prevDrafts,
            gComp |-> l.gComp, gAcc |-> l.gAcc, mask |-> l.mask, input |-> l.input]
  BY <1>10, <1>11
<1>13. PICK l2 : l2 = [l1 EXCEPT !.prevDrafts = y]
  OBVIOUS
<1>14. l2 = [reqs |-> q, rows |-> l.rows, prevIdx |-> l.prevIdx, prevTok |-> l.prevTok,
            counts |-> l.counts, drafts |-> l.drafts, prevDrafts |-> y,
            gComp |-> l.gComp, gAcc |-> l.gAcc, mask |-> l.mask, input |-> l.input]
  BY <1>12, <1>13
<1>15. [l2 EXCEPT !.rows = x]
         = [reqs |-> q, rows |-> x, prevIdx |-> l.prevIdx, prevTok |-> l.prevTok,
            counts |-> l.counts, drafts |-> l.drafts, prevDrafts |-> y,
            gComp |-> l.gComp, gAcc |-> l.gAcc, mask |-> l.mask, input |-> l.input]
  BY <1>14
<1>16. _update_states(s, runner[s], order) = [l2 EXCEPT !.rows = x]
  BY <1>8, <1>9, <1>11, <1>13
<1>17. Updated(order)
         = [reqs |-> q, rows |-> x, prevIdx |-> l.prevIdx, prevTok |-> l.prevTok,
            counts |-> l.counts, drafts |-> l.drafts, prevDrafts |-> y,
            gComp |-> l.gComp, gAcc |-> l.gAcc, mask |-> l.mask, input |-> l.input]
  BY <1>4, <1>6, <1>7, <1>9 DEF Updated
<1> QED BY <1>15, <1>16, <1>17

-----------------------------------------------------------------------------
(* The batch that has been prepared, with the corrected counts.            *)

Fix(r) == Correction(Left, Left, r)
FixedReqs == [r \in DOMAIN ReqsOf |-> [ReqsOf[r] EXCEPT !.comp = @ - Fix(r)]]
FixedRows(order) ==
    [i \in DOMAIN order |-> [req |-> order[i], comp |-> out.comp[order[i]] - Fix(order[i]),
                             known |-> Known(order[i])]]
Final(order) ==
    [reqs |-> FixedReqs, rows |-> FixedRows(order), prevIdx |-> Left.prevIdx,
     prevTok |-> Left.prevTok, counts |-> Left.counts, drafts |-> Left.drafts,
     prevDrafts |-> PrevDrafts(Left), gComp |-> gpu_num_computed(Updated(order)),
     gAcc |-> gpu_num_accepted(Updated(order)), mask |-> discard_request_mask(Updated(order)),
     input |-> _prepare_input_ids(Updated(order))]

\* What _prepare_inputs sets, field by field.
LEMMA InputsPreparedIs ==
  ASSUME NEW order
  PROVE  _prepare_inputs(Updated(order))
         = [reqs |-> ReqsOf, rows |-> RowsOf(order), prevIdx |-> Left.prevIdx,
            prevTok |-> Left.prevTok, counts |-> Left.counts, drafts |-> Left.drafts,
            prevDrafts |-> PrevDrafts(Left), gComp |-> gpu_num_computed(Updated(order)),
            gAcc |-> gpu_num_accepted(Updated(order)),
            mask |-> discard_request_mask(Updated(order)),
            input |-> _prepare_input_ids(Updated(order))]
<1>1. PICK b : b = Updated(order)
  OBVIOUS
<1>2. PICK x, y, z, w : /\ x = gpu_num_computed(b) /\ y = gpu_num_accepted(b)
                        /\ z = discard_request_mask(b) /\ w = _prepare_input_ids(b)
  OBVIOUS
<1>3. b = [reqs |-> ReqsOf, rows |-> RowsOf(order), prevIdx |-> Left.prevIdx,
           prevTok |-> Left.prevTok, counts |-> Left.counts, drafts |-> Left.drafts,
           prevDrafts |-> PrevDrafts(Left), gComp |-> Left.gComp, gAcc |-> Left.gAcc,
           mask |-> Left.mask, input |-> Left.input]
  BY <1>1 DEF Updated
<1>4. _prepare_inputs(b) = [b EXCEPT !.gComp = x, !.gAcc = y, !.mask = z, !.input = w]
  BY <1>2 DEF _prepare_inputs
<1>5. PICK b1 : b1 = [b EXCEPT !.gComp = x]
  OBVIOUS
<1>6. b1 = [reqs |-> ReqsOf, rows |-> RowsOf(order), prevIdx |-> Left.prevIdx,
           prevTok |-> Left.prevTok, counts |-> Left.counts, drafts |-> Left.drafts,
           prevDrafts |-> PrevDrafts(Left), gComp |-> x, gAcc |-> Left.gAcc,
           mask |-> Left.mask, input |-> Left.input]
  BY <1>3, <1>5
<1>7. PICK b2 : b2 = [b1 EXCEPT !.gAcc = y]
  OBVIOUS
<1>8. b2 = [reqs |-> ReqsOf, rows |-> RowsOf(order), prevIdx |-> Left.prevIdx,
           prevTok |-> Left.prevTok, counts |-> Left.counts, drafts |-> Left.drafts,
           prevDrafts |-> PrevDrafts(Left), gComp |-> x, gAcc |-> y,
           mask |-> Left.mask, input |-> Left.input]
  BY <1>6, <1>7
<1>9. PICK b3 : b3 = [b2 EXCEPT !.mask = z]
  OBVIOUS
<1>10. b3 = [reqs |-> ReqsOf, rows |-> RowsOf(order), prevIdx |-> Left.prevIdx,
           prevTok |-> Left.prevTok, counts |-> Left.counts, drafts |-> Left.drafts,
           prevDrafts |-> PrevDrafts(Left), gComp |-> x, gAcc |-> y,
           mask |-> z, input |-> Left.input]
  BY <1>8, <1>9
<1>11. [b3 EXCEPT !.input = w]
         = [reqs |-> ReqsOf, rows |-> RowsOf(order), prevIdx |-> Left.prevIdx,
            prevTok |-> Left.prevTok, counts |-> Left.counts, drafts |-> Left.drafts,
            prevDrafts |-> PrevDrafts(Left), gComp |-> x, gAcc |-> y, mask |-> z, input |-> w]
  BY <1>10
<1>12. _prepare_inputs(b) = [b3 EXCEPT !.input = w]
  BY <1>4, <1>5, <1>7, <1>9
<1> QED BY <1>1, <1>2, <1>11, <1>12

\* The batch a stage launches, in closed form.
LEMMA PreparedIs ==
  ASSUME IInv, phase = "execute", NEW s \in DOMAIN runner, NEW order \in Orders
  PROVE  Prepared(s, runner[s], order) = Final(order)
<1>1. PICK b : b = _prepare_inputs(Updated(order))
  OBVIOUS
<1>2. Removed(runner[s]) = Left
  BY DEF IInv, Stages, Left
<1>3. Prepared(s, runner[s], order) = correct_spec_decode_token_counts(b, Left)
  BY <1>1, <1>2, UpdatedIs DEF Prepared
<1>4. b = [reqs |-> b.reqs, rows |-> b.rows, prevIdx |-> b.prevIdx, prevTok |-> b.prevTok,
           counts |-> b.counts, drafts |-> b.drafts, prevDrafts |-> b.prevDrafts,
           gComp |-> b.gComp, gAcc |-> b.gAcc, mask |-> b.mask, input |-> b.input]
  BY <1>1, InputsPreparedIs
<1>5. /\ b.reqs = ReqsOf /\ b.rows = RowsOf(order) /\ b.prevIdx = Left.prevIdx
      /\ b.prevTok = Left.prevTok /\ b.counts = Left.counts /\ b.drafts = Left.drafts
      /\ b.prevDrafts = PrevDrafts(Left)
      /\ b.gComp = gpu_num_computed(Updated(order)) /\ b.gAcc = gpu_num_accepted(Updated(order))
      /\ b.mask = discard_request_mask(Updated(order)) /\ b.input = _prepare_input_ids(Updated(order))
  BY <1>1, InputsPreparedIs
<1>6. ASSUME NEW r PROVE Correction(b, Left, r) = Fix(r)
  BY <1>5 DEF Correction, Fix
<1>7. PICK x, y : /\ x = [r \in DOMAIN b.reqs |-> [b.reqs[r] EXCEPT !.comp = @ - Correction(b, Left, r)]]
                  /\ y = [i \in DOMAIN b.rows |->
                            [b.rows[i] EXCEPT !.comp = @ - Correction(b, Left, b.rows[i].req)]]
  OBVIOUS
<1>8. correct_spec_decode_token_counts(b, Left) = [b EXCEPT !.reqs = x, !.rows = y]
  BY <1>7 DEF correct_spec_decode_token_counts
<1>9. x = FixedReqs
  BY <1>5, <1>6, <1>7 DEF FixedReqs
<1>10. y = FixedRows(order)
  <2>1. ASSUME NEW i \in DOMAIN order
        PROVE  [b.rows[i] EXCEPT !.comp = @ - Correction(b, Left, b.rows[i].req)]
               = [req |-> order[i], comp |-> out.comp[order[i]] - Fix(order[i]), known |-> Known(order[i])]
    <3>1. b.rows[i] = [req |-> order[i], comp |-> out.comp[order[i]], known |-> Known(order[i])]
      BY <1>5 DEF RowsOf
    <3>2. PICK f : f = Correction(b, Left, b.rows[i].req)
      OBVIOUS
    <3>3. f = Fix(order[i])
      BY <1>6, <3>1, <3>2
    <3>4. PICK z : z = b.rows[i]
      OBVIOUS
    <3>5. PICK c : c = z.comp - f
      OBVIOUS
    <3>6. [z EXCEPT !.comp = c]
            = [req |-> order[i], comp |-> c, known |-> Known(order[i])]
      BY <3>1, <3>4
    <3>7. [z EXCEPT !.comp = @ - f] = [z EXCEPT !.comp = c]
      BY <3>5
    <3>8. c = out.comp[order[i]] - Fix(order[i])
      BY <3>1, <3>3, <3>4, <3>5
    <3> QED BY <3>2, <3>4, <3>6, <3>7, <3>8
  <2>2. DOMAIN b.rows = DOMAIN order
    BY <1>5 DEF RowsOf
  <2>3. y = [i \in DOMAIN order |->
                [b.rows[i] EXCEPT !.comp = @ - Correction(b, Left, b.rows[i].req)]]
    BY <1>7, <2>2
  <2>4. \A i \in DOMAIN order : y[i] = [req |-> order[i], comp |-> out.comp[order[i]] - Fix(order[i]),
                                        known |-> Known(order[i])]
    <3> TAKE i \in DOMAIN order
    <3>1. y[i] = [b.rows[i] EXCEPT !.comp = @ - Correction(b, Left, b.rows[i].req)]
      BY <2>3
    <3> QED BY <2>1, <3>1
  <2>5. y = [i \in DOMAIN order |-> y[i]]
    BY <2>3
  <2> QED BY <2>4, <2>5 DEF FixedRows
<1>11. PICK b1 : b1 = [b EXCEPT !.reqs = x]
  OBVIOUS
<1>12. b1 = [reqs |-> x, rows |-> b.rows, prevIdx |-> b.prevIdx, prevTok |-> b.prevTok,
             counts |-> b.counts, drafts |-> b.drafts, prevDrafts |-> b.prevDrafts,
             gComp |-> b.gComp, gAcc |-> b.gAcc, mask |-> b.mask, input |-> b.input]
  BY <1>4, <1>11
<1>13. [b1 EXCEPT !.rows = y]
         = [reqs |-> x, rows |-> y, prevIdx |-> b.prevIdx, prevTok |-> b.prevTok,
            counts |-> b.counts, drafts |-> b.drafts, prevDrafts |-> b.prevDrafts,
            gComp |-> b.gComp, gAcc |-> b.gAcc, mask |-> b.mask, input |-> b.input]
  BY <1>12
<1>14. Prepared(s, runner[s], order) = [b1 EXCEPT !.rows = y]
  BY <1>3, <1>8, <1>11
<1>15. Final(order)
         = [reqs |-> x, rows |-> y, prevIdx |-> b.prevIdx, prevTok |-> b.prevTok,
            counts |-> b.counts, drafts |-> b.drafts, prevDrafts |-> b.prevDrafts,
            gComp |-> b.gComp, gAcc |-> b.gAcc, mask |-> b.mask, input |-> b.input]
  BY <1>5, <1>9, <1>10 DEF Final
<1> QED BY <1>13, <1>14, <1>15

-----------------------------------------------------------------------------
(* What the updated batch has in the row of a request, and where the       *)
(* request was.                                                            *)

UpdatedAs(order, i, r) ==
    LET b == Updated(order) IN
    /\ r \in DOMAIN out.k /\ i \in DOMAIN order /\ order[i] = r
    /\ DOMAIN b.rows = DOMAIN order
    /\ b.rows[i].req = r /\ b.rows[i].comp = out.comp[r] /\ b.rows[i].known = Known(r)
    /\ r \in DOMAIN b.reqs /\ b.reqs[r].gen = sched[r].gen /\ b.reqs[r].outs = out.nout[r]
    /\ b.prevIdx = Left.prevIdx /\ b.prevTok = runner["last"].prevTok
    /\ b.counts = runner["last"].counts /\ b.drafts = runner["last"].drafts
    /\ b.prevDrafts = PrevDrafts(Left) /\ b.gComp = runner["last"].gComp
    /\ prev_positions(b)[i] = IF r \in DOMAIN Left.prevIdx THEN Left.prevIdx[r] ELSE 0

\* Row i of the updated batch is that of the i-th request of the order.
LEMMA RowUpdated ==
  ASSUME IInv, phase = "execute", NEW order \in Orders, NEW i \in DOMAIN order
  PROVE  UpdatedAs(order, i, order[i])
<1>1. PICK r : r = order[i]
  OBVIOUS
<1>2. r \in DOMAIN out.k
  BY <1>1 DEF Orders
<1>3. PICK b : b = Updated(order)
  OBVIOUS
<1>4. /\ b.reqs = ReqsOf /\ b.rows = RowsOf(order) /\ b.prevIdx = Left.prevIdx
      /\ b.prevTok = Left.prevTok /\ b.counts = Left.counts /\ b.drafts = Left.drafts
      /\ b.prevDrafts = PrevDrafts(Left) /\ b.gComp = Left.gComp
  BY <1>3 DEF Updated
<1>5. /\ DOMAIN b.rows = DOMAIN order
      /\ b.rows[i] = [req |-> r, comp |-> out.comp[r], known |-> Known(r)]
  BY <1>1, <1>4 DEF RowsOf
<1>6. r \in DOMAIN ReqsOf
  <2>1. CASE r \in out.fresh
    BY <2>1 DEF ReqsOf
  <2>2. CASE r \notin out.fresh
    <3>1. r \in DOMAIN Left.reqs
      BY <1>2, <2>2, HeldOf DEF Cached
    <3> QED BY <3>1 DEF ReqsOf
  <2> QED BY <2>1, <2>2
<1>7. ReqsOf[r].gen = sched[r].gen /\ ReqsOf[r].outs = out.nout[r]
  BY <1>2, <1>6 DEF ReqsOf
<1>8. /\ Left.prevTok = runner["last"].prevTok /\ Left.counts = runner["last"].counts
      /\ Left.drafts = runner["last"].drafts /\ Left.gComp = runner["last"].gComp
  BY LeftIs
<1>9. prev_positions(b)[i] = IF r \in DOMAIN Left.prevIdx THEN Left.prevIdx[r] ELSE 0
  BY <1>4, <1>5 DEF prev_positions
<1>10. b.rows[i].req = r /\ b.rows[i].comp = out.comp[r] /\ b.rows[i].known = Known(r)
  BY <1>5
<1> QED BY <1>1, <1>2, <1>3, <1>4, <1>5, <1>6, <1>7, <1>8, <1>9, <1>10 DEF UpdatedAs

\* A request without a row in the previous step.
LEMMA Newcomer ==
  ASSUME IInv, phase = "execute", NEW r \in DOMAIN out.k, r \notin DOMAIN Left.prevIdx
  PROVE  /\ H(r) = 0 /\ N(r) = 0 /\ out.d[r] = 0 /\ Known(r) = truth[r].len
         /\ out.comp[r] = truth[r].comp /\ Fix(r) = 0
<1>1. Fix(r) = 0
  BY DEF Fix, Correction
<1>2. /\ H(r) \in Nat /\ N(r) \in Nat /\ (H(r) = 0 <=> N(r) = 0) /\ sched[r] \in SchedType
      /\ truth[r] \in TruthType /\ out.comp[r] = truth[r].comp + H(r) - N(r)
      /\ truth[r].len = Prompt + sched[r].outs + N(r) /\ out.nout[r] = sched[r].outs + H(r)
      /\ Prompt \in Nat
  BY AskedOf
<1>3. CASE HasRow(r)
  <2>1. PICK j \in 1 .. Len(runner["last"].rows) :
            /\ RowOf(Left.rows, r) = {j} /\ Left.rows[j] = runner["last"].rows[j]
            /\ RowOK(r, j) /\ r \notin DOMAIN runner["last"].prevIdx
    BY <1>3, AtHome
  <2>2. H(r) = 0 /\ out.d[r] = 0
    BY <2>1 DEF IInv, OutOK
  <2>3. Left.rows[j].known = truth[r].len
    BY <2>1 DEF RowOK
  <2>4. (CHOOSE i \in RowOf(Left.rows, r) : TRUE) = j
    BY <2>1
  <2>5. Known(r) = truth[r].len
    BY <1>3, <2>3, <2>4 DEF Known
  <2>6. N(r) = 0 /\ out.comp[r] = truth[r].comp
    BY <1>2, <2>2 DEF TruthType
  <2> QED BY <1>1, <2>2, <2>5, <2>6
<1>4. CASE ~ HasRow(r)
  <2>1. H(r) = 0 /\ N(r) = 0 /\ out.d[r] = 0
    BY <1>4, Away
  <2>2. Known(r) = Prompt + out.nout[r]
    BY <1>4 DEF Known
  <2>3. Known(r) = truth[r].len /\ out.comp[r] = truth[r].comp
    BY <1>2, <2>1, <2>2 DEF TruthType, SchedType
  <2> QED BY <1>1, <2>1, <2>3
<1> QED BY <1>3, <1>4

\* One with a row p there, and f drafts: what the step then in flight has found.
WasThere(r, p, f) ==
    LET b == runner["last"] IN
    /\ p \in Nat /\ p > 0 /\ f \in 0 .. num_spec /\ H(r) = f + 1 /\ N(r) = truth[r].acc
    /\ truth[r].comp + 1 = truth[r].len
    /\ p \in DOMAIN b.prevTok /\ b.prevTok[p] = Real(r, sched[r].gen, truth[r].comp)
    /\ num_spec > 0 =>
         /\ p \in DOMAIN b.counts /\ b.counts[p] = truth[r].acc /\ PrevDrafts(Left)[p] = f
         /\ p \in DOMAIN b.drafts
         /\ b.drafts[p]
              = [j \in 1 .. num_spec |-> Draft(r, sched[r].gen, truth[r].comp + j, truth[r].len)]
    /\ f > 0 => b.gComp[p] + truth[r].acc = truth[r].comp
    /\ f = 0 => out.comp[r] = truth[r].comp /\ truth[r].acc = 1
    /\ Fix(r) = H(r) - N(r)

\* The previous step of a request with a row is what its row was left by.
LEMMA Veteran ==
  ASSUME IInv, phase = "execute", NEW r \in DOMAIN out.k, r \in DOMAIN Left.prevIdx
  PROVE  WasThere(r, Left.prevIdx[r], runner["last"].reqs[r].prevDraft)
<1> PICK p, f : p = Left.prevIdx[r] /\ f = runner["last"].reqs[r].prevDraft
  OBVIOUS
<1> DEFINE b == runner["last"]
<1>1. HasRow(r)
  BY Away
<1>2. /\ r \notin Gone /\ r \in DOMAIN b.prevIdx /\ p \in 1 .. Len(b.rows) /\ b.rows[p].req = r
      /\ RowOK(r, p) /\ Stays(r)
  BY <1>1, AtHome
<1>3. r \in Cached /\ Left.reqs[r] = b.reqs[r] /\ f \in 0 .. num_spec
  <2>1. r \in Cached
    BY <1>2 DEF Stays, Cached
  <2> QED BY <2>1, HeldOf DEF ReqOK
<1>4. /\ r \in Req /\ H(r) \in Nat /\ N(r) \in Nat /\ N(r) <= H(r) /\ (H(r) = 0 <=> N(r) = 0)
      /\ truth[r] \in TruthType /\ out.comp[r] = truth[r].comp + H(r) - N(r) /\ num_spec \in Nat
  BY AskedOf
<1>5. flight # <<>> /\ Len(flight) = 1
  <2>1. flight # <<>>
    BY <1>2 DEF RowOK
  <2> QED BY <2>1, Shapes DEF IInv
<1>6. PICK o : o = flight[1]
  OBVIOUS
<1>7. PrevOK(r, p, o)
  BY <1>2, <1>5, <1>6 DEF RowOK
<1>8. EntryOK(o) /\ sched[r].gen \in Nat
  BY <1>4, <1>5, <1>6, Shapes, SumsAre DEF IInv, FlightOK
<1>9. Asked(o, r, sched[r].gen) \in Nat /\ New(o, r, sched[r].gen) \in Nat
  BY <1>4, <1>8, EntryIs
<1>10. H(r) = Asked(o, r, sched[r].gen) /\ N(r) = New(o, r, sched[r].gen)
  BY <1>5, <1>6, <1>9 DEF H, N, SumAsked, SumNew
<1>11. /\ truth[r].comp + 1 = truth[r].len /\ H(r) = f + 1 /\ N(r) = truth[r].acc
       /\ p \in DOMAIN b.prevTok /\ b.prevTok[p] = Real(r, sched[r].gen, truth[r].len - 1)
       /\ num_spec > 0 =>
            /\ p \in DOMAIN b.counts /\ b.counts[p] = truth[r].acc /\ p \in DOMAIN b.drafts
            /\ b.drafts[p] = [j \in 1 .. num_spec |->
                                 Draft(r, sched[r].gen, truth[r].len - 1 + j, truth[r].len)]
       /\ f > 0 => b.gComp[p] + truth[r].acc = truth[r].comp
  BY <1>7, <1>10 DEF PrevOK
<1>12. truth[r].comp \in Nat /\ truth[r].acc \in Nat /\ truth[r].len - 1 = truth[r].comp
  BY <1>4, <1>11 DEF TruthType
<1>13. num_spec > 0 => PrevDrafts(Left)[p] = f
  <2> SUFFICES ASSUME num_spec > 0 PROVE PrevDrafts(Left)[p] = f
    OBVIOUS
  <2> DEFINE at == {q \in Optimistic(Left) \cap DOMAIN Left.prevIdx : Left.prevIdx[q] = p}
  <2>1. p \in DOMAIN Left.counts
    BY <1>11, LeftIs
  <2>2. PrevDrafts(Left)[p] = IF at = {} THEN 0 ELSE Left.reqs[CHOOSE q \in at : TRUE].prevDraft
    BY <2>1 DEF PrevDrafts
  <2>3. ASSUME NEW q \in at PROVE q = r
    <3>1. q \in DOMAIN Left.prevIdx /\ Left.prevIdx[q] = p /\ HasRow(q) /\ q \in DOMAIN out.k
      BY DEF Optimistic, Cached, HasRow
    <3>2. b.rows[p].req = q
      BY <3>1, AtHome
    <3> QED BY <1>2, <3>2
  <2>4. r \in at <=> f > 0
    BY <1>1, <1>3 DEF Optimistic, HasRow
  <2>5. CASE f > 0
    <3>1. at = {r}
      BY <2>3, <2>4, <2>5
    <3>2. (CHOOSE q \in at : TRUE) = r
      BY <3>1
    <3> QED BY <1>3, <2>2, <3>1, <3>2
  <2>6. CASE f = 0
    <3>1. at = {}
      BY <2>3, <2>4, <2>6
    <3> QED BY <2>2, <2>6, <3>1
  <2> QED BY <1>3, <1>4, <2>5, <2>6
<1>14. f = 0 => out.comp[r] = truth[r].comp /\ truth[r].acc = 1
  BY <1>4, <1>11, <1>12
<1>15. Fix(r) = H(r) - N(r)
  <2>1. CASE f > 0
    <3>1. r \in Optimistic(Left)
      BY <1>1, <1>3, <2>1 DEF Optimistic, HasRow
    <3>2. num_spec > 0
      BY <1>3, <1>4, <2>1
    <3>3. p \in DOMAIN Left.counts /\ Left.counts[p] = truth[r].acc
      BY <1>11, <3>2, LeftIs
    <3>4. Left.counts # <<>>
      BY <3>3, ShortSequences
    <3>5. Fix(r) = f - (truth[r].acc - 1)
      BY <1>3, <3>1, <3>3, <3>4 DEF Fix, Correction
    <3>6. f \in Nat
      BY <1>3, <1>4
    <3>7. f - (truth[r].acc - 1) = (f + 1) - truth[r].acc
      BY <1>12, <3>6
    <3>8. H(r) = f + 1 /\ N(r) = truth[r].acc
      BY <1>11
    <3> QED BY <3>5, <3>7, <3>8
  <2>2. CASE f = 0
    <3>1. r \notin Optimistic(Left)
      <4>1. ~ (f > 0)
        BY <2>2
      <4> QED BY <1>3, <4>1 DEF Optimistic
    <3>2. Fix(r) = 0
      BY <3>1 DEF Fix, Correction
    <3> QED BY <1>4, <1>11, <1>14, <2>2, <3>2
  <2> QED BY <1>3, <1>4, <2>1, <2>2
<1>16. p \in Nat /\ p > 0
  <2>1. Len(b.rows) \in Nat
    BY DEF IInv, RowsShape
  <2> QED BY <1>2, <2>1
<1>17. num_spec > 0 =>
         b.drafts[p] = [j \in 1 .. num_spec |-> Draft(r, sched[r].gen, truth[r].comp + j, truth[r].len)]
  BY <1>11, <1>12
<1>18. b.prevTok[p] = Real(r, sched[r].gen, truth[r].comp)
  BY <1>11, <1>12
<1>19. WasThere(r, p, f)
  BY <1>3, <1>11, <1>13, <1>14, <1>15, <1>16, <1>17, <1>18 DEF WasThere
<1> QED BY <1>19

-----------------------------------------------------------------------------
(* The rows of the prepared batch.                                         *)

\* Without a row before, the CPU count is the true one.
LEMMA NewcomerComputed ==
  ASSUME IInv, phase = "execute", NEW order, NEW i, NEW r, UpdatedAs(order, i, r),
         r \notin DOMAIN Left.prevIdx
  PROVE  /\ gpu_num_computed(Updated(order))[i] = truth[r].comp
         /\ prev_positions(Updated(order))[i] = 0
<1>1. PICK b : b = Updated(order)
  OBVIOUS
<1>2. r \in DOMAIN out.k /\ i \in DOMAIN b.rows /\ b.rows[i].comp = out.comp[r]
  BY <1>1 DEF UpdatedAs
<1>3. prev_positions(b)[i] = 0
  BY <1>1 DEF UpdatedAs
<1>4. ~ Rejecting(b, i)
  BY <1>3 DEF Rejecting
<1>5. gpu_num_computed(b)[i] = out.comp[r]
  BY <1>2, <1>4 DEF gpu_num_computed
<1>6. out.comp[r] = truth[r].comp
  BY <1>2, Newcomer
<1> QED BY <1>1, <1>3, <1>5, <1>6

\* With one, the GPU corrects the CPU count to the true one.
LEMMA VeteranComputed ==
  ASSUME IInv, phase = "execute", NEW order, NEW i, NEW r, UpdatedAs(order, i, r),
         r \in DOMAIN Left.prevIdx
  PROVE  /\ gpu_num_computed(Updated(order))[i] = truth[r].comp
         /\ gpu_num_accepted(Updated(order))[i] = truth[r].acc
         /\ prev_positions(Updated(order))[i] = Left.prevIdx[r]
<1>1. PICK b : b = Updated(order)
  OBVIOUS
<1>2. /\ r \in DOMAIN out.k /\ i \in DOMAIN b.rows /\ b.rows[i].comp = out.comp[r]
      /\ b.counts = runner["last"].counts /\ b.prevDrafts = PrevDrafts(Left)
      /\ b.gComp = runner["last"].gComp
  BY <1>1 DEF UpdatedAs
<1>3. PICK p, f : p = Left.prevIdx[r] /\ f = runner["last"].reqs[r].prevDraft
  OBVIOUS
<1>4. prev_positions(b)[i] = p
  BY <1>1, <1>3 DEF UpdatedAs
<1>5. num_spec \in Nat
  BY DEF IInv, Types
<1>6. /\ p \in Nat /\ p > 0 /\ f \in 0 .. num_spec
      /\ num_spec > 0 => /\ p \in DOMAIN b.counts /\ b.counts[p] = truth[r].acc
                         /\ b.prevDrafts[p] = f
      /\ f > 0 => b.gComp[p] + truth[r].acc = truth[r].comp
      /\ f = 0 => out.comp[r] = truth[r].comp /\ truth[r].acc = 1
  <2>1. WasThere(r, p, f)
    BY <1>2, <1>3, Veteran
  <2> QED BY <1>2, <2>1 DEF WasThere
<1>7. CASE f > 0
  <2>1. num_spec > 0
    BY <1>5, <1>6, <1>7
  <2>2. p \in DOMAIN b.counts /\ b.counts[p] = truth[r].acc /\ b.prevDrafts[p] = f
    BY <1>6, <2>1
  <2>3. b.counts # <<>>
    BY <2>2, ShortSequences
  <2>4. Rejecting(b, i)
    BY <1>4, <1>6, <1>7, <2>2, <2>3 DEF Rejecting
  <2>5. gpu_num_computed(b)[i] = b.gComp[p] + b.counts[p]
    BY <1>2, <1>4, <2>4 DEF gpu_num_computed
  <2>6. gpu_num_accepted(b)[i] = b.counts[p]
    BY <1>2, <1>4, <2>4 DEF gpu_num_accepted
  <2>7. b.gComp[p] + b.counts[p] = truth[r].comp
    BY <1>6, <1>7, <2>2
  <2> QED BY <1>1, <1>3, <1>4, <2>2, <2>5, <2>6, <2>7
<1>8. CASE f = 0
  <2>1. ~ Rejecting(b, i)
    <3>1. CASE num_spec > 0
      <4>1. b.prevDrafts[p] = 0
        BY <1>6, <1>8, <3>1
      <4> QED BY <1>4, <4>1 DEF Rejecting
    <3>2. CASE num_spec = 0
      <4>1. b.counts = <<>>
        BY <1>2, <3>2 DEF IInv, Stages
      <4> QED BY <4>1 DEF Rejecting
    <3> QED BY <1>5, <3>1, <3>2
  <2>2. gpu_num_computed(b)[i] = out.comp[r] /\ gpu_num_accepted(b)[i] = 1
    BY <1>2, <2>1 DEF gpu_num_computed, gpu_num_accepted
  <2> QED BY <1>1, <1>3, <1>4, <1>6, <1>8, <2>2
<1> QED BY <1>5, <1>6, <1>7, <1>8

\* Whatever its history, a row is launched at the true position.
LEMMA ComputedIs ==
  ASSUME IInv, phase = "execute", NEW order, NEW i, NEW r, UpdatedAs(order, i, r)
  PROVE  /\ gpu_num_computed(Updated(order))[i] = truth[r].comp
         /\ prev_positions(Updated(order))[i] > 0
              => gpu_num_accepted(Updated(order))[i] = truth[r].acc
         /\ out.comp[r] - Fix(r) = truth[r].comp
<1>1. r \in DOMAIN out.k
  BY DEF UpdatedAs
<1>2. /\ H(r) \in Nat /\ N(r) \in Nat /\ out.comp[r] = truth[r].comp + H(r) - N(r)
      /\ truth[r].comp \in Nat
  BY <1>1, AskedOf DEF TruthType
<1>3. CASE r \in DOMAIN Left.prevIdx
  <2>1. Fix(r) = H(r) - N(r)
    BY <1>1, <1>3, Veteran DEF WasThere
  <2>2. out.comp[r] - Fix(r) = truth[r].comp
    BY <1>2, <2>1
  <2> QED BY <1>3, <2>2, VeteranComputed
<1>4. CASE r \notin DOMAIN Left.prevIdx
  <2>1. Fix(r) = 0 /\ out.comp[r] = truth[r].comp
    BY <1>1, <1>4, Newcomer
  <2>2. out.comp[r] - Fix(r) = truth[r].comp
    BY <1>2, <2>1
  <2>3. ~ (prev_positions(Updated(order))[i] > 0)
    BY <1>4, NewcomerComputed
  <2> QED BY <1>4, <2>2, <2>3, NewcomerComputed
<1> QED BY <1>3, <1>4

\* A row is masked exactly if its request is not sampled.
LEMMA MaskIs ==
  ASSUME IInv, phase = "execute", NEW order, NEW i, NEW r, UpdatedAs(order, i, r)
  PROVE  /\ discard_request_mask(Updated(order))[i] <=> ~ sched[r].last
         /\ ~ sched[r].last => Known(r) = truth[r].len
<1>1. PICK b : b = Updated(order)
  OBVIOUS
<1>2. /\ r \in DOMAIN out.k /\ i \in DOMAIN b.rows /\ b.rows[i].req = r
      /\ b.rows[i].comp = out.comp[r] /\ b.reqs[r].outs = out.nout[r]
  BY <1>1 DEF UpdatedAs
<1>3. /\ sched[r] \in SchedType /\ truth[r] \in TruthType /\ Prompt \in Nat
      /\ H(r) \in Nat /\ N(r) \in Nat /\ Asks(r)
      /\ out.nout[r] = sched[r].outs + H(r) /\ out.comp[r] = truth[r].comp + H(r) - N(r)
      /\ truth[r].len = Prompt + sched[r].outs + N(r)
      /\ out.k[r] \in Nat /\ out.d[r] \in Nat
  BY <1>2, AskedOf
<1>4. PICK c, l, h, n, k, d, z, s :
          /\ c = truth[r].comp /\ l = truth[r].len /\ h = H(r) /\ n = N(r)
          /\ k = out.k[r] /\ d = out.d[r] /\ z = out.comp[r] /\ s = sched[r].outs
  OBVIOUS
<1>5. c \in Nat /\ l \in Nat /\ h \in Nat /\ n \in Nat /\ k \in Nat /\ d \in Nat /\ s \in Nat
  BY <1>3, <1>4 DEF SchedType, TruthType
<1>6. z = c + h - n /\ out.nout[r] = s + h /\ l = Prompt + s + n
  BY <1>3, <1>4
<1>7. /\ d < k /\ c + k - d <= l /\ (sched[r].last <=> c + k - d = l)
      /\ d > 0 => sched[r].last
  BY <1>3, <1>4 DEF Asks
<1>8. discard_request_mask(b)[i] = (z + k < Prompt + out.nout[r])
  BY <1>2, <1>4 DEF discard_request_mask
<1>9. (z + k < Prompt + out.nout[r]) <=> c + k < l
  BY <1>3, <1>5, <1>6
<1>10. c + k < l <=> ~ sched[r].last
  BY <1>5, <1>7
<1>11. ASSUME ~ sched[r].last PROVE Known(r) = truth[r].len
  <2>1. c + 1 # l
    BY <1>5, <1>7, <1>11
  <2>2. r \notin DOMAIN Left.prevIdx
    BY <1>2, <1>4, <2>1, Veteran DEF WasThere
  <2> QED BY <1>2, <2>2, Newcomer
<1>12. discard_request_mask(b)[i] <=> (z + k < Prompt + out.nout[r])
  BY <1>8, Zenon
<1> QED BY <1>1, <1>9, <1>10, <1>11, <1>12

\* Every slot gets the request's own token.
LEMMA NewcomerInput ==
  ASSUME IInv, phase = "execute", NEW order, NEW i, NEW r, UpdatedAs(order, i, r),
         r \notin DOMAIN Left.prevIdx
  PROVE  _prepare_input_ids(Updated(order))[i]
           = [j \in 1 .. out.k[r] |-> Wanted(r, truth[r].comp + j - 1)]
<1>1. PICK b : b = Updated(order)
  OBVIOUS
<1>2. /\ r \in DOMAIN out.k /\ i \in DOMAIN b.rows /\ b.rows[i].req = r
      /\ b.rows[i].comp = out.comp[r] /\ b.rows[i].known = Known(r)
      /\ b.reqs[r].gen = sched[r].gen
  BY <1>1 DEF UpdatedAs
<1>3. prev_positions(b)[i] = 0
  BY <1>1, NewcomerComputed
<1>4. PICK c, l, k : c = truth[r].comp /\ l = truth[r].len /\ k = out.k[r]
  OBVIOUS
<1>5. /\ c \in Nat /\ l \in Nat /\ k \in Nat /\ out.d[r] = 0 /\ Known(r) = l /\ out.comp[r] = c
      /\ out.gen[r] = sched[r].gen /\ c + k <= l
  <2>1. /\ truth[r] \in TruthType /\ k \in Nat /\ Asks(r)
    BY <1>2, <1>4, AskedOf
  <2>2. out.d[r] = 0 /\ Known(r) = l /\ out.comp[r] = c
    BY <1>2, <1>4, Newcomer
  <2>3. c + k - 0 <= l /\ out.gen[r] = sched[r].gen
    BY <1>4, <2>1, <2>2 DEF Asks
  <2> QED BY <1>4, <2>1, <2>2, <2>3 DEF TruthType
<1>6. _prepare_input_ids(b)[i] = [j \in 1 .. k |-> CpuToken(b, i, j)]
  <2>1. ~ (prev_positions(b)[i] > 0)
    BY <1>3
  <2> QED BY <1>2, <1>4, <2>1 DEF _prepare_input_ids
<1>7. ASSUME NEW j \in 1 .. k PROVE CpuToken(b, i, j) = Wanted(r, c + j - 1)
  <2>1. c + j - 1 < l
    BY <1>5
  <2>2. CpuToken(b, i, j) = Real(r, sched[r].gen, c + j - 1)
    BY <1>2, <1>5, <2>1 DEF CpuToken
  <2>3. Wanted(r, c + j - 1) = Real(r, sched[r].gen, c + j - 1)
    BY <1>4, <1>5, <2>1 DEF Wanted
  <2> QED BY <2>2, <2>3
<1>8. [j \in 1 .. k |-> CpuToken(b, i, j)] = [j \in 1 .. k |-> Wanted(r, c + j - 1)]
  BY <1>7
<1> QED BY <1>1, <1>4, <1>6, <1>8

\* For a request with a row the token slots and draft slots come from the GPU.
LEMMA VeteranInput ==
  ASSUME IInv, phase = "execute", NEW order, NEW i, NEW r, UpdatedAs(order, i, r),
         r \in DOMAIN Left.prevIdx
  PROVE  _prepare_input_ids(Updated(order))[i]
           = [j \in 1 .. out.k[r] |-> Wanted(r, truth[r].comp + j - 1)]
<1>1. PICK b : b = Updated(order)
  OBVIOUS
<1>2. /\ r \in DOMAIN out.k /\ i \in DOMAIN b.rows /\ b.rows[i].req = r
      /\ b.prevTok = runner["last"].prevTok /\ b.drafts = runner["last"].drafts
  BY <1>1 DEF UpdatedAs
<1>3. PICK p, f : p = Left.prevIdx[r] /\ f = runner["last"].reqs[r].prevDraft
  OBVIOUS
<1>4. prev_positions(b)[i] = p
  BY <1>1, <1>3, VeteranComputed
<1>5. WasThere(r, p, f)
  BY <1>2, <1>3, Veteran
<1>6. PICK c, l, k, d : c = truth[r].comp /\ l = truth[r].len /\ k = out.k[r] /\ d = out.d[r]
  OBVIOUS
<1>7. /\ c \in Nat /\ l \in Nat /\ k \in Nat /\ d \in Nat /\ num_spec \in Nat /\ d \in 0 .. num_spec
      /\ d < k /\ c + k - d <= l /\ out.gen[r] = sched[r].gen
      /\ d > 0 => k = d + 1
  BY <1>2, <1>6, AskedOf DEF Asks, TruthType
<1>8. c + 1 = l
  BY <1>5, <1>6 DEF WasThere
<1>9. k = d + 1
  BY <1>7, <1>8
<1>10. p > 0 /\ p \in DOMAIN b.prevTok /\ b.prevTok[p] = Real(r, sched[r].gen, c)
  BY <1>2, <1>5, <1>6 DEF WasThere
<1>11. b.prevTok # <<>>
  BY <1>10, ShortSequences
<1>12. d > 0 => /\ b.drafts # <<>>
                /\ b.drafts[p] = [j \in 1 .. num_spec |-> Draft(r, sched[r].gen, c + j, l)]
  <2> SUFFICES ASSUME d > 0
               PROVE  /\ b.drafts # <<>>
                      /\ b.drafts[p] = [j \in 1 .. num_spec |-> Draft(r, sched[r].gen, c + j, l)]
    OBVIOUS
  <2>1. num_spec > 0
    BY <1>7
  <2>2. /\ p \in DOMAIN b.drafts
        /\ b.drafts[p] = [j \in 1 .. num_spec |-> Draft(r, sched[r].gen, c + j, l)]
    BY <1>2, <1>5, <1>6, <2>1 DEF WasThere
  <2> QED BY <2>2, ShortSequences
<1>13. PICK w : w = [j \in 1 .. k |->
           IF j = k - d THEN b.prevTok[p]
           ELSE IF b.drafts # <<>> /\ j > k - d THEN b.drafts[p][j - (k - d)]
           ELSE _prepare_input_ids(b)[i][j]]
  OBVIOUS
<1>14. _prepare_input_ids(b)[i] = w
  <2>1. PICK copied : copied =
          (\/ b.prevTok = <<>>
           \/ \E y \in DOMAIN b.rows : \/ y \notin {x \in DOMAIN b.rows : prev_positions(b)[x] > 0}
                                       \/ out.k[b.rows[y].req] > out.d[b.rows[y].req] + 1)
    OBVIOUS
  <2>2. _prepare_input_ids(b)[i] = [j \in 1 .. k |->
          IF j = k - d THEN b.prevTok[p]
          ELSE IF b.drafts # <<>> /\ j > k - d THEN b.drafts[p][j - (k - d)]
          ELSE IF copied THEN CpuToken(b, i, j) ELSE Hole]
    BY <1>2, <1>4, <1>6, <1>10, <1>11, <2>1 DEF _prepare_input_ids
  <2> QED BY <1>13, <2>2
<1>15. ASSUME NEW j \in 1 .. k PROVE w[j] = Wanted(r, c + j - 1)
  <2>1. CASE j = 1
    <3>1. w[j] = Real(r, sched[r].gen, c)
      BY <1>7, <1>9, <1>10, <1>13, <2>1
    <3>2. c + j - 1 = c /\ c < l
      BY <1>7, <1>8, <2>1
    <3> QED BY <1>6, <1>7, <3>1, <3>2 DEF Wanted
  <2>2. CASE j > 1
    <3>1. d > 0 /\ j - 1 \in 1 .. num_spec /\ j # k - d /\ j > k - d /\ k - d = 1
      BY <1>7, <1>9, <2>2
    <3>2. w[j] = b.drafts[p][j - 1]
      BY <1>12, <1>13, <3>1
    <3>3. w[j] = Draft(r, sched[r].gen, c + (j - 1), l)
      BY <1>12, <3>1, <3>2
    <3>4. ~ (c + j - 1 < l) /\ c + (j - 1) = c + j - 1
      BY <1>7, <1>8, <2>2
    <3> QED BY <1>6, <1>7, <3>3, <3>4 DEF Wanted
  <2> QED BY <1>7, <2>1, <2>2
<1>16. w = [j \in 1 .. k |-> w[j]]
  BY <1>13
<1>17. w = [j \in 1 .. k |-> Wanted(r, c + j - 1)]
  BY <1>15, <1>16
<1> QED BY <1>1, <1>6, <1>14, <1>17

\* Both together.
LEMMA InputIs ==
  ASSUME IInv, phase = "execute", NEW order, NEW i, NEW r, UpdatedAs(order, i, r)
  PROVE  _prepare_input_ids(Updated(order))[i]
           = [j \in 1 .. out.k[r] |-> Wanted(r, truth[r].comp + j - 1)]
BY NewcomerInput, VeteranInput

-----------------------------------------------------------------------------
(* The step that executes a batch.                                         *)

\* An order names each request of the step once.
LEMMA OrderIs ==
  ASSUME IInv, NEW order \in Orders
  PROVE  /\ Cardinality(DOMAIN out.k) \in Nat
         /\ DOMAIN order = 1 .. Cardinality(DOMAIN out.k)
         /\ \A i \in DOMAIN order : order[i] \in DOMAIN out.k
         /\ \A i, j \in DOMAIN order : order[i] = order[j] => i = j
         /\ \A r \in DOMAIN out.k : \E i \in DOMAIN order : order[i] = r
<1>1. IsFiniteSet(DOMAIN out.k)
  BY FS_Subset, BatchAssumption DEF IInv, Types
<1>2. Cardinality(DOMAIN out.k) \in Nat
  BY <1>1, FS_CardinalityType
<1>3. order \in [1 .. Cardinality(DOMAIN out.k) -> DOMAIN out.k] /\ IsInjective(order)
      /\ DOMAIN out.k \subseteq Range(order)
  BY DEF Orders
<1> QED BY <1>2, <1>3 DEF IsInjective, Range

Ordered(rows, order) ==
    /\ Len(rows) \in Nat /\ rows = [i \in 1 .. Len(rows) |-> rows[i]]
    /\ DOMAIN rows = DOMAIN order /\ DOMAIN order = 1 .. Len(rows)
    /\ \A i \in 1 .. Len(rows) :
          /\ rows[i] = [req |-> rows[i].req, comp |-> rows[i].comp, known |-> rows[i].known]
          /\ rows[i].req = order[i] /\ rows[i].req \in DOMAIN out.k /\ rows[i].req \in Req
          /\ rows[i].comp = truth[order[i]].comp /\ rows[i].comp \in Int
          /\ rows[i].known = Known(order[i]) /\ rows[i].known \in Nat
    /\ \A i, j \in 1 .. Len(rows) : rows[i].req = rows[j].req => i = j
    /\ \A r \in DOMAIN out.k : \E i \in 1 .. Len(rows) : rows[i].req = r
\* The prepared rows stand in the order.
LEMMA FinalRows ==
  ASSUME IInv, phase = "execute", NEW order \in Orders
  PROVE  Ordered(FixedRows(order), order)
<1> PICK rows : rows = FixedRows(order)
  OBVIOUS
<1>1. PICK n : n = Cardinality(DOMAIN out.k)
  OBVIOUS
<1>2. n \in Nat /\ DOMAIN order = 1 .. n
  BY <1>1, OrderIs
<1>3. rows = [i \in 1 .. n |-> [req |-> order[i], comp |-> out.comp[order[i]] - Fix(order[i]),
                                known |-> Known(order[i])]]
  BY <1>2 DEF FixedRows
<1>4. Len(rows) = n
  BY <1>2, <1>3
<1>5. ASSUME NEW i \in 1 .. n
      PROVE  /\ rows[i].req = order[i] /\ order[i] \in DOMAIN out.k /\ order[i] \in Req
             /\ rows[i].comp = truth[order[i]].comp /\ rows[i].comp \in Int
             /\ rows[i].known = Known(order[i]) /\ rows[i].known \in Nat
             /\ rows[i] = [req |-> rows[i].req, comp |-> rows[i].comp, known |-> rows[i].known]
  <2>1. PICK r : r = order[i]
    OBVIOUS
  <2>2. r \in DOMAIN out.k /\ UpdatedAs(order, i, r)
    BY <1>2, <2>1, RowUpdated DEF UpdatedAs
  <2>3. r \in Req /\ truth[r] \in TruthType /\ truth[r].comp \in Nat
    BY <2>2, AskedOf DEF TruthType
  <2>4. rows[i] = [req |-> r, comp |-> out.comp[r] - Fix(r), known |-> Known(r)]
    BY <1>3, <2>1
  <2>5. out.comp[r] - Fix(r) = truth[r].comp
    BY <2>2, ComputedIs
  <2>6. Known(r) \in Nat
    <3>1. CASE HasRow(r)
      <4>1. PICK j \in 1 .. Len(runner["last"].rows) :
                RowOf(Left.rows, r) = {j} /\ Left.rows[j] = runner["last"].rows[j]
        BY <2>2, <3>1, AtHome
      <4>2. runner["last"].rows[j].known \in Nat
        BY DEF IInv, RowsShape
      <4>3. (CHOOSE x \in RowOf(Left.rows, r) : TRUE) = j
        BY <4>1
      <4> QED BY <3>1, <4>1, <4>2, <4>3 DEF Known
    <3>2. CASE ~ HasRow(r)
      <4>1. out.nout[r] \in Nat /\ Prompt \in Nat
        BY <2>2, AskedOf
      <4> QED BY <3>2, <4>1 DEF Known
    <3> QED BY <3>1, <3>2
  <2>7. rows[i].req = r /\ rows[i].comp = truth[r].comp /\ rows[i].known = Known(r)
    BY <2>4, <2>5
  <2>8. rows[i] = [req |-> rows[i].req, comp |-> rows[i].comp, known |-> rows[i].known]
    BY <2>4
  <2> QED BY <2>1, <2>2, <2>3, <2>6, <2>7, <2>8
<1>6. DOMAIN rows = 1 .. n /\ rows = [i \in 1 .. n |-> rows[i]]
  BY <1>3
<1>9. /\ \A i, j \in DOMAIN order : order[i] = order[j] => i = j
      /\ \A r \in DOMAIN out.k : \E i \in DOMAIN order : order[i] = r
  BY OrderIs
<1>10. \A i \in 1 .. n : rows[i].req = order[i]
  BY <1>5
<1>7. \A i, j \in 1 .. n : rows[i].req = rows[j].req => i = j
  BY <1>2, <1>9, <1>10
<1>8. \A r \in DOMAIN out.k : \E i \in 1 .. n : rows[i].req = r
  BY <1>2, <1>9, <1>10
<1>11. Ordered(rows, order)
  BY <1>2, <1>4, <1>5, <1>6, <1>7, <1>8 DEF Ordered
<1> QED BY <1>11

\* What is left of the requests is in order.
LEMMA FinalReqs ==
  ASSUME IInv, phase = "execute", NEW r \in Req, Live(r)
  PROVE  /\ r \in DOMAIN FixedReqs /\ FixedReqs[r].gen = sched[r].gen
         /\ FixedReqs[r].outs \in Nat /\ FixedReqs[r].prevDraft \in 0 .. num_spec
         /\ FixedReqs[r] = [gen |-> FixedReqs[r].gen, comp |-> FixedReqs[r].comp,
                            outs |-> FixedReqs[r].outs, prevDraft |-> FixedReqs[r].prevDraft]
         /\ num_spec = 0 => FixedReqs[r].outs = sched[r].outs + H(r)
         /\ r \in DOMAIN out.k => /\ FixedReqs[r].outs = out.nout[r]
                                  /\ FixedReqs[r].prevDraft = out.d[r]
<1>1. PICK q : q = ReqsOf[r]
  OBVIOUS
<1>2. /\ r \in DOMAIN ReqsOf /\ q.gen = sched[r].gen /\ q.outs \in Nat /\ q.prevDraft \in 0 .. num_spec
      /\ q = [gen |-> q.gen, comp |-> q.comp, outs |-> q.outs, prevDraft |-> q.prevDraft]
      /\ num_spec = 0 => q.outs = sched[r].outs + H(r)
      /\ r \in DOMAIN out.k => q.outs = out.nout[r] /\ q.prevDraft = out.d[r]
  <2>1. CASE r \in DOMAIN out.k
    <3>1. r \in DOMAIN ReqsOf
      <4>1. CASE r \in out.fresh
        BY <4>1 DEF ReqsOf
      <4>2. CASE r \notin out.fresh
        <5>1. r \in DOMAIN Left.reqs
          BY <2>1, <4>2, HeldOf DEF Cached
        <5> QED BY <5>1 DEF ReqsOf
      <4> QED BY <4>1, <4>2
    <3>2. q = [gen |-> sched[r].gen, comp |-> CompOf(r), outs |-> out.nout[r], prevDraft |-> out.d[r]]
      BY <1>1, <2>1, <3>1 DEF ReqsOf
    <3>3. /\ out.nout[r] = sched[r].outs + H(r) /\ out.nout[r] \in Nat /\ out.d[r] \in 0 .. num_spec
      BY <2>1, AskedOf DEF Asks
    <3> QED BY <3>1, <3>2, <3>3
  <2>2. CASE r \notin DOMAIN out.k
    <3>1. r \notin out.fresh /\ r \notin out.finished
      BY <2>2 DEF IInv, OutOK
    <3>2. ReqOK(r)
      BY <3>1 DEF IInv, ReqsOK
    <3>3. Left.reqs = Restrict(runner["last"].reqs, DOMAIN runner["last"].reqs \ out.finished)
      BY LeftIs
    <3>4. r \in DOMAIN Left.reqs /\ Left.reqs[r] = runner["last"].reqs[r]
      BY <3>1, <3>2, <3>3 DEF ReqOK, Restrict
    <3>5. q = runner["last"].reqs[r] /\ r \in DOMAIN ReqsOf
      BY <1>1, <2>2, <3>4 DEF ReqsOf
    <3> QED BY <2>2, <3>2, <3>5 DEF ReqOK
  <2> QED BY <2>1, <2>2
<1>3. PICK c : c = q.comp - Fix(r)
  OBVIOUS
<1>4. FixedReqs[r] = [q EXCEPT !.comp = c] /\ r \in DOMAIN FixedReqs
  BY <1>1, <1>2, <1>3 DEF FixedReqs
<1>5. PICK x : x = FixedReqs[r]
  OBVIOUS
<1>6. x = [gen |-> q.gen, comp |-> c, outs |-> q.outs, prevDraft |-> q.prevDraft]
  BY <1>2, <1>4, <1>5
<1>7. x = [gen |-> x.gen, comp |-> x.comp, outs |-> x.outs, prevDraft |-> x.prevDraft]
      /\ x.gen = q.gen /\ x.outs = q.outs /\ x.prevDraft = q.prevDraft
  BY <1>6
<1> QED BY <1>2, <1>4, <1>5, <1>7

FinalAs(b, i, r) ==
    /\ b.rows[i].comp = truth[r].comp /\ b.gComp[i] = truth[r].comp
    /\ b.mask[i] <=> ~ sched[r].last
    /\ ~ sched[r].last => b.rows[i].known = truth[r].len
    /\ b.reqs[r].outs = out.nout[r] /\ b.reqs[r].prevDraft = out.d[r]
    /\ b.input[i] = [j \in 1 .. out.k[r] |-> Wanted(r, truth[r].comp + j - 1)]
    /\ prev_positions(b)[i] > 0 => b.gAcc[i] = truth[r].acc
\* A prepared row has the true position, the mask and the tokens of its request.
LEMMA FinalRow ==
  ASSUME IInv, phase = "execute", NEW order \in Orders, NEW i \in DOMAIN order
  PROVE  FinalAs(Final(order), i, order[i])
<1> PICK b, r : b = Final(order) /\ r = order[i]
  OBVIOUS
<1>1. UpdatedAs(order, i, r) /\ r \in DOMAIN out.k
  BY RowUpdated DEF UpdatedAs
<1>2. r \in Req /\ Live(r)
  BY <1>1, AskedOf
<1>3. /\ b.reqs = FixedReqs /\ b.rows = FixedRows(order) /\ b.prevIdx = Left.prevIdx
      /\ b.gComp = gpu_num_computed(Updated(order)) /\ b.gAcc = gpu_num_accepted(Updated(order))
      /\ b.mask = discard_request_mask(Updated(order)) /\ b.input = _prepare_input_ids(Updated(order))
  BY DEF Final
<1>4. PICK rows : rows = FixedRows(order)
  OBVIOUS
<1>12. Ordered(rows, order)
  BY <1>4, FinalRows
<1>5. i \in 1 .. Len(rows) /\ i \in DOMAIN rows
  BY <1>12 DEF Ordered
<1>6. rows[i].comp = truth[r].comp /\ rows[i].known = Known(r) /\ rows[i].req = r
  BY <1>5, <1>12 DEF Ordered
<1>7. prev_positions(b)[i] = prev_positions(Updated(order))[i]
  <2>1. prev_positions(Updated(order))[i] = IF r \in DOMAIN Left.prevIdx THEN Left.prevIdx[r] ELSE 0
    BY <1>1 DEF UpdatedAs
  <2>2. prev_positions(b)[i] = IF r \in DOMAIN Left.prevIdx THEN Left.prevIdx[r] ELSE 0
    BY <1>3, <1>4, <1>5, <1>6 DEF prev_positions
  <2> QED BY <2>1, <2>2
<1>8. /\ b.gComp[i] = truth[r].comp
      /\ prev_positions(b)[i] > 0 => b.gAcc[i] = truth[r].acc
  BY <1>1, <1>3, <1>7, ComputedIs
<1>9. (b.mask[i] <=> ~ sched[r].last) /\ (~ sched[r].last => Known(r) = truth[r].len)
  BY <1>1, <1>3, MaskIs
<1>10. b.input[i] = [j \in 1 .. out.k[r] |-> Wanted(r, truth[r].comp + j - 1)]
  BY <1>1, <1>3, InputIs
<1>11. b.reqs[r].outs = out.nout[r] /\ b.reqs[r].prevDraft = out.d[r]
  BY <1>1, <1>2, <1>3, FinalReqs
<1>13. FinalAs(b, i, r)
  BY <1>3, <1>4, <1>6, <1>8, <1>9, <1>10, <1>11 DEF FinalAs
<1> QED BY <1>13

\* The invariant survives executing a batch: it is then prepared.
LEMMA ExecuteBatchKeeps ==
  ASSUME IInv, Execute, DOMAIN out.k # {}
  PROVE  IInv'
<1>1. phase = "execute"
  BY DEF Execute
<1>2. PICK order \in Orders :
         /\ runner' = [s \in DOMAIN runner |-> Prepared(s, runner[s], order)]
         /\ phase' = "sample" /\ UNCHANGED out /\ UNCHANGED flight
  BY DEF Execute
<1>3. UNCHANGED num_spec /\ UNCHANGED sched /\ UNCHANGED truth
  BY DEF Execute
<1>4. PICK f : f = Final(order)
  OBVIOUS
<1>5. runner' = [s \in DOMAIN runner |-> f]
  BY <1>1, <1>2, <1>4, PreparedIs
<1>6. "last" \in DOMAIN runner /\ runner'["last"] = f
  BY <1>5 DEF IInv, Stages
<1>7. /\ f.reqs = FixedReqs /\ f.rows = FixedRows(order) /\ f.counts = Left.counts
      /\ f.drafts = Left.drafts /\ f.prevDrafts = PrevDrafts(Left)
      /\ f.gComp = gpu_num_computed(Updated(order)) /\ f.mask = discard_request_mask(Updated(order))
      /\ f = [reqs |-> f.reqs, rows |-> f.rows, prevIdx |-> f.prevIdx, prevTok |-> f.prevTok,
              counts |-> f.counts, drafts |-> f.drafts, prevDrafts |-> f.prevDrafts,
              gComp |-> f.gComp, gAcc |-> f.gAcc, mask |-> f.mask, input |-> f.input]
  BY <1>4 DEF Final
<1>8. Ordered(f.rows, order)
  BY <1>1, <1>7, FinalRows
<1>9. \A r \in Req : H(r)' = H(r) /\ N(r)' = N(r) /\ (Stepping(r)' <=> Stepping(r))
                     /\ (Live(r)' <=> Live(r)) /\ (Running(r)' <=> Running(r))
  BY <1>1, <1>2, <1>3 DEF H, N, Stepping, Live, Running
<1>10. /\ Types /\ FlightShape /\ FlightOK /\ CountsOK /\ OutOK /\ Stages /\ ReqsOK
  BY DEF IInv
<1>11. Types'
  BY <1>2, <1>3, <1>10 DEF Types
<1>12. FlightShape'
  BY <1>1, <1>2, <1>10 DEF FlightShape
<1>13. FlightOK'
  <2>1. \A i \in DOMAIN flight : EntryOK(flight[i])'
    BY <1>2, <1>3, <1>10 DEF FlightOK, EntryOK
  <2>2. \A r \in Req : Live(r)' => Continues(flight, r, sched[r].gen, Prompt + sched[r].outs)'
    BY <1>2, <1>3, <1>9, <1>10 DEF FlightOK
  <2> QED BY <1>2, <2>1, <2>2 DEF FlightOK
<1>14. CountsOK'
  <2> SUFFICES ASSUME NEW r \in Req, Live(r) PROVE Counts(r)'
    BY <1>9 DEF CountsOK
  <2>1. Counts(r)
    BY <1>10 DEF CountsOK
  <2> QED BY <1>1, <1>2, <1>3, <1>9, <2>1 DEF Counts
<1>15. OutOK'
  <2>1. \A r \in DOMAIN out.k : Asks(r)' <=> Asks(r)
    BY <1>2, <1>3, <1>9, <1>10 DEF Asks, Types
  <2> QED BY <1>1, <1>2, <1>10, <2>1 DEF OutOK
<1>16. Stages'
  <2>1. \A s \in DOMAIN runner' : runner'[s] = f /\ (s # "last" => num_spec' = 0)
    BY <1>3, <1>5, <1>10 DEF Stages
  <2>2. ASSUME num_spec = 0 PROVE f.counts = <<>> /\ f.drafts = <<>> /\ f.prevDrafts = <<>>
    <3>1. Left.counts = <<>> /\ Left.drafts = <<>>
      BY <1>10, <2>2, LeftIs DEF Stages
    <3>2. PrevDrafts(Left) = <<>>
      BY <3>1, ShortSequences DEF PrevDrafts
    <3> QED BY <1>7, <3>1, <3>2
  <2> QED BY <1>3, <1>5, <1>6, <1>7, <2>1, <2>2 DEF Stages, IsBatch
<1>17. ReqsOK'
  <2> SUFFICES ASSUME NEW r \in Req, Live(r) PROVE ReqOK(r)'
    BY <1>9 DEF ReqsOK
  <2>1. PICK q : q = FixedReqs[r]
    OBVIOUS
  <2>2. /\ r \in DOMAIN FixedReqs /\ q.gen = sched[r].gen /\ q.outs \in Nat
        /\ q.prevDraft \in 0 .. num_spec
        /\ q = [gen |-> q.gen, comp |-> q.comp, outs |-> q.outs, prevDraft |-> q.prevDraft]
        /\ num_spec = 0 => q.outs = sched[r].outs + H(r)
    BY <1>1, <2>1, FinalReqs
  <2> QED BY <1>3, <1>6, <1>7, <1>9, <2>1, <2>2 DEF ReqOK
<1>18. RowsShape'
  BY <1>6, <1>8 DEF RowsShape, Ordered
<1>19. BatchOK'
  BY <1>2 DEF BatchOK
<1>20. SampleOK'
  <2>1. /\ DOMAIN f.gComp = DOMAIN f.rows /\ DOMAIN f.mask = DOMAIN f.rows
        /\ f.input = [i \in DOMAIN f.rows |-> f.input[i]]
    <3>1. DOMAIN f.rows = DOMAIN order
      BY <1>8 DEF Ordered
    <3>2. DOMAIN Updated(order).rows = DOMAIN order
      BY DEF Updated, RowsOf
    <3>3. f.input = _prepare_input_ids(Updated(order))
      BY <1>4 DEF Final
    <3>4. f.input = [i \in DOMAIN order |-> f.input[i]]
      BY <3>2, <3>3 DEF _prepare_input_ids
    <3> QED BY <1>7, <3>1, <3>2, <3>4 DEF gpu_num_computed, discard_request_mask
  <2>2. /\ \A i \in 1 .. Len(f.rows) : f.rows[i].req \in DOMAIN out.k
        /\ \A r \in DOMAIN out.k : \E i \in 1 .. Len(f.rows) : f.rows[i].req = r
    BY <1>8 DEF Ordered
  <2>3. ASSUME NEW i \in 1 .. Len(f.rows) PROVE PreparedRow(f.rows[i].req, i)'
    <3>1. PICK r : r = f.rows[i].req
      OBVIOUS
    <3>2. i \in DOMAIN order /\ r = order[i]
      BY <1>8, <3>1 DEF Ordered
    <3>3. FinalAs(f, i, r)
      BY <1>1, <1>4, <3>2, FinalRow
    <3>4. [j \in 1 .. out.k[r] |-> Wanted(r, truth[r].comp + j - 1)]'
            = [j \in 1 .. out.k[r] |-> Wanted(r, truth[r].comp + j - 1)]
      BY <1>2, <1>3 DEF Wanted
    <3>5. PreparedRow(r, i)'
      BY <1>2, <1>3, <1>6, <3>3, <3>4 DEF FinalAs, PreparedRow
    <3> QED BY <3>1, <3>5
  <2> QED BY <1>2, <1>6, <2>1, <2>2, <2>3 DEF SampleOK
<1> QED BY <1>11, <1>12, <1>13, <1>14, <1>15, <1>16, <1>17, <1>18, <1>19, <1>20 DEF IInv

\* A step is added to those in flight.
LEMMA AppendSums ==
  ASSUME IInv, phase # "schedule", NEW r \in Req, NEW o,
         NEW g, g = sched[r].gen, NEW from \in Int,
         Asked(o, r, g) \in Nat, New(o, r, g) \in Nat
  PROVE  /\ SumAsked(Append(flight, o), r, g) = SumAsked(flight, r, g) + Asked(o, r, g)
         /\ SumNew(Append(flight, o), r, g) = SumNew(flight, r, g) + New(o, r, g)
         /\ Continues(flight, r, g, from)
            /\ Said(o, r, g) = Run(r, g, from + SumNew(flight, r, g), New(o, r, g))
              => Continues(Append(flight, o), r, g, from)
<1>1. FlightShape /\ FlightOK /\ g \in Nat
  BY SumsAre DEF IInv
<1>2. PICK fl : fl = Append(flight, o)
  OBVIOUS
<1>3. CASE Len(flight) = 0
  <2>1. Len(fl) = 1 /\ fl[1] = o
    BY <1>1, <1>2, <1>3, AfterAppend
  <2>2. SumAsked(flight, r, g) = 0 /\ SumNew(flight, r, g) = 0
    BY <1>3 DEF SumAsked, SumNew
  <2>3. SumAsked(fl, r, g) = Asked(o, r, g) /\ SumNew(fl, r, g) = New(o, r, g)
    BY <2>1 DEF SumAsked, SumNew
  <2>4. from + SumNew(flight, r, g) = from
    BY <2>2
  <2>5. Said(o, r, g) = Run(r, g, from, New(o, r, g)) => Continues(fl, r, g, from)
    BY <2>1 DEF Continues
  <2> QED BY <1>2, <2>2, <2>3, <2>4, <2>5
<1>4. CASE Len(flight) = 1
  <2>1. Len(fl) = 2 /\ fl[1] = flight[1] /\ fl[2] = o
    BY <1>1, <1>2, <1>4, AfterAppend
  <2>2. EntryOK(flight[1])
    BY <1>1, <1>4, Shapes DEF FlightOK
  <2>3. Asked(flight[1], r, g) \in Nat /\ New(flight[1], r, g) \in Nat
    BY <1>1, <2>2, EntryIs
  <2>4. SumAsked(flight, r, g) = Asked(flight[1], r, g) /\ SumNew(flight, r, g) = New(flight[1], r, g)
    BY <1>4, <2>3 DEF SumAsked, SumNew
  <2>5. /\ SumAsked(fl, r, g) = Asked(flight[1], r, g) + Asked(o, r, g)
        /\ SumNew(fl, r, g) = New(flight[1], r, g) + New(o, r, g)
    BY <2>1 DEF SumAsked, SumNew
  <2>6. Continues(flight, r, g, from) /\ Said(o, r, g) = Run(r, g, from + New(flight[1], r, g), New(o, r, g))
          => Continues(fl, r, g, from)
    BY <1>4, <2>1 DEF Continues
  <2> QED BY <1>2, <2>4, <2>5, <2>6
<1> QED BY <1>1, <1>3, <1>4, Shapes

\* The output of a step without requests holds nothing.
LEMMA EmptyOutput ==
  ASSUME NEW r, NEW g
  PROVE  /\ Asked(EMPTY_MODEL_RUNNER_OUTPUT, r, g) = 0 /\ New(EMPTY_MODEL_RUNNER_OUTPUT, r, g) = 0
         /\ Said(EMPTY_MODEL_RUNNER_OUTPUT, r, g) = <<>>
<1>1. ~ Reports(EMPTY_MODEL_RUNNER_OUTPUT, r)
  BY ShortSequences DEF Reports, EMPTY_MODEL_RUNNER_OUTPUT
<1> QED BY <1>1, ShortSequences DEF Asked, New, Said

\* Without a request in the step no row is left.
LEMMA NobodyLeft ==
  ASSUME IInv, phase = "execute", DOMAIN out.k = {}
  PROVE  DOMAIN Left.prevIdx = {} /\ \A order \in Orders : RowsOf(order) = <<>>
<1>1. ASSUME NEW r \in DOMAIN Left.prevIdx PROVE FALSE
  <2>1. r \in DOMAIN runner["last"].prevIdx /\ r \notin Gone
    BY LeftIs DEF Restrict
  <2>2. PICK p : p = runner["last"].prevIdx[r]
    OBVIOUS
  <2>3. p \in 1 .. Len(runner["last"].rows) /\ runner["last"].rows[p].req = r
    BY <2>1, <2>2 DEF IInv, BatchOK
  <2>4. DOMAIN runner["last"].rows = 1 .. Len(runner["last"].rows)
    BY DEF IInv, RowsShape
  <2> QED BY <2>1, <2>3, <2>4 DEF Gone
<1>2. ASSUME NEW order \in Orders PROVE RowsOf(order) = <<>>
  <2>1. DOMAIN order = 1 .. 0
    BY FS_EmptySet, OrderIs
  <2>2. RowsOf(order) = [i \in 1 .. 0 |-> [req |-> order[i], comp |-> out.comp[order[i]], known |-> Known(order[i])]]
    BY <2>1 DEF RowsOf
  <2> QED BY <2>2
<1> QED BY <1>1, <1>2

\* The invariant survives a step without requests.
LEMMA ExecuteNothingKeeps ==
  ASSUME IInv, Execute, DOMAIN out.k = {}
  PROVE  IInv'
<1>1. phase = "execute"
  BY DEF Execute
<1> PICK e : e = EMPTY_MODEL_RUNNER_OUTPUT
  OBVIOUS
<1>2. PICK order \in Orders :
         /\ runner' = [s \in DOMAIN runner |-> _update_states(s, runner[s], order)]
         /\ phase' = "schedule" /\ out' = NoOut /\ flight' = Append(flight, e)
  BY DEF Execute
<1>3. UNCHANGED num_spec /\ UNCHANGED sched /\ UNCHANGED truth
  BY DEF Execute
<1>4. PICK f : f = Updated(order)
  OBVIOUS
<1>5. runner' = [s \in DOMAIN runner |-> f]
  BY <1>1, <1>2, <1>4, UpdatedIs
<1>6. "last" \in DOMAIN runner /\ runner'["last"] = f
  BY <1>5 DEF IInv, Stages
<1>7. /\ f.reqs = ReqsOf /\ f.rows = <<>> /\ f.counts = Left.counts /\ DOMAIN f.prevIdx = {}
      /\ f.drafts = Left.drafts /\ f.prevDrafts = PrevDrafts(Left)
      /\ f = [reqs |-> f.reqs, rows |-> f.rows, prevIdx |-> f.prevIdx, prevTok |-> f.prevTok,
              counts |-> f.counts, drafts |-> f.drafts, prevDrafts |-> f.prevDrafts,
              gComp |-> f.gComp, gAcc |-> f.gAcc, mask |-> f.mask, input |-> f.input]
  <2>1. RowsOf(order) = <<>> /\ DOMAIN Left.prevIdx = {}
    BY <1>1, NobodyLeft
  <2> QED BY <1>4, <2>1 DEF Updated
<1>8. /\ Types /\ FlightShape /\ FlightOK /\ CountsOK /\ OutOK /\ Stages /\ ReqsOK
  BY DEF IInv
<1>9. ASSUME NEW r \in Req
      PROVE  /\ (Live(r)' <=> Live(r)) /\ (Running(r)' <=> Running(r)) /\ ~ Stepping(r)
             /\ ~ Stepping(r)' /\ H(r) \in Nat /\ N(r) \in Nat /\ H(r)' = H(r) /\ N(r)' = N(r)
  <2>1. H(r) \in Nat /\ N(r) \in Nat
    BY <1>8, SumsAre
  <2>2. PICK g : g = sched[r].gen
    OBVIOUS
  <2>3. SumAsked(Append(flight, e), r, g) = SumAsked(flight, r, g) + 0
        /\ SumNew(Append(flight, e), r, g) = SumNew(flight, r, g) + 0
    BY <1>1, <2>2, AppendSums, EmptyOutput
  <2>4. H(r)' = H(r) /\ N(r)' = N(r)
    BY <1>2, <1>3, <2>1, <2>2, <2>3 DEF H, N
  <2> QED BY <1>2, <1>3, <2>1, <2>4 DEF Live, Running, Stepping
<1>10. Types'
  BY <1>2, <1>3, <1>8, ShortSequences DEF Types, NoOut
<1>11. FlightShape' /\ Len(flight') = Len(flight) + 1 /\ flight'[Len(flight')] = e
       /\ DOMAIN flight' = 1 .. Len(flight')
       /\ \A i \in DOMAIN flight' : flight'[i] = e \/ (i \in DOMAIN flight /\ flight'[i] = flight[i])
  <2>1. Len(flight) \in 0 .. 1 /\ DOMAIN flight = 1 .. Len(flight)
    BY <1>1, <1>8, Shapes
  <2>2. /\ flight' = IF Len(flight) = 1 THEN <<flight[1], e>> ELSE <<e>>
        /\ Len(flight') = Len(flight) + 1 /\ (Len(flight) = 1 => flight'[1] = flight[1])
        /\ flight'[Len(flight) + 1] = e /\ DOMAIN flight' = 1 .. Len(flight) + 1
    BY <1>1, <1>2, <1>8, AfterAppend
  <2>3. FlightShape'
    BY <1>2, <2>1, <2>2, ShortSequences DEF FlightShape
  <2> QED BY <2>1, <2>2, <2>3
<1>12. FlightOK'
  <2>1. EntryOK(e)'
    BY <1>3, <1>8, EmptyOutput DEF EntryOK, Types
  <2>2. ASSUME NEW i \in DOMAIN flight' PROVE EntryOK(flight[i])'
    <3>1. PICK x : x = flight'[i]
      OBVIOUS
    <3>2. EntryOK(x)'
      <4>1. CASE x = e
        BY <2>1, <4>1
      <4>2. CASE i \in DOMAIN flight /\ x = flight[i]
        <5>1. EntryOK(x)
          BY <1>8, <4>2 DEF FlightOK
        <5> QED BY <1>3, <5>1 DEF EntryOK
      <4> QED BY <1>11, <3>1, <4>1, <4>2
    <3> QED BY <3>1, <3>2
  <2>3. ASSUME NEW r \in Req, Live(r)
        PROVE  Continues(flight, r, sched[r].gen, Prompt + sched[r].outs)'
    <3>1. PICK g, from : g = sched[r].gen /\ from = Prompt + sched[r].outs
      OBVIOUS
    <3>2. Continues(flight, r, g, from)
      BY <1>8, <2>3, <3>1 DEF FlightOK
    <3>3. from \in Int
      BY <1>8, <3>1, BatchAssumption DEF Types, SchedType
    <3>4. Said(e, r, g) = Run(r, g, from + SumNew(flight, r, g), New(e, r, g))
      <4>1. Said(e, r, g) = <<>> /\ New(e, r, g) = 0
        BY EmptyOutput
      <4>2. Run(r, g, from + SumNew(flight, r, g), 0) = <<>>
        BY DEF Run
      <4> QED BY <4>1, <4>2
    <3>5. Continues(Append(flight, e), r, g, from)
      BY <1>1, <3>1, <3>2, <3>3, <3>4, AppendSums, EmptyOutput
    <3> QED BY <1>2, <1>3, <3>1, <3>5
  <2> QED BY <1>9, <2>2, <2>3 DEF FlightOK
<1>13. CountsOK'
  <2> SUFFICES ASSUME NEW r \in Req, Live(r) PROVE Counts(r)'
    BY <1>9 DEF CountsOK
  <2>1. Counts(r)
    BY <1>8 DEF CountsOK
  <2>2. ~ sched[r].last
    BY <1>1, <1>9, <2>1 DEF Counts
  <2> QED BY <1>1, <1>2, <1>3, <1>9, <2>1, <2>2 DEF Counts
<1>14. OutOK'
  BY <1>2 DEF OutOK
<1>15. Stages'
  <2>1. \A s \in DOMAIN runner' : runner'[s] = f /\ (s # "last" => num_spec' = 0)
    BY <1>3, <1>5, <1>8 DEF Stages
  <2>2. ASSUME num_spec = 0 PROVE f.counts = <<>> /\ f.drafts = <<>> /\ f.prevDrafts = <<>>
    <3>1. Left.counts = <<>> /\ Left.drafts = <<>>
      BY <1>8, <2>2, LeftIs DEF Stages
    <3>2. PrevDrafts(Left) = <<>>
      BY <3>1, ShortSequences DEF PrevDrafts
    <3> QED BY <1>7, <3>1, <3>2
  <2> QED BY <1>3, <1>5, <1>6, <1>7, <2>1, <2>2 DEF Stages, IsBatch
<1>16. ReqsOK'
  <2> SUFFICES ASSUME NEW r \in Req, Live(r) PROVE ReqOK(r)'
    BY <1>9 DEF ReqsOK
  <2>1. r \notin out.finished /\ r \notin out.fresh
    BY <1>1, <1>8 DEF OutOK
  <2>2. ReqOK(r)
    BY <1>8, <2>1 DEF ReqsOK
  <2>3. r \in DOMAIN Left.reqs /\ Left.reqs[r] = runner["last"].reqs[r]
    BY <2>1, <2>2, LeftIs DEF ReqOK, Restrict
  <2>4. r \in DOMAIN f.reqs /\ f.reqs[r] = runner["last"].reqs[r]
    BY <1>7, <2>3 DEF ReqsOf
  <2> QED BY <1>3, <1>6, <1>9, <2>2, <2>4 DEF ReqOK
<1>17. RowsShape'
  BY <1>6, <1>7, ShortSequences DEF RowsShape
<1>18. BatchOK'
  <2>1. \A r \in Req : Live(r)' => Asked(flight[Len(flight)], r, sched[r].gen)' = 0
    BY <1>3, <1>11, EmptyOutput
  <2> QED BY <1>6, <1>7, <2>1, ShortSequences DEF BatchOK
<1>19. SampleOK'
  BY <1>2 DEF SampleOK
<1> QED BY <1>10, <1>11, <1>12, <1>13, <1>14, <1>15, <1>16, <1>17, <1>18, <1>19 DEF IInv

-----------------------------------------------------------------------------
(* A step samples: what its rows get.                                      *)

\* The row i of a request r that accepts n drafts, in numbers.
Drawing(i, r, n) ==
    LET b == runner["last"] IN
    /\ i \in DOMAIN b.rows /\ b.rows[i].req = r /\ r \in DOMAIN out.k /\ r \in Req
    /\ n \in Nat /\ n <= num_spec /\ n <= out.d[r] /\ (~ sched[r].last => n = 0)
    /\ b.mask[i] <=> ~ sched[r].last
    /\ GenOf(b, i) = sched[r].gen /\ out.gen[r] = sched[r].gen
    /\ out.k[r] \in Nat /\ out.d[r] \in 0 .. num_spec /\ out.d[r] \in Nat /\ out.d[r] < out.k[r]
    /\ truth[r].comp + out.k[r] - out.d[r] <= truth[r].len
    /\ sched[r].last <=> truth[r].comp + out.k[r] - out.d[r] = truth[r].len
    /\ out.d[r] > 0 => sched[r].last /\ out.k[r] = out.d[r] + 1
    /\ truth[r].comp \in Nat /\ truth[r].len \in Nat /\ sched[r].gen \in Nat
    /\ b.gComp[i] = truth[r].comp

\* What a row accepts is within its drafts, and is sampled behind its known tokens.
LEMMA DrawingIs ==
  ASSUME IInv, phase = "sample", NEW a \in Accepted(runner["last"]),
         NEW i \in DOMAIN runner["last"].rows
  PROVE  /\ Drawing(i, runner["last"].rows[i].req, a[i])
         /\ SampledAt(runner["last"], a, i)
              = truth[runner["last"].rows[i].req].comp + out.k[runner["last"].rows[i].req]
                - out.d[runner["last"].rows[i].req] + a[i]
<1> DEFINE b == runner["last"]
<1>1. PICK r : r = b.rows[i].req
  OBVIOUS
<1>2. i \in 1 .. Len(b.rows) /\ r \in Req
  BY <1>1 DEF IInv, RowsShape
<1>3. r \in DOMAIN out.k /\ PreparedRow(r, i)
  BY <1>1, <1>2 DEF IInv, SampleOK
<1>4. /\ num_spec \in Nat /\ sched[r] \in SchedType /\ truth[r] \in TruthType
  BY <1>2 DEF IInv, Types
<1>5. Asks(r)
  BY <1>3 DEF IInv, OutOK
<1>6. ReqOK(r)
  BY <1>2, <1>5 DEF IInv, ReqsOK, Asks, Running, Live
<1>7. GenOf(b, i) = sched[r].gen
  BY <1>1, <1>6 DEF ReqOK, GenOf
<1>8. (b.mask[i] <=> ~ sched[r].last) /\ b.gComp[i] = truth[r].comp
  BY <1>3 DEF PreparedRow
<1>9. PICK n : n = a[i]
  OBVIOUS
<1>10. n \in 0 .. num_spec /\ n <= IF b.mask[i] THEN 0 ELSE out.d[r]
  BY <1>1, <1>9 DEF Accepted
<1>11. out.d[r] \in 0 .. num_spec /\ out.d[r] \in Nat
  BY <1>4, <1>5 DEF Asks
<1>12. n \in Nat /\ n <= num_spec /\ n <= out.d[r] /\ (~ sched[r].last => n = 0)
  BY <1>4, <1>8, <1>10, <1>11
<1>13. Drawing(i, r, n)
  BY <1>1, <1>2, <1>3, <1>4, <1>5, <1>7, <1>8, <1>11, <1>12
     DEF Drawing, Asks, SchedType, TruthType
<1>14. SampledAt(b, a, i) = truth[r].comp + out.k[r] - out.d[r] + n
  BY <1>1, <1>8, <1>9 DEF SampledAt
<1> QED BY <1>1, <1>9, <1>13, <1>14

\* There is one row for each request.
LEMMA RowFor ==
  ASSUME IInv, phase = "sample", NEW r \in DOMAIN out.k
  PROVE  \E i \in DOMAIN runner["last"].rows :
            /\ runner["last"].rows[i].req = r
            /\ (CHOOSE j \in DOMAIN runner["last"].rows : runner["last"].rows[j].req = r) = i
            /\ \A j \in DOMAIN runner["last"].rows : runner["last"].rows[j].req = r => j = i
<1> DEFINE b == runner["last"]
<1>1. DOMAIN b.rows = 1 .. Len(b.rows)
      /\ \A i, j \in 1 .. Len(b.rows) : b.rows[i].req = b.rows[j].req => i = j
  BY DEF IInv, RowsShape
<1>2. PICK i \in DOMAIN b.rows : b.rows[i].req = r
  BY <1>1 DEF IInv, SampleOK
<1>3. \A j \in DOMAIN b.rows : b.rows[j].req = r => j = i
  BY <1>1, <1>2
<1> QED BY <1>2, <1>3

Drawn == {runner["last"].rows[i].req : i \in SampledRows(runner["last"])}

\* The rows sampled are those of the requests the scheduler expects a token of.
LEMMA DrawnIs ==
  ASSUME IInv, phase = "sample"
  PROVE  Drawn = {r \in DOMAIN out.k : sched[r].last}
<1> DEFINE b == runner["last"]
<1>1. DOMAIN b.rows = 1 .. Len(b.rows)
  BY DEF IInv, RowsShape
<1>2. \A i \in DOMAIN b.rows : b.rows[i].req \in DOMAIN out.k /\ (b.mask[i] <=> ~ sched[b.rows[i].req].last)
  BY <1>1 DEF IInv, SampleOK, PreparedRow
<1>3. \A r \in DOMAIN out.k : \E i \in DOMAIN b.rows : b.rows[i].req = r
  BY <1>1 DEF IInv, SampleOK
<1> QED BY <1>2, <1>3 DEF Drawn, SampledRows

\* The output of the step, for a request that accepts n drafts.
EntryAs(o, r, g, n) ==
    IF r \in DOMAIN out.k /\ sched[r].last /\ g = sched[r].gen
    THEN /\ Asked(o, r, g) = out.d[r] + 1 /\ New(o, r, g) = n + 1
         /\ Said(o, r, g) = Run(r, g, truth[r].len, n + 1)
    ELSE Asked(o, r, g) = 0 /\ New(o, r, g) = 0 /\ Said(o, r, g) = <<>>

\* The entry of a request that is in the step.
LEMMA DrawnEntry ==
  ASSUME IInv, phase = "sample", NEW a \in Accepted(runner["last"]),
         NEW i, NEW r, Drawing(i, r, a[i]), NEW g,
         SampledAt(runner["last"], a, i) = truth[r].comp + out.k[r] - out.d[r] + a[i]
  PROVE  EntryAs(AsyncGPUModelRunnerOutput(runner["last"], a), r, g, a[i])
<1> DEFINE b == runner["last"]
<1> PICK o : o = AsyncGPUModelRunnerOutput(b, a)
  OBVIOUS
<1>1. /\ r \in DOMAIN out.k /\ i \in DOMAIN b.rows /\ b.rows[i].req = r
      /\ (b.mask[i] <=> ~ sched[r].last) /\ GenOf(b, i) = sched[r].gen
      /\ out.gen[r] = sched[r].gen /\ out.d[r] \in Nat
  BY DEF Drawing
<1>2. PICK n, z : n = a[i] /\ z = truth[r].comp + out.k[r] - out.d[r]
  OBVIOUS
<1>3. n \in Nat /\ z \in Int /\ (sched[r].last <=> z = truth[r].len)
  BY <1>2 DEF Drawing
<1>4. SampledAt(b, a, i) = z + n
  BY <1>2
<1>5. /\ DOMAIN o.index = DOMAIN out.k /\ o.index[r] = i
  BY <1>1, RowFor DEF AsyncGPUModelRunnerOutput
<1>6. PICK t : t = [j \in 1 .. n + 1 |-> Real(r, sched[r].gen, (z + n) - n + j - 1)]
  OBVIOUS
<1>7. o.tokens[i] = t /\ DOMAIN o.tokens = DOMAIN b.rows
  BY <1>1, <1>2, <1>4, <1>6 DEF AsyncGPUModelRunnerOutput
<1>8. i \in o.invalid <=> ~ sched[r].last
  BY <1>1 DEF AsyncGPUModelRunnerOutput, SampledRows
<1>9. get_output(o)[i] = IF sched[r].last THEN t ELSE <<>>
  BY <1>1, <1>7, <1>8 DEF get_output
<1>10. o.asked[r].gen = sched[r].gen /\ o.asked[r].d = out.d[r]
  BY <1>1 DEF AsyncGPUModelRunnerOutput
<1>11. t = Run(r, sched[r].gen, z, n + 1) /\ Len(t) = n + 1 /\ t # <<>>
  <2>1. \A j \in 1 .. n + 1 : (z + n) - n + j - 1 = z + j - 1
    BY <1>3
  <2>2. t = Run(r, sched[r].gen, z, n + 1)
    BY <1>6, <2>1 DEF Run
  <2>3. Len(t) = n + 1
    BY <1>3, <1>6
  <2>4. n + 1 # 0
    BY <1>3
  <2> QED BY <2>2, <2>3, <2>4, ShortSequences
<1>12. Reports(o, r) <=> sched[r].last
  BY <1>1, <1>5, <1>9, <1>11 DEF Reports
<1>13. ASSUME sched[r].last, g = sched[r].gen
       PROVE  /\ Asked(o, r, g) = out.d[r] + 1 /\ New(o, r, g) = n + 1
              /\ Said(o, r, g) = Run(r, g, truth[r].len, n + 1)
  <2>1. Said(o, r, g) = t
    BY <1>5, <1>9, <1>10, <1>12, <1>13 DEF Said
  <2>2. Asked(o, r, g) = out.d[r] + 1
    BY <1>10, <1>12, <1>13 DEF Asked
  <2> QED BY <1>2, <1>3, <1>11, <1>13, <2>1, <2>2 DEF New
<1>14. ASSUME ~ (sched[r].last /\ g = sched[r].gen)
       PROVE  Asked(o, r, g) = 0 /\ New(o, r, g) = 0 /\ Said(o, r, g) = <<>>
  <2>1. Said(o, r, g) = <<>> /\ Asked(o, r, g) = 0
    BY <1>10, <1>12, <1>14 DEF Said, Asked
  <2> QED BY <1>14, <2>1, ShortSequences DEF New
<1>15. EntryAs(o, r, g, a[i])
  BY <1>1, <1>2, <1>13, <1>14 DEF EntryAs
<1> QED BY <1>15

\* It has nothing of any other.
LEMMA OtherEntry ==
  ASSUME NEW b, NEW a, NEW r, r \notin DOMAIN out.k, NEW g, NEW n
  PROVE  EntryAs(AsyncGPUModelRunnerOutput(b, a), r, g, n)
<1> PICK o : o = AsyncGPUModelRunnerOutput(b, a)
  OBVIOUS
<1>1. ~ Reports(o, r)
  BY DEF Reports, AsyncGPUModelRunnerOutput
<1>2. EntryAs(o, r, g, n)
  BY <1>1, ShortSequences DEF Asked, New, Said, EntryAs
<1> QED BY <1>2

\* The step, with what its rows accept.
Pos(r) == CHOOSE j \in DOMAIN runner["last"].rows : runner["last"].rows[j].req = r
SampledAs(a) ==
    LET b == runner["last"] IN
    /\ a \in Accepted(b)
    /\ runner' = [s \in DOMAIN runner |->
                     IF s = "last" THEN _bookkeeping_sync(b, a)
                     ELSE _pp_receive(runner[s], SampledTokens(b, a))]
    /\ flight' = Append(flight, AsyncGPUModelRunnerOutput(b, a))
    /\ truth' = [r \in Req |->
           IF r \notin DOMAIN out.k THEN truth[r]
           ELSE IF r \notin Drawn THEN [truth[r] EXCEPT !.comp = @ + out.k[r], !.acc = 1]
           ELSE LET comp == truth[r].comp + out.k[r] - out.d[r] + a[Pos(r)]
                IN  [comp |-> comp, len |-> comp + 1, acc |-> 1 + a[Pos(r)]]]

\* A sampling step is one of these.
LEMMA SampleIs == Sample => \E a : SampledAs(a)
<1> SUFFICES ASSUME Sample PROVE \E a : SampledAs(a)
  OBVIOUS
<1>1. PICK a \in Accepted(runner["last"]) :
        /\ runner' = [s \in DOMAIN runner |->
                        IF s = "last" THEN _bookkeeping_sync(runner["last"], a)
                        ELSE _pp_receive(runner[s], SampledTokens(runner["last"], a))]
        /\ flight' = Append(flight, AsyncGPUModelRunnerOutput(runner["last"], a))
        /\ truth' = [r \in Req |->
             IF r \notin DOMAIN out.k THEN truth[r]
             ELSE IF r \notin Drawn THEN [truth[r] EXCEPT !.comp = @ + out.k[r], !.acc = 1]
             ELSE LET comp == truth[r].comp + out.k[r] - out.d[r] + a[Pos(r)]
                  IN  [comp |-> comp, len |-> comp + 1, acc |-> 1 + a[Pos(r)]]]
  BY DEF Sample, Drawn, Pos
<1>2. SampledAs(a)
  BY <1>1 DEF SampledAs
<1> QED BY <1>2

\* The row of a request of the step.
LEMMA PosIs ==
  ASSUME IInv, phase = "sample", NEW a, SampledAs(a), NEW r \in DOMAIN out.k
  PROVE  /\ Drawing(Pos(r), r, a[Pos(r)])
         /\ SampledAt(runner["last"], a, Pos(r)) = truth[r].comp + out.k[r] - out.d[r] + a[Pos(r)]
         /\ \A j \in DOMAIN runner["last"].rows : runner["last"].rows[j].req = r => j = Pos(r)
<1>1. a \in Accepted(runner["last"])
  BY DEF SampledAs
<1>2. PICK i \in DOMAIN runner["last"].rows :
        /\ runner["last"].rows[i].req = r /\ Pos(r) = i
        /\ \A j \in DOMAIN runner["last"].rows : runner["last"].rows[j].req = r => j = i
  BY RowFor DEF Pos
<1>3. /\ Drawing(i, r, a[i])
      /\ SampledAt(runner["last"], a, i) = truth[r].comp + out.k[r] - out.d[r] + a[i]
  BY <1>1, <1>2, DrawingIs
<1> QED BY <1>2, <1>3

\* What is true of the requests afterwards.
LEMMA SampledTruth ==
  ASSUME IInv, phase = "sample", NEW a, SampledAs(a), NEW r \in Req
  PROVE  /\ truth'[r] \in TruthType
         /\ r \notin DOMAIN out.k => truth'[r] = truth[r]
         /\ r \in DOMAIN out.k /\ ~ sched[r].last
              => truth'[r].comp = truth[r].comp + out.k[r] /\ truth'[r].len = truth[r].len
         /\ r \in DOMAIN out.k /\ sched[r].last
              => /\ truth'[r].comp = truth[r].len + a[Pos(r)]
                 /\ truth'[r].len = truth[r].len + a[Pos(r)] + 1
                 /\ truth'[r].acc = a[Pos(r)] + 1
<1>1. PICK t : t = truth[r]
  OBVIOUS
<1>2. t \in TruthType
  BY <1>1 DEF IInv, Types
<1>3. t = [comp |-> t.comp, len |-> t.len, acc |-> t.acc]
      /\ t.comp \in Nat /\ t.len \in Nat /\ t.acc \in Nat
  BY <1>2 DEF TruthType
<1>4. truth'[r] = IF r \notin DOMAIN out.k THEN t
                  ELSE IF r \notin Drawn THEN [t EXCEPT !.comp = @ + out.k[r], !.acc = 1]
                  ELSE LET comp == t.comp + out.k[r] - out.d[r] + a[Pos(r)]
                       IN  [comp |-> comp, len |-> comp + 1, acc |-> 1 + a[Pos(r)]]
  BY <1>1 DEF SampledAs
<1>5. Drawn = {q \in DOMAIN out.k : sched[q].last}
  BY DrawnIs
<1>6. CASE r \notin DOMAIN out.k
  BY <1>1, <1>2, <1>4, <1>6
<1>7. CASE r \in DOMAIN out.k /\ ~ sched[r].last
  <2>1. PICK c : c = t.comp + out.k[r]
    OBVIOUS
  <2>2. out.k[r] \in Nat
    BY <1>7 DEF IInv, OutOK, Asks
  <2>3. PICK x : x = [t EXCEPT !.comp = c]
    OBVIOUS
  <2>4. x = [comp |-> c, len |-> t.len, acc |-> t.acc]
    BY <1>3, <2>3
  <2>5. [x EXCEPT !.acc = 1] = [comp |-> c, len |-> t.len, acc |-> 1]
    BY <2>4
  <2>6. truth'[r] = [x EXCEPT !.acc = 1]
    BY <1>4, <1>5, <1>7, <2>1, <2>3
  <2>7. truth'[r] = [comp |-> c, len |-> t.len, acc |-> 1]
    BY <2>5, <2>6
  <2>8. c \in Nat
    BY <1>3, <2>1, <2>2
  <2>9. truth'[r].comp = c /\ truth'[r].len = t.len /\ truth'[r] \in TruthType
    BY <1>3, <2>7, <2>8 DEF TruthType
  <2> QED BY <1>1, <1>7, <2>1, <2>9
<1>8. CASE r \in DOMAIN out.k /\ sched[r].last
  <2>1. PICK n, c : n = a[Pos(r)] /\ c = t.comp + out.k[r] - out.d[r] + n
    OBVIOUS
  <2>2. /\ n \in Nat /\ out.k[r] \in Nat /\ out.d[r] \in Nat
        /\ t.comp + out.k[r] - out.d[r] = t.len
    BY <1>1, <1>8, <2>1, PosIs DEF Drawing
  <2>3. c = t.len + n /\ c + 1 = t.len + n + 1 /\ 1 + n = n + 1 /\ c \in Nat /\ c + 1 \in Nat /\ n + 1 \in Nat
    BY <1>3, <2>1, <2>2
  <2>4. truth'[r] = [comp |-> c, len |-> c + 1, acc |-> 1 + n]
    BY <1>4, <1>5, <1>8, <2>1
  <2>5. /\ truth'[r].comp = t.len + n /\ truth'[r].len = t.len + n + 1 /\ truth'[r].acc = n + 1
        /\ truth'[r] \in TruthType
    BY <2>3, <2>4 DEF TruthType
  <2> QED BY <1>1, <1>8, <2>1, <2>5
<1> QED BY <1>6, <1>7, <1>8

\* The entry of any request.
LEMMA EntryFor ==
  ASSUME IInv, phase = "sample", NEW a, SampledAs(a), NEW r \in Req, NEW g
  PROVE  EntryAs(AsyncGPUModelRunnerOutput(runner["last"], a), r, g, a[Pos(r)])
<1>1. a \in Accepted(runner["last"])
  BY DEF SampledAs
<1>2. CASE r \in DOMAIN out.k
  BY <1>1, <1>2, PosIs, DrawnEntry
<1>3. CASE r \notin DOMAIN out.k
  BY <1>3, OtherEntry
<1> QED BY <1>2, <1>3

\* What is in flight afterwards of a request.
LEMMA SampledSums ==
  ASSUME IInv, Sample, NEW a, SampledAs(a), NEW r \in Req, Live(r)
  PROVE  /\ H(r) \in Nat /\ N(r) \in Nat
         /\ H(r)' = H(r) + IF r \in DOMAIN out.k /\ sched[r].last THEN out.d[r] + 1 ELSE 0
         /\ N(r)' = N(r) + IF r \in DOMAIN out.k /\ sched[r].last THEN a[Pos(r)] + 1 ELSE 0
         /\ Continues(flight', r, sched[r].gen, Prompt + sched[r].outs)
<1>1. phase = "sample" /\ UNCHANGED sched
  BY DEF Sample
<1>2. PICK o, g, from, n : /\ o = AsyncGPUModelRunnerOutput(runner["last"], a)
                           /\ g = sched[r].gen /\ from = Prompt + sched[r].outs /\ n = a[Pos(r)]
  OBVIOUS
<1>3. EntryAs(o, r, g, n)
  BY <1>1, <1>2, EntryFor
<1>4. H(r) \in Nat /\ N(r) \in Nat
  BY SumsAre DEF IInv
<1>5. /\ sched[r] \in SchedType /\ truth[r] \in TruthType /\ Prompt \in Nat
  BY BatchAssumption DEF IInv, Types
<1>6. truth[r].len = from + SumNew(flight, r, g) /\ from \in Int
  <2>1. truth[r].len = Prompt + sched[r].outs + N(r)
    BY DEF IInv, CountsOK, Counts
  <2> QED BY <1>2, <1>4, <1>5, <2>1 DEF N, SchedType
<1>7. Continues(flight, r, g, from)
  BY <1>2 DEF IInv, FlightOK
<1>8. flight' = Append(flight, o)
  BY <1>2 DEF SampledAs
<1>9. CASE r \in DOMAIN out.k /\ sched[r].last
  <2>1. n \in Nat /\ out.d[r] \in Nat
    BY <1>1, <1>2, <1>9, PosIs DEF Drawing
  <2>2. /\ Asked(o, r, g) = out.d[r] + 1 /\ New(o, r, g) = n + 1
        /\ Said(o, r, g) = Run(r, g, from + SumNew(flight, r, g), New(o, r, g))
    BY <1>2, <1>3, <1>6, <1>9 DEF EntryAs
  <2>3. Asked(o, r, g) \in Nat /\ New(o, r, g) \in Nat
    BY <2>1, <2>2
  <2>4. /\ SumAsked(Append(flight, o), r, g) = SumAsked(flight, r, g) + Asked(o, r, g)
        /\ SumNew(Append(flight, o), r, g) = SumNew(flight, r, g) + New(o, r, g)
        /\ Continues(Append(flight, o), r, g, from)
    BY <1>1, <1>2, <1>6, <1>7, <2>2, <2>3, AppendSums
  <2>5. H(r)' = H(r) + Asked(o, r, g) /\ N(r)' = N(r) + New(o, r, g)
    BY <1>1, <1>2, <1>8, <2>4 DEF H, N
  <2> QED BY <1>2, <1>4, <1>8, <1>9, <2>2, <2>4, <2>5
<1>10. CASE ~ (r \in DOMAIN out.k /\ sched[r].last)
  <2>1. Asked(o, r, g) = 0 /\ New(o, r, g) = 0 /\ Said(o, r, g) = <<>>
    BY <1>3, <1>10 DEF EntryAs
  <2>2. Said(o, r, g) = Run(r, g, from + SumNew(flight, r, g), New(o, r, g))
    <3>1. Run(r, g, from + SumNew(flight, r, g), 0) = <<>>
      BY DEF Run
    <3> QED BY <2>1, <3>1
  <2>3. /\ SumAsked(Append(flight, o), r, g) = SumAsked(flight, r, g) + 0
        /\ SumNew(Append(flight, o), r, g) = SumNew(flight, r, g) + 0
        /\ Continues(Append(flight, o), r, g, from)
    BY <1>1, <1>2, <1>6, <1>7, <2>1, <2>2, AppendSums
  <2>4. H(r)' = H(r) + 0 /\ N(r)' = N(r) + 0
    BY <1>1, <1>2, <1>8, <2>3 DEF H, N
  <2> QED BY <1>2, <1>4, <1>8, <1>10, <2>3, <2>4
<1> QED BY <1>9, <1>10

\* What the stages keep of it.
PrevIdxOf == [r \in Drawn |-> CHOOSE i \in SampledRows(runner["last"]) : runner["last"].rows[i].req = r]
ReqsThen == [r \in DOMAIN runner["last"].reqs |->
                IF r \in Drawn
                THEN [runner["last"].reqs[r] EXCEPT !.outs = runner["last"].reqs[r].outs + 1]
                ELSE runner["last"].reqs[r]]
CountsOf(a) == IF num_spec = 0 THEN <<>>
               ELSE [i \in DOMAIN runner["last"].rows |-> IF runner["last"].mask[i] THEN 0 ELSE 1 + a[i]]
DraftsOf(a) == IF num_spec = 0 THEN <<>> ELSE propose_draft_token_ids(runner["last"], a)
Batched(a) ==
    LET b == runner["last"] IN
    [reqs |-> ReqsThen, rows |-> b.rows, prevIdx |-> PrevIdxOf, prevTok |-> SampledTokens(b, a),
     counts |-> CountsOf(a), drafts |-> DraftsOf(a), prevDrafts |-> b.prevDrafts,
     gComp |-> b.gComp, gAcc |-> b.gAcc, mask |-> b.mask, input |-> <<>>]

\* The batch after _bookkeeping_sync, field by field, and after the drafter.
LEMMA BookkeptIs ==
  ASSUME IInv
  PROVE  Bookkept(runner["last"])
           = [reqs |-> ReqsThen, rows |-> runner["last"].rows, prevIdx |-> PrevIdxOf,
              prevTok |-> runner["last"].prevTok, counts |-> runner["last"].counts,
              drafts |-> runner["last"].drafts, prevDrafts |-> runner["last"].prevDrafts,
              gComp |-> runner["last"].gComp, gAcc |-> runner["last"].gAcc,
              mask |-> runner["last"].mask, input |-> <<>>]
<1>1. PICK b : b = runner["last"]
  OBVIOUS
<1>2. b = [reqs |-> b.reqs, rows |-> b.rows, prevIdx |-> b.prevIdx, prevTok |-> b.prevTok,
           counts |-> b.counts, drafts |-> b.drafts, prevDrafts |-> b.prevDrafts,
           gComp |-> b.gComp, gAcc |-> b.gAcc, mask |-> b.mask, input |-> b.input]
  BY <1>1 DEF IInv, Stages, IsBatch
<1>3. PICK x, y : x = PrevIdxOf /\ y = ReqsThen
  OBVIOUS
<1>4. Bookkept(b) = [b EXCEPT !.input = <<>>, !.prevIdx = x, !.reqs = y]
  BY <1>1, <1>3 DEF Bookkept, PrevIdxOf, ReqsThen, Drawn
<1>5. PICK e : e = <<>>
  OBVIOUS
<1>6. PICK b1 : b1 = [b EXCEPT !.input = e]
  OBVIOUS
<1>7. b1 = [reqs |-> b.reqs, rows |-> b.rows, prevIdx |-> b.prevIdx, prevTok |-> b.prevTok,
           counts |-> b.counts, drafts |-> b.drafts, prevDrafts |-> b.prevDrafts,
           gComp |-> b.gComp, gAcc |-> b.gAcc, mask |-> b.mask, input |-> e]
  BY <1>2, <1>6
<1>8. PICK b2 : b2 = [b1 EXCEPT !.prevIdx = x]
  OBVIOUS
<1>9. b2 = [reqs |-> b.reqs, rows |-> b.rows, prevIdx |-> x, prevTok |-> b.prevTok,
           counts |-> b.counts, drafts |-> b.drafts, prevDrafts |-> b.prevDrafts,
           gComp |-> b.gComp, gAcc |-> b.gAcc, mask |-> b.mask, input |-> e]
  BY <1>7, <1>8
<1>10. [b2 EXCEPT !.reqs = y]
         = [reqs |-> y, rows |-> b.rows, prevIdx |-> x, prevTok |-> b.prevTok,
           counts |-> b.counts, drafts |-> b.drafts, prevDrafts |-> b.prevDrafts,
           gComp |-> b.gComp, gAcc |-> b.gAcc, mask |-> b.mask, input |-> e]
  BY <1>9
<1>11. Bookkept(b) = [b2 EXCEPT !.reqs = y]
  BY <1>4, <1>5, <1>6, <1>8
<1> QED BY <1>1, <1>3, <1>5, <1>10, <1>11

LEMMA LastIs ==
  ASSUME IInv, NEW a
  PROVE  _bookkeeping_sync(runner["last"], a) = Batched(a)
<1>1. PICK b, k : b = runner["last"] /\ k = Bookkept(runner["last"])
  OBVIOUS
<1>2. k = [reqs |-> ReqsThen, rows |-> b.rows, prevIdx |-> PrevIdxOf, prevTok |-> b.prevTok,
           counts |-> b.counts, drafts |-> b.drafts, prevDrafts |-> b.prevDrafts,
           gComp |-> b.gComp, gAcc |-> b.gAcc, mask |-> b.mask, input |-> <<>>]
  BY <1>1, BookkeptIs
<1>3. PICK x, y, z : x = SampledTokens(b, a) /\ y = CountsOf(a) /\ z = DraftsOf(a)
  OBVIOUS
<1>4. _bookkeeping_sync(b, a) = [k EXCEPT !.prevTok = x, !.counts = y, !.drafts = z]
  BY <1>1, <1>3 DEF _bookkeeping_sync, CountsOf, DraftsOf
<1>5. PICK k1 : k1 = [k EXCEPT !.prevTok = x]
  OBVIOUS
<1>6. k1 = [reqs |-> ReqsThen, rows |-> b.rows, prevIdx |-> PrevIdxOf, prevTok |-> x,
           counts |-> b.counts, drafts |-> b.drafts, prevDrafts |-> b.prevDrafts,
           gComp |-> b.gComp, gAcc |-> b.gAcc, mask |-> b.mask, input |-> <<>>]
  BY <1>2, <1>5
<1>7. PICK k2 : k2 = [k1 EXCEPT !.counts = y]
  OBVIOUS
<1>8. k2 = [reqs |-> ReqsThen, rows |-> b.rows, prevIdx |-> PrevIdxOf, prevTok |-> x,
           counts |-> y, drafts |-> b.drafts, prevDrafts |-> b.prevDrafts,
           gComp |-> b.gComp, gAcc |-> b.gAcc, mask |-> b.mask, input |-> <<>>]
  BY <1>6, <1>7
<1>9. [k2 EXCEPT !.drafts = z]
        = [reqs |-> ReqsThen, rows |-> b.rows, prevIdx |-> PrevIdxOf, prevTok |-> x,
           counts |-> y, drafts |-> z, prevDrafts |-> b.prevDrafts,
           gComp |-> b.gComp, gAcc |-> b.gAcc, mask |-> b.mask, input |-> <<>>]
  BY <1>8
<1>10. _bookkeeping_sync(b, a) = [k2 EXCEPT !.drafts = z]
  BY <1>4, <1>5, <1>7
<1> QED BY <1>1, <1>3, <1>9, <1>10 DEF Batched

\* A stage that receives the tokens comes to the same batch.
LEMMA OthersAre ==
  ASSUME IInv, NEW a, NEW s \in DOMAIN runner, s # "last"
  PROVE  _pp_receive(runner[s], SampledTokens(runner["last"], a)) = Batched(a)
<1>1. PICK b, k : b = runner["last"] /\ k = Bookkept(runner["last"])
  OBVIOUS
<1>2. k = [reqs |-> ReqsThen, rows |-> b.rows, prevIdx |-> PrevIdxOf, prevTok |-> b.prevTok,
           counts |-> b.counts, drafts |-> b.drafts, prevDrafts |-> b.prevDrafts,
           gComp |-> b.gComp, gAcc |-> b.gAcc, mask |-> b.mask, input |-> <<>>]
  BY <1>1, BookkeptIs
<1>3. num_spec = 0 /\ runner[s] = b /\ b.counts = <<>> /\ b.drafts = <<>>
  BY <1>1 DEF IInv, Stages
<1>4. PICK x, z : x = SampledTokens(b, a) /\ z = Received(b, x)
  OBVIOUS
<1>5. z = x
  <2>1. CASE SampledRows(b) = {}
    <3>1. \A i \in DOMAIN b.rows : b.mask[i]
      BY <2>1 DEF SampledRows
    <3>2. x = [i \in DOMAIN b.rows |-> Hole]
      BY <1>4, <3>1 DEF SampledTokens
    <3> QED BY <1>4, <2>1, <3>2 DEF Received
  <2>2. CASE SampledRows(b) # {}
    BY <1>4, <2>2 DEF Received
  <2> QED BY <2>1, <2>2
<1>6. _pp_receive(runner[s], x) = [k EXCEPT !.prevTok = x]
  BY <1>1, <1>3, <1>4, <1>5 DEF _pp_receive
<1>7. [k EXCEPT !.prevTok = x]
        = [reqs |-> ReqsThen, rows |-> b.rows, prevIdx |-> PrevIdxOf, prevTok |-> x,
           counts |-> b.counts, drafts |-> b.drafts, prevDrafts |-> b.prevDrafts,
           gComp |-> b.gComp, gAcc |-> b.gAcc, mask |-> b.mask, input |-> <<>>]
  BY <1>2
<1>8. CountsOf(a) = b.counts /\ DraftsOf(a) = b.drafts
  BY <1>3 DEF CountsOf, DraftsOf
<1> QED BY <1>1, <1>4, <1>6, <1>7, <1>8 DEF Batched

\* All stages hold the same batch again.
LEMMA SampledRunner ==
  ASSUME IInv, NEW a, SampledAs(a)
  PROVE  runner' = [s \in DOMAIN runner |-> Batched(a)]
<1>1. runner' = [s \in DOMAIN runner |->
                    IF s = "last" THEN _bookkeeping_sync(runner["last"], a)
                    ELSE _pp_receive(runner[s], SampledTokens(runner["last"], a))]
  BY DEF SampledAs
<1>2. \A s \in DOMAIN runner :
         (IF s = "last" THEN _bookkeeping_sync(runner["last"], a)
          ELSE _pp_receive(runner[s], SampledTokens(runner["last"], a))) = Batched(a)
  BY LastIs, OthersAre
<1> QED BY <1>1, <1>2

\* What the step leaves in the row of one of its requests.
AtRow(i, r) == i \in 1 .. Len(runner["last"].rows) /\ r = runner["last"].rows[i].req
RowDrawn(a, i, r) ==
    /\ i \in DOMAIN SampledTokens(runner["last"], a)
    /\ sched[r].last =>
         /\ SampledTokens(runner["last"], a)[i] = Real(r, sched[r].gen, truth[r].len + a[i])
         /\ num_spec > 0 =>
              /\ i \in DOMAIN CountsOf(a) /\ CountsOf(a)[i] = a[i] + 1
              /\ i \in DOMAIN DraftsOf(a)
              /\ DraftsOf(a)[i] = [j \in 1 .. num_spec |->
                     Draft(r, sched[r].gen, truth[r].len + a[i] + j, truth[r].len + a[i] + 1)]
LEMMA SampledRow ==
  ASSUME IInv, phase = "sample", NEW a, SampledAs(a), NEW i, NEW r, AtRow(i, r)
  PROVE  /\ r \in DOMAIN out.k /\ i = Pos(r) /\ Drawing(i, r, a[i]) /\ PreparedRow(r, i) /\ Asks(r)
         /\ ReqOK(r) /\ (r \in Drawn <=> sched[r].last) /\ RowDrawn(a, i, r)
<1> DEFINE b == runner["last"]
<1>0. i \in 1 .. Len(b.rows) /\ r = b.rows[i].req
  BY DEF AtRow
<1>1. i \in DOMAIN b.rows /\ r \in Req
  BY <1>0 DEF IInv, RowsShape
<1>2. r \in DOMAIN out.k /\ PreparedRow(r, i)
  BY <1>0 DEF IInv, SampleOK
<1>3. Asks(r)
  BY <1>2 DEF IInv, OutOK
<1>4. ReqOK(r)
  BY <1>1, <1>3 DEF IInv, ReqsOK, Asks, Running, Live
<1>5. /\ i = Pos(r) /\ Drawing(i, r, a[i])
      /\ SampledAt(b, a, i) = truth[r].comp + out.k[r] - out.d[r] + a[i]
  BY <1>0, <1>1, <1>2, PosIs
<1>6. r \in Drawn <=> sched[r].last
  BY <1>2, DrawnIs
<1>7. PICK n, l, z : n = a[i] /\ l = truth[r].len /\ z = SampledAt(b, a, i)
  OBVIOUS
<1>8. /\ n \in Nat /\ l \in Nat /\ (b.mask[i] <=> ~ sched[r].last)
      /\ GenOf(b, i) = sched[r].gen /\ (sched[r].last => z = l + n)
  BY <1>5, <1>7 DEF Drawing
<1>9. sched[r].last => SampledTokens(b, a)[i] = Real(r, sched[r].gen, l + n)
  BY <1>0, <1>1, <1>7, <1>8 DEF SampledTokens
<1>10. i \in DOMAIN SampledTokens(b, a)
  BY <1>1 DEF SampledTokens
<1>11. ASSUME num_spec > 0, sched[r].last
       PROVE  /\ i \in DOMAIN CountsOf(a) /\ CountsOf(a)[i] = n + 1
              /\ i \in DOMAIN DraftsOf(a)
              /\ DraftsOf(a)[i] = [j \in 1 .. num_spec |-> Draft(r, sched[r].gen, l + n + j, l + n + 1)]
  <2>1. num_spec # 0
    BY <1>11 DEF IInv, Types
  <2>2. CountsOf(a) = [x \in DOMAIN b.rows |-> IF b.mask[x] THEN 0 ELSE 1 + a[x]]
    BY <2>1 DEF CountsOf
  <2>3. CountsOf(a)[i] = 1 + n /\ i \in DOMAIN CountsOf(a)
    BY <1>1, <1>7, <1>8, <1>11, <2>2
  <2>4. DraftsOf(a) = propose_draft_token_ids(b, a)
    BY <2>1 DEF DraftsOf
  <2>5. /\ i \in DOMAIN DraftsOf(a)
        /\ DraftsOf(a)[i] = [j \in 1 .. num_spec |-> Draft(r, sched[r].gen, z + j, z + 1)]
    BY <1>0, <1>1, <1>7, <1>8, <2>4 DEF propose_draft_token_ids
  <2>6. z = l + n /\ 1 + n = n + 1
    BY <1>8, <1>11
  <2> QED BY <2>3, <2>5, <2>6
<1>12. RowDrawn(a, i, r)
  BY <1>7, <1>9, <1>10, <1>11 DEF RowDrawn
<1> QED BY <1>2, <1>3, <1>4, <1>5, <1>6, <1>12

\* The cached request afterwards: one placeholder more if it was sampled.
LEMMA SampledReqs ==
  ASSUME IInv, Sample, NEW a, SampledAs(a), NEW r \in Req, Live(r)
  PROVE  /\ ReqOK(r)'
         /\ runner'["last"].reqs[r].prevDraft = runner["last"].reqs[r].prevDraft
         /\ runner'["last"].reqs[r].outs
              = runner["last"].reqs[r].outs + IF r \in DOMAIN out.k /\ sched[r].last THEN 1 ELSE 0
<1>1. phase = "sample" /\ UNCHANGED sched /\ UNCHANGED num_spec
  BY DEF Sample
<1>2. PICK q, p : q = runner["last"].reqs[r] /\ p = ReqsThen[r]
  OBVIOUS
<1>3. ReqOK(r)
  BY <1>1 DEF IInv, ReqsOK
<1>4. /\ r \in DOMAIN runner["last"].reqs /\ q.gen = sched[r].gen /\ q.outs \in Nat
      /\ q.prevDraft \in 0 .. num_spec
      /\ q = [gen |-> q.gen, comp |-> q.comp, outs |-> q.outs, prevDraft |-> q.prevDraft]
      /\ num_spec = 0 => q.outs = sched[r].outs + H(r)
  BY <1>2, <1>3 DEF ReqOK
<1>5. r \in Drawn <=> r \in DOMAIN out.k /\ sched[r].last
  BY <1>1, DrawnIs
<1>6. runner'["last"].reqs = ReqsThen
  BY SampledRunner DEF IInv, Stages, Batched
<1>7. PICK o : o = q.outs + 1
  OBVIOUS
<1>8. /\ H(r) \in Nat
      /\ H(r)' = H(r) + IF r \in DOMAIN out.k /\ sched[r].last THEN out.d[r] + 1 ELSE 0
  BY SampledSums
<1>9. CASE r \in DOMAIN out.k /\ sched[r].last
  <2>1. p = [q EXCEPT !.outs = o] /\ r \in DOMAIN ReqsThen
    BY <1>2, <1>4, <1>5, <1>7, <1>9 DEF ReqsThen
  <2>2. p = [gen |-> q.gen, comp |-> q.comp, outs |-> o, prevDraft |-> q.prevDraft]
    BY <1>4, <2>1
  <2>3. /\ p.gen = q.gen /\ p.outs = o /\ p.prevDraft = q.prevDraft
        /\ p = [gen |-> p.gen, comp |-> p.comp, outs |-> p.outs, prevDraft |-> p.prevDraft]
    BY <2>2
  <2>4. out.d[r] \in 0 .. num_spec
    BY <1>1, <1>9 DEF IInv, OutOK, Asks
  <2>5. num_spec = 0 => o = sched[r].outs + H(r)'
    <3> SUFFICES ASSUME num_spec = 0 PROVE o = sched[r].outs + H(r)'
      OBVIOUS
    <3>1. out.d[r] = 0
      BY <2>4
    <3>2. sched[r].outs \in Nat
      BY DEF IInv, Types, SchedType
    <3>3. q.outs = sched[r].outs + H(r)
      BY <1>4
    <3>4. H(r)' = H(r) + 1
      BY <1>8, <1>9, <3>1
    <3> QED BY <1>7, <1>8, <3>2, <3>3, <3>4
  <2>6. ReqOK(r)'
    BY <1>1, <1>2, <1>4, <1>6, <1>7, <2>1, <2>3, <2>5 DEF ReqOK
  <2> QED BY <1>2, <1>6, <1>7, <1>9, <2>3, <2>6
<1>10. CASE ~ (r \in DOMAIN out.k /\ sched[r].last)
  <2>1. p = q /\ r \in DOMAIN ReqsThen
    BY <1>2, <1>4, <1>5, <1>10 DEF ReqsThen
  <2>2. H(r)' = H(r)
    BY <1>8, <1>10
  <2>3. ReqOK(r)'
    BY <1>1, <1>2, <1>4, <1>6, <2>1, <2>2 DEF ReqOK
  <2>4. q.outs = q.outs + 0
    BY <1>4
  <2> QED BY <1>2, <1>6, <1>10, <2>1, <2>3, <2>4
<1> QED BY <1>9, <1>10

\* The counts after the step: true ones by what was accepted, flight by what was asked.
LEMMA SampledCounts ==
  ASSUME IInv, Sample, NEW a, SampledAs(a), NEW r \in Req, Live(r)
  PROVE  Counts(r)'
<1>1. /\ phase = "sample" /\ phase' = "schedule" /\ UNCHANGED sched /\ UNCHANGED num_spec
  BY DEF Sample
<1>2. /\ Counts(r) /\ sched[r] \in SchedType /\ truth[r] \in TruthType
  BY DEF IInv, CountsOK, Types
<1>3. PICK s, t, u : s = sched[r] /\ t = truth[r] /\ u = truth'[r]
  OBVIOUS
<1>4. sched'[r] = s /\ truth'[r] = u
  BY <1>1, <1>3
<1>5. Prompt \in Nat
  BY BatchAssumption
<1>6. PICK h, m, h1, m1 : h = H(r) /\ m = N(r) /\ h1 = H(r)' /\ m1 = N(r)'
  OBVIOUS
<1>7. h \in Nat /\ m \in Nat
  BY <1>6, SampledSums
<1>8. /\ s.outs \in Nat /\ s.comp \in Int /\ s.holders \in Int
      /\ t.comp \in Nat /\ t.len \in Nat
  BY <1>2, <1>3 DEF SchedType, TruthType
<1>9. t.len = Prompt + s.outs + m
  BY <1>2, <1>3, <1>6 DEF Counts
<1>10. s.st = "preempted" => s.comp = 0 /\ t.comp = 0 /\ ~ s.last
  BY <1>2, <1>3 DEF Counts
<1>11. Running(r) <=> s.st = "running"
  BY <1>3 DEF Running
<1>12. runner'["last"].prevIdx = PrevIdxOf
  BY SampledRunner DEF IInv, Stages, Batched
<1>13. ~ Stepping(r)' /\ (Stepping(r) <=> r \in DOMAIN out.k)
  BY <1>1 DEF Stepping
<1>14. CASE r \in DOMAIN out.k /\ s.last
  <2>1. PICK n, k, d : n = a[Pos(r)] /\ k = out.k[r] /\ d = out.d[r]
    OBVIOUS
  <2>2. /\ n \in Nat /\ k \in Nat /\ d \in Nat /\ d < k /\ t.comp + k - d = t.len
    BY <1>1, <1>3, <1>14, <2>1, PosIs DEF Drawing
  <2>3. u.comp = t.len + n /\ u.len = t.len + n + 1
    BY <1>1, <1>3, <1>14, <2>1, SampledTruth
  <2>4. h1 = h + (d + 1) /\ m1 = m + (n + 1)
    BY <1>3, <1>6, <1>14, <2>1, SampledSums
  <2>5. s.holders = h + (1 + d) /\ (s.st = "running" => s.comp = t.comp + h - m + k)
    BY <1>2, <1>3, <1>6, <1>11, <1>13, <1>14, <2>1 DEF Counts
  <2>6. u.len = Prompt + s.outs + m1 /\ s.holders = h1 + 0
    BY <1>5, <1>7, <1>8, <1>9, <2>2, <2>3, <2>4, <2>5
  <2>7. s.st = "running" => s.comp = u.comp + h1 - m1 + 0
    BY <1>7, <1>8, <2>2, <2>3, <2>4, <2>5
  <2>8. u.comp < u.len /\ u.comp > 0 /\ u.comp + 1 = u.len
    BY <1>8, <2>2, <2>3
  <2>9. r \in DOMAIN PrevIdxOf
    BY <1>1, <1>3, <1>14, DrawnIs DEF PrevIdxOf
  <2> QED BY <1>1, <1>4, <1>6, <1>10, <1>11, <1>12, <1>13, <1>14, <2>6, <2>7, <2>8, <2>9
          DEF Counts, Running
<1>15. CASE r \in DOMAIN out.k /\ ~ s.last
  <2>1. PICK k, d : k = out.k[r] /\ d = out.d[r]
    OBVIOUS
  <2>2. /\ k \in Nat /\ d \in Nat /\ d < k /\ t.comp + k - d <= t.len /\ t.comp + k - d # t.len
        /\ ~ (d > 0)
    BY <1>1, <1>3, <1>15, <2>1, PosIs DEF Drawing
  <2>3. u.comp = t.comp + k /\ u.len = t.len
    BY <1>1, <1>3, <1>15, <2>1, SampledTruth
  <2>4. h1 = h + 0 /\ m1 = m + 0
    BY <1>3, <1>6, <1>15, SampledSums
  <2>5. s.holders = h + 0 /\ s.st = "running" /\ s.comp = t.comp + h - m + k
    <3>1. Running(r)
      BY <1>1, <1>15 DEF IInv, OutOK, Asks
    <3> QED BY <1>2, <1>3, <1>6, <1>11, <1>13, <1>15, <2>1, <3>1 DEF Counts
  <2>6. u.len = Prompt + s.outs + m1 /\ s.holders = h1 + 0 /\ s.comp = u.comp + h1 - m1 + 0
    BY <1>5, <1>7, <1>8, <1>9, <2>2, <2>3, <2>4, <2>5
  <2>7. u.comp < u.len /\ u.comp > 0
    BY <1>8, <2>2, <2>3
  <2> QED BY <1>1, <1>4, <1>6, <1>10, <1>11, <1>12, <1>13, <1>15, <2>5, <2>6, <2>7
          DEF Counts, Running
<1>16. CASE r \notin DOMAIN out.k
  <2>1. ~ s.last
    BY <1>1, <1>2, <1>3, <1>13, <1>16 DEF Counts
  <2>2. u = t
    BY <1>1, <1>3, <1>16, SampledTruth
  <2>3. h1 = h /\ m1 = m
    <3>1. h1 = h + 0 /\ m1 = m + 0
      BY <1>6, <1>16, SampledSums
    <3> QED BY <1>7, <3>1
  <2> QED BY <1>1, <1>2, <1>3, <1>4, <1>6, <1>13, <1>16, <2>1, <2>2, <2>3 DEF Counts, Running
<1> QED BY <1>14, <1>15, <1>16

\* The row afterwards is what the next step needs to undo the difference.
LEMMA SampledRowOK ==
  ASSUME IInv, Sample, NEW a, SampledAs(a), NEW i, NEW r, AtRow(i, r)
  PROVE  RowOK(r, i)'
<1>1. /\ phase = "sample" /\ phase' = "schedule" /\ UNCHANGED sched /\ UNCHANGED num_spec
  BY DEF Sample
<1>2. /\ r \in DOMAIN out.k /\ i = Pos(r) /\ Drawing(i, r, a[i]) /\ PreparedRow(r, i) /\ Asks(r)
      /\ (r \in Drawn <=> sched[r].last)
  BY <1>1, SampledRow
<1>3. r \in Req /\ Running(r) /\ Live(r)
  BY <1>2 DEF IInv, Types, Asks, Running, Live
<1>4. PICK q, p : q = runner["last"].reqs[r] /\ p = runner'["last"].reqs[r]
  OBVIOUS
<1>5. /\ p.prevDraft = q.prevDraft
      /\ p.outs = q.outs + IF sched[r].last THEN 1 ELSE 0
  BY <1>2, <1>3, <1>4, SampledReqs
<1>6. PICK n, k, d, h : n = a[i] /\ k = out.k[r] /\ d = out.d[r] /\ h = H(r)
  OBVIOUS
<1>7. q.outs = sched[r].outs + h /\ q.prevDraft = d
  BY <1>2, <1>4, <1>6 DEF PreparedRow, Asks
<1>8. /\ n \in Nat /\ k \in Nat /\ d \in Nat /\ h \in Nat /\ sched[r].outs \in Nat
      /\ truth[r].comp \in Nat /\ truth[r].len \in Nat /\ num_spec \in Nat /\ d \in 0 .. num_spec
      /\ d > 0 => k = d + 1
      /\ runner["last"].gComp[i] = truth[r].comp
      /\ sched[r].last => truth[r].comp + k - d = truth[r].len
      /\ ~ sched[r].last => ~ (d > 0)
  <2>1. h \in Nat
    BY <1>3, <1>6, SampledSums
  <2>2. sched[r].outs \in Nat /\ num_spec \in Nat
    BY <1>3 DEF IInv, Types, SchedType
  <2> QED BY <1>2, <1>6, <2>1, <2>2 DEF Drawing
<1>9. H(r)' = h + IF sched[r].last THEN d + 1 ELSE 0
  BY <1>2, <1>3, <1>6, SampledSums
<1>10. p.outs + p.prevDraft >= sched[r].outs + H(r)'
  <2>1. CASE sched[r].last
    BY <1>5, <1>7, <1>8, <1>9, <2>1
  <2>2. CASE ~ sched[r].last
    BY <1>5, <1>7, <1>8, <1>9, <2>2
  <2> QED BY <2>1, <2>2
<1>11. PICK f : f = runner'["last"]
  OBVIOUS
<1>12. f = Batched(a)
  BY <1>11, SampledRunner DEF IInv, Stages
<1>13. /\ f.rows = runner["last"].rows /\ f.prevIdx = PrevIdxOf
       /\ f.prevTok = SampledTokens(runner["last"], a) /\ f.counts = CountsOf(a)
       /\ f.drafts = DraftsOf(a) /\ f.gComp = runner["last"].gComp
  BY <1>12 DEF Batched
<1>14. r \in DOMAIN f.prevIdx <=> sched[r].last
  BY <1>2, <1>13 DEF PrevIdxOf
<1>15. ASSUME ~ sched[r].last
       PROVE  f.rows[i].known = truth'[r].len /\ p.prevDraft = 0
  <2>1. runner["last"].rows[i].known = truth[r].len
    BY <1>2, <1>15 DEF PreparedRow
  <2>2. truth'[r].len = truth[r].len
    BY <1>1, <1>2, <1>3, <1>15, SampledTruth
  <2>3. d = 0
    BY <1>8, <1>15
  <2> QED BY <1>5, <1>7, <1>13, <2>1, <2>2, <2>3
<1>16. PICK o : o = AsyncGPUModelRunnerOutput(runner["last"], a)
  OBVIOUS
<1>17. flight' # <<>> /\ flight'[Len(flight')] = o
  <2>1. FlightShape /\ flight' = Append(flight, o) /\ Len(flight) \in Nat
    <3>1. FlightShape
      BY DEF IInv
    <3>2. flight' = Append(flight, o)
      BY <1>16 DEF SampledAs
    <3>3. Len(flight) \in 0 .. 2
      BY <3>1, Shapes
    <3> QED BY <3>1, <3>2, <3>3
  <2>2. Len(flight') = Len(flight) + 1 /\ flight'[Len(flight) + 1] = o
    BY <1>1, <2>1, AfterAppend
  <2>3. Len(flight') # 0
    BY <2>1, <2>2
  <2> QED BY <2>2, <2>3, ShortSequences
<1>18. ASSUME sched[r].last PROVE PrevOK(r, i, o)'
  <2>1. PICK g, l, u : g = sched[r].gen /\ l = truth[r].len /\ u = truth'[r]
    OBVIOUS
  <2>2. u.comp = l + n /\ u.len = l + n + 1 /\ u.acc = n + 1
    <3>1. n = a[Pos(r)]
      BY <1>2, <1>6
    <3>2. /\ truth'[r].comp = truth[r].len + a[Pos(r)]
          /\ truth'[r].len = truth[r].len + a[Pos(r)] + 1
          /\ truth'[r].acc = a[Pos(r)] + 1
      BY <1>1, <1>2, <1>3, <1>18, SampledTruth
    <3> QED BY <2>1, <3>1, <3>2
  <2>3. Asked(o, r, g) = d + 1 /\ New(o, r, g) = n + 1
    <3>1. EntryAs(o, r, g, n)
      BY <1>1, <1>2, <1>3, <1>6, <1>16, EntryFor
    <3> QED BY <1>2, <1>6, <1>18, <2>1, <3>1 DEF EntryAs
  <2>4. /\ i \in DOMAIN f.prevTok /\ f.prevTok[i] = Real(r, g, l + n)
        /\ num_spec > 0 =>
             /\ i \in DOMAIN f.counts /\ f.counts[i] = n + 1 /\ i \in DOMAIN f.drafts
             /\ f.drafts[i] = [j \in 1 .. num_spec |-> Draft(r, g, l + n + j, l + n + 1)]
    <3>1. RowDrawn(a, i, r)
      BY <1>1, SampledRow
    <3> QED BY <1>6, <1>13, <1>18, <2>1, <3>1 DEF RowDrawn
  <2>5. l \in Nat /\ n \in Nat /\ u.len - 1 = l + n /\ u.comp + 1 = u.len
    <3>1. l \in Nat /\ n \in Nat
      BY <1>8, <2>1
    <3> QED BY <2>2, <3>1
  <2>6. d > 0 => f.gComp[i] + u.acc = u.comp
    <3> SUFFICES ASSUME d > 0 PROVE f.gComp[i] + u.acc = u.comp
      OBVIOUS
    <3>1. k \in Nat /\ d \in Nat /\ k = d + 1 /\ truth[r].comp + k - d = l /\ truth[r].comp \in Nat
      BY <1>8, <1>18, <2>1
    <3>2. truth[r].comp + 1 = l
      BY <3>1
    <3>3. f.gComp[i] = truth[r].comp
      BY <1>8, <1>13
    <3> QED BY <2>2, <2>5, <3>1, <3>2, <3>3
  <2>7. f.prevTok[i] = Real(r, g, u.len - 1)
    BY <2>4, <2>5
  <2>8. num_spec > 0 =>
          f.drafts[i] = [j \in 1 .. num_spec |-> Draft(r, g, u.len - 1 + j, u.len)]
    <3>1. \A j \in 1 .. num_spec : (u.len - 1) + j = (l + n) + j
      BY <2>5
    <3> QED BY <2>2, <2>4, <3>1
  <2>9. p.prevDraft = d
    BY <1>5, <1>7
  <2>10. sched'[r].gen = g /\ truth'[r] = u /\ runner'["last"] = f /\ num_spec' = num_spec
         /\ f.reqs[r] = p
    BY <1>1, <1>4, <1>11, <2>1
  <2> QED BY <2>2, <2>3, <2>4, <2>5, <2>6, <2>7, <2>8, <2>9, <2>10 DEF PrevOK
<1>19. Running(r)'
  BY <1>1, <1>3 DEF Running
<1>20. CASE sched[r].last
  BY <1>1, <1>4, <1>10, <1>11, <1>14, <1>17, <1>18, <1>19, <1>20 DEF RowOK
<1>21. CASE ~ sched[r].last
  BY <1>1, <1>4, <1>10, <1>11, <1>14, <1>15, <1>19, <1>21 DEF RowOK
<1> QED BY <1>20, <1>21

\* The invariant survives sampling, whatever the rows accept.
LEMMA SampleKeeps == IInv /\ Sample => IInv'
<1> SUFFICES ASSUME IInv, Sample PROVE IInv'
  OBVIOUS
<1>1. /\ phase = "sample" /\ phase' = "schedule" /\ out' = NoOut
      /\ UNCHANGED sched /\ UNCHANGED num_spec
  BY DEF Sample
<1>2. PICK a : SampledAs(a)
  BY SampleIs
<1>3. PICK o : o = AsyncGPUModelRunnerOutput(runner["last"], a)
  OBVIOUS
<1>4. flight' = Append(flight, o)
  BY <1>2, <1>3 DEF SampledAs
<1>5. /\ Types /\ FlightShape /\ FlightOK /\ CountsOK /\ OutOK /\ Stages /\ ReqsOK /\ RowsShape
  BY DEF IInv
<1>6. PICK f : f = Batched(a)
  OBVIOUS
<1>7. runner' = [s \in DOMAIN runner |-> f] /\ "last" \in DOMAIN runner /\ runner'["last"] = f
  <2>1. runner' = [s \in DOMAIN runner |-> f]
    BY <1>2, <1>6, SampledRunner
  <2>2. "last" \in DOMAIN runner
    BY <1>5 DEF Stages
  <2> QED BY <2>1, <2>2
<1>8. /\ f.rows = runner["last"].rows /\ f.prevIdx = PrevIdxOf
      /\ f.counts = CountsOf(a) /\ f.drafts = DraftsOf(a) /\ f.prevDrafts = runner["last"].prevDrafts
      /\ f = [reqs |-> f.reqs, rows |-> f.rows, prevIdx |-> f.prevIdx, prevTok |-> f.prevTok,
              counts |-> f.counts, drafts |-> f.drafts, prevDrafts |-> f.prevDrafts,
              gComp |-> f.gComp, gAcc |-> f.gAcc, mask |-> f.mask, input |-> f.input]
  BY <1>6 DEF Batched
<1>9. \A r \in Req : (Live(r)' <=> Live(r))
  BY <1>1 DEF Live
<1>10. Types'
  <2>1. truth' \in [Req -> TruthType]
    <3>1. \A r \in Req : truth'[r] \in TruthType
      BY <1>1, <1>2, SampledTruth
    <3>2. truth' = [r \in Req |-> truth'[r]]
      BY <1>2 DEF SampledAs
    <3> QED BY <3>1, <3>2
  <2> QED BY <1>1, <1>5, <2>1, ShortSequences DEF Types, NoOut
<1>11. FlightShape' /\ Len(flight') = Len(flight) + 1 /\ flight'[Len(flight')] = o
       /\ DOMAIN flight' = 1 .. Len(flight')
       /\ \A i \in DOMAIN flight' : flight'[i] = o \/ (i \in DOMAIN flight /\ flight'[i] = flight[i])
  <2>1. Len(flight) \in 0 .. 1 /\ DOMAIN flight = 1 .. Len(flight)
    BY <1>1, <1>5, Shapes
  <2>2. /\ flight' = IF Len(flight) = 1 THEN <<flight[1], o>> ELSE <<o>>
        /\ Len(flight') = Len(flight) + 1 /\ (Len(flight) = 1 => flight'[1] = flight[1])
        /\ flight'[Len(flight) + 1] = o /\ DOMAIN flight' = 1 .. Len(flight) + 1
    BY <1>1, <1>4, <1>5, AfterAppend
  <2>3. FlightShape'
    BY <1>1, <2>1, <2>2, ShortSequences DEF FlightShape
  <2> QED BY <2>1, <2>2, <2>3
<1>12. FlightOK'
  <2>1. EntryOK(o)'
    <3> SUFFICES ASSUME NEW r \in Req, NEW g \in Nat
                 PROVE  /\ Asked(o, r, g) \in Nat /\ New(o, r, g) \in Nat
                        /\ New(o, r, g) <= Asked(o, r, g) /\ Asked(o, r, g) <= num_spec + 1
                        /\ New(o, r, g) = 0 => Asked(o, r, g) = 0
                        /\ g > sched[r].gen => Asked(o, r, g) = 0 /\ Said(o, r, g) = <<>>
      BY <1>1 DEF EntryOK
    <3>1. PICK n : n = a[Pos(r)]
      OBVIOUS
    <3>2. EntryAs(o, r, g, n)
      BY <1>1, <1>2, <1>3, <3>1, EntryFor
    <3>3. num_spec \in Nat /\ sched[r].gen \in Nat
      BY <1>5 DEF Types, SchedType
    <3>4. CASE r \in DOMAIN out.k /\ sched[r].last /\ g = sched[r].gen
      <4>1. n \in Nat /\ n <= out.d[r] /\ out.d[r] \in 0 .. num_spec
        BY <1>1, <1>2, <3>1, <3>4, PosIs DEF Drawing
      <4>2. Asked(o, r, g) = out.d[r] + 1 /\ New(o, r, g) = n + 1
        BY <3>2, <3>4 DEF EntryAs
      <4> QED BY <3>3, <3>4, <4>1, <4>2
    <3>5. CASE ~ (r \in DOMAIN out.k /\ sched[r].last /\ g = sched[r].gen)
      <4>1. Asked(o, r, g) = 0 /\ New(o, r, g) = 0 /\ Said(o, r, g) = <<>>
        BY <3>2, <3>5 DEF EntryAs
      <4> QED BY <3>3, <4>1
    <3> QED BY <3>4, <3>5
  <2>2. ASSUME NEW i \in DOMAIN flight' PROVE EntryOK(flight[i])'
    <3>1. PICK x : x = flight'[i]
      OBVIOUS
    <3>2. EntryOK(x)'
      <4>1. CASE x = o
        BY <2>1, <4>1
      <4>2. CASE i \in DOMAIN flight /\ x = flight[i]
        <5>1. EntryOK(x)
          BY <1>5, <4>2 DEF FlightOK
        <5> QED BY <1>1, <5>1 DEF EntryOK
      <4> QED BY <1>11, <3>1, <4>1, <4>2
    <3> QED BY <3>1, <3>2
  <2>3. ASSUME NEW r \in Req, Live(r)
        PROVE  Continues(flight, r, sched[r].gen, Prompt + sched[r].outs)'
    <3>1. Continues(flight', r, sched[r].gen, Prompt + sched[r].outs)
      BY <1>2, <2>3, SampledSums
    <3> QED BY <1>1, <3>1
  <2> QED BY <1>9, <2>2, <2>3 DEF FlightOK
<1>13. CountsOK'
  BY <1>2, <1>9, SampledCounts DEF CountsOK
<1>14. OutOK'
  BY <1>1 DEF OutOK
<1>15. Stages'
  <2>1. \A s \in DOMAIN runner' : runner'[s] = f /\ (s # "last" => num_spec' = 0)
    BY <1>1, <1>5, <1>7 DEF Stages
  <2>2. ASSUME num_spec = 0 PROVE f.counts = <<>> /\ f.drafts = <<>> /\ f.prevDrafts = <<>>
    BY <1>5, <1>8, <2>2 DEF Stages, CountsOf, DraftsOf
  <2> QED BY <1>1, <1>7, <1>8, <2>1, <2>2 DEF Stages, IsBatch
<1>16. ReqsOK'
  BY <1>2, <1>9, SampledReqs DEF ReqsOK
<1>17. RowsShape'
  BY <1>5, <1>7, <1>8 DEF RowsShape
<1>18. BatchOK'
  <2>1. ASSUME NEW r \in DOMAIN f.prevIdx
        PROVE  f.prevIdx[r] \in 1 .. Len(f.rows) /\ f.rows[f.prevIdx[r]].req = r
    <3>1. r \in Drawn /\ f.prevIdx[r] = CHOOSE i \in SampledRows(runner["last"]) : runner["last"].rows[i].req = r
      BY <1>8, <2>1 DEF PrevIdxOf
    <3>2. f.prevIdx[r] \in SampledRows(runner["last"]) /\ runner["last"].rows[f.prevIdx[r]].req = r
      BY <3>1 DEF Drawn
    <3>3. DOMAIN runner["last"].rows = 1 .. Len(runner["last"].rows)
      BY <1>5 DEF RowsShape
    <3> QED BY <1>8, <3>2, <3>3 DEF SampledRows
  <2>2. ASSUME NEW i \in 1 .. Len(f.rows) PROVE RowOK(f.rows[i].req, i)'
    <3>1. PICK r : r = f.rows[i].req
      OBVIOUS
    <3>2. AtRow(i, r)
      BY <1>8, <3>1 DEF AtRow
    <3>3. RowOK(r, i)'
      BY <1>2, <3>2, SampledRowOK
    <3> QED BY <3>1, <3>3
  <2>3. ASSUME NEW r \in Req, r \notin DOMAIN f.prevIdx
        PROVE  Asked(flight[Len(flight)], r, sched[r].gen)' = 0
    <3>1. EntryAs(o, r, sched[r].gen, a[Pos(r)])
      BY <1>1, <1>2, <1>3, EntryFor
    <3>2. ~ (r \in DOMAIN out.k /\ sched[r].last)
      BY <1>1, <1>8, <2>3, DrawnIs DEF PrevIdxOf
    <3>3. Asked(o, r, sched[r].gen) = 0
      BY <3>1, <3>2 DEF EntryAs
    <3> QED BY <1>1, <1>11, <3>3
  <2> QED BY <1>7, <2>1, <2>2, <2>3 DEF BatchOK
<1>19. SampleOK'
  BY <1>1 DEF SampleOK
<1> QED BY <1>10, <1>11, <1>12, <1>13, <1>14, <1>15, <1>16, <1>17, <1>18, <1>19 DEF IInv

-----------------------------------------------------------------------------
\* The counts of the scheduler and the batch of the runner fit what is really computed,
\* whatever is in flight: the invariant the theorems below rest on.
THEOREM CountsFit == Spec => []IInv
<1>1. Init => IInv
  BY InitHolds
<1>2. IInv /\ [Next]_vars => IInv'
  <2> SUFFICES ASSUME IInv, [Next]_vars PROVE IInv'
    OBVIOUS
  <2>1. CASE Schedule
    BY <2>1, ScheduleKeeps
  <2>2. CASE Report
    BY <2>2, ReportKeeps
  <2>3. CASE Execute
    BY <2>3, ExecuteBatchKeeps, ExecuteNothingKeeps
  <2>4. CASE Sample
    BY <2>4, SampleKeeps
  <2>5. CASE UNCHANGED vars
    <3>1. /\ UNCHANGED num_spec /\ UNCHANGED sched /\ UNCHANGED out /\ UNCHANGED flight
          /\ UNCHANGED truth /\ UNCHANGED runner /\ UNCHANGED phase
      BY <2>5 DEF vars
    <3>2. Types' /\ FlightShape' /\ FlightOK'
      <4>1. Types' /\ FlightShape'
        BY <3>1 DEF IInv, Types, FlightShape
      <4>2. \A o : EntryOK(o) => EntryOK(o)'
        BY <3>1 DEF EntryOK
      <4>3. ASSUME NEW i \in DOMAIN flight' PROVE EntryOK(flight[i])'
        <5>1. PICK x : x = flight[i]
          OBVIOUS
        <5>2. EntryOK(x)'
          BY <3>1, <4>2, <5>1 DEF IInv, FlightOK
        <5>3. flight'[i] = x
          BY <3>1, <5>1
        <5> QED BY <5>2, <5>3
      <4>4. \A r \in Req : Live(r)' => Continues(flight, r, sched[r].gen, Prompt + sched[r].outs)'
        BY <3>1 DEF IInv, FlightOK, Live
      <4> QED BY <4>1, <4>3, <4>4 DEF FlightOK
    <3>3. CountsOK' /\ OutOK'
      <4>1. \A r \in Req : /\ H(r)' = H(r) /\ N(r)' = N(r) /\ (Live(r)' <=> Live(r))
                           /\ (Running(r)' <=> Running(r)) /\ (Stepping(r)' <=> Stepping(r))
        BY <3>1 DEF H, N, Live, Running, Stepping
      <4>2. \A r \in Req : Counts(r) => Counts(r)'
        BY <3>1, <4>1 DEF Counts
      <4>3. DOMAIN out.k \subseteq Req
        BY DEF IInv, Types
      <4>4. \A r \in DOMAIN out.k : Asks(r) => Asks(r)'
        BY <3>1, <4>1, <4>3 DEF Asks
      <4>5. CountsOK'
        BY <4>1, <4>2 DEF IInv, CountsOK
      <4>6. OutOK'
        <5>1. \A r \in out.fresh \cup out.resumed : H(r)' = H(r)
          BY <3>1 DEF H
        <5>2. \A r \in DOMAIN out.k : H(r)' = H(r)
          BY <3>1 DEF H
        <5> QED BY <3>1, <4>1, <4>4, <5>1, <5>2 DEF IInv, OutOK
      <4> QED BY <4>5, <4>6
    <3>4. Stages' /\ RowsShape'
      BY <3>1 DEF IInv, Stages, IsBatch, RowsShape
    <3>5. ReqsOK' /\ BatchOK'
      <4>1. \A r : ReqOK(r) => ReqOK(r)'
        BY <3>1 DEF ReqOK, H
      <4>2. \A r, i : RowOK(r, i) => RowOK(r, i)'
        BY <3>1 DEF RowOK, PrevOK, H, Running
      <4>3. ReqsOK'
        BY <3>1, <4>1 DEF IInv, ReqsOK, Live
      <4>4. ASSUME NEW i \in 1 .. Len(runner["last"].rows), NEW r, r = runner["last"].rows[i].req,
                   Stays(r)', phase # "sample"
            PROVE  RowOK(r, i)'
        <5>1. Stays(r)
          BY <3>1, <4>4 DEF Stays
        <5>2. RowOK(r, i)
          BY <4>4, <5>1 DEF IInv, BatchOK
        <5> QED BY <4>2, <5>2
      <4>5. ASSUME NEW i \in 1 .. Len(runner["last"].rows), phase # "sample"
            PROVE  Stays(runner["last"].rows[i].req)' => RowOK(runner["last"].rows[i].req, i)'
        <5>1. PICK r : r = runner["last"].rows[i].req
          OBVIOUS
        <5>2. Stays(r)' => RowOK(r, i)'
          BY <4>4, <4>5, <5>1
        <5>3. runner'["last"].rows[i].req = r
          BY <3>1, <5>1
        <5> QED BY <5>2, <5>3
      <4>6. \A r \in Req : Live(r)' <=> Live(r)
        BY <3>1 DEF Live
      <4>7. BatchOK'
        BY <3>1, <4>5, <4>6 DEF IInv, BatchOK
      <4> QED BY <4>3, <4>7
    <3>6. SampleOK'
      <4>1. ASSUME NEW r, NEW i PROVE PreparedRow(r, i) => PreparedRow(r, i)'
        BY <3>1 DEF PreparedRow, Wanted
      <4>2. ASSUME NEW i \in 1 .. Len(runner["last"].rows), phase = "sample"
            PROVE  PreparedRow(runner["last"].rows[i].req, i)'
        <5>1. PICK r : r = runner["last"].rows[i].req
          OBVIOUS
        <5>2. PreparedRow(r, i)
          BY <4>2, <5>1 DEF IInv, SampleOK
        <5>3. PreparedRow(r, i)'
          BY <4>1, <5>2
        <5>4. runner'["last"].rows[i].req = r
          BY <3>1, <5>1
        <5> QED BY <5>3, <5>4
      <4> QED BY <3>1, <4>2 DEF IInv, SampleOK
    <3> QED BY <3>2, <3>3, <3>4, <3>5, <3>6 DEF IInv
  <2> QED BY <2>1, <2>2, <2>3, <2>4, <2>5 DEF Next
<1> QED BY <1>1, <1>2, PTL DEF Spec

\* The tokens and positions the forward is launched with are the request's own.
THEOREM InputsAlwaysOwn == Spec => []InputsAreOwn
<1>1. IInv => InputsAreOwn
  <2> SUFFICES ASSUME IInv, NEW s \in DOMAIN runner, NEW i \in Batch(s),
                      NEW r, r = runner[s].rows[i].req
               PROVE  /\ runner[s].rows[i].comp = truth[r].comp
                      /\ \A j \in DOMAIN runner[s].input[i] :
                            runner[s].input[i][j] = Wanted(r, truth[r].comp + j - 1)
    BY DEF InputsAreOwn
  <2>1. phase = "sample" /\ i \in DOMAIN runner["last"].rows /\ runner[s] = runner["last"]
    BY DEF Batch, IInv, Stages
  <2>2. i \in 1 .. Len(runner["last"].rows)
    BY <2>1 DEF IInv, RowsShape
  <2>3. PreparedRow(r, i)
    BY <2>1, <2>2 DEF IInv, SampleOK
  <2>4. /\ runner["last"].rows[i].comp = truth[r].comp
        /\ runner["last"].input[i] = [j \in 1 .. out.k[r] |-> Wanted(r, truth[r].comp + j - 1)]
    BY <2>3 DEF PreparedRow
  <2>5. \A j \in DOMAIN runner["last"].input[i] :
            runner["last"].input[i][j] = Wanted(r, truth[r].comp + j - 1)
    BY <2>4
  <2> QED BY <2>1, <2>4, <2>5
<1> QED BY <1>1, CountsFit, PTL

\* A hybrid model picks its state with the number of tokens the request's own previous
\* step has accepted.
THEOREM AcceptedAlwaysPrevious == Spec => []AcceptedIsPrevious
<1>1. IInv => AcceptedIsPrevious
  <2> SUFFICES ASSUME IInv, NEW s \in DOMAIN runner, NEW i \in Batch(s),
                      prev_positions(runner[s])[i] > 0, NEW r, r = runner[s].rows[i].req
               PROVE  runner[s].gAcc[i] = truth[r].acc
    BY DEF AcceptedIsPrevious
  <2>1. phase = "sample" /\ i \in DOMAIN runner["last"].rows /\ runner[s] = runner["last"]
    BY DEF Batch, IInv, Stages
  <2>2. i \in 1 .. Len(runner["last"].rows)
    BY <2>1 DEF IInv, RowsShape
  <2>3. PreparedRow(r, i)
    BY <2>1, <2>2 DEF IInv, SampleOK
  <2> QED BY <2>1, <2>3 DEF PreparedRow
<1> QED BY <1>1, CountsFit, PTL

-----------------------------------------------------------------------------
\* One sequence, and two behind each other.
LEMMA FlattenNone == FlattenSeq(<<>>) = <<>>
BY ShortSequences DEF FlattenSeq

LEMMA FlattenOne ==
  ASSUME NEW x
  PROVE  FlattenSeq(<<x>>) = x
<1>1. PICK s : s = <<x>>
  OBVIOUS
<1>2. Len(s) = 1 /\ s[1] = x /\ s # <<>>
  BY <1>1, ShortSequences
<1> DEFINE F(f) == f = [i \in 1 .. Len(s) |-> IF i = 1 THEN s[i] ELSE f[i - 1] \o s[i]]
<1>3. PICK f : f = [i \in 1 .. 1 |-> x]
  OBVIOUS
<1>4. f = [i \in 1 .. 1 |-> IF i = 1 THEN s[i] ELSE f[i - 1] \o s[i]]
  BY <1>2, <1>3
<1>5. F(f)
  BY <1>2, <1>4
<1>6. PICK h : h = CHOOSE g : F(g)
  OBVIOUS
<1>7. F(h)
  BY <1>5, <1>6
<1>8. h[1] = x
  BY <1>2, <1>7
<1>9. FlattenSeq(s) = h[Len(s)]
  BY <1>2, <1>6 DEF FlattenSeq
<1> QED BY <1>1, <1>2, <1>8, <1>9

LEMMA FlattenTwo ==
  ASSUME NEW x, NEW y
  PROVE  FlattenSeq(<<x, y>>) = x \o y
<1>1. PICK s : s = <<x, y>>
  OBVIOUS
<1>2. Len(s) = 2 /\ s[1] = x /\ s[2] = y /\ s # <<>>
  BY <1>1, ShortSequences
<1> DEFINE F(f) == f = [i \in 1 .. Len(s) |-> IF i = 1 THEN s[i] ELSE f[i - 1] \o s[i]]
<1>3. PICK f : f = [i \in 1 .. 2 |-> IF i = 1 THEN x ELSE x \o y]
  OBVIOUS
<1>4. ASSUME NEW i \in 1 .. 2
      PROVE  f[i] = IF i = 1 THEN s[i] ELSE f[i - 1] \o s[i]
  <2>1. CASE i = 1
    BY <1>2, <1>3, <2>1
  <2>2. CASE i = 2
    <3>1. f[i - 1] = x
      BY <1>3, <2>2
    <3> QED BY <1>2, <1>3, <2>2, <3>1
  <2> QED BY <2>1, <2>2
<1>5. F(f)
  <2>1. f = [i \in 1 .. 2 |-> f[i]]
    BY <1>3
  <2> QED BY <1>2, <1>4, <2>1
<1>6. PICK h : h = CHOOSE g : F(g)
  OBVIOUS
<1>7. F(h)
  BY <1>5, <1>6
<1>8. h[1] = x
  BY <1>2, <1>7
<1>9. h[2] = x \o y
  BY <1>2, <1>7, <1>8
<1>10. FlattenSeq(s) = h[Len(s)]
  BY <1>2, <1>6 DEF FlattenSeq
<1> QED BY <1>1, <1>2, <1>9, <1>10

\* Two runs of tokens behind each other are one.
LEMMA RunsJoin ==
  ASSUME NEW r, NEW g, NEW from \in Int, NEW n \in Nat, NEW m \in Nat
  PROVE  Run(r, g, from, n) \o Run(r, g, from + n, m) = Run(r, g, from, n + m)
<1>1. PICK x, y, z : /\ x = Run(r, g, from, n) /\ y = Run(r, g, from + n, m)
                     /\ z = Run(r, g, from, n + m)
  OBVIOUS
<1>2. /\ x = [j \in 1 .. n |-> Real(r, g, from + j - 1)]
      /\ y = [j \in 1 .. m |-> Real(r, g, from + n + j - 1)]
      /\ z = [j \in 1 .. n + m |-> Real(r, g, from + j - 1)]
  BY <1>1 DEF Run
<1>3. Len(x) = n /\ Len(y) = m
  BY <1>2
<1>4. x \o y = [j \in 1 .. n + m |-> IF j <= n THEN x[j] ELSE y[j - n]]
  <2>1. PICK S : S = {Real(r, g, p) : p \in Int}
    OBVIOUS
  <2>2. x \in Seq(S)
    <3>1. \A j \in 1 .. n : Real(r, g, from + j - 1) \in S
      BY <2>1
    <3>2. x \in [1 .. n -> S]
      BY <1>2, <3>1
    <3> QED BY <3>2, SeqDef
  <2>3. y \in Seq(S)
    <3>1. \A j \in 1 .. m : Real(r, g, from + n + j - 1) \in S
      BY <2>1
    <3>2. y \in [1 .. m -> S]
      BY <1>2, <3>1
    <3> QED BY <3>2, SeqDef
  <2>4. /\ x \o y \in Seq(S) /\ Len(x \o y) = n + m
        /\ \A j \in 1 .. n + m : (x \o y)[j] = IF j <= n THEN x[j] ELSE y[j - n]
    BY <1>3, <2>2, <2>3, ConcatProperties
  <2>5. PICK w : w = x \o y
    OBVIOUS
  <2>6. w = [j \in 1 .. n + m |-> w[j]]
    BY <2>4, <2>5, LenProperties
  <2> QED BY <2>4, <2>5, <2>6
<1>5. ASSUME NEW j \in 1 .. n + m PROVE (IF j <= n THEN x[j] ELSE y[j - n]) = z[j]
  <2>1. z[j] = Real(r, g, from + j - 1)
    BY <1>2
  <2>2. CASE j <= n
    <3>1. j \in 1 .. n
      BY <2>2
    <3> QED BY <1>2, <2>1, <2>2, <3>1
  <2>3. CASE ~ (j <= n)
    <3>1. j - n \in 1 .. m /\ from + n + (j - n) - 1 = from + j - 1
      BY <2>3
    <3>2. y[j - n] = Real(r, g, from + n + (j - n) - 1)
      BY <1>2, <3>1
    <3> QED BY <2>1, <2>3, <3>1, <3>2
  <2> QED BY <2>2, <2>3
<1>6. z = [j \in 1 .. n + m |-> z[j]]
  BY <1>2
<1>7. x \o y = z
  BY <1>4, <1>5, <1>6
<1> QED BY <1>1, <1>7

\* What the steps in flight hold continues, for every request, what the scheduler has of it,
\* up to its last token.
THEOREM OutputsAlwaysTrue == Spec => []OutputsAreTrue
<1>1. IInv => OutputsAreTrue
  <2> SUFFICES ASSUME IInv, phase = "schedule", NEW r \in Req, Live(r)
               PROVE  FlattenSeq([i \in DOMAIN flight |-> Said(flight[i], r, sched[r].gen)])
                        = [j \in 1 .. truth[r].len - (Prompt + sched[r].outs) |->
                              Real(r, sched[r].gen, Prompt + sched[r].outs + j - 1)]
    BY DEF OutputsAreTrue, Said, Live
  <2>1. PICK g, from : g = sched[r].gen /\ from = Prompt + sched[r].outs
    OBVIOUS
  <2>2. /\ FlightShape /\ from \in Int /\ g \in Nat /\ truth[r].len \in Nat
        /\ \A i \in DOMAIN flight : New(flight[i], r, g) \in Nat
    <3>1. sched[r] \in SchedType /\ truth[r] \in TruthType /\ FlightShape
      BY DEF IInv, Types
    <3>2. \A i \in DOMAIN flight : EntryOK(flight[i])
      BY DEF IInv, FlightOK
    <3>3. g \in Nat /\ from \in Int
      BY <2>1, <3>1, BatchAssumption DEF SchedType
    <3> QED BY <2>1, <3>1, <3>2, <3>3, EntryIs DEF TruthType
  <2>3. Continues(flight, r, g, from)
    BY <2>1 DEF IInv, FlightOK
  <2>4. truth[r].len = from + SumNew(flight, r, g)
    BY <2>1 DEF IInv, CountsOK, Counts, N
  <2>5. FlattenSeq([i \in DOMAIN flight |-> Said(flight[i], r, g)]) = Run(r, g, from, SumNew(flight, r, g))
    <3>1. PICK s : s = [i \in DOMAIN flight |-> Said(flight[i], r, g)]
      OBVIOUS
    <3>2. Len(flight) \in 0 .. 2 /\ DOMAIN flight = 1 .. Len(flight)
      BY <2>2, Shapes
    <3>3. CASE Len(flight) = 0
      <4>1. s = <<>> /\ SumNew(flight, r, g) = 0
        BY <3>1, <3>2, <3>3 DEF SumNew
      <4>2. Run(r, g, from, 0) = <<>>
        BY DEF Run
      <4> QED BY <3>1, <4>1, <4>2, FlattenNone
    <3>4. CASE Len(flight) = 1
      <4>1. PICK x, n : x = Said(flight[1], r, g) /\ n = New(flight[1], r, g)
        OBVIOUS
      <4>2. s = <<x>>
        BY <3>1, <3>2, <3>4, <4>1
      <4>3. n \in Nat
        BY <2>2, <3>2, <3>4, <4>1
      <4>4. x = Run(r, g, from, n) /\ SumNew(flight, r, g) = n
        BY <2>3, <3>4, <4>1, <4>3 DEF Continues, SumNew
      <4>5. FlattenSeq(<<x>>) = x
        BY FlattenOne
      <4> QED BY <3>1, <4>2, <4>4, <4>5
    <3>5. CASE Len(flight) = 2
      <4>1. PICK x, y, n, m : /\ x = Said(flight[1], r, g) /\ n = New(flight[1], r, g)
                              /\ y = Said(flight[2], r, g) /\ m = New(flight[2], r, g)
        OBVIOUS
      <4>2. s = <<x, y>>
        BY <3>1, <3>2, <3>5, <4>1
      <4>3. n \in Nat /\ m \in Nat
        BY <2>2, <3>2, <3>5, <4>1
      <4>4. x = Run(r, g, from, n) /\ y = Run(r, g, from + n, m) /\ SumNew(flight, r, g) = n + m
        BY <2>3, <3>5, <4>1, <4>3 DEF Continues, SumNew
      <4>5. FlattenSeq(<<x, y>>) = x \o y
        BY FlattenTwo
      <4>6. x \o y = Run(r, g, from, n + m)
        <5>1. from \in Int
          BY <2>2
        <5>2. Run(r, g, from, n) \o Run(r, g, from + n, m) = Run(r, g, from, n + m)
          BY <5>1, <4>3, RunsJoin
        <5> QED BY <4>4, <5>2
      <4> QED BY <3>1, <4>2, <4>4, <4>5, <4>6
    <3> QED BY <3>2, <3>3, <3>4, <3>5
  <2>6. SumNew(flight, r, g) \in Nat
    BY <2>1, SumsAre DEF IInv, N
  <2>7. truth[r].len - from = SumNew(flight, r, g)
    BY <2>2, <2>4, <2>6
  <2>8. PICK k : k = SumNew(flight, r, g)
    OBVIOUS
  <2>9. Run(r, g, from, k) = [j \in 1 .. k |-> Real(r, g, from + j - 1)]
    BY DEF Run
  <2>10. FlattenSeq([i \in DOMAIN flight |-> Said(flight[i], r, g)])
           = [j \in 1 .. truth[r].len - from |-> Real(r, g, from + j - 1)]
    BY <2>5, <2>7, <2>8, <2>9
  <2> QED BY <2>1, <2>10
<1> QED BY <1>1, CountsFit, PTL

-----------------------------------------------------------------------------
(* Sums and concatenations over a batch of any size: induction over sets    *)
(* of numbers.                                                              *)

LEMMA LeastNatural ==
  ASSUME NEW T \in SUBSET Nat, T # {}
  PROVE  \E m \in T : \A k \in T : m <= k
<1> DEFINE R == OpToRel(<, Nat)
<1>1. IsWellFoundedOn(R, Nat)
  BY NatLessThanWellFounded, Zenon
<1>2. \A x, y \in Nat : x < y => <<x, y>> \in R
  BY Zenon DEF OpToRel
<1> HIDE DEF R
<1>3. PICK m \in T : \A y \in T : ~ (<<y, m>> \in R)
  BY <1>1, WFMin
<1>4. ASSUME NEW k \in T PROVE m <= k
  <2>1. m \in Nat /\ k \in Nat
    OBVIOUS
  <2>2. ~ (k < m)
    BY <1>2, <1>3, <2>1
  <2> QED BY <2>1, <2>2
<1> QED BY <1>4

LEMMA SetInduction ==
  ASSUME NEW T \in SUBSET Nat, 0 \in T, \A k \in T : k + 1 \in T
  PROVE  T = Nat
<1> SUFFICES ASSUME Nat \ T # {} PROVE FALSE
  OBVIOUS
<1>1. PICK m \in Nat \ T : \A k \in Nat \ T : m <= k
  BY LeastNatural
<1>2. m # 0 /\ m - 1 \in Nat /\ (m - 1) + 1 = m
  OBVIOUS
<1>3. m - 1 \in T
  BY <1>1, <1>2
<1> QED BY <1>2, <1>3

\* g has the sums of the first 0, 1, .. n numbers of l.
SumsOf(g, l, n) ==
    /\ g \in [0 .. n -> Nat] /\ g[0] = 0
    /\ \A k \in 1 .. n : g[k] = g[k - 1] + l[k]
    /\ \A i, j \in 0 .. n : i <= j => g[i] <= g[j]

\* Such sums exist.
LEMMA SumsExist ==
  ASSUME NEW n \in Nat, NEW l \in [1 .. n -> Nat]
  PROVE  \E g : SumsOf(g, l, n)
<1> DEFINE T == {d \in Nat : d <= n => \E g : SumsOf(g, l, d)}
<1>1. 0 \in T
  <2> DEFINE g == [k \in 0 .. 0 |-> 0]
  <2>1. g \in [0 .. 0 -> Nat] /\ g[0] = 0
    OBVIOUS
  <2> HIDE DEF g
  <2>2. \A i, j \in 0 .. 0 : g[i] <= g[j]
    BY <2>1
  <2>3. \A k \in 1 .. 0 : g[k] = g[k - 1] + l[k]
    OBVIOUS
  <2>4. SumsOf(g, l, 0)
    BY <2>1, <2>2, <2>3 DEF SumsOf
  <2> QED BY <2>4
<1>2. ASSUME NEW d \in T PROVE d + 1 \in T
  <2> SUFFICES ASSUME d + 1 <= n PROVE \E g : SumsOf(g, l, d + 1)
    OBVIOUS
  <2>1. PICK e : e = d + 1
    OBVIOUS
  <2>2. d \in Nat /\ d <= n /\ e \in 1 .. n /\ e - 1 = d /\ e \in Nat
    BY <2>1
  <2>3. PICK g : SumsOf(g, l, d)
    BY <2>2
  <2>4. /\ g \in [0 .. d -> Nat] /\ g[0] = 0 /\ l[e] \in Nat
        /\ \A k \in 1 .. d : g[k] = g[k - 1] + l[k]
        /\ \A i, j \in 0 .. d : i <= j => g[i] <= g[j]
    BY <2>2, <2>3 DEF SumsOf
  <2> DEFINE f == [k \in 0 .. e |-> IF k = e THEN g[d] + l[e] ELSE g[k]]
  <2>5. /\ f[e] = g[d] + l[e] /\ f[e] \in Nat /\ f[e] >= g[d]
        /\ \A k \in 0 .. d : f[k] = g[k] /\ f[k] \in Nat
    <3>1. d \in 0 .. d /\ e \in 0 .. e /\ g[d] \in Nat
      BY <2>2, <2>4
    <3>2. \A k \in 0 .. d : k \in 0 .. e /\ k # e
      BY <2>1, <2>2
    <3> QED BY <2>4, <3>1, <3>2
  <2>6. f \in [0 .. e -> Nat]
    <3>1. \A k \in 0 .. e : k = e \/ k \in 0 .. d
      BY <2>1, <2>2
    <3> QED BY <2>4, <2>5, <3>1
  <2> HIDE DEF f
  <2>7. f[0] = 0
    BY <2>2, <2>4, <2>5
  <2>8. ASSUME NEW k \in 1 .. e PROVE f[k] = f[k - 1] + l[k]
    <3>1. CASE k = e
      <4>1. d \in 0 .. d
        BY <2>2
      <4> QED BY <2>2, <2>5, <3>1, <4>1
    <3>2. CASE k # e
      <4>1. k \in 1 .. d /\ k \in 0 .. d /\ k - 1 \in 0 .. d
        BY <2>1, <2>2, <3>2
      <4> QED BY <2>4, <2>5, <4>1
    <3> QED BY <3>1, <3>2
  <2>9. ASSUME NEW i \in 0 .. e, NEW j \in 0 .. e, i <= j PROVE f[i] <= f[j]
    <3>1. CASE j = e /\ i = e
      BY <2>5, <3>1
    <3>2. CASE j = e /\ i # e
      <4>1. i \in 0 .. d /\ d \in 0 .. d /\ i <= d
        BY <2>1, <2>2, <3>2
      <4>2. f[i] = g[i] /\ g[i] <= g[d] /\ g[i] \in Nat /\ g[d] \in Nat
        BY <2>4, <2>5, <4>1
      <4> QED BY <2>5, <3>2, <4>2
    <3>3. CASE j # e
      <4>1. i \in 0 .. d /\ j \in 0 .. d
        BY <2>1, <2>2, <2>9, <3>3
      <4> QED BY <2>4, <2>5, <2>9, <4>1
    <3> QED BY <3>1, <3>2, <3>3
  <2>10. SumsOf(f, l, e)
    BY <2>6, <2>7, <2>8, <2>9 DEF SumsOf
  <2> QED BY <2>1, <2>10
<1>3. T = Nat
  <2>1. T \in SUBSET Nat
    OBVIOUS
  <2> HIDE DEF T
  <2> QED BY <2>1, <1>1, <1>2, SetInduction
<1>4. n \in T
  BY <1>3
<1> QED BY <1>4

\* CumSum gives them.
LEMMA CumSumIs ==
  ASSUME NEW n \in Nat, NEW l \in [1 .. n -> Nat]
  PROVE  \E g : SumsOf(g, l, n) /\ CumSum(l) = [i \in 1 .. n |-> g[i]]
<1>1. PICK f : SumsOf(f, l, n)
  BY SumsExist
<1>2. Len(l) = n /\ DOMAIN l = 1 .. n
  <2>1. l \in Seq(Nat)
    BY SeqDef
  <2> QED BY <2>1, LenProperties
<1> DEFINE Rec(t) == [i \in 0 .. Len(l) |-> IF i = 0 THEN 0 ELSE t[i - 1] + l[i]]
           sum == CHOOSE t : t = Rec(t)
<1>3. f = Rec(f)
  <2>1. /\ f \in [0 .. n -> Nat] /\ f[0] = 0
        /\ \A k \in 1 .. n : f[k] = f[k - 1] + l[k]
    BY <1>1 DEF SumsOf
  <2>2. ASSUME NEW i \in 0 .. n PROVE f[i] = IF i = 0 THEN 0 ELSE f[i - 1] + l[i]
    <3>1. i # 0 => i \in 1 .. n
      OBVIOUS
    <3> QED BY <2>1, <3>1
  <2>3. f = [i \in 0 .. n |-> f[i]]
    BY <2>1
  <2> QED BY <1>2, <2>2, <2>3
<1>4. sum = Rec(sum)
  <2> HIDE DEF Rec
  <2> QED BY <1>3
<1>5. CumSum(l) = [i \in DOMAIN l |-> sum[i]]
  BY DEF CumSum
<1> HIDE DEF sum
<1>6. /\ sum = [i \in 0 .. n |-> sum[i]]
      /\ \A i \in 0 .. n : sum[i] = IF i = 0 THEN 0 ELSE sum[i - 1] + l[i]
  BY <1>2, <1>4
<1> HIDE DEF Rec
<1> DEFINE T == {d \in Nat : d <= n => sum[d] = f[d]}
<1>7. 0 \in T
  <2>1. 0 \in 0 .. n
    OBVIOUS
  <2> QED BY <1>1, <1>6, <2>1 DEF SumsOf
<1>8. ASSUME NEW d \in T PROVE d + 1 \in T
  <2> SUFFICES ASSUME d + 1 <= n PROVE sum[d + 1] = f[d + 1]
    OBVIOUS
  <2>1. PICK e : e = d + 1
    OBVIOUS
  <2>2. d \in Nat /\ d <= n /\ e \in 1 .. n /\ e - 1 = d /\ e \in 0 .. n /\ e # 0
    BY <2>1
  <2>3. sum[d] = f[d]
    BY <2>2
  <2>4. f[e] = f[e - 1] + l[e]
    BY <1>1, <2>2 DEF SumsOf
  <2>5. sum[e] = sum[e - 1] + l[e]
    BY <1>6, <2>2
  <2> QED BY <2>1, <2>2, <2>3, <2>4, <2>5
<1>9. T = Nat
  <2>1. T \in SUBSET Nat
    OBVIOUS
  <2> HIDE DEF T
  <2> QED BY <2>1, <1>7, <1>8, SetInduction
<1>10. \A i \in 1 .. n : sum[i] = f[i]
  BY <1>9
<1>11. CumSum(l) = [i \in 1 .. n |-> f[i]]
  BY <1>2, <1>5, <1>10
<1> QED BY <1>1, <1>11

\* Every number up to the last sum lies in one of the ranges.
LEMMA InRange ==
  ASSUME NEW n \in Nat, NEW l \in [1 .. n -> Nat], NEW g, SumsOf(g, l, n), NEW m \in 1 .. g[n]
  PROVE  \E i \in 1 .. n : \E j \in 1 .. l[i] : m = g[i - 1] + j
<1>1. /\ g \in [0 .. n -> Nat] /\ g[0] = 0
      /\ \A k \in 1 .. n : g[k] = g[k - 1] + l[k]
  BY DEF SumsOf
<1> DEFINE T == {i \in 0 .. n : m <= g[i]}
<1>2. n \in T /\ T \in SUBSET Nat
  <2>1. n \in 0 .. n /\ g[n] \in Nat
    BY <1>1
  <2> QED BY <2>1
<1>3. PICK i \in T : \A k \in T : i <= k
  BY <1>2, LeastNatural
<1>4. m \in Nat /\ m >= 1
  <2>1. g[n] \in Nat
    BY <1>1
  <2> QED BY <2>1
<1>5. i # 0 /\ i \in 1 .. n /\ i - 1 \in 0 .. n
  BY <1>1, <1>3, <1>4
<1>6. ~ (m <= g[i - 1]) /\ g[i - 1] \in Nat
  BY <1>1, <1>3, <1>5
<1>7. m <= g[i] /\ g[i] = g[i - 1] + l[i] /\ l[i] \in Nat
  BY <1>1, <1>3, <1>5
<1>8. m - g[i - 1] \in 1 .. l[i] /\ m = g[i - 1] + (m - g[i - 1])
  BY <1>4, <1>6, <1>7
<1> QED BY <1>5, <1>8

\* seqs are n sequences, of the lengths l.
SeqsOf(seqs, l, n) ==
    /\ seqs = [i \in 1 .. n |-> seqs[i]]
    /\ \A i \in 1 .. n : seqs[i] = [j \in 1 .. l[i] |-> seqs[i][j]]
\* F is the sequence of the elements of the first n of seqs, which g counts.
FlatOf(F, seqs, l, g, n) ==
    /\ F = [m \in 1 .. g[n] |-> F[m]]
    /\ \A i \in 1 .. n : \A j \in 1 .. l[i] : F[g[i - 1] + j] = seqs[i][j]

IsPiece(x, seqs, l, e) == x = seqs[e] /\ x = [j \in 1 .. l[e] |-> x[j]]

\* One more sequence.
LEMMA FlatExtends ==
  ASSUME NEW n \in Nat, NEW l \in [1 .. n -> Nat], NEW g, SumsOf(g, l, n),
         NEW e \in 1 .. n, e > 1, NEW S, NEW seqs, NEW F \in Seq(S), NEW x \in Seq(S),
         FlatOf(F, seqs, l, g, e - 1), IsPiece(x, seqs, l, e)
  PROVE  F \o x \in Seq(S) /\ FlatOf(F \o x, seqs, l, g, e)
<1>1. PICK d : d = e - 1
  OBVIOUS
<1>2. d \in 0 .. n /\ e \in 0 .. n /\ d \in Nat /\ e \in Nat /\ d + 1 = e
  BY <1>1
<1>3. /\ g[d] \in Nat /\ g[e] = g[d] + l[e] /\ l[e] \in Nat /\ g[e] \in Nat
      /\ \A i, j \in 0 .. n : i <= j => g[i] <= g[j]
      /\ \A i \in 1 .. n : g[i] = g[i - 1] + l[i]
      /\ \A i \in 0 .. n : g[i] \in Nat
  BY <1>1, <1>2 DEF SumsOf
<1>4. /\ F = [m \in 1 .. g[d] |-> F[m]]
      /\ \A i \in 1 .. d : \A j \in 1 .. l[i] : F[g[i - 1] + j] = seqs[i][j]
  BY <1>1 DEF FlatOf
<1>5. Len(F) = g[d]
  <2>1. DOMAIN F = 1 .. g[d]
    BY <1>4
  <2>2. DOMAIN F = 1 .. Len(F) /\ Len(F) \in Nat
    BY LenProperties
  <2> QED BY <1>3, <2>1, <2>2
<1>6. Len(x) = l[e]
  <2>1. DOMAIN x = 1 .. l[e]
    BY DEF IsPiece
  <2>2. DOMAIN x = 1 .. Len(x) /\ Len(x) \in Nat
    BY LenProperties
  <2> QED BY <1>3, <2>1, <2>2
<1>7. /\ F \o x \in Seq(S) /\ Len(F \o x) = g[e]
      /\ \A i \in 1 .. g[e] : (F \o x)[i] = IF i <= g[d] THEN F[i] ELSE x[i - g[d]]
  <2>1. /\ F \o x \in Seq(S) /\ Len(F \o x) = Len(F) + Len(x)
        /\ \A i \in 1 .. Len(F) + Len(x) : (F \o x)[i] = IF i <= Len(F) THEN F[i] ELSE x[i - Len(F)]
    BY ConcatProperties
  <2>2. PICK p, q : p = g[d] /\ q = g[e]
    OBVIOUS
  <2>3. Len(F) = p /\ Len(F) + Len(x) = q
    BY <1>3, <1>5, <1>6, <2>2
  <2>4. /\ F \o x \in Seq(S) /\ Len(F \o x) = q
        /\ \A i \in 1 .. q : (F \o x)[i] = IF i <= p THEN F[i] ELSE x[i - p]
    BY <2>1, <2>3
  <2> QED BY <2>2, <2>4
<1>8. PICK y : y = F \o x
  OBVIOUS
<1>9. y = [m \in 1 .. g[e] |-> y[m]]
  BY <1>7, <1>8, LenProperties
<1>10. ASSUME NEW i \in 1 .. e, NEW j \in 1 .. l[i] PROVE y[g[i - 1] + j] = seqs[i][j]
  <2>1. CASE i = e
    <3>1. g[d] + j \in 1 .. g[e] /\ ~ (g[d] + j <= g[d]) /\ (g[d] + j) - g[d] = j
      <4>1. PICK p, q, t : p = g[d] /\ q = g[e] /\ t = l[e]
        OBVIOUS
      <4>2. p \in Nat /\ t \in Nat /\ q = p + t /\ j \in 1 .. t
        BY <1>3, <2>1, <4>1
      <4>3. p + j \in 1 .. q /\ ~ (p + j <= p) /\ (p + j) - p = j
        BY <4>2
      <4> QED BY <4>1, <4>3
    <3>2. y[g[d] + j] = x[j]
      BY <1>7, <1>8, <3>1
    <3> QED BY <1>1, <2>1, <3>2 DEF IsPiece
  <2>2. CASE i # e
    <3>1. i \in 1 .. d /\ i \in 1 .. n /\ i \in 0 .. n /\ i - 1 \in 0 .. n /\ i <= d /\ d <= e
      BY <1>1, <1>2, <2>2
    <3>2. g[i] = g[i - 1] + l[i] /\ g[i] <= g[d] /\ g[i - 1] \in Nat /\ l[i] \in Nat
      BY <1>2, <1>3, <3>1
    <3>3. g[i - 1] + j \in 1 .. g[e] /\ g[i - 1] + j <= g[d]
      <4>1. PICK p, q, t, u, v : p = g[d] /\ q = g[e] /\ t = l[i] /\ u = g[i - 1] /\ v = g[i]
        OBVIOUS
      <4>2. u \in Nat /\ t \in Nat /\ v = u + t /\ v <= p /\ p \in Nat /\ q \in Nat
        BY <1>3, <3>2, <4>1
      <4>3. p <= q /\ j \in 1 .. t
        BY <1>2, <1>3, <3>1, <4>1
      <4>4. u + j \in 1 .. q /\ u + j <= p
        BY <4>2, <4>3
      <4> QED BY <4>1, <4>4
    <3>4. y[g[i - 1] + j] = F[g[i - 1] + j]
      BY <1>7, <1>8, <3>3
    <3> QED BY <1>4, <3>1, <3>4
  <2> QED BY <2>1, <2>2
<1>11. FlatOf(y, seqs, l, g, e)
  BY <1>9, <1>10 DEF FlatOf
<1> QED BY <1>7, <1>8, <1>11

\* What a concatenation has at each place.
LEMMA FlattenIs ==
  ASSUME NEW n \in Nat, n > 0, NEW l \in [1 .. n -> Nat], NEW g, SumsOf(g, l, n),
         NEW seqs, SeqsOf(seqs, l, n)
  PROVE  FlatOf(FlattenSeq(seqs), seqs, l, g, n)
<1>1. PICK S : S = UNION {{seqs[i][j] : j \in 1 .. l[i]} : i \in 1 .. n}
  OBVIOUS
<1>2. /\ seqs = [i \in 1 .. n |-> seqs[i]]
      /\ \A i \in 1 .. n : seqs[i] = [j \in 1 .. l[i] |-> seqs[i][j]]
  BY DEF SeqsOf
<1>3. ASSUME NEW i \in 1 .. n PROVE seqs[i] \in Seq(S)
  <2>1. l[i] \in Nat
    OBVIOUS
  <2>2. \A j \in 1 .. l[i] : seqs[i][j] \in S
    BY <1>1
  <2>3. seqs[i] \in [1 .. l[i] -> S]
    BY <1>2, <2>2
  <2> QED BY <2>1, <2>3, SeqDef
<1>4. Len(seqs) = n
  <2>1. seqs \in [1 .. n -> Seq(S)]
    BY <1>2, <1>3
  <2>2. seqs \in Seq(Seq(S))
    BY <2>1, SeqDef
  <2> QED BY <2>1, <2>2, LenProperties
<1> DEFINE Step(t, i) == IF i = 1 THEN seqs[i] ELSE t[i - 1] \o seqs[i]
           T == {d \in Nat : 1 <= d /\ d <= n =>
                     \E t : t \in [1 .. d -> Seq(S)] /\ \A i \in 1 .. d : t[i] = Step(t, i)}
<1>5. 0 \in T
  OBVIOUS
<1>6. ASSUME NEW d \in T PROVE d + 1 \in T
  <2> SUFFICES ASSUME d + 1 <= n
               PROVE  \E t : t \in [1 .. d + 1 -> Seq(S)] /\ \A i \in 1 .. d + 1 : t[i] = Step(t, i)
    OBVIOUS
  <2>1. PICK e : e = d + 1
    OBVIOUS
  <2>2. d \in Nat /\ d <= n /\ e \in 1 .. n /\ e \in Nat /\ e - 1 = d
    BY <2>1
  <2>3. CASE d = 0
    <3> DEFINE t == [i \in 1 .. 1 |-> seqs[1]]
    <3>1. t[1] = seqs[1] /\ e = 1
      BY <2>1, <2>3
    <3>2. t \in [1 .. 1 -> Seq(S)]
      BY <1>3, <2>2, <3>1
    <3> HIDE DEF t
    <3>3. \A i \in 1 .. 1 : t[i] = Step(t, i)
      BY <3>1
    <3> QED BY <2>1, <3>1, <3>2, <3>3
  <2>4. CASE d # 0
    <3>1. PICK s : s \in [1 .. d -> Seq(S)] /\ \A i \in 1 .. d : s[i] = Step(s, i)
      <4>1. 1 <= d /\ d <= n
        BY <2>2, <2>4
      <4> HIDE DEF Step
      <4> QED BY <4>1
    <3> DEFINE t == [i \in 1 .. e |-> IF i = e THEN s[d] \o seqs[e] ELSE s[i]]
    <3>2. s[d] \in Seq(S) /\ seqs[e] \in Seq(S) /\ s[d] \o seqs[e] \in Seq(S)
      <4>1. s[d] \in Seq(S) /\ seqs[e] \in Seq(S)
        BY <1>3, <2>2, <2>4, <3>1
      <4> QED BY <4>1, ConcatProperties
    <3>3. t[e] = s[d] \o seqs[e] /\ \A i \in 1 .. d : t[i] = s[i] /\ i # e
      <4>1. e \in 1 .. e /\ \A i \in 1 .. d : i \in 1 .. e /\ i # e
        BY <2>1, <2>2
      <4> QED BY <4>1
    <3>4. t \in [1 .. e -> Seq(S)]
      <4>1. \A i \in 1 .. e : i = e \/ i \in 1 .. d
        BY <2>1, <2>2
      <4> QED BY <3>1, <3>2, <4>1
    <3> HIDE DEF t
    <3>5. ASSUME NEW i \in 1 .. e PROVE t[i] = Step(t, i)
      <4>1. CASE i = e
        <5>1. d \in 1 .. d /\ i # 1
          BY <2>1, <2>2, <2>4, <4>1
        <5> QED BY <2>2, <3>3, <4>1, <5>1
      <4>2. CASE i # e
        <5>1. i \in 1 .. d /\ (i # 1 => i - 1 \in 1 .. d)
          BY <2>1, <2>2, <4>2
        <5> QED BY <3>1, <3>3, <5>1
      <4> QED BY <4>1, <4>2
    <3> QED BY <2>1, <3>4, <3>5
  <2> QED BY <2>3, <2>4
<1>7. T = Nat
  <2>1. T \in SUBSET Nat
    OBVIOUS
  <2> HIDE DEF T
  <2> QED BY <2>1, <1>5, <1>6, SetInduction
<1>8. PICK h : h \in [1 .. n -> Seq(S)] /\ \A i \in 1 .. n : h[i] = Step(h, i)
  <2>1. n \in T
    BY <1>7
  <2>2. 1 <= n /\ n <= n
    OBVIOUS
  <2>3. \E t : t \in [1 .. n -> Seq(S)] /\ \A i \in 1 .. n : t[i] = Step(t, i)
    <3> HIDE DEF Step
    <3> QED BY <2>1, <2>2
  <2> HIDE DEF Step, T
  <2> QED BY <2>3
<1> HIDE DEF T
<1> DEFINE Rec(t) == [i \in 1 .. Len(seqs) |-> Step(t, i)]
           flatten == CHOOSE t : t = Rec(t)
<1>9. h = Rec(h)
  BY <1>4, <1>8
<1>10. flatten = Rec(flatten)
  <2> HIDE DEF Rec
  <2> QED BY <1>9
<1>11. FlattenSeq(seqs) = flatten[n]
  BY <1>4 DEF FlattenSeq
<1> HIDE DEF flatten
<1>12. \A i \in 1 .. n : flatten[i] = Step(flatten, i)
  BY <1>4, <1>10
<1> HIDE DEF Rec
<1> DEFINE U == {d \in Nat : 1 <= d /\ d <= n =>
                     flatten[d] \in Seq(S) /\ FlatOf(flatten[d], seqs, l, g, d)}
<1>13. 0 \in U
  OBVIOUS
<1>14. ASSUME NEW d \in U PROVE d + 1 \in U
  <2> SUFFICES ASSUME d + 1 <= n
               PROVE  flatten[d + 1] \in Seq(S) /\ FlatOf(flatten[d + 1], seqs, l, g, d + 1)
    OBVIOUS
  <2>1. PICK e : e = d + 1
    OBVIOUS
  <2>2. d \in Nat /\ d <= n /\ e \in 1 .. n /\ e \in Nat /\ e - 1 = d
    BY <2>1
  <2>3. PICK F, x : F = flatten[e] /\ x = seqs[e]
    OBVIOUS
  <2>4. x \in Seq(S) /\ x = [j \in 1 .. l[e] |-> x[j]]
    BY <1>2, <1>3, <2>2, <2>3
  <2>5. CASE d = 0
    <3>1. e = 1 /\ F = x
      BY <1>12, <2>1, <2>2, <2>3, <2>5
    <3>2. g[0] = 0 /\ g[1] = g[1 - 1] + l[1] /\ l[1] \in Nat /\ 1 - 1 = 0
      BY <2>2, <3>1 DEF SumsOf
    <3>3. g[1] = l[1]
      BY <3>2
    <3>4. F = [m \in 1 .. g[1] |-> F[m]]
      BY <2>4, <3>1, <3>3
    <3>5. ASSUME NEW i \in 1 .. 1, NEW j \in 1 .. l[i] PROVE F[g[i - 1] + j] = seqs[i][j]
      <4>1. i = 1 /\ g[i - 1] + j = j
        BY <3>2
      <4> QED BY <2>3, <3>1, <4>1
    <3>6. FlatOf(F, seqs, l, g, e)
      BY <3>1, <3>4, <3>5 DEF FlatOf
    <3> QED BY <2>1, <2>3, <2>4, <3>1, <3>6
  <2>6. CASE d # 0
    <3>1. PICK G : G = flatten[d]
      OBVIOUS
    <3>2. G \in Seq(S) /\ FlatOf(G, seqs, l, g, e - 1)
      BY <2>2, <2>6, <3>1
    <3>3. F = G \o x
      <4>1. flatten[e] = Step(flatten, e)
        BY <1>12, <2>2
      <4>2. e # 1
        BY <2>2, <2>6
      <4> HIDE DEF U
      <4> QED BY <2>2, <2>3, <3>1, <4>1, <4>2
    <3>4. e > 1
      BY <2>1, <2>2, <2>6
    <3>5. F \in Seq(S) /\ FlatOf(F, seqs, l, g, e)
      <4>1. IsPiece(x, seqs, l, e)
        BY <2>3, <2>4 DEF IsPiece
      <4>2. G \o x \in Seq(S) /\ FlatOf(G \o x, seqs, l, g, e)
        BY <2>2, <2>4, <3>2, <3>4, <4>1, FlatExtends
      <4> QED BY <3>3, <4>2
    <3> QED BY <2>1, <2>3, <3>5
  <2> QED BY <2>5, <2>6
<1>15. U = Nat
  <2>1. U \in SUBSET Nat
    OBVIOUS
  <2> HIDE DEF U
  <2> QED BY <2>1, <1>13, <1>14, SetInduction
<1>16. FlatOf(flatten[n], seqs, l, g, n)
  BY <1>15
<1> QED BY <1>11, <1>16

-----------------------------------------------------------------------------
(* What the sampler reads.  The n requests of a batch have k tokens and d   *)
(* drafts each, s of their rows are sampled; K, S and D count these.  The   *)
(* request in row i is q[i], of which c[i] tokens are computed.             *)

Sized(n, k, d, s, K, S, D, c) ==
    /\ n \in Nat /\ n > 0
    /\ k \in [1 .. n -> Nat] /\ d \in [1 .. n -> Nat] /\ s \in [1 .. n -> Nat]
    /\ c \in [1 .. n -> Nat]
    /\ \A i \in 1 .. n : d[i] < k[i] /\ s[i] = d[i] + 1
    /\ SumsOf(K, k, n) /\ SumsOf(S, s, n) /\ SumsOf(D, d, n)
\* The indices of the sampled rows (lg) and of those a draft is compared with (tg), the
\* rows of the forward (at), and its tokens (fi).
Indexed(n, k, d, s, K, S, D, lg, tg, at, fi, q, c) ==
    \A i \in 1 .. n :
        /\ \A j \in 1 .. s[i] : lg[S[i - 1] + j] = (K[i] - s[i]) + (j - 1)
        /\ \A j \in 1 .. d[i] : tg[D[i - 1] + j] = ((S[i] - 1) - d[i]) + (j - 1)
        /\ \A j \in 1 .. k[i] : /\ at[K[i - 1] + j] = <<q[i], c[i] + (j - 1)>>
                                /\ fi[K[i - 1] + j] = Wanted(q[i], c[i] + (j - 1))

\* A draft is looked up behind the row it is compared with, the token behind the drafts in
\* the request's last row.
Fits(n, k, d, S, D, lg, tg, at, fi, q, c, i) ==
    /\ \A j \in 1 .. d[i] :
          /\ tg[D[i - 1] + j] + 1 \in 1 .. S[n]
          /\ at[lg[tg[D[i - 1] + j] + 1] + 1] = <<q[i], ((c[i] + k[i]) - d[i]) + (j - 2)>>
          /\ fi[lg[tg[D[i - 1] + j] + 2] + 1] = Wanted(q[i], ((c[i] + k[i]) - d[i]) + (j - 1))
    /\ S[i] \in 1 .. S[n] /\ at[lg[S[i]] + 1] = <<q[i], (c[i] + k[i]) - 1>>

LEMMA SamplerFits ==
  ASSUME NEW n, NEW k, NEW d, NEW s, NEW K, NEW S, NEW D, NEW lg, NEW tg, NEW at, NEW fi,
         NEW q, NEW c, Sized(n, k, d, s, K, S, D, c),
         Indexed(n, k, d, s, K, S, D, lg, tg, at, fi, q, c), NEW i \in 1 .. n
  PROVE  Fits(n, k, d, S, D, lg, tg, at, fi, q, c, i)
<1>1. PICK ki, di, si, K0, K1, S0, S1, SN, ci :
        /\ ki = k[i] /\ di = d[i] /\ si = s[i] /\ K0 = K[i - 1] /\ K1 = K[i]
        /\ S0 = S[i - 1] /\ S1 = S[i] /\ SN = S[n] /\ ci = c[i]
  OBVIOUS
<1>2. n \in Nat /\ i - 1 \in 0 .. n /\ i \in 0 .. n /\ n \in 0 .. n /\ i <= n
  BY DEF Sized
<1>3. /\ ki \in Nat /\ di \in Nat /\ ci \in Nat /\ di < ki /\ si = di + 1
      /\ K0 \in Nat /\ K1 = K0 + ki /\ S0 \in Nat /\ S1 = S0 + si /\ SN \in Nat /\ S1 <= SN
  <2>1. SumsOf(K, k, n) /\ SumsOf(S, s, n)
    BY DEF Sized
  <2>2. K0 \in Nat /\ K1 = K0 + ki
    BY <1>1, <1>2, <2>1 DEF SumsOf
  <2>3. S0 \in Nat /\ S1 = S0 + si /\ SN \in Nat /\ S1 <= SN
    BY <1>1, <1>2, <2>1 DEF SumsOf
  <2>4. ki \in Nat /\ di \in Nat /\ ci \in Nat /\ di < ki /\ si = di + 1
    BY <1>1 DEF Sized
  <2> QED BY <2>2, <2>3, <2>4
<1>4. /\ \A j \in 1 .. si : lg[S0 + j] = (K1 - si) + (j - 1)
      /\ \A j \in 1 .. di : tg[D[i - 1] + j] = ((S1 - 1) - di) + (j - 1)
      /\ \A j \in 1 .. ki : /\ at[K0 + j] = <<q[i], ci + (j - 1)>>
                            /\ fi[K0 + j] = Wanted(q[i], ci + (j - 1))
  BY <1>1 DEF Indexed
\* The rows that are sampled.
<1>5. ASSUME NEW j \in 1 .. si
      PROVE  /\ at[lg[S0 + j] + 1] = <<q[i], (((ci + ki) - di) + (j - 2))>>
             /\ fi[lg[S0 + j] + 1] = Wanted(q[i], (((ci + ki) - di) + (j - 2)))
             /\ S0 + j \in 1 .. SN
  <2>1. PICK p : p = (ki - si) + j
    OBVIOUS
  <2>2. /\ p \in 1 .. ki /\ ((K1 - si) + (j - 1)) + 1 = K0 + p
        /\ ci + (p - 1) = ((ci + ki) - di) + (j - 2) /\ S0 + j \in 1 .. SN
    BY <1>3, <2>1
  <2>3. lg[S0 + j] + 1 = K0 + p
    BY <1>4, <2>2
  <2> QED BY <1>4, <2>2, <2>3
<1>6. ASSUME NEW j \in 1 .. di
      PROVE  /\ tg[D[i - 1] + j] + 1 \in 1 .. SN
             /\ at[lg[tg[D[i - 1] + j] + 1] + 1] = <<q[i], ((ci + ki) - di) + (j - 2)>>
             /\ fi[lg[tg[D[i - 1] + j] + 2] + 1] = Wanted(q[i], ((ci + ki) - di) + (j - 1))
  <2>1. PICK t : t = tg[D[i - 1] + j]
    OBVIOUS
  <2>2. t = ((S1 - 1) - di) + (j - 1)
    BY <1>4, <2>1
  <2>3. PICK e : e = j + 1
    OBVIOUS
  <2>4. t + 1 = S0 + j /\ t + 2 = S0 + e /\ j \in 1 .. si /\ e \in 1 .. si /\ e - 2 = j - 1
    BY <1>3, <2>2, <2>3
  <2>5. t + 1 \in 1 .. SN /\ at[lg[t + 1] + 1] = <<q[i], ((ci + ki) - di) + (j - 2)>>
    BY <1>5, <2>4
  <2>6. fi[lg[t + 2] + 1] = Wanted(q[i], ((ci + ki) - di) + (e - 2))
    BY <1>5, <2>4
  <2> QED BY <2>1, <2>4, <2>5, <2>6
<1>7. S1 \in 1 .. SN /\ at[lg[S1] + 1] = <<q[i], (ci + ki) - 1>>
  <2>1. si \in 1 .. si /\ S0 + si = S1 /\ ((ci + ki) - di) + (si - 2) = (ci + ki) - 1
    BY <1>3
  <2> QED BY <1>5, <2>1
<1> QED BY <1>1, <1>6, <1>7 DEF Fits

-----------------------------------------------------------------------------
(* The sequences the sampler's indices, the forward's rows and its tokens   *)
(* are put together from, and the drafts with the outputs they are for.     *)

RangeSeqs(n, last, m) == [i \in 1 .. n |-> [j \in 1 .. m[i] |-> last[i] - m[i] + j - 1]]
RowSeqs(n, k, q, c) == [i \in 1 .. n |-> [j \in 1 .. k[i] |-> <<q[i], c[i] + j - 1>>]]
TokenSeqs(n, k, q, c) == [i \in 1 .. n |-> [j \in 1 .. k[i] |-> Wanted(q[i], c[i] + j - 1)]]
DraftSeqs(n, k, d, q, c) ==
    [i \in 1 .. n |-> [j \in 1 .. d[i] |->
        <<<<q[i], c[i] + k[i] - d[i] + j - 2>>, Wanted(q[i], c[i] + k[i] - d[i] + j - 1)>>]]

LEMMA SeqsAre ==
  ASSUME NEW n, NEW last, NEW k, NEW d, NEW q, NEW c
  PROVE  /\ SeqsOf(RangeSeqs(n, last, d), d, n)
         /\ SeqsOf(RowSeqs(n, k, q, c), k, n) /\ SeqsOf(TokenSeqs(n, k, q, c), k, n)
         /\ SeqsOf(DraftSeqs(n, k, d, q, c), d, n)
<1>1. SeqsOf(RangeSeqs(n, last, d), d, n)
  BY DEF SeqsOf, RangeSeqs
<1>2. SeqsOf(RowSeqs(n, k, q, c), k, n)
  BY DEF SeqsOf, RowSeqs
<1>3. SeqsOf(TokenSeqs(n, k, q, c), k, n)
  BY DEF SeqsOf, TokenSeqs
<1>4. SeqsOf(DraftSeqs(n, k, d, q, c), d, n)
  BY DEF SeqsOf, DraftSeqs
<1> QED BY <1>1, <1>2, <1>3, <1>4

\* What the sampler compares is what it should, and the last row is the request's own.
Compares(n, k, d, lg, tg, at, fi, q, c) ==
    [m \in DOMAIN tg |-> <<[x \in DOMAIN lg |-> at[lg[x] + 1]][tg[m] + 1],
                           fi[lg[tg[m] + 2] + 1]>>]
      = FlattenSeq(DraftSeqs(n, k, d, q, c))
LEMMA DraftsCompared ==
  ASSUME NEW n, NEW k, NEW d, NEW s, NEW K, NEW S, NEW D, NEW lg, NEW tg, NEW at, NEW fi,
         NEW q, NEW c, Sized(n, k, d, s, K, S, D, c),
         Indexed(n, k, d, s, K, S, D, lg, tg, at, fi, q, c),
         DOMAIN lg = 1 .. S[n], DOMAIN tg = 1 .. D[n]
  PROVE  Compares(n, k, d, lg, tg, at, fi, q, c)
<1>1. PICK R : R = FlattenSeq(DraftSeqs(n, k, d, q, c))
  OBVIOUS
<1>2. /\ n \in Nat /\ n > 0 /\ SumsOf(D, d, n)
      /\ k \in [1 .. n -> Nat] /\ d \in [1 .. n -> Nat] /\ c \in [1 .. n -> Nat]
  BY DEF Sized
<1>3. FlatOf(R, DraftSeqs(n, k, d, q, c), d, D, n)
  BY <1>1, <1>2, SeqsAre, FlattenIs
<1>4. R = [m \in 1 .. D[n] |-> R[m]]
  BY <1>3 DEF FlatOf
<1>5. ASSUME NEW m \in 1 .. D[n]
      PROVE  <<[x \in DOMAIN lg |-> at[lg[x] + 1]][tg[m] + 1], fi[lg[tg[m] + 2] + 1]>> = R[m]
  <2>1. PICK i \in 1 .. n : \E j \in 1 .. d[i] : m = D[i - 1] + j
    <3>1. n \in Nat
      BY <1>2
    <3>2. d \in [1 .. n -> Nat]
      BY <1>2
    <3>3. SumsOf(D, d, n)
      BY <1>2
    <3> QED BY ONLY <3>1, <3>2, <3>3, m \in 1 .. D[n], InRange
  <2>2. PICK j \in 1 .. d[i] : m = D[i - 1] + j
    BY <2>1
  <2>3. /\ tg[m] + 1 \in 1 .. S[n]
        /\ at[lg[tg[m] + 1] + 1] = <<q[i], ((c[i] + k[i]) - d[i]) + (j - 2)>>
        /\ fi[lg[tg[m] + 2] + 1] = Wanted(q[i], ((c[i] + k[i]) - d[i]) + (j - 1))
    <3>1. \A h \in 1 .. d[i] :
            /\ tg[D[i - 1] + h] + 1 \in 1 .. S[n]
            /\ at[lg[tg[D[i - 1] + h] + 1] + 1] = <<q[i], ((c[i] + k[i]) - d[i]) + (h - 2)>>
            /\ fi[lg[tg[D[i - 1] + h] + 2] + 1] = Wanted(q[i], ((c[i] + k[i]) - d[i]) + (h - 1))
      <4>1. Fits(n, k, d, S, D, lg, tg, at, fi, q, c, i)
        BY SamplerFits
      <4> QED BY <4>1 DEF Fits
    <3> QED BY <2>2, <3>1
  <2>4. R[m] = DraftSeqs(n, k, d, q, c)[i][j]
    BY <1>3, <2>2 DEF FlatOf
  <2>5. DraftSeqs(n, k, d, q, c)[i][j]
          = <<<<q[i], c[i] + k[i] - d[i] + j - 2>>, Wanted(q[i], c[i] + k[i] - d[i] + j - 1)>>
    BY DEF DraftSeqs
  <2>6. /\ ((c[i] + k[i]) - d[i]) + (j - 2) = c[i] + k[i] - d[i] + j - 2
        /\ ((c[i] + k[i]) - d[i]) + (j - 1) = c[i] + k[i] - d[i] + j - 1
    BY <1>2
  <2>7. [x \in DOMAIN lg |-> at[lg[x] + 1]][tg[m] + 1] = at[lg[tg[m] + 1] + 1]
    BY <2>3
  <2> QED BY <2>3, <2>4, <2>5, <2>6, <2>7
<1>6. [m \in 1 .. D[n] |-> <<[x \in DOMAIN lg |-> at[lg[x] + 1]][tg[m] + 1], fi[lg[tg[m] + 2] + 1]>>]
        = [m \in 1 .. D[n] |-> R[m]]
  BY <1>5
<1> QED BY <1>1, <1>4, <1>6 DEF Compares

\* The indices the runner computes are these.
LEMMA IndexedIs ==
  ASSUME NEW n, NEW k, NEW d, NEW s, NEW K, NEW S, NEW D, NEW q, NEW c,
         Sized(n, k, d, s, K, S, D, c), NEW lastK, NEW lastS,
         \A i \in 1 .. n : lastK[i] = K[i] /\ lastS[i] = S[i] - 1,
         NEW lg, lg = FlattenSeq(RangeSeqs(n, lastK, s)),
         NEW tg, tg = FlattenSeq(RangeSeqs(n, lastS, d)),
         NEW at, at = FlattenSeq(RowSeqs(n, k, q, c)),
         NEW fi, fi = FlattenSeq(TokenSeqs(n, k, q, c))
  PROVE  /\ Indexed(n, k, d, s, K, S, D, lg, tg, at, fi, q, c)
         /\ DOMAIN lg = 1 .. S[n] /\ DOMAIN tg = 1 .. D[n]
<1>1. /\ n \in Nat /\ n > 0 /\ SumsOf(K, k, n) /\ SumsOf(S, s, n) /\ SumsOf(D, d, n)
      /\ k \in [1 .. n -> Nat] /\ d \in [1 .. n -> Nat] /\ s \in [1 .. n -> Nat]
  BY DEF Sized
<1>2. FlatOf(lg, RangeSeqs(n, lastK, s), s, S, n)
  BY <1>1, SeqsAre, FlattenIs
<1>3. FlatOf(tg, RangeSeqs(n, lastS, d), d, D, n)
  BY <1>1, SeqsAre, FlattenIs
<1>4. FlatOf(at, RowSeqs(n, k, q, c), k, K, n)
  BY <1>1, SeqsAre, FlattenIs
<1>5. FlatOf(fi, TokenSeqs(n, k, q, c), k, K, n)
  BY <1>1, SeqsAre, FlattenIs
<1>6. ASSUME NEW i \in 1 .. n, NEW j \in 1 .. s[i]
      PROVE  lg[S[i - 1] + j] = (K[i] - s[i]) + (j - 1)
  <2>1. lg[S[i - 1] + j] = RangeSeqs(n, lastK, s)[i][j]
    BY <1>2 DEF FlatOf
  <2>2. RangeSeqs(n, lastK, s)[i][j] = lastK[i] - s[i] + j - 1
    BY DEF RangeSeqs
  <2> QED BY <2>1, <2>2
<1>7. ASSUME NEW i \in 1 .. n, NEW j \in 1 .. d[i]
      PROVE  tg[D[i - 1] + j] = ((S[i] - 1) - d[i]) + (j - 1)
  <2>1. tg[D[i - 1] + j] = RangeSeqs(n, lastS, d)[i][j]
    BY <1>3 DEF FlatOf
  <2>2. RangeSeqs(n, lastS, d)[i][j] = lastS[i] - d[i] + j - 1
    BY DEF RangeSeqs
  <2> QED BY <2>1, <2>2
<1>8. ASSUME NEW i \in 1 .. n, NEW j \in 1 .. k[i]
      PROVE  /\ at[K[i - 1] + j] = <<q[i], c[i] + (j - 1)>>
             /\ fi[K[i - 1] + j] = Wanted(q[i], c[i] + (j - 1))
  <2>1. at[K[i - 1] + j] = RowSeqs(n, k, q, c)[i][j] /\ fi[K[i - 1] + j] = TokenSeqs(n, k, q, c)[i][j]
    BY <1>4, <1>5 DEF FlatOf
  <2>2. RowSeqs(n, k, q, c)[i][j] = <<q[i], c[i] + j - 1>>
    BY DEF RowSeqs
  <2>3. TokenSeqs(n, k, q, c)[i][j] = Wanted(q[i], c[i] + j - 1)
    BY DEF TokenSeqs
  <2> QED BY <2>1, <2>2, <2>3
<1>9. DOMAIN lg = 1 .. S[n] /\ DOMAIN tg = 1 .. D[n]
  BY <1>2, <1>3 DEF FlatOf
<1> QED BY <1>6, <1>7, <1>8, <1>9 DEF Indexed

\* Of a batch that has been prepared, what the sums and the sequences are made of.
RowsAre(b, n, k, d, s, q, c) ==
    /\ DOMAIN b.rows = 1 .. n
    /\ k = [i \in DOMAIN b.rows |-> out.k[b.rows[i].req]]
    /\ d = [i \in DOMAIN b.rows |-> out.d[b.rows[i].req]]
    /\ s = [i \in DOMAIN b.rows |-> d[i] + 1]
    /\ q = [i \in DOMAIN b.rows |-> b.rows[i].req]
    /\ c = [i \in DOMAIN b.rows |-> truth[b.rows[i].req].comp]
    /\ b.input = TokenSeqs(n, k, q, c)
    /\ \A i \in 1 .. n : b.gComp[i] = c[i]
BatchSized(b, n, k, d, s, K, S, D, q, c) ==
    /\ RowsAre(b, n, k, d, s, q, c) /\ Sized(n, k, d, s, K, S, D, c)
    /\ CumSum(k) = [i \in 1 .. n |-> K[i]] /\ CumSum(s) = [i \in 1 .. n |-> S[i]]

LEMMA BatchIs ==
  ASSUME IInv, phase = "sample", NEW b, b = runner["last"]
  PROVE  \E n, k, d, s, K, S, D, q, c : BatchSized(b, n, k, d, s, K, S, D, q, c)
<1>1. PICK n : n = Len(b.rows)
  OBVIOUS
<1>2. n \in Nat /\ DOMAIN b.rows = 1 .. n /\ \A i \in 1 .. n : b.rows[i].req \in DOMAIN out.k
  BY <1>1 DEF IInv, RowsShape, SampleOK
<1>3. n > 0
  <2>1. DOMAIN out.k # {}
    BY DEF IInv, OutOK
  <2>2. \A r \in DOMAIN out.k : \E i \in 1 .. Len(b.rows) : b.rows[i].req = r
    BY DEF IInv, SampleOK
  <2> QED BY <1>1, <1>2, <2>1, <2>2
<1>4. PICK k, d, q, c :
        /\ k = [i \in DOMAIN b.rows |-> out.k[b.rows[i].req]]
        /\ d = [i \in DOMAIN b.rows |-> out.d[b.rows[i].req]]
        /\ q = [i \in DOMAIN b.rows |-> b.rows[i].req]
        /\ c = [i \in DOMAIN b.rows |-> truth[b.rows[i].req].comp]
  OBVIOUS
<1>5. PICK s : s = [i \in DOMAIN b.rows |-> d[i] + 1]
  OBVIOUS
<1>6. ASSUME NEW i \in 1 .. n
      PROVE  /\ k[i] \in Nat /\ d[i] \in Nat /\ s[i] \in Nat /\ c[i] \in Nat
             /\ d[i] < k[i] /\ s[i] = d[i] + 1
             /\ b.gComp[i] = c[i]
             /\ b.input[i] = [j \in 1 .. k[i] |-> Wanted(q[i], c[i] + j - 1)]
  <2>1. PICK r \in DOMAIN out.k : r = b.rows[i].req
    BY <1>2
  <2>2. k[i] = out.k[r] /\ d[i] = out.d[r] /\ q[i] = r /\ c[i] = truth[r].comp /\ s[i] = d[i] + 1
    BY <1>2, <1>4, <1>5, <2>1
  <2>3. Asks(r)
    BY DEF IInv, OutOK
  <2>4. out.k[r] \in Nat /\ out.d[r] \in 0 .. num_spec /\ out.d[r] < out.k[r]
    BY <2>3 DEF Asks
  <2>5. num_spec \in Nat /\ truth[r].comp \in Nat
    BY DEF IInv, Types, TruthType
  <2>6. PreparedRow(r, i)
    BY <1>1, <2>1 DEF IInv, SampleOK
  <2>7. b.gComp[i] = truth[r].comp
        /\ b.input[i] = [j \in 1 .. out.k[r] |-> Wanted(r, truth[r].comp + j - 1)]
    BY <2>6 DEF PreparedRow
  <2>8. d[i] \in Nat /\ s[i] \in Nat
    BY <2>2, <2>4, <2>5
  <2> QED BY <2>2, <2>4, <2>5, <2>7, <2>8
<1>7. /\ k \in [1 .. n -> Nat] /\ d \in [1 .. n -> Nat] /\ s \in [1 .. n -> Nat]
      /\ c \in [1 .. n -> Nat]
  BY <1>2, <1>4, <1>5, <1>6
<1>8. b.input = TokenSeqs(n, k, q, c)
  <2>1. b.input = [i \in 1 .. n |-> b.input[i]]
    BY <1>2 DEF IInv, SampleOK
  <2>2. [i \in 1 .. n |-> b.input[i]]
          = [i \in 1 .. n |-> [j \in 1 .. k[i] |-> Wanted(q[i], c[i] + j - 1)]]
    BY <1>6
  <2> QED BY <2>1, <2>2 DEF TokenSeqs
<1>9. RowsAre(b, n, k, d, s, q, c)
  BY <1>2, <1>4, <1>5, <1>6, <1>8 DEF RowsAre
<1>10. PICK K : SumsOf(K, k, n) /\ CumSum(k) = [i \in 1 .. n |-> K[i]]
  BY <1>2, <1>7, CumSumIs
<1>11. PICK S : SumsOf(S, s, n) /\ CumSum(s) = [i \in 1 .. n |-> S[i]]
  BY <1>2, <1>7, CumSumIs
<1>12. PICK D : SumsOf(D, d, n)
  BY <1>2, <1>7, SumsExist
<1>13. Sized(n, k, d, s, K, S, D, c)
  BY <1>2, <1>3, <1>6, <1>7, <1>10, <1>11, <1>12 DEF Sized
<1> QED BY <1>9, <1>10, <1>11, <1>13 DEF BatchSized

\* The indices the runner computes are these.
Metadata(b, n, k, d, s, K, S, q, c, lastK, lastS, lg, tg) ==
    /\ \A i \in 1 .. n : lastK[i] = K[i] /\ lastS[i] = S[i] - 1
    /\ lg = FlattenSeq(RangeSeqs(n, lastK, s)) /\ tg = FlattenSeq(RangeSeqs(n, lastS, d))
    /\ _calc_spec_decode_metadata(b) =
         [logits_indices |-> lg, target_logits_indices |-> tg, bonus_logits_indices |-> lastS,
          draft_token_ids |->
             [m \in DOMAIN tg |-> FlattenSeq(TokenSeqs(n, k, q, c))[lg[tg[m] + 2] + 1]]]
LEMMA MetadataIs ==
  ASSUME NEW b, NEW n, NEW k, NEW d, NEW s, NEW K, NEW S, NEW D, NEW q, NEW c,
         BatchSized(b, n, k, d, s, K, S, D, q, c)
  PROVE  \E lastK, lastS, lg, tg : Metadata(b, n, k, d, s, K, S, q, c, lastK, lastS, lg, tg)
<1>1. PICK lastK, lastS : lastK = CumSum(k) /\ lastS = [i \in DOMAIN b.rows |-> CumSum(s)[i] - 1]
  OBVIOUS
<1>2. \A i \in 1 .. n : lastK[i] = K[i] /\ lastS[i] = S[i] - 1
  BY <1>1 DEF BatchSized, RowsAre
<1>3. PICK lg, tg : lg = Ranges(b, lastK, s) /\ tg = Ranges(b, lastS, d)
  OBVIOUS
<1>4. lg = FlattenSeq(RangeSeqs(n, lastK, s)) /\ tg = FlattenSeq(RangeSeqs(n, lastS, d))
  BY <1>3 DEF Ranges, RangeSeqs, BatchSized, RowsAre
<1>5. /\ k = [i \in DOMAIN b.rows |-> out.k[b.rows[i].req]]
      /\ d = [i \in DOMAIN b.rows |-> out.d[b.rows[i].req]]
      /\ s = [i \in DOMAIN b.rows |-> d[i] + 1]
      /\ b.input = TokenSeqs(n, k, q, c)
  BY DEF BatchSized, RowsAre
<1>6. /\ lg = Ranges(b, CumSum([i \in DOMAIN b.rows |-> out.k[b.rows[i].req]]),
                     [i \in DOMAIN b.rows |-> [h \in DOMAIN b.rows |-> out.d[b.rows[h].req]][i] + 1])
      /\ lastS = [h \in DOMAIN b.rows |-> CumSum([i \in DOMAIN b.rows |->
                     [g \in DOMAIN b.rows |-> out.d[b.rows[g].req]][i] + 1])[h] - 1]
  BY <1>1, <1>3, <1>5
<1>7. _calc_spec_decode_metadata(b) =
        [logits_indices |-> lg, target_logits_indices |-> tg, bonus_logits_indices |-> lastS,
         draft_token_ids |-> [m \in DOMAIN tg |-> FlattenSeq(b.input)[lg[tg[m] + 2] + 1]]]
  BY <1>3, <1>5, <1>6 DEF _calc_spec_decode_metadata
<1>8. _calc_spec_decode_metadata(b) =
        [logits_indices |-> lg, target_logits_indices |-> tg, bonus_logits_indices |-> lastS,
         draft_token_ids |->
            [m \in DOMAIN tg |-> FlattenSeq(TokenSeqs(n, k, q, c))[lg[tg[m] + 2] + 1]]]
  BY <1>5, <1>7
<1>9. Metadata(b, n, k, d, s, K, S, q, c, lastK, lastS, lg, tg)
  BY <1>2, <1>4, <1>8 DEF Metadata
<1> QED BY <1>9

\* The sampler compares every draft with the output of the request's own row before it,
\* and takes the token behind the drafts from its last row, for a batch of any size.
THEOREM SamplerAlwaysReadsOwn == Spec => []SamplerReadsOwn
<1>1. IInv => SamplerReadsOwn
  <2> SUFFICES ASSUME IInv, NEW st \in DOMAIN runner, phase = "sample", NEW b, b = runner[st]
               PROVE
        LET md == _calc_spec_decode_metadata(b)
            req(i) == b.rows[i].req
            draft(i) == truth[req(i)].comp + out.k[req(i)] - out.d[req(i)]
            at == FlattenSeq([i \in DOMAIN b.rows |->
                      [j \in 1 .. out.k[req(i)] |-> <<req(i), b.gComp[i] + j - 1>>]])
            logits == [m \in DOMAIN md.logits_indices |-> at[md.logits_indices[m] + 1]]
        IN  /\ [m \in DOMAIN md.target_logits_indices |->
                    <<logits[md.target_logits_indices[m] + 1], md.draft_token_ids[m]>>]
                 = FlattenSeq([i \in DOMAIN b.rows |-> [j \in 1 .. out.d[req(i)] |->
                       <<<<req(i), draft(i) + j - 2>>, Wanted(req(i), draft(i) + j - 1)>>]])
            /\ \A i \in DOMAIN b.rows :
                   logits[md.bonus_logits_indices[i] + 1]
                     = <<req(i), truth[req(i)].comp + out.k[req(i)] - 1>>
    BY DEF SamplerReadsOwn
  <2>1. b = runner["last"]
    BY DEF IInv, Stages
  <2>2. PICK n, k, d, s, K, S, D, q, c : BatchSized(b, n, k, d, s, K, S, D, q, c)
    BY <2>1, BatchIs
  <2>3. PICK lastK, lastS, lg, tg : Metadata(b, n, k, d, s, K, S, q, c, lastK, lastS, lg, tg)
    BY <2>2, MetadataIs
  <2>4. PICK at, fi : at = FlattenSeq(RowSeqs(n, k, q, c)) /\ fi = FlattenSeq(TokenSeqs(n, k, q, c))
    OBVIOUS
  <2>5. RowsAre(b, n, k, d, s, q, c) /\ Sized(n, k, d, s, K, S, D, c)
    BY <2>2 DEF BatchSized
  <2>6. /\ Indexed(n, k, d, s, K, S, D, lg, tg, at, fi, q, c)
        /\ DOMAIN lg = 1 .. S[n] /\ DOMAIN tg = 1 .. D[n]
    BY <2>3, <2>4, <2>5, IndexedIs DEF Metadata
  <2>7. Compares(n, k, d, lg, tg, at, fi, q, c)
    BY <2>5, <2>6, DraftsCompared
  <2>8. /\ DOMAIN b.rows = 1 .. n
        /\ \A i \in 1 .. n : /\ k[i] = out.k[b.rows[i].req] /\ d[i] = out.d[b.rows[i].req]
                             /\ q[i] = b.rows[i].req /\ c[i] = truth[b.rows[i].req].comp
                             /\ b.gComp[i] = c[i]
    BY <2>5 DEF RowsAre
  <2>9. [i \in DOMAIN b.rows |-> [j \in 1 .. out.k[b.rows[i].req] |->
            <<b.rows[i].req, b.gComp[i] + j - 1>>]] = RowSeqs(n, k, q, c)
    BY <2>8 DEF RowSeqs
  <2>10. [i \in DOMAIN b.rows |-> [j \in 1 .. out.d[b.rows[i].req] |->
             <<<<b.rows[i].req,
                 truth[b.rows[i].req].comp + out.k[b.rows[i].req] - out.d[b.rows[i].req] + j - 2>>,
               Wanted(b.rows[i].req,
                 truth[b.rows[i].req].comp + out.k[b.rows[i].req] - out.d[b.rows[i].req] + j - 1)>>]]
           = DraftSeqs(n, k, d, q, c)
    BY <2>8 DEF DraftSeqs
  <2> DEFINE logits == [x \in DOMAIN lg |-> at[lg[x] + 1]]
             drafts == [m \in DOMAIN tg |-> fi[lg[tg[m] + 2] + 1]]
  <2>11. [m \in DOMAIN tg |-> <<logits[tg[m] + 1], drafts[m]>>]
           = FlattenSeq(DraftSeqs(n, k, d, q, c))
    <3>1. [m \in DOMAIN tg |-> <<logits[tg[m] + 1], drafts[m]>>]
            = [m \in DOMAIN tg |-> <<logits[tg[m] + 1], fi[lg[tg[m] + 2] + 1]>>]
      OBVIOUS
    <3> QED BY <2>7, <3>1 DEF Compares
  <2>12. ASSUME NEW i \in DOMAIN b.rows
         PROVE  logits[lastS[i] + 1]
                  = <<b.rows[i].req, truth[b.rows[i].req].comp + out.k[b.rows[i].req] - 1>>
    <3>1. i \in 1 .. n
      BY <2>8
    <3>2. S[i] \in 1 .. S[n] /\ at[lg[S[i]] + 1] = <<q[i], (c[i] + k[i]) - 1>>
      <4>1. Fits(n, k, d, S, D, lg, tg, at, fi, q, c, i)
        BY <2>5, <2>6, <3>1, SamplerFits
      <4> QED BY <4>1 DEF Fits
    <3>3. c[i] \in Nat /\ k[i] \in Nat /\ S[i] \in Int
      BY <2>5, <3>1, <3>2 DEF Sized
    <3>4. lastS[i] + 1 = S[i] /\ (c[i] + k[i]) - 1 = c[i] + k[i] - 1
      BY <2>3, <3>1, <3>3 DEF Metadata
    <3>5. logits[S[i]] = at[lg[S[i]] + 1]
      BY <2>6, <3>2
    <3> QED BY <2>8, <3>1, <3>2, <3>4, <3>5
  <2>13. PICK md : md = _calc_spec_decode_metadata(b)
    OBVIOUS
  <2>14. /\ md.logits_indices = lg /\ md.target_logits_indices = tg
         /\ md.bonus_logits_indices = lastS /\ md.draft_token_ids = drafts
    BY <2>3, <2>4, <2>13 DEF Metadata
  <2> HIDE DEF drafts
  <2>15. [m \in DOMAIN md.target_logits_indices |->
            <<[x \in DOMAIN md.logits_indices |-> at[md.logits_indices[x] + 1]]
                 [md.target_logits_indices[m] + 1], md.draft_token_ids[m]>>]
           = FlattenSeq(DraftSeqs(n, k, d, q, c))
    BY <2>11, <2>14
  <2>16. \A i \in DOMAIN b.rows :
            [x \in DOMAIN md.logits_indices |-> at[md.logits_indices[x] + 1]]
                 [md.bonus_logits_indices[i] + 1]
              = <<b.rows[i].req, truth[b.rows[i].req].comp + out.k[b.rows[i].req] - 1>>
    BY <2>12, <2>14
  <2>17. at = FlattenSeq([i \in DOMAIN b.rows |-> [j \in 1 .. out.k[b.rows[i].req] |->
                  <<b.rows[i].req, b.gComp[i] + j - 1>>]])
    BY <2>4, <2>9
  <2>18. [m \in DOMAIN md.target_logits_indices |->
            <<[x \in DOMAIN md.logits_indices |-> at[md.logits_indices[x] + 1]]
                 [md.target_logits_indices[m] + 1], md.draft_token_ids[m]>>]
           = FlattenSeq([i \in DOMAIN b.rows |-> [j \in 1 .. out.d[b.rows[i].req] |->
               <<<<b.rows[i].req,
                   truth[b.rows[i].req].comp + out.k[b.rows[i].req] - out.d[b.rows[i].req] + j - 2>>,
                 Wanted(b.rows[i].req,
                   truth[b.rows[i].req].comp + out.k[b.rows[i].req] - out.d[b.rows[i].req] + j - 1)>>]])
    BY <2>10, <2>15
  <2> QED BY ONLY <2>13, <2>16, <2>17, <2>18, Zenon
<1> QED BY <1>1, CountsFit, PTL

=============================================================================
