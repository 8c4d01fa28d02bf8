-------------------------- MODULE PleOffloadProofs --------------------------
(***************************************************************************)
(* Theorems about PleOffload for every TP size, every bound on the steps   *)
(* and every schedule of real and dummy forwards.                          *)
(***************************************************************************)
EXTENDS PleOffload, TLAPS

(* The inductive invariant, for runner inputs on the GPU (CudaInputs).     *)

\* Every rank numbers its launches by the plan, and only a real one waits.
HostSync == \A r \in Ranks :
    /\ lseq[r] = plan[hs[r]]
    /\ hp[r] # "idle" => Real(hs[r])
    /\ hp[r] \in {"put", "stage"} => r = 0

\* A stream is at most at the end of what its host has enqueued.
StreamOrder == gs >= 1 /\ \A r \in Ranks :
    /\ gs <= hs[r] + 1
    /\ gs = hs[r] + 1 => gp[r] = "prep" /\ hp[r] = "idle"
    /\ gs = hs[r] /\ hp[r] # "idle" => gp[r] \in {"prep", "copy"}

\* A rank leaves prepare_forward only with its launch completed.
HostServed == \A r \in Ranks :
    lseq[r] <= done[r] + (IF hp[r] = "idle" THEN 0 ELSE 1)

\* All pages hold the count, but those the sidecar is still to store it into.
DoneSync == \A r \in Ranks :
    done[r] = IF sc.ph = "publish" /\ sc.to # 0 /\ r >= sc.to THEN served - 1
                                                              ELSE served

\* The sidecar handles a request it has not counted yet.
Serving == \/ sc.ph \in {"read", "lookup", "write", "replicate"}
           \/ sc.ph = "publish" /\ sc.to = 0

\* The launch of TP0 is staged: its batch was prepared, and its forward waits.
StagedNow == gs = hs[0] /\ gp[0] # "prep" /\ staged = lseq[0]

NoneQueued == rq = <<>>
NoneStaged == st.ph = "none"
NoneSent   == page.seq = seen /\ zmq = <<>>

\* Where the one outstanding request of TP0 is, or that there is none.
Quiet    == /\ served = lseq[0] /\ hp[0] # "put"
            /\ NoneQueued /\ NoneStaged /\ NoneSent /\ ~Serving
AtPut    == /\ served + 1 = lseq[0] /\ hp[0] = "put"
            /\ NoneQueued /\ NoneStaged /\ NoneSent /\ ~Serving
AtQueue  == /\ served + 1 = lseq[0] /\ hp[0] \notin {"idle", "put"}
            /\ rq = <<[step |-> hs[0], seq |-> lseq[0]]>>
            /\ NoneStaged /\ NoneSent /\ ~Serving
AtStager == /\ served + 1 = lseq[0] /\ hp[0] \notin {"idle", "put"}
            /\ st.ph # "none" /\ st.step = hs[0] /\ st.seq = lseq[0]
            /\ st.ph \in {"fields", "seq", "send"} => StagedNow
            /\ st.ph = "seq" => page.batch = lseq[0]
            /\ st.ph # "copy"
            /\ NoneQueued /\ NoneSent /\ ~Serving
AtWire   == /\ served + 1 = lseq[0] /\ hp[0] \notin {"idle", "put"} /\ StagedNow
            /\ \/ page.seq = lseq[0] /\ page.batch = lseq[0] /\ zmq = <<>>
               \/ page.seq = seen /\ zmq = <<lseq[0]>>
            /\ NoneQueued /\ NoneStaged /\ ~Serving
AtServer == /\ served + 1 = lseq[0] /\ hp[0] \notin {"idle", "put"} /\ StagedNow
            /\ Serving
            /\ sc.ph = "read" => page.batch = lseq[0]
            /\ sc.ph \in {"lookup", "write", "replicate"} => sc.batch = lseq[0]
            /\ sc.ph = "write" => sc.ids = staged
            /\ sc.ph = "replicate" => sc.to # 0
            /\ NoneQueued /\ NoneStaged /\ NoneSent

Flight == Quiet \/ AtPut \/ AtQueue \/ AtStager \/ AtWire \/ AtServer

SeenBound == seen <= served + (IF Serving THEN 1 ELSE 0)

\* No launch is served before the stream reached its step.
ServedBound == gs <= MaxSteps => served <= plan[gs]

\* The device input buffer holds the batch of the step being executed.
GinSync == gp[0] # "prep" /\ Real(gs) => gin = plan[gs]

\* The result buffers hold the launch last served, and while the sidecar works on
\* the next one, that one as far as it got.
BufSync == \A r \in Ranks :
    outBuf[r] = IF sc.ph = "write" /\ r = 0 THEN Torn
                ELSE IF \/ sc.ph = "publish" /\ sc.to = 0
                        \/ sc.ph = "replicate" /\ r < sc.to THEN served + 1
                ELSE served

IInv == /\ TypeOK /\ HostSync /\ StreamOrder /\ HostServed /\ DoneSync
        /\ Flight /\ SeenBound /\ ServedBound /\ GinSync /\ BufSync
        /\ ForwardReadsOwnRows

-----------------------------------------------------------------------------
\* A nonempty sequence over S begins with an element of S.
LEMMA HeadInSet == ASSUME NEW S, NEW s \in Seq(S), s # <<>> PROVE Head(s) \in S
OBVIOUS

\* The initial state is well typed.
LEMMA TypeInit == Init => TypeOK
<1> USE TPAssumption, MaxStepsAssumption
<1> SUFFICES ASSUME Init PROVE TypeOK
  OBVIOUS
<1>1. plan \in Plans /\ HostType
  BY DEF Init, HostType, Ranks, Phases, Nums
<1>2. GpuType
  BY DEF Init, GpuType, Ranks, Ops, Nums, Rows, Torn
<1>3. InputType /\ WireType
  BY DEF Init, InputType, WireType, Nums, NoItem
<1>4. ServerType
  BY DEF Init, ServerType, Ranks, Nums, Rows, Torn
<1>. QED
  BY <1>1, <1>2, <1>3, <1>4 DEF TypeOK

\* Every step keeps the state well typed.
LEMMA TypeStep == TypeOK /\ [Next]_vars => TypeOK'
<1> USE TPAssumption, MaxStepsAssumption
<1> SUFFICES ASSUME TypeOK, [Next]_vars PROVE TypeOK'
  OBVIOUS
<1> USE DEF TypeOK
<1>0. /\ 0 \in Ranks
      /\ \A k \in Nums : plan[k] \in Nums
      /\ Nums \subseteq Rows /\ Torn \in Rows /\ 0 \in Nums
  BY DEF Plans, Ranks, Nums, Rows, Torn
<1>k1. host' = host => HostType'
  BY DEF host, HostType
<1>k2. gpu' = gpu => GpuType'
  BY DEF gpu, GpuType
<1>k3. input' = input => InputType'
  BY DEF input, InputType
<1>k4. wire' = wire => WireType'
  BY DEF wire, WireType
<1>k5. server' = server => ServerType'
  BY DEF server, ServerType
<1>1. ASSUME NEW r \in Ranks, StartStep(r) PROVE TypeOK'
  <2>1. hs[r] + 1 \in Nums /\ plan[hs[r] + 1] \in Nums
    BY <1>0, <1>1 DEF StartStep, HostType, Nums
  <2>2. HostType'
    BY <1>1, <2>1 DEF StartStep, HostType, Phases
  <2>3. InputType'
    BY <1>1, <2>1 DEF StartStep, InputType, HostType
  <2>. QED
    BY <1>1, <2>2, <2>3, <1>k2, <1>k4, <1>k5 DEF StartStep
<1>2. CASE PutRequest
  BY <1>0, <1>2, <1>k2, <1>k4, <1>k5 DEF PutRequest, HostType, InputType, Phases
<1>3. ASSUME NEW r \in Ranks, LookupDone(r) PROVE TypeOK'
  BY <1>3, <1>k2, <1>k3, <1>k4, <1>k5 DEF LookupDone, HostType, Phases
<1>4. ASSUME NEW r \in Ranks, Raise(r) PROVE TypeOK'
  BY <1>4, <1>k2, <1>k3, <1>k4, <1>k5 DEF Raise, HostType, Phases
<1>5. ASSUME NEW r \in Ranks, GpuPrep(r) PROVE TypeOK'
  <2>1. Expected(gs) \in Nums
    BY <1>0, <1>5 DEF GpuPrep, Enqueued, Expected, Real, GpuType, HostType, Nums
  <2>2. GpuType'
    BY <1>5, <2>1 DEF GpuPrep, GpuType, Ops
  <2>. QED
    BY <1>5, <2>2, <1>k1, <1>k3, <1>k4, <1>k5 DEF GpuPrep
<1>6. ASSUME NEW r \in Ranks, GpuCopy(r) PROVE TypeOK'
  <2>1. GpuType'
    BY <1>0, <1>6 DEF GpuCopy, GpuType, ServerType, Ops
  <2>. QED
    BY <1>6, <2>1, <1>k1, <1>k3, <1>k4, <1>k5 DEF GpuCopy
<1>7. ASSUME NEW r \in Ranks, GpuEmbed(r) PROVE TypeOK'
  <2>1. GpuType'
    BY <1>0, <1>7 DEF GpuEmbed, GpuType, Ops
  <2>. QED
    BY <1>7, <2>1, <1>k1, <1>k3, <1>k4, <1>k5 DEF GpuEmbed
<1>8. CASE GpuReduce
  <2>1. GpuType'
    BY <1>8 DEF GpuReduce, GpuType, Ops
  <2>. QED
    BY <1>8, <2>1, <1>k1, <1>k3, <1>k4, <1>k5 DEF GpuReduce
<1>9. CASE GetRequest
  <2>1. Head(rq) \in [step : Nums, seq : Nat]
    BY <1>9, HeadInSet DEF GetRequest, InputType
  <2>2. InputType'
    BY <1>9, <2>1 DEF GetRequest, InputType
  <2>. QED
    BY <1>9, <2>2, <1>k1, <1>k2, <1>k4, <1>k5 DEF GetRequest
<1>10. CASE StageCuda
  BY <1>10, <1>k1, <1>k2, <1>k4, <1>k5
  DEF StageCuda, AfterStaging, InputType, GpuType
<1>11. CASE StageCpu
  BY <1>11, <1>k1, <1>k2, <1>k4, <1>k5 DEF StageCpu, AfterStaging, InputType
<1>12. CASE RingFields
  BY <1>12, <1>k1, <1>k2, <1>k5 DEF RingFields, InputType, WireType
<1>13. CASE RingSeq
  <2>1. HostType'
    BY <1>0, <1>13 DEF RingSeq, Published, HostType, Phases
  <2>. QED
    BY <1>0, <1>13, <2>1, <1>k2, <1>k5 DEF RingSeq, NoItem, InputType, WireType
<1>14. CASE SendRequest
  BY <1>0, <1>14, <1>k1, <1>k2, <1>k5 DEF SendRequest, NoItem, InputType, WireType
<1>15. CASE SeeDoorbell
  BY <1>15, <1>k1, <1>k2, <1>k3, <1>k4 DEF SeeDoorbell, ServerType, WireType
<1>16. CASE ReadFields
  BY <1>16, <1>k1, <1>k2, <1>k3, <1>k4 DEF ReadFields, ServerType, WireType
<1>17. CASE Receive
  <2>1. Head(zmq) \in Nat /\ Tail(zmq) \in Seq(Nat)
    BY <1>17 DEF Receive, WireType
  <2>. QED
    BY <1>17, <2>1, <1>k1, <1>k2, <1>k3 DEF Receive, ServerType, WireType
<1>18. CASE BeginLookup
  BY <1>0, <1>18, <1>k1, <1>k2, <1>k3, <1>k4 DEF BeginLookup, ServerType, InputType
<1>19. CASE EndLookup
  <2>1. Lookup(sc.ids, sc.batch) \in Rows
    BY <1>0 DEF Lookup, ServerType
  <2>2. TP # 1 => 1 \in Ranks
    BY DEF Ranks
  <2>. QED
    BY <1>0, <1>19, <2>1, <2>2, <1>k1, <1>k2, <1>k3, <1>k4 DEF EndLookup, ServerType
<1>20. CASE Replicate
  <2>1. sc.to # TP - 1 => sc.to + 1 \in Ranks
    BY DEF Ranks, ServerType
  <2>. QED
    BY <1>0, <1>20, <2>1, <1>k1, <1>k2, <1>k3, <1>k4 DEF Replicate, ServerType
<1>21. CASE Publish
  <2>1. sc.to # TP - 1 => sc.to + 1 \in Ranks
    BY DEF Ranks, ServerType
  <2>2. served' \in Nat
    BY <1>21 DEF Publish, ServerType
  <2>3. done' \in [Ranks -> Nat]
    BY <1>21, <2>2 DEF Publish, ServerType
  <2>4. ServerType'
    BY <1>0, <1>21, <2>1, <2>2, <2>3 DEF Publish, ServerType
  <2>. QED
    BY <1>21, <2>4, <1>k1, <1>k2, <1>k3, <1>k4 DEF Publish
<1>22. CASE Die
  BY <1>22, <1>k1, <1>k2, <1>k3, <1>k4 DEF Die, ServerType
<1>23. CASE UNCHANGED vars
  BY <1>23, <1>k1, <1>k2, <1>k3, <1>k4, <1>k5 DEF vars
<1>. QED
  BY <1>1, <1>2, <1>3, <1>4, <1>5, <1>6, <1>7, <1>8, <1>9, <1>10, <1>11, <1>12,
     <1>13, <1>14, <1>15, <1>16, <1>17, <1>18, <1>19, <1>20, <1>21, <1>22, <1>23
  DEF Next, Host, Gpu, Stager, Sidecar, Finished

\* Type correctness of the connector, the streams and the sidecar.
THEOREM TypeCorrect == Spec => []TypeOK
BY TypeInit, TypeStep, PTL DEF Spec

-----------------------------------------------------------------------------
\* The launch numbers of a plan grow with the steps, and grow at a real step.
LEMMA PlanFacts ==
    ASSUME plan \in Plans
    PROVE  /\ \A k \in Nums : plan[k] \in Nums
           /\ \A j, k \in Nums : j <= k => plan[j] <= plan[k]
           /\ \A k \in Nums : k >= 1 /\ Real(k) => plan[k] = plan[k - 1] + 1
           /\ \A j, k \in Nums : j < k /\ Real(k) => plan[j] < plan[k]
<1> USE MaxStepsAssumption DEF Nums
<1>1. /\ \A k \in Nums : plan[k] \in Nums
      /\ \A j, k \in Nums : j <= k => plan[j] <= plan[k]
  BY DEF Plans
<1>2. \A k \in Nums : k >= 1 /\ Real(k) => plan[k] = plan[k - 1] + 1
  <2> SUFFICES ASSUME NEW k \in Nums, k >= 1, Real(k) PROVE plan[k] = plan[k - 1] + 1
    OBVIOUS
  <2>1. k \in 1 .. MaxSteps /\ k - 1 \in Nums
    OBVIOUS
  <2>2. plan[k] <= plan[k - 1] + 1 /\ plan[k - 1] <= plan[k] /\ plan[k] # plan[k - 1]
    BY <1>1, <2>1 DEF Plans, Real
  <2>. QED
    BY <1>1, <2>1, <2>2
<1>3. \A j, k \in Nums : j < k /\ Real(k) => plan[j] < plan[k]
  <2> SUFFICES ASSUME NEW j \in Nums, NEW k \in Nums, j < k, Real(k)
               PROVE plan[j] < plan[k]
    OBVIOUS
  <2>1. k - 1 \in Nums /\ k >= 1 /\ j <= k - 1
    OBVIOUS
  <2>. QED
    BY <1>1, <1>2, <2>1
<1>. QED
  BY <1>1, <1>2, <1>3

\* In a request's flight, TP0 is one launch ahead of the count; else at it.
LEMMA FlightCount ==
    ASSUME IInv
    PROVE  /\ served = lseq[0] \/ served + 1 = lseq[0]
           /\ Serving => served + 1 = lseq[0] /\ StagedNow
           /\ \A r \in Ranks : done[r] \in Nat /\ done[r] <= served
<1>1. /\ served = lseq[0] \/ served + 1 = lseq[0]
      /\ Serving => served + 1 = lseq[0] /\ StagedNow
  BY DEF IInv, Flight, Quiet, AtPut, AtQueue, AtStager, AtWire, AtServer
<1>2. \A r \in Ranks : done[r] \in Nat /\ done[r] <= served
  BY DEF IInv, DoneSync, TypeOK, ServerType
<1>. QED
  BY <1>1, <1>2

\* A launch whose forward is enqueued on some rank has been served, and nothing
\* after the stream's step has been: so its step is not after the stream's, and
\* the sidecar is not working on another one.
LEMMA EnqueuedServed ==
    ASSUME IInv, NEW r \in Ranks, NEW k \in Nums, k >= 1, Real(k), gs <= k,
           k < hs[r] \/ (k = hs[r] /\ hp[r] = "idle")
    PROVE  k = gs /\ served = plan[k] /\ ~Serving
<1> USE MaxStepsAssumption DEF Nums
<1>1. /\ hs[r] \in Nums /\ gs \in Nums /\ served \in Nat /\ hs[0] \in Nums
      /\ 0 \in Ranks /\ gs >= 1
  <2>1. 0 \in Ranks
    BY TPAssumption DEF Ranks
  <2>2. gs >= 1
    BY <2>1 DEF IInv, StreamOrder, TypeOK, HostType, GpuType
  <2>. QED
    BY <2>1, <2>2 DEF IInv, TypeOK, HostType, GpuType, ServerType
<1>2. plan[k] <= lseq[r] /\ (k < hs[r] /\ hp[r] # "idle" => plan[k] + 1 <= lseq[r])
  <2>1. lseq[r] = plan[hs[r]] /\ (hp[r] # "idle" => Real(hs[r]))
    BY DEF IInv, HostSync
  <2>2. plan \in Plans
    BY DEF IInv, TypeOK
  <2>. QED
    BY <1>1, <2>1, <2>2, PlanFacts
<1>3. plan[k] <= done[r] /\ plan[k] \in Nat
  <2>1. lseq[r] \in Nat /\ done[r] \in Nat /\ plan[k] \in Nat
    BY <1>1, PlanFacts DEF IInv, TypeOK, HostType, ServerType
  <2>2. lseq[r] <= done[r] + (IF hp[r] = "idle" THEN 0 ELSE 1)
    BY DEF IInv, HostServed
  <2>. QED
    BY <1>2, <2>1, <2>2
<1>4. plan[k] <= served /\ served <= plan[gs] /\ plan[gs] \in Nat
  BY <1>1, <1>3, FlightCount, PlanFacts DEF IInv, ServedBound, TypeOK
<1>5. k = gs /\ served = plan[k]
  BY <1>1, <1>3, <1>4, PlanFacts DEF IInv, TypeOK
<1>6. ~Serving
  <2> SUFFICES ASSUME Serving PROVE FALSE
    OBVIOUS
  <2>1. served + 1 = lseq[0] /\ gs = hs[0]
    BY FlightCount DEF StagedNow
  <2>2. lseq[0] = plan[hs[0]]
    BY <1>1 DEF IInv, HostSync
  <2>. QED
    BY <1>1, <1>4, <1>5, <2>1, <2>2
<1>. QED
  BY <1>5, <1>6

\* The copy of a real step, once enqueued, finds the rows of that step.
LEMMA CopyReady ==
    ASSUME IInv, NEW r \in Ranks, Enqueued(r, "copy"), Real(gs)
    PROVE  outBuf[r] = plan[gs]
<1>1. gs \in Nums /\ gs >= 1
  BY MaxStepsAssumption
  DEF IInv, TypeOK, HostType, GpuType, StreamOrder, Enqueued, Nums
<1>2. served = plan[gs] /\ ~Serving
  BY <1>1, EnqueuedServed DEF Enqueued, Nums
<1>. QED
  BY <1>2 DEF IInv, BufSync, Serving

-----------------------------------------------------------------------------
\* Ranks and steps are numbers.
LEMMA Numbers ==
    ASSUME TypeOK
    PROVE  /\ 0 \in Ranks
           /\ \A r \in Ranks : r \in Nat /\ hs[r] \in Nums /\ lseq[r] \in Nat
                               /\ done[r] \in Nat
           /\ gs \in Nat /\ served \in Nat /\ seen \in Nat /\ Nums \subseteq Nat
           /\ sc.to \in Ranks /\ page.seq \in Nat /\ staged \in Nums
<1>1. Nums \subseteq Nat /\ 0 \in Ranks /\ Ranks \subseteq Nat
  BY TPAssumption, MaxStepsAssumption DEF Ranks, Nums
<1>2. \A r \in Ranks : hs[r] \in Nums /\ lseq[r] \in Nat
  BY DEF TypeOK, HostType
<1>3. /\ sc.to \in Ranks /\ served \in Nat /\ seen \in Nat
      /\ \A r \in Ranks : done[r] \in Nat
  BY DEF TypeOK, ServerType
<1>4. gs \in Nat /\ page.seq \in Nat /\ staged \in Nums
  BY DEF TypeOK, GpuType, InputType, WireType
<1>. QED
  BY <1>1, <1>2, <1>3, <1>4

\* The start of a step: TP0 turns from quiet to its next launch, or stays quiet.
LEMMA StartStepInv ==
    ASSUME IInv, CudaInputs, NEW r \in Ranks, StartStep(r), TypeOK'
    PROVE  IInv'
<1> USE DEF IInv
<1>0. /\ hs[r] + 1 \in Nums /\ hp[r] = "idle" /\ hs' = [hs EXCEPT ![r] = @ + 1]
      /\ plan' = plan /\ gs' = gs /\ gp' = gp /\ gin' = gin /\ gout' = gout
      /\ server' = server /\ rq' = rq /\ staged' = staged /\ wire' = wire
  BY MaxStepsAssumption, Numbers DEF StartStep, gpu, Nums
<1>1. CASE Real(hs[r] + 1)
  <2>1. /\ lseq' = [lseq EXCEPT ![r] = @ + 1]
        /\ hp' = [hp EXCEPT ![r] = IF r # 0 THEN "wait"
                                   ELSE IF Inline THEN "stage" ELSE "put"]
        /\ st' = IF r = 0 /\ Inline
                   THEN [ph |-> "d2h", step |-> hs[r] + 1, seq |-> lseq[r] + 1]
                   ELSE st
    BY <1>1 DEF StartStep
  <2>2. plan[hs[r] + 1] = plan[hs[r]] + 1
    BY <1>0, <1>1, PlanFacts, Numbers DEF TypeOK
  <2>3. HostSync'
    BY <1>0, <1>1, <2>1, <2>2, Numbers DEF HostSync, Real, TypeOK, HostType
  <2>4. StreamOrder'
    BY <1>0, <2>1, Numbers DEF StreamOrder, TypeOK, HostType
  <2>5. HostServed'
    BY <1>0, <2>1, Numbers DEF HostServed, TypeOK, HostType, server
  <2>6. Flight'
    <3>1. CASE r # 0
      BY <1>0, <2>1, <3>1, Numbers
      DEF Flight, Quiet, AtPut, AtQueue, AtStager, AtWire, AtServer, NoneQueued,
          NoneStaged, NoneSent, Serving, StagedNow, server, wire, TypeOK, HostType
    <3>2. CASE r = 0
      <4>1. Quiet
        BY <1>0, <3>2 DEF Flight, AtPut, AtQueue, AtStager, AtWire, AtServer
      <4>2. /\ hs'[0] = hs[0] + 1 /\ lseq'[0] = lseq[0] + 1
            /\ hp'[0] = IF Inline THEN "stage" ELSE "put"
        BY <1>0, <2>1, <3>2 DEF TypeOK, HostType
      <4>3. CASE Inline
        <5>1. AtStager'
          BY <1>0, <2>1, <3>2, <4>1, <4>2, <4>3
          DEF AtStager, Quiet, NoneQueued, NoneStaged, NoneSent, Serving, server, wire
        <5>. QED
          BY <5>1 DEF Flight
      <4>4. CASE ~Inline
        <5>1. AtPut'
          BY <1>0, <2>1, <3>2, <4>1, <4>2, <4>4
          DEF AtPut, Quiet, NoneQueued, NoneStaged, NoneSent, Serving, server, wire
        <5>. QED
          BY <5>1 DEF Flight
      <4>. QED
        BY <4>3, <4>4
    <3>. QED
      BY <3>1, <3>2
  <2>. QED
    BY <1>0, <2>3, <2>4, <2>5, <2>6
    DEF DoneSync, SeenBound, Serving, ServedBound, GinSync, BufSync,
        ForwardReadsOwnRows, Expected, Real, server
<1>2. CASE ~Real(hs[r] + 1)
  <2>1. lseq' = lseq /\ hp' = hp /\ st' = st
    BY <1>2 DEF StartStep
  <2>2. plan[hs[r] + 1] = plan[hs[r]]
    BY <1>0, <1>2, Numbers DEF Real
  <2>3. HostSync'
    BY <1>0, <2>1, <2>2, Numbers DEF HostSync, Real, TypeOK, HostType
  <2>4. StreamOrder'
    BY <1>0, <2>1, Numbers DEF StreamOrder, TypeOK, HostType
  <2>5. Flight'
    <3>1. CASE r # 0
      BY <1>0, <2>1, <3>1, Numbers
      DEF Flight, Quiet, AtPut, AtQueue, AtStager, AtWire, AtServer, NoneQueued,
          NoneStaged, NoneSent, Serving, StagedNow, server, wire, TypeOK, HostType
    <3>2. CASE r = 0
      <4>1. Quiet
        BY <1>0, <3>2 DEF Flight, AtPut, AtQueue, AtStager, AtWire, AtServer
      <4>2. Quiet'
        BY <1>0, <2>1, <4>1
        DEF Quiet, NoneQueued, NoneStaged, NoneSent, Serving, server, wire
      <4>. QED
        BY <4>2 DEF Flight
    <3>. QED
      BY <3>1, <3>2
  <2>. QED
    BY <1>0, <2>1, <2>3, <2>4, <2>5
    DEF HostServed, DoneSync, SeenBound, Serving, ServedBound, GinSync, BufSync,
        ForwardReadsOwnRows, Expected, Real, server
<1>. QED
  BY <1>1, <1>2

\* The other steps of the model threads.
LEMMA HostInv ==
    ASSUME IInv, TypeOK',
           NEW r \in Ranks, (r = 0 /\ PutRequest) \/ LookupDone(r) \/ Raise(r)
    PROVE  IInv'
<1> USE DEF IInv
<1>0. /\ plan' = plan /\ hs' = hs /\ lseq' = lseq /\ gpu' = gpu /\ staged' = staged
      /\ st' = st /\ wire' = wire /\ server' = server
      /\ hp[r] # "idle" /\ \E x \in Phases : hp' = [hp EXCEPT ![r] = x]
  BY DEF PutRequest, LookupDone, Raise, input, Phases
<1>1. /\ hp'[r] \in {"wait", "idle", "failed"}
      /\ \A q \in Ranks : q # r => hp'[q] = hp[q]
      /\ hp'[r] = "idle" => done[r] >= lseq[r]
  BY DEF PutRequest, LookupDone, Raise, TypeOK, HostType
<1>2. HostSync'
  BY <1>0, <1>1 DEF HostSync, Real
<1>3. StreamOrder'
  BY <1>0, <1>1, Numbers DEF StreamOrder, gpu
<1>4. HostServed'
  BY <1>0, <1>1, Numbers DEF HostServed, server
<1>5. Flight'
  <2>1. CASE r # 0
    BY <1>0, <1>1, <2>1, Numbers
    DEF LookupDone, Raise, input, Flight, Quiet, AtPut, AtQueue, AtStager, AtWire,
        AtServer, NoneQueued, NoneStaged, NoneSent, Serving, StagedNow, server,
        wire, gpu
  <2>2. CASE r = 0 /\ PutRequest
    <3>1. AtPut
      BY <2>2 DEF PutRequest, Flight, Quiet, AtQueue, AtStager, AtWire, AtServer
    <3>2. AtQueue'
      BY <1>0, <2>2, <3>1, Numbers
      DEF PutRequest, AtPut, AtQueue, NoneStaged, NoneSent, Serving, server, wire,
          TypeOK, HostType
    <3>. QED
      BY <3>2 DEF Flight
  <2>3. CASE r = 0 /\ LookupDone(r)
    <3>1. served >= lseq[0]
      BY <2>3, FlightCount, Numbers DEF LookupDone
    <3>2. Quiet
      BY <3>1, Numbers DEF Flight, AtPut, AtQueue, AtStager, AtWire, AtServer
    <3>3. Quiet'
      BY <1>0, <1>1, <2>3, <3>2
      DEF LookupDone, input, Quiet, NoneQueued, NoneStaged, NoneSent, Serving,
          server, wire
    <3>. QED
      BY <3>3 DEF Flight
  <2>4. CASE r = 0 /\ Raise(r)
    <3>1. hp[0] = "wait"
      BY <2>4 DEF Raise, Flight, Quiet, AtPut, AtQueue, AtStager, AtWire, AtServer,
                  NoneQueued
    <3>2. rq' = rq /\ hp'[0] = "failed"
      BY <2>4 DEF Raise, input, TypeOK, HostType
    <3>. QED
      BY <1>0, <3>1, <3>2
      DEF Flight, Quiet, AtPut, AtQueue, AtStager, AtWire, AtServer, NoneQueued,
          NoneStaged, NoneSent, Serving, StagedNow, server, wire, gpu
  <2>. QED
    BY <2>1, <2>2, <2>3, <2>4
<1>. QED
  BY <1>0, <1>2, <1>3, <1>4, <1>5
  DEF DoneSync, SeenBound, Serving, ServedBound, GinSync, BufSync,
      ForwardReadsOwnRows, Expected, Real, server, gpu

\* One operation of one model stream.
LEMMA GpuInv ==
    ASSUME IInv, CudaInputs, TypeOK', NEW r \in Ranks, Gpu(r)
    PROVE  IInv'
<1> USE DEF IInv
<1>0. /\ plan' = plan /\ host' = host /\ gs' = gs /\ input' = input /\ wire' = wire
      /\ server' = server
      /\ \E x \in {"copy", "embed", "reduce"} : gp' = [gp EXCEPT ![r] = x]
  BY DEF Gpu, GpuPrep, GpuCopy, GpuEmbed
<1>1. /\ gp'[r] # "prep"
      /\ \A q \in Ranks : q # r => gp'[q] = gp[q]
  BY <1>0 DEF TypeOK, GpuType
<1>2. gs <= hs[r] /\ (gs = hs[r] /\ hp[r] # "idle" => GpuPrep(r) /\ gp'[r] = "copy")
  BY Numbers DEF Gpu, GpuPrep, GpuCopy, GpuEmbed, Enqueued, StreamOrder, TypeOK, GpuType
<1>3. StreamOrder'
  BY <1>0, <1>1, <1>2, Numbers DEF StreamOrder, host
<1>4. Flight'
  <2>1. gp[0] # "prep" => gp'[0] # "prep"
    BY <1>1, Numbers
  <2>. QED
    BY <1>0, <2>1
    DEF Flight, Quiet, AtPut, AtQueue, AtStager, AtWire, AtServer, NoneQueued,
        NoneStaged, NoneSent, Serving, StagedNow, server, wire, input, host
<1>5. GinSync'
  <2>1. CASE GpuPrep(r)
    BY <1>0, <1>1, <2>1, Numbers DEF GpuPrep, GinSync, Expected, Real
  <2>2. CASE ~GpuPrep(r)
    <3>1. gin' = gin /\ gp[r] # "prep"
      BY <2>2 DEF Gpu, GpuCopy, GpuEmbed
    <3>. QED
      BY <1>0, <1>1, <3>1 DEF GinSync, Real
  <2>. QED
    BY <2>1, <2>2
<1>6. ForwardReadsOwnRows'
  <2>1. CASE GpuCopy(r)
    <3>1. gout' = [gout EXCEPT ![r] = IF Real(gs) THEN outBuf[r] ELSE 0]
      BY <2>1 DEF GpuCopy
    <3>2. Real(gs) => outBuf[r] = plan[gs]
      BY <2>1, CopyReady DEF GpuCopy
    <3>. QED
      BY <1>0, <1>1, <3>1, <3>2
      DEF ForwardReadsOwnRows, Expected, Real, TypeOK, GpuType
  <2>2. CASE GpuPrep(r) \/ GpuEmbed(r)
    <3>1. gout' = gout /\ gp'[r] \in {"copy", "reduce"}
      BY <2>2 DEF GpuPrep, GpuEmbed, TypeOK, GpuType
    <3>. QED
      BY <1>0, <1>1, <3>1 DEF ForwardReadsOwnRows, Expected, Real
  <2>. QED
    BY <2>1, <2>2 DEF Gpu
<1>. QED
  BY <1>0, <1>3, <1>4, <1>5, <1>6
  DEF HostSync, HostServed, DoneSync, SeenBound, Serving, ServedBound, BufSync, Real,
      server, host

\* The collective that ends a step: no launch of TP0 is staged across it.
LEMMA ReduceInv ==
    ASSUME IInv, TypeOK', GpuReduce
    PROVE  IInv'
<1> USE DEF IInv
<1>0. /\ plan' = plan /\ host' = host /\ gin' = gin /\ gout' = gout /\ input' = input
      /\ wire' = wire /\ server' = server /\ gs' = gs + 1
      /\ \A r \in Ranks : gp[r] = "reduce" /\ gp'[r] = "prep"
  BY DEF GpuReduce
<1>1. \A r \in Ranks : gs <= hs[r] /\ (gs = hs[r] => hp[r] = "idle")
  BY <1>0, Numbers DEF StreamOrder
<1>2. StreamOrder'
  BY <1>0, <1>1, Numbers DEF StreamOrder, host
<1>3. ~(StagedNow /\ hp[0] # "idle")
  BY <1>1, Numbers DEF StagedNow
<1>4. Flight'
  BY <1>0, <1>3
  DEF Flight, Quiet, AtPut, AtQueue, AtStager, AtWire, AtServer, NoneQueued,
      NoneStaged, NoneSent, Serving, server, wire, input, host
<1>5. ServedBound'
  <2>1. ASSUME gs + 1 <= MaxSteps PROVE served <= plan[gs + 1]
    <3>1. gs \in Nums /\ gs + 1 \in Nums /\ plan[gs] \in Nat /\ plan[gs + 1] \in Nat
      BY <2>1, Numbers, PlanFacts, MaxStepsAssumption DEF Nums, TypeOK
    <3>2. served <= plan[gs] /\ plan[gs] <= plan[gs + 1]
      BY <2>1, <3>1, PlanFacts, MaxStepsAssumption DEF ServedBound, Nums, TypeOK
    <3>. QED
      BY <3>1, <3>2, Numbers
  <2>. QED
    BY <1>0, <2>1 DEF ServedBound, server
<1>6. GinSync' /\ ForwardReadsOwnRows'
  BY <1>0, Numbers DEF GinSync, ForwardReadsOwnRows
<1>. QED
  BY <1>0, <1>2, <1>4, <1>5, <1>6
  DEF HostSync, HostServed, DoneSync, SeenBound, Serving, BufSync, Real, server, host

\* The stager moves the one request on; what it stages is TP0's current launch.
LEMMA StagerInv ==
    ASSUME IInv, CudaInputs, TypeOK', Stager
    PROVE  IInv'
<1> USE DEF IInv
<1>0. /\ plan' = plan /\ hs' = hs /\ lseq' = lseq /\ gpu' = gpu /\ server' = server
      /\ hp' = hp \/ (hp[0] # "idle" /\ hp' = [hp EXCEPT ![0] = "wait"])
  <2>1. RingSeq => hp[0] # "idle"
    BY DEF RingSeq, Flight, Quiet, AtPut, AtQueue, AtStager, AtWire, AtServer, NoneStaged
  <2>. QED
    BY <2>1 DEF Stager, GetRequest, StageCuda, StageCpu, RingFields, RingSeq,
                SendRequest, host, Published
<1>1. \A r \in Ranks : (hp'[r] = "idle") = (hp[r] = "idle")
  BY <1>0, Numbers DEF TypeOK, HostType
<1>2. HostSync'
  BY <1>0, <1>1 DEF HostSync, Real, TypeOK, HostType
<1>3. StreamOrder' /\ HostServed'
  BY <1>0, <1>1 DEF StreamOrder, HostServed, server, gpu
<1>4. Flight'
  <2>1. CASE GetRequest
    <3>1. AtQueue
      BY <2>1 DEF GetRequest, Flight, Quiet, AtPut, AtStager, AtWire, AtServer, NoneQueued
    <3>2. Head(rq) = [step |-> hs[0], seq |-> lseq[0]]
      BY <3>1 DEF AtQueue
    <3>3. AtStager'
      BY <1>0, <2>1, <3>1, <3>2
      DEF GetRequest, AtQueue, AtStager, NoneQueued, NoneSent, Serving, server, wire, host
    <3>. QED
      BY <3>3 DEF Flight
  <2>2. ASSUME st.ph # "none" PROVE AtStager
    BY <2>2 DEF Flight, Quiet, AtPut, AtQueue, AtWire, AtServer, NoneStaged
  <2>3. CASE StageCuda
    <3>1. AtStager /\ st.ph = "d2h"
      BY <2>2, <2>3 DEF StageCuda
    <3>2. gs = hs[0] /\ gp[0] # "prep"
      BY <2>3, <3>1, Numbers DEF StageCuda, PrepDone, AtStager, StreamOrder
    <3>3. gin = lseq[0]
      BY <3>1, <3>2, Numbers DEF AtStager, GinSync, HostSync
    <3>4. st'.ph \in {"fields", "send"} /\ st'.step = st.step /\ st'.seq = st.seq
      BY <2>3 DEF StageCuda, AfterStaging, TypeOK, InputType
    <3>5. AtStager'
      BY <1>0, <2>3, <3>1, <3>2, <3>3, <3>4
      DEF StageCuda, AtStager, StagedNow, NoneQueued, NoneSent, Serving, server,
          wire, host, gpu
    <3>. QED
      BY <3>5 DEF Flight
  <2>4. CASE StageCpu
    BY <2>2, <2>4 DEF StageCpu, AtStager
  <2>5. CASE RingFields
    <3>1. AtStager /\ st.ph = "fields"
      BY <2>2, <2>5 DEF RingFields
    <3>2. /\ st'.ph = "seq" /\ st'.step = st.step /\ st'.seq = st.seq
          /\ page'.batch = st.seq /\ page'.seq = page.seq
      BY <2>5 DEF RingFields, TypeOK, InputType, WireType
    <3>3. AtStager'
      BY <1>0, <2>5, <3>1, <3>2
      DEF RingFields, AtStager, StagedNow, NoneQueued, NoneSent, Serving, server,
          host, gpu
    <3>. QED
      BY <3>3 DEF Flight
  <2>6. CASE RingSeq
    <3>1. AtStager /\ st.ph = "seq"
      BY <2>2, <2>6 DEF RingSeq
    <3>2. page'.seq = st.seq /\ page'.batch = page.batch /\ hp'[0] # "put"
      BY <1>0, <2>6, <3>1, Numbers
      DEF RingSeq, TypeOK, WireType, HostType, AtStager, Published
    <3>3. AtWire'
      BY <1>0, <1>1, <2>6, <3>1, <3>2, Numbers
      DEF RingSeq, AtStager, AtWire, StagedNow, NoneQueued, NoneStaged, NoneSent,
          Serving, NoItem, server, gpu
    <3>. QED
      BY <3>3 DEF Flight
  <2>7. CASE SendRequest
    <3>1. AtStager /\ st.ph = "send"
      BY <2>2, <2>7 DEF SendRequest
    <3>2. zmq' = <<lseq[0]>>
      BY <2>7, <3>1 DEF SendRequest, AtStager, NoneSent
    <3>3. AtWire'
      BY <1>0, <1>1, <2>7, <3>1, <3>2, Numbers
      DEF SendRequest, AtStager, AtWire, StagedNow, NoneQueued, NoneStaged, NoneSent,
          Serving, NoItem, server, gpu, host
    <3>. QED
      BY <3>3 DEF Flight
  <2>. QED
    BY <2>1, <2>3, <2>4, <2>5, <2>6, <2>7 DEF Stager
<1>. QED
  BY <1>0, <1>2, <1>3, <1>4
  DEF DoneSync, SeenBound, Serving, ServedBound, GinSync, BufSync, ForwardReadsOwnRows,
      Expected, Real, server, gpu

\* The sidecar takes a request only off the wire, and counts it once.
LEMMA SidecarInv ==
    ASSUME IInv, TypeOK', Sidecar \/ Die
    PROVE  IInv'
<1> USE DEF IInv
<1>0. /\ plan' = plan /\ host' = host /\ gpu' = gpu /\ input' = input /\ page' = page
      /\ (zmq' = zmq \/ Receive)
  BY DEF Sidecar, SeeDoorbell, ReadFields, Receive, BeginLookup, EndLookup, Replicate,
         Publish, Die, wire
<1>1. HostSync' /\ StreamOrder' /\ GinSync' /\ ForwardReadsOwnRows'
  BY <1>0
  DEF HostSync, StreamOrder, GinSync, ForwardReadsOwnRows, Expected, Real, host, gpu
<1>2. ASSUME served' = served, done' = done,
             sc'.ph \in {"scan", "read", "lookup", "write", "replicate", "publish"},
             (sc'.ph = "publish" => sc'.to = 0), ~(sc.ph = "publish" /\ sc.to # 0)
      PROVE  HostServed' /\ DoneSync' /\ ServedBound'
  BY <1>0, <1>2 DEF HostServed, DoneSync, ServedBound, host, gpu
<1>3. CASE SeeDoorbell \/ Receive
  <2>1. /\ sc.ph = "scan" /\ served' = served /\ done' = done /\ outBuf' = outBuf
        /\ sc'.ph \in {"read", "lookup"}
    BY <1>3 DEF SeeDoorbell, Receive, TypeOK, ServerType
  <2>2. HostServed' /\ DoneSync' /\ ServedBound'
    BY <1>2, <2>1
  <2>3. AtWire
    BY <1>3, <2>1, Numbers
    DEF SeeDoorbell, Receive, RungNew, Flight, Quiet, AtPut, AtQueue, AtStager,
        AtServer, NoneSent, Serving
  <2>4. AtServer' /\ SeenBound'
    <3>1. CASE SeeDoorbell
      <4>1. page.seq = lseq[0] /\ page.batch = lseq[0] /\ zmq = <<>>
        BY <2>3, <3>1, Numbers DEF SeeDoorbell, RungNew, AtWire
      <4>2. seen' = page.seq /\ sc'.ph = "read" /\ zmq' = zmq
        BY <3>1 DEF SeeDoorbell, TypeOK, ServerType, wire
      <4>3. AtServer'
        BY <1>0, <2>1, <2>3, <4>1, <4>2
        DEF AtWire, AtServer, StagedNow, Serving, NoneQueued, NoneStaged, NoneSent,
            host, gpu, input
      <4>4. SeenBound'
        BY <2>1, <2>3, <4>1, <4>2, Numbers DEF AtWire, SeenBound, Serving
      <4>. QED
        BY <4>3, <4>4
    <3>2. CASE Receive
      <4>1. zmq = <<lseq[0]>> /\ page.seq = seen
        BY <2>3, <3>2 DEF Receive, AtWire
      <4>2. zmq' = <<>> /\ seen' = seen /\ sc'.ph = "lookup" /\ sc'.batch = lseq[0]
        BY <3>2, <4>1 DEF Receive, TypeOK, ServerType
      <4>3. seen <= served
        BY <2>1, Numbers DEF SeenBound, Serving
      <4>4. AtServer'
        BY <1>0, <2>1, <2>3, <4>1, <4>2
        DEF AtWire, AtServer, StagedNow, Serving, NoneQueued, NoneStaged, NoneSent,
            host, gpu, input
      <4>5. SeenBound'
        BY <2>1, <4>2, <4>3, Numbers DEF SeenBound, Serving
      <4>. QED
        BY <4>4, <4>5
    <3>. QED
      BY <1>3, <3>1, <3>2
  <2>5. BufSync'
    BY <2>1 DEF BufSync
  <2>. QED
    BY <1>0, <1>1, <2>2, <2>4, <2>5 DEF Flight
<1>4. ASSUME Serving PROVE AtServer
  BY <1>4 DEF Flight, Quiet, AtPut, AtQueue, AtStager, AtWire
<1>5. CASE ReadFields \/ BeginLookup \/ EndLookup \/ Replicate
  <2>1. /\ AtServer /\ served' = served /\ done' = done /\ seen' = seen /\ zmq' = zmq
        /\ sc.ph \in {"read", "lookup", "write", "replicate"}
        /\ sc'.ph \in {"lookup", "write", "replicate", "publish"}
        /\ sc'.ph = "publish" => sc'.to = 0
    BY <1>4, <1>5
    DEF ReadFields, BeginLookup, EndLookup, Replicate, Serving, TypeOK, ServerType, wire
  <2>2. HostServed' /\ DoneSync' /\ ServedBound'
    BY <1>2, <2>1
  <2>3. SeenBound'
    BY <2>1 DEF SeenBound, Serving
  <2>4. AtServer'
    <3>1. (sc'.ph \in {"lookup", "write", "replicate"} => sc'.batch = lseq[0])
      BY <1>5, <2>1
      DEF ReadFields, BeginLookup, EndLookup, Replicate, AtServer, TypeOK, ServerType
    <3>2. sc'.ph = "write" => sc'.ids = staged
      BY <1>5 DEF ReadFields, BeginLookup, EndLookup, Replicate, TypeOK, ServerType
    <3>3. sc'.ph # "read"
      BY <2>1
    <3>4. sc'.ph = "replicate" => sc'.to # 0
      <4>1. ASSUME sc'.ph = "replicate" PROVE EndLookup \/ Replicate
        BY <1>5, <4>1 DEF ReadFields, BeginLookup, TypeOK, ServerType
      <4>2. CASE EndLookup
        BY <4>2 DEF EndLookup, TypeOK, ServerType
      <4>3. CASE Replicate
        <5>1. sc.to \in Nat
          BY Numbers
        <5>2. sc'.ph = "replicate" => sc'.to = sc.to + 1
          BY <4>3 DEF Replicate, TypeOK, ServerType
        <5>. QED
          BY <5>1, <5>2
      <4>. QED
        BY <4>1, <4>2, <4>3
    <3>. QED
      BY <1>0, <2>1, <3>1, <3>2, <3>3, <3>4
      DEF AtServer, StagedNow, Serving, NoneQueued, NoneStaged, NoneSent, host, gpu, input
  <2>5. BufSync'
    <3>1. CASE ReadFields
      BY <3>1 DEF ReadFields, BufSync, TypeOK, ServerType
    <3>2. CASE BeginLookup
      BY <3>2 DEF BeginLookup, BufSync, TypeOK, ServerType
    <3>3. CASE EndLookup
      <4>1. Lookup(sc.ids, sc.batch) = served + 1
        BY <2>1, <3>3 DEF EndLookup, Lookup, AtServer, StagedNow
      <4>2. /\ outBuf'[0] = served + 1
            /\ \A r \in Ranks : r # 0 => outBuf'[r] = served
        BY <3>3, <4>1, Numbers DEF EndLookup, BufSync, TypeOK, ServerType
      <4>3. CASE TP = 1
        BY <2>1, <3>3, <4>2, <4>3 DEF EndLookup, BufSync, TypeOK, ServerType, Ranks
      <4>4. CASE TP # 1
        BY <2>1, <3>3, <4>2, <4>4, Numbers DEF EndLookup, BufSync, TypeOK, ServerType, Ranks
      <4>. QED
        BY <4>3, <4>4
    <3>4. CASE Replicate
      <4>0. sc.to \in Nat /\ sc.to \in Ranks
        BY Numbers
      <4>1. sc.to # 0
        BY <2>1, <3>4 DEF Replicate, AtServer
      <4>2. \A r \in Ranks : outBuf'[r] = IF r <= sc.to THEN served + 1 ELSE served
        BY <3>4, <4>0, <4>1, Numbers DEF Replicate, BufSync, TypeOK, ServerType
      <4>3. CASE sc.to = TP - 1
        BY <2>1, <3>4, <4>2, <4>3 DEF Replicate, BufSync, TypeOK, ServerType, Ranks
      <4>4. CASE sc.to # TP - 1
        BY <2>1, <3>4, <4>0, <4>2, <4>4, Numbers
        DEF Replicate, BufSync, TypeOK, ServerType
      <4>. QED
        BY <4>3, <4>4
    <3>. QED
      BY <1>5, <3>1, <3>2, <3>3, <3>4
  <2>. QED
    BY <1>0, <1>1, <2>2, <2>3, <2>4, <2>5 DEF Flight
<1>6. CASE Publish
  <2>0. /\ sc.ph = "publish" /\ zmq' = zmq /\ seen' = seen /\ outBuf' = outBuf
        /\ served' = (IF sc.to = 0 THEN served + 1 ELSE served)
        /\ done' = [done EXCEPT ![sc.to] = served']
        /\ sc'.ph \in {"scan", "publish"}
        /\ sc'.ph = "publish" => sc'.to = sc.to + 1 /\ sc.to # TP - 1
        /\ sc'.ph = "scan" => sc.to = TP - 1
        /\ sc'.to # 0 \/ sc'.ph = "scan"
    BY <1>6, Numbers DEF Publish, wire, TypeOK, ServerType
  <2>1. DoneSync'
    <3>1. CASE sc.to = 0
      <4>1. \A r \in Ranks : done'[r] = IF r = 0 THEN served + 1 ELSE served
        BY <2>0, <3>1, Numbers DEF DoneSync, TypeOK, ServerType
      <4>. QED
        BY <2>0, <3>1, <4>1, Numbers DEF DoneSync, Ranks
    <3>2. CASE sc.to # 0
      <4>1. \A r \in Ranks : done'[r] = IF r > sc.to THEN served - 1 ELSE served
        BY <2>0, <3>2, Numbers DEF DoneSync, TypeOK, ServerType
      <4>. QED
        BY <2>0, <3>2, <4>1, Numbers DEF DoneSync, Ranks
    <3>. QED
      BY <3>1, <3>2
  <2>2. HostServed'
    <3>1. \A r \in Ranks : done'[r] >= done[r] /\ done'[r] \in Nat
      BY <2>0, Numbers DEF DoneSync, TypeOK, ServerType
    <3>. QED
      BY <1>0, <3>1, Numbers DEF HostServed, host
  <2>3. SeenBound' /\ BufSync'
    BY <2>0, Numbers DEF SeenBound, BufSync, Serving
  <2>4. Flight' /\ ServedBound'
    <3>1. CASE sc.to = 0
      <4>1. AtServer
        BY <1>4, <2>0, <3>1 DEF Serving
      <4>2. Quiet'
        BY <1>0, <2>0, <3>1, <4>1
        DEF AtServer, Quiet, Serving, NoneQueued, NoneStaged, NoneSent, host, gpu, input
      <4>3. ServedBound'
        BY <1>0, <2>0, <3>1, <4>1, Numbers
        DEF AtServer, StagedNow, ServedBound, HostSync, gpu
      <4>. QED
        BY <4>2, <4>3 DEF Flight
    <3>2. CASE sc.to # 0
      BY <1>0, <2>0, <3>2
      DEF Flight, Quiet, AtPut, AtQueue, AtStager, AtWire, AtServer, NoneQueued,
          NoneStaged, NoneSent, Serving, StagedNow, ServedBound, host, gpu, input
    <3>. QED
      BY <3>1, <3>2
  <2>. QED
    BY <1>0, <1>1, <2>1, <2>2, <2>3, <2>4
<1>7. CASE Die
  BY <1>0, <1>1, <1>7
  DEF Die, HostServed, DoneSync, SeenBound, ServedBound, BufSync, Flight, Quiet, AtPut,
      AtQueue, AtStager, AtWire, AtServer, NoneQueued, NoneStaged, NoneSent, Serving,
      StagedNow, host, gpu, input, wire
<1>. QED
  BY <1>3, <1>5, <1>6, <1>7 DEF Sidecar

-----------------------------------------------------------------------------
LEMMA InvInit == Init => IInv
<1> SUFFICES ASSUME Init PROVE IInv
  OBVIOUS
<1>1. TypeOK /\ 0 \in Ranks
  BY TypeInit, Numbers
<1>2. plan[0] = 0
  BY DEF Init, Plans
<1>3. /\ \A r \in Ranks : /\ hs[r] = 0 /\ hp[r] = "idle" /\ lseq[r] = 0 /\ gp[r] = "prep"
                          /\ done[r] = 0 /\ outBuf[r] = 0
      /\ gs = 1 /\ rq = <<>> /\ st.ph = "none" /\ page.seq = 0 /\ zmq = <<>>
      /\ sc.ph = "scan" /\ seen = 0 /\ served = 0
  BY DEF Init, NoItem
<1>4. HostSync /\ StreamOrder /\ HostServed /\ DoneSync /\ BufSync
  BY <1>2, <1>3 DEF HostSync, StreamOrder, HostServed, DoneSync, BufSync
<1>5. Flight
  BY <1>1, <1>3 DEF Flight, Quiet, NoneQueued, NoneStaged, NoneSent, Serving
<1>6. SeenBound /\ GinSync /\ ForwardReadsOwnRows
  BY <1>1, <1>3 DEF SeenBound, Serving, GinSync, ForwardReadsOwnRows
<1>7. ServedBound
  <2>1. MaxSteps >= 1 => plan[1] \in Nat
    BY <1>1, PlanFacts, MaxStepsAssumption DEF TypeOK, Nums
  <2>. QED
    BY <1>3, <2>1, MaxStepsAssumption DEF ServedBound
<1>. QED
  BY <1>1, <1>4, <1>5, <1>6, <1>7 DEF IInv

LEMMA InvStep == ASSUME CudaInputs PROVE IInv /\ [Next]_vars => IInv'
<1> SUFFICES ASSUME IInv, [Next]_vars PROVE IInv'
  OBVIOUS
<1>1. TypeOK'
  BY TypeStep DEF IInv
<1>2. CASE UNCHANGED vars
  BY <1>1, <1>2
  DEF IInv, vars, host, gpu, input, wire, server, HostSync, StreamOrder, HostServed,
      DoneSync, Flight, Quiet, AtPut, AtQueue, AtStager, AtWire, AtServer, NoneQueued,
      NoneStaged, NoneSent, Serving, StagedNow, SeenBound, ServedBound, GinSync,
      BufSync, ForwardReadsOwnRows, Expected, Real
<1>3. CASE \E r \in Ranks : Host(r) \/ Gpu(r)
  BY <1>1, <1>3, StartStepInv, HostInv, GpuInv DEF Host
<1>4. CASE GpuReduce \/ Stager \/ Sidecar \/ Die
  BY <1>1, <1>4, ReduceInv, StagerInv, SidecarInv
<1>. QED
  BY <1>2, <1>3, <1>4 DEF Next, Finished

\* With GPU-side runner inputs (MRV2) every forward on every rank reads the rows of
\* its own batch, whatever the interleaving, the faults and the schedule.
THEOREM ForwardReadsOwnRowsHolds ==
    ASSUME CudaInputs PROVE Spec => []ForwardReadsOwnRows
<1>1. IInv => ForwardReadsOwnRows
  BY DEF IInv
<1>. QED
  BY <1>1, InvInit, InvStep, PTL DEF Spec

\* ... and the sidecar never writes a result buffer under a pending GPU copy, with
\* no stream synchronisation between the two.
THEOREM NoOverwriteUnderCopyHolds ==
    ASSUME CudaInputs PROVE Spec => []NoOverwriteUnderCopy
<1>1. IInv => NoOverwriteUnderCopy
  <2> SUFFICES ASSUME IInv, NEW r \in Ranks, CopyPending(r), Overwriting(r) PROVE FALSE
    BY DEF NoOverwriteUnderCopy
  <2>1. Serving
    BY DEF Overwriting, Serving
  <2>2. PICK k \in gs .. hs[r] : Real(k) /\ (k = hs[r] => hp[r] = "idle")
    BY DEF CopyPending
  <2>3. k \in Nums /\ k >= 1 /\ gs <= k /\ (k < hs[r] \/ (k = hs[r] /\ hp[r] = "idle"))
    BY <2>2, Numbers, MaxStepsAssumption DEF IInv, StreamOrder, Nums
  <2>. QED
    BY <2>1, <2>2, <2>3, EnqueuedServed
<1>. QED
  BY <1>1, InvInit, InvStep, PTL DEF Spec

\* ... and the inputs and sizes the sidecar works from are those of one launch.
THEOREM RequestIsCoherentHolds ==
    ASSUME CudaInputs PROVE Spec => []RequestIsCoherent
<1>1. IInv => RequestIsCoherent
  BY DEF IInv, Flight, Quiet, AtPut, AtQueue, AtStager, AtWire, AtServer, Serving,
         StagedNow, RequestIsCoherent
<1>. QED
  BY <1>1, InvInit, InvStep, PTL DEF Spec

\* ... and the count the sidecar publishes is the launch number that is waited for.
THEOREM CountMeansLaunchHolds ==
    ASSUME CudaInputs PROVE Spec => []CountMeansLaunch
<1>1. IInv => CountMeansLaunch
  <2> SUFFICES ASSUME IInv PROVE CountMeansLaunch
    OBVIOUS
  <2>1. served \in Nat /\ \A r \in Ranks : done[r] = served \/ done[r] = served - 1
    BY Numbers DEF IInv, DoneSync
  <2>2. 0 \in Ranks /\ lseq[0] \in Nat /\ \A r \in Ranks : done[r] \in Nat
    BY Numbers DEF IInv
  <2>. QED
    BY <2>1, <2>2, FlightCount DEF CountMeansLaunch
<1>. QED
  BY <1>1, InvInit, InvStep, PTL DEF Spec

\* ... and a doorbell is rung only after the sidecar consumed the one before it.
THEOREM NoLostDoorbellHolds ==
    ASSUME CudaInputs PROVE Spec => NoLostDoorbell
<1>1. IInv /\ [Next]_vars => [page'.seq # page.seq => seen = page.seq]_vars
  <2> SUFFICES ASSUME IInv, [Next]_vars, page'.seq # page.seq PROVE seen = page.seq
    OBVIOUS
  <2>1. CASE RingFields
    BY <2>1 DEF RingFields, IInv, TypeOK, WireType
  <2>2. CASE RingSeq
    BY <2>2 DEF RingSeq, IInv, Flight, Quiet, AtPut, AtQueue, AtStager, AtWire, AtServer,
                NoneStaged, NoneSent
  <2>3. CASE page' = page
    BY <2>3
  <2>. QED
    BY <2>1, <2>2, <2>3
    DEF Next, Host, Gpu, Stager, Sidecar, Finished, StartStep, PutRequest, LookupDone,
        Raise, GpuPrep, GpuCopy, GpuEmbed, GpuReduce, GetRequest, StageCuda, StageCpu,
        SendRequest, SeeDoorbell, ReadFields, Receive, BeginLookup, EndLookup,
        Replicate, Publish, Die, wire, vars
<1>. QED
  BY <1>1, InvInit, InvStep, PTL DEF Spec, NoLostDoorbell
-----------------------------------------------------------------------------
(* The invariant itself, the request queue, and the waits of every mode.     *)

\* The whole invariant the other theorems rest on holds in every state.
THEOREM InvariantHolds == ASSUME CudaInputs PROVE Spec => []IInv
BY InvInit, InvStep, PTL DEF Spec

\* The slot of the request queue is free whenever the model thread puts.
THEOREM PutNeverBlocksHolds ==
    ASSUME CudaInputs PROVE Spec => []PutNeverBlocks
<1>1. IInv => PutNeverBlocks
  BY DEF IInv, Flight, Quiet, AtPut, AtQueue, AtStager, AtWire, AtServer, NoneQueued,
         NoneStaged, PutNeverBlocks
<1>. QED
  BY <1>1, InvInit, InvStep, PTL DEF Spec

\* In every mode the wait in the layer is satisfied before the stream reaches it:
\* the copy, or the zero fill of a dummy run, has signalled.
THEOREM WaitNeverPendingHolds == Spec => []WaitNeverPending
<1>1. Init => WaitNeverPending
  BY DEF Init, WaitNeverPending
<1>2. TypeOK /\ WaitNeverPending /\ [Next]_vars => WaitNeverPending'
  <2> SUFFICES ASSUME TypeOK, WaitNeverPending, [Next]_vars PROVE WaitNeverPending'
    OBVIOUS
  <2>0. gp \in [Ranks -> Ops] /\ flag \in [Ranks -> {0, 1}]
    BY DEF TypeOK, GpuType
  <2>1. ASSUME NEW r \in Ranks, Gpu(r) PROVE WaitNeverPending'
    BY <2>0, <2>1 DEF Gpu, GpuPrep, GpuCopy, GpuEmbed, WaitNeverPending
  <2>2. CASE GpuReduce
    BY <2>2 DEF GpuReduce, WaitNeverPending
  <2>3. CASE UNCHANGED <<gp, flag>>
    BY <2>3 DEF WaitNeverPending
  <2>4. ASSUME NEW r \in Ranks, Host(r) PROVE UNCHANGED <<gp, flag>>
    BY <2>4 DEF Host, StartStep, PutRequest, LookupDone, Raise, gpu
  <2>5. CASE Stager \/ Sidecar \/ Die \/ Finished \/ UNCHANGED vars
    BY <2>3, <2>5
    DEF Stager, Sidecar, Die, Finished, vars, gpu, GetRequest, StageCuda, StageCpu,
        RingFields, RingSeq, SendRequest, SeeDoorbell, ReadFields, Receive, BeginLookup,
        EndLookup, Replicate, Publish
  <2>. QED
    BY <2>1, <2>2, <2>3, <2>4, <2>5 DEF Next
<1>. QED
  BY <1>1, <1>2, TypeInit, TypeStep, PTL DEF Spec

-----------------------------------------------------------------------------
(* Refinement: the model cannot tell the offload from owning the tables.     *)

LEMMA LocalInit == Init => Local!Init
<1> SUFFICES ASSUME Init PROVE Local!Init
  OBVIOUS
<1>1. \A k \in 1 .. MaxSteps : Expected(k) \in 0 .. MaxSteps
  BY MaxStepsAssumption DEF Init, Plans, Expected
<1>. QED
  BY <1>1 DEF Init, Local!Init

\* A step of the protocol is the PLE layer of one forward, with that step's rows,
\* or nothing that the model could see.
LEMMA LocalStep ==
    ASSUME CudaInputs PROVE IInv /\ [Next]_vars => [Local!Next]_(Local!vars)
<1> SUFFICES ASSUME IInv, [Next]_vars PROVE [Local!Next]_(Local!vars)
  OBVIOUS
<1>0. /\ gp \in [Ranks -> Ops] /\ rows \in [Ranks -> Rows] /\ gs \in Nat
      /\ hs \in [Ranks -> Nums]
  BY DEF IInv, TypeOK, HostType, GpuType
<1>1. ASSUME plan' = plan, rows' = rows, gs' = gs,
             \A q \in Ranks : (gp'[q] = "reduce") <=> (gp[q] = "reduce")
      PROVE  UNCHANGED Local!vars
  BY <1>1 DEF Local!vars, Expected, Real
<1>2. ASSUME NEW r \in Ranks, GpuEmbed(r) PROVE Local!Forward(r)
  <2>1. /\ gp[r] = "embed" /\ gp' = [gp EXCEPT ![r] = "reduce"] /\ gs' = gs
        /\ rows' = [rows EXCEPT ![r] = gout[r]] /\ plan' = plan
    BY <1>2 DEF GpuEmbed
  <2>2. gout[r] = Expected(gs)
    BY <2>1 DEF IInv, ForwardReadsOwnRows
  <2>3. gs \in 1 .. MaxSteps
    BY <1>0, <2>1, MaxStepsAssumption DEF IInv, StreamOrder, Nums
  <2>4. rows' = [rows EXCEPT ![r] = [k \in 1 .. MaxSteps |-> Expected(k)][(gs - 1) + 1]]
    BY <2>1, <2>2, <2>3
  <2>. DEFINE E == [q \in Ranks |-> IF gp[q] = "reduce" THEN gs ELSE gs - 1]
  <2>5. E' = [E EXCEPT ![r] = @ + 1]
    <3>1. \A q \in Ranks : gp'[q] = IF q = r THEN "reduce" ELSE gp[q]
      BY <1>0, <2>1
    <3>2. E' = [q \in Ranks |-> IF q = r THEN gs ELSE E[q]]
      BY <2>1, <3>1
    <3>3. E[r] + 1 = gs
      BY <1>0, <2>1
    <3>. HIDE DEF E
    <3>4. [q \in Ranks |-> IF q = r THEN gs ELSE E[q]] = [E EXCEPT ![r] = gs]
      <4>1. E = [q \in Ranks |-> E[q]]
        BY DEF E
      <4>. QED
        BY <4>1
    <3>. QED
      BY <3>2, <3>3, <3>4
  <2>6. E[r] < MaxSteps /\ \A q \in Ranks : E[q] >= E[r]
    BY <1>0, <2>1, <2>3, MaxStepsAssumption
  <2>7. UNCHANGED [k \in 1 .. MaxSteps |-> Expected(k)]
    BY <2>1 DEF Expected, Real
  <2>8. rows' = [rows EXCEPT ![r] = [k \in 1 .. MaxSteps |-> Expected(k)][E[r] + 1]]
    <3>1. E[r] = gs - 1
      BY <2>1
    <3>. QED
      BY <2>4, <3>1
  <2>. QED
    BY <2>5, <2>6, <2>7, <2>8 DEF Local!Forward
<1>3. ASSUME NEW r \in Ranks, GpuPrep(r) \/ GpuCopy(r) PROVE UNCHANGED Local!vars
  BY <1>0, <1>1, <1>3 DEF GpuPrep, GpuCopy
<1>4. CASE GpuReduce
  <2>1. [q \in Ranks |-> IF gp'[q] = "reduce" THEN gs' ELSE gs' - 1]
          = [q \in Ranks |-> IF gp[q] = "reduce" THEN gs ELSE gs - 1]
    BY <1>0, <1>4 DEF GpuReduce
  <2>. QED
    BY <1>4, <2>1 DEF GpuReduce, Local!vars, Expected, Real
<1>5. ASSUME NEW r \in Ranks, Host(r) PROVE UNCHANGED Local!vars
  BY <1>1, <1>5 DEF Host, StartStep, PutRequest, LookupDone, Raise, gpu
<1>6. CASE Stager \/ Sidecar \/ Die \/ Finished \/ UNCHANGED vars
  BY <1>1, <1>6
  DEF Stager, Sidecar, Die, Finished, vars, gpu, GetRequest, StageCuda, StageCpu,
      RingFields, RingSeq, SendRequest, SeeDoorbell, ReadFields, Receive, BeginLookup,
      EndLookup, Replicate, Publish
<1>. QED
  BY <1>2, <1>3, <1>4, <1>5, <1>6 DEF Next, Gpu, Local!Next

\* What the streams read is what they would read from tables of their own: the
\* protocol starts as PleLocal and every step of it is a step of PleLocal or
\* changes nothing there.
THEOREM ImplementsLocalSteps ==
    ASSUME CudaInputs PROVE Spec => Local!Init /\ [][Local!Next]_(Local!vars)
BY InvInit, InvStep, LocalInit, LocalStep, PTL DEF Spec
=============================================================================
