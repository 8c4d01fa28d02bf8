----------------------------- MODULE PleOffload -----------------------------
(***************************************************************************)
(* The lookup protocol of the PLE CPU offload, for one data-parallel rank: *)
(* the model threads of its tensor-parallel GPU workers, their GPU model   *)
(* streams, the staging of inputs by TP rank 0 (inline or by the request   *)
(* thread), the doorbell page or the ZMQ channel, and the sidecar process  *)
(* that owns the embedding tables.                                         *)
(*                                                                         *)
(* Data.  A batch, its inputs and the embedding rows looked up for it are  *)
(* all named by the launch number of the batch; 0 stands for zeroed rows,  *)
(* Torn for a buffer that is being written or mixes two batches.           *)
(*                                                                         *)
(* GPU streams.  Every step enqueues the same operations on the model      *)
(* stream ("prep", "copy", "embed", "reduce"), and a stream executes them  *)
(* in order, so a stream is a program counter: step gs, operation gp[r].   *)
(* An operation may execute once the host has enqueued it.                 *)
(***************************************************************************)
EXTENDS Naturals, Sequences

CONSTANTS TP,          \* tensor-parallel size of the DP rank
          MaxSteps,    \* bound: engine steps explored
          Doorbell,    \* PLE_OFFLOAD_DOORBELL: requests go through the page
          CudaInputs,  \* _uses_cuda_inputs: MRV2 sources (FALSE: MRV1's)
          AsyncPrep,   \* MRV1 with async scheduling: prepare_inputs_event
          Faults       \* the sidecar may die and the deadlines may expire

ASSUME TPAssumption == TP \in Nat \ {0}
ASSUME MaxStepsAssumption == MaxSteps \in Nat
ASSUME ModeAssumption == {Doorbell, CudaInputs, AsyncPrep, Faults} \subseteq BOOLEAN

VARIABLES
    plan,     \* plan[k]: real launches among steps 1..k (the rest are dummy)
    hs, hp,   \* per rank, model thread: step in hand, phase
    lseq,     \* per rank, _launch_seq
    gs, gp,   \* GPU: step being executed, per rank the next operation of it
    gin,      \* TP0, device input buffers (MRV2): batch they hold
    cin,      \* TP0, CPU input mirrors (MRV1): batch they hold
    staged,   \* the shared input buffers: batch they hold
    rq,       \* _request_queue (maxsize 1)
    st,       \* the stager of TP0: phase, and the item it is staging
    page,     \* doorbell slots of TP0's page: batch sizes, sequence number
    zmq,      \* requests in the ZMQ PUSH/PULL channel
    life,     \* the sidecar process: up or dead
    sc,       \* the sidecar: phase, batch sizes, ids it read, next target
    seen,     \* db_seen
    served,   \* _done_seq of the DP rank
    done,     \* per rank, slot 0 of its page
    outBuf,   \* per rank, shared result buffer
    gout,     \* per rank, _gpu_output_buffer
    flag,     \* per rank, the CpuGpuSemaphore
    rows      \* per rank, rows the PLE layer of the last forward returned

host   == <<hs, hp, lseq>>
gpu    == <<gs, gp, gin, gout, flag, rows>>
input  == <<cin, staged, rq, st>>
wire   == <<page, zmq>>
server == <<life, sc, seen, served, done, outBuf>>
vars   == <<plan, host, gpu, input, wire, server>>

Ranks == 0 .. TP - 1
Torn  == MaxSteps + 1
Rows  == 0 .. Torn

\* prepare_forward: the model thread of TP0 stages and rings itself.
Inline == Doorbell /\ CudaInputs

\* The schedules of real and dummy forwards.
Plans == {p \in [0 .. MaxSteps -> 0 .. MaxSteps] :
            /\ p[0] = 0
            /\ \A j, k \in 0 .. MaxSteps : j <= k => p[j] <= p[k]
            /\ \A k \in 1 .. MaxSteps : p[k] <= p[k - 1] + 1}

Real(k) == k >= 1 /\ plan[k] # plan[k - 1]

\* What the PLE layer must return in step k.
Expected(k) == IF Real(k) THEN plan[k] ELSE 0

NoItem == [ph |-> "none", step |-> 0, seq |-> 0]

Init ==
    /\ plan \in Plans
    /\ hs = [r \in Ranks |-> 0] /\ hp = [r \in Ranks |-> "idle"]
    /\ lseq = [r \in Ranks |-> 0]
    /\ gs = 1 /\ gp = [r \in Ranks |-> "prep"]
    /\ gin = 0 /\ cin = 0 /\ staged = 0
    /\ rq = <<>> /\ st = NoItem
    /\ page = [batch |-> 0, seq |-> 0] /\ zmq = <<>>
    /\ life = "up"
    /\ sc = [ph |-> "scan", batch |-> 0, ids |-> 0, to |-> 0]
    /\ seen = 0 /\ served = 0
    /\ done = [r \in Ranks |-> 0]
    /\ outBuf = [r \in Ranks |-> 0] /\ gout = [r \in Ranks |-> 0]
    /\ flag = [r \in Ranks |-> 0] /\ rows = [r \in Ranks |-> 0]

-----------------------------------------------------------------------------
(* The model streams.                                                      *)

\* The input preparation of a step is enqueued when the step starts, the rest
\* of it when prepare_forward has returned.
Enqueued(r, op) == gs < hs[r] \/ (gs = hs[r] /\ (op = "prep" \/ hp[r] = "idle"))

\* The event recorded after the input preparation of step k has completed.
PrepDone(k, r) == k < gs \/ (k = gs /\ gp[r] # "prep")

GpuPrep(r) ==
    /\ gp[r] = "prep" /\ Enqueued(r, "prep")
    /\ gin' = IF r = 0 /\ CudaInputs THEN Expected(gs) ELSE gin
    /\ gp' = [gp EXCEPT ![r] = "copy"]
    /\ UNCHANGED <<plan, host, gs, gout, flag, rows, input, wire, server>>

\* Mutant: a dummy run leaves the device buffer as it is.
GpuCopy_KeepOnDummy(r) ==
    /\ gp[r] = "copy" /\ Enqueued(r, "copy")
    /\ gout' = [gout EXCEPT ![r] = IF Real(gs) THEN outBuf[r] ELSE @]
    /\ flag' = [flag EXCEPT ![r] = 1]
    /\ gp' = [gp EXCEPT ![r] = "embed"]
    /\ UNCHANGED <<plan, host, gs, gin, rows, input, wire, server>>

\* Mutant: a dummy run does not signal.
GpuCopy_NoDummySignal(r) ==
    /\ gp[r] = "copy" /\ Enqueued(r, "copy")
    /\ gout' = [gout EXCEPT ![r] = IF Real(gs) THEN outBuf[r] ELSE 0]
    /\ flag' = [flag EXCEPT ![r] = IF Real(gs) THEN 1 ELSE @]
    /\ gp' = [gp EXCEPT ![r] = "embed"]
    /\ UNCHANGED <<plan, host, gs, gin, rows, input, wire, server>>

\* The H2D copy out of the shared result buffer (real), or the zero fill of
\* signal_dummy_outputs; either way the semaphore is signalled behind it.
GpuCopy(r) ==
    /\ gp[r] = "copy" /\ Enqueued(r, "copy")
    /\ gout' = [gout EXCEPT ![r] = IF Real(gs) THEN outBuf[r] ELSE 0]
    /\ flag' = [flag EXCEPT ![r] = 1]
    /\ gp' = [gp EXCEPT ![r] = "embed"]
    /\ UNCHANGED <<plan, host, gs, gin, rows, input, wire, server>>

\* The PLE layer of the forward: ple_offload_wait, then the buffer is read.
GpuEmbed(r) ==
    /\ gp[r] = "embed" /\ flag[r] = 1
    /\ rows' = [rows EXCEPT ![r] = gout[r]]
    /\ gp' = [gp EXCEPT ![r] = "reduce"]
    /\ UNCHANGED <<plan, host, gs, gin, gout, flag, input, wire, server>>

\* The rest of the forward; its TP collective completes on all ranks or none.
\* release_outputs resets the semaphores behind it.
GpuReduce ==
    /\ \A r \in Ranks : gp[r] = "reduce"
    /\ gs' = gs + 1
    /\ gp' = [r \in Ranks |-> "prep"]
    /\ flag' = [r \in Ranks |-> 0]
    /\ UNCHANGED <<plan, host, gin, gout, rows, input, wire, server>>

-----------------------------------------------------------------------------
(* The model threads: prepare_forward, one call per engine step.           *)

\* A dummy run only enqueues; a real one takes the next launch number, and on
\* TP0 hands the batch to its stager.  MRV1 first fills its CPU mirrors, under
\* async scheduling only once the previous step's copies left them.
StartStep(r) ==
    /\ hp[r] = "idle" /\ hs[r] < MaxSteps
    /\ AsyncPrep /\ ~CudaInputs => PrepDone(hs[r], r)
    /\ hs' = [hs EXCEPT ![r] = @ + 1]
    /\ LET k == hs[r] + 1 IN
       IF Real(k)
         THEN /\ lseq' = [lseq EXCEPT ![r] = @ + 1]
              /\ cin' = IF r = 0 /\ ~CudaInputs THEN plan[k] ELSE cin
              /\ hp' = [hp EXCEPT ![r] = IF r # 0 THEN "wait"
                                         ELSE IF Inline THEN "stage" ELSE "put"]
              /\ st' = IF r = 0 /\ Inline
                         THEN [ph |-> "d2h", step |-> k, seq |-> lseq[r] + 1]
                         ELSE st
         ELSE UNCHANGED <<lseq, cin, hp, st>>
    /\ UNCHANGED <<plan, gpu, staged, rq, wire, server>>

\* _launch: hand the item, with the input-ready event of its own step, to the
\* request thread through the bounded queue.
PutRequest ==
    /\ hp[0] = "put" /\ rq = <<>>
    /\ rq' = <<[step |-> hs[0], seq |-> lseq[0]]>>
    /\ hp' = [hp EXCEPT ![0] = "wait"]
    /\ UNCHANGED <<plan, hs, lseq, gpu, cin, staged, st, wire, server>>

\* Mutant: off by one, the completion of the previous launch is accepted.
LookupDone_Early(r) ==
    /\ hp[r] = "wait" /\ done[r] + 1 >= lseq[r]
    /\ hp' = [hp EXCEPT ![r] = "idle"]
    /\ UNCHANGED <<plan, hs, lseq, gpu, input, wire, server>>

\* _wait_lookup_done returns; the copy, the signal and the forward are enqueued.
LookupDone(r) ==
    /\ hp[r] = "wait" /\ done[r] >= lseq[r]
    /\ hp' = [hp EXCEPT ![r] = "idle"]
    /\ UNCHANGED <<plan, hs, lseq, gpu, input, wire, server>>

\* The deadlines of the wait (600 s) and of the queue (300 s) raise.  Steps have
\* no duration here, so a wait that is not over may raise at any time: the model
\* raises earlier than the code, which for a batch of more than 8 tokens looks
\* at its deadline only after an hour in the sleeping branch (spin_after).  The
\* raise is never fair: no property leans on it to end a wait.
Raise(r) ==
    /\ Faults
    /\ \/ hp[r] = "wait" /\ done[r] < lseq[r]
       \/ hp[r] = "put" /\ rq # <<>>
    /\ hp' = [hp EXCEPT ![r] = "failed"]
    /\ UNCHANGED <<plan, hs, lseq, gpu, input, wire, server>>

-----------------------------------------------------------------------------
(* The stager: TP0's model thread when Inline, its request thread else.    *)

\* Request thread: queue.get().
GetRequest ==
    /\ st.ph = "none" /\ rq # <<>>
    /\ st' = [ph |-> IF CudaInputs THEN "d2h" ELSE "copy",
              step |-> Head(rq).step, seq |-> Head(rq).seq]
    /\ rq' = <<>>
    /\ UNCHANGED <<plan, host, gpu, cin, staged, wire, server>>

\* Inputs are in the shared buffers: ring, or send.
AfterStaging == IF Doorbell THEN "fields" ELSE "send"

\* The D2H stream waits for the item's input-ready event, copies, and the
\* stager sees its completion event.
StageCuda ==
    /\ st.ph = "d2h" /\ PrepDone(st.step, 0)
    /\ staged' = gin
    /\ st' = [st EXCEPT !.ph = AfterStaging]
    /\ UNCHANGED <<plan, host, gpu, cin, rq, wire, server>>

StageCpu ==
    /\ st.ph = "copy"
    /\ staged' = cin
    /\ st' = [st EXCEPT !.ph = AfterStaging]
    /\ UNCHANGED <<plan, host, gpu, cin, rq, wire, server>>

\* The doorbell: the batch sizes first, the sequence number last.
RingFields ==
    /\ st.ph = "fields"
    /\ page' = [page EXCEPT !.batch = st.seq]
    /\ st' = [st EXCEPT !.ph = "seq"]
    /\ UNCHANGED <<plan, host, gpu, cin, staged, rq, zmq, server>>

Published == IF Inline THEN [hp EXCEPT ![0] = "wait"] ELSE hp

RingSeq ==
    /\ st.ph = "seq"
    /\ page' = [page EXCEPT !.seq = st.seq]
    /\ st' = NoItem
    /\ hp' = Published
    /\ UNCHANGED <<plan, hs, lseq, gpu, cin, staged, rq, zmq, server>>

SendRequest ==
    /\ st.ph = "send"
    /\ zmq' = Append(zmq, st.seq)
    /\ st' = NoItem
    /\ UNCHANGED <<plan, host, gpu, cin, staged, rq, page, server>>

-----------------------------------------------------------------------------
(* The sidecar: busy_loop and _handle_one.                                 *)

RungNew == Doorbell /\ page.seq > seen

\* Mutant: the sequence number is not recorded.
SeeDoorbell_Forget ==
    /\ life = "up" /\ sc.ph = "scan" /\ RungNew
    /\ sc' = [sc EXCEPT !.ph = "read"]
    /\ UNCHANGED <<plan, host, gpu, input, wire, life, seen, served, done, outBuf>>

\* The doorbell scan records the sequence number it saw ...
SeeDoorbell ==
    /\ life = "up" /\ sc.ph = "scan" /\ RungNew
    /\ seen' = page.seq
    /\ sc' = [sc EXCEPT !.ph = "read"]
    /\ UNCHANGED <<plan, host, gpu, input, wire, life, served, done, outBuf>>

\* ... and then reads the batch sizes.
ReadFields ==
    /\ life = "up" /\ sc.ph = "read"
    /\ sc' = [sc EXCEPT !.ph = "lookup", !.batch = page.batch]
    /\ UNCHANGED <<plan, host, gpu, input, wire, life, seen, served, done, outBuf>>

\* Requests drained from ZMQ are handled one by one, in arrival order.
Receive ==
    /\ life = "up" /\ sc.ph = "scan" /\ ~RungNew /\ zmq # <<>>
    /\ sc' = [sc EXCEPT !.ph = "lookup", !.batch = Head(zmq)]
    /\ zmq' = Tail(zmq)
    /\ UNCHANGED <<plan, host, gpu, input, page, life, seen, served, done, outBuf>>

\* The lookup reads the staged inputs and writes TP0's result buffer in place.
BeginLookup ==
    /\ life = "up" /\ sc.ph = "lookup"
    /\ sc' = [sc EXCEPT !.ph = "write", !.ids = staged]
    /\ outBuf' = [outBuf EXCEPT ![0] = Torn]
    /\ UNCHANGED <<plan, host, gpu, input, wire, life, seen, served, done>>

\* Rows for the whole batch, if sizes and inputs belong to one batch.
Lookup(ids, batch) == IF ids = staged /\ ids = batch THEN ids ELSE Torn

\* Mutant: completion is published without replicating the rows.
EndLookup_NoReplicas ==
    /\ life = "up" /\ sc.ph = "write"
    /\ outBuf' = [outBuf EXCEPT ![0] = Lookup(sc.ids, sc.batch)]
    /\ sc' = [sc EXCEPT !.ph = "publish", !.to = 0]
    /\ UNCHANGED <<plan, host, gpu, input, wire, life, seen, served, done>>

EndLookup ==
    /\ life = "up" /\ sc.ph = "write"
    /\ outBuf' = [outBuf EXCEPT ![0] = Lookup(sc.ids, sc.batch)]
    /\ sc' = [sc EXCEPT !.ph = IF TP = 1 THEN "publish" ELSE "replicate",
                        !.to = IF TP = 1 THEN 0 ELSE 1]
    /\ UNCHANGED <<plan, host, gpu, input, wire, life, seen, served, done>>

\* The other TP ranks get a CPU copy of the same rows.
Replicate ==
    /\ life = "up" /\ sc.ph = "replicate"
    /\ outBuf' = [outBuf EXCEPT ![sc.to] = outBuf[0]]
    /\ sc' = IF sc.to = TP - 1 THEN [sc EXCEPT !.ph = "publish", !.to = 0]
                               ELSE [sc EXCEPT !.to = @ + 1]
    /\ UNCHANGED <<plan, host, gpu, input, wire, life, seen, served, done>>

\* Mutant: the count is incremented once per rank, not once per request.
Publish_PerRank ==
    /\ life = "up" /\ sc.ph = "publish"
    /\ served' = served + 1
    /\ done' = [done EXCEPT ![sc.to] = served']
    /\ sc' = IF sc.to = TP - 1 THEN [sc EXCEPT !.ph = "scan", !.to = 0]
                               ELSE [sc EXCEPT !.to = @ + 1]
    /\ UNCHANGED <<plan, host, gpu, input, wire, life, seen, outBuf>>

\* Mutant: the count is stored in TP0's page only.
Publish_OnlyFirst ==
    /\ life = "up" /\ sc.ph = "publish"
    /\ served' = served + 1
    /\ done' = [done EXCEPT ![0] = served']
    /\ sc' = [sc EXCEPT !.ph = "scan", !.to = 0]
    /\ UNCHANGED <<plan, host, gpu, input, wire, life, seen, outBuf>>

\* The count of requests handled so far is stored in every rank's page.
Publish ==
    /\ life = "up" /\ sc.ph = "publish"
    /\ served' = IF sc.to = 0 THEN served + 1 ELSE served
    /\ done' = [done EXCEPT ![sc.to] = served']
    /\ sc' = IF sc.to = TP - 1 THEN [sc EXCEPT !.ph = "scan", !.to = 0]
                               ELSE [sc EXCEPT !.to = @ + 1]
    /\ UNCHANGED <<plan, host, gpu, input, wire, life, seen, outBuf>>

\* The sidecar process dies (an exception, the OOM killer) at any point.
Die ==
    /\ Faults /\ life = "up"
    /\ life' = "dead"
    /\ UNCHANGED <<plan, host, gpu, input, wire, sc, seen, served, done, outBuf>>

-----------------------------------------------------------------------------
Host(r) == StartStep(r) \/ (r = 0 /\ PutRequest) \/ LookupDone(r) \/ Raise(r)
Turn(r) == StartStep(r) \/ (r = 0 /\ PutRequest) \/ LookupDone(r)
Gpu(r)  == GpuPrep(r) \/ GpuCopy(r) \/ GpuEmbed(r)
Stager  == GetRequest \/ StageCuda \/ StageCpu \/ RingFields \/ RingSeq \/ SendRequest
Sidecar == SeeDoorbell \/ ReadFields \/ Receive \/ BeginLookup \/ EndLookup
             \/ Replicate \/ Publish

\* All steps of the bounded plan have executed.
Finished ==
    /\ gs > MaxSteps /\ st.ph = "none" /\ sc.ph = "scan"
    /\ UNCHANGED vars

Next ==
    \/ \E r \in Ranks : Host(r) \/ Gpu(r)
    \/ GpuReduce \/ Stager \/ Sidecar \/ Die \/ Finished

\* Each thread, process and stream is scheduled: the host threads and the
\* sidecar spin or sleep-poll, a GPU stream runs what has been enqueued.  The
\* deadline is not part of it (Turn leaves Raise out): a wait nobody answers may
\* last.
Fairness ==
    /\ \A r \in Ranks : WF_vars(Turn(r)) /\ WF_vars(Gpu(r))
    /\ WF_vars(GpuReduce) /\ WF_vars(Stager) /\ WF_vars(Sidecar)

Spec == Init /\ [][Next]_vars /\ Fairness

-----------------------------------------------------------------------------
(* Properties.                                                             *)

Phases == {"idle", "put", "stage", "wait", "failed"}
Ops    == {"prep", "copy", "embed", "reduce"}
Nums   == 0 .. MaxSteps

HostType   == /\ hs \in [Ranks -> Nums]
              /\ hp \in [Ranks -> Phases]
              /\ lseq \in [Ranks -> Nat]
GpuType    == /\ gs \in Nat /\ gp \in [Ranks -> Ops] /\ gin \in Nums
              /\ gout \in [Ranks -> Rows] /\ rows \in [Ranks -> Rows]
              /\ flag \in [Ranks -> {0, 1}]
InputType  == /\ cin \in Nums /\ staged \in Nums
              /\ rq \in Seq([step : Nums, seq : Nat])
              /\ st \in [ph : {"none", "d2h", "copy", "fields", "seq", "send"},
                         step : Nums, seq : Nat]
WireType   == page \in [batch : Nat, seq : Nat] /\ zmq \in Seq(Nat)
ServerType == /\ life \in {"up", "dead"}
              /\ sc \in [ph : {"scan", "read", "lookup", "write", "replicate",
                               "publish"},
                         batch : Nat, ids : Nums, to : Ranks]
              /\ seen \in Nat /\ served \in Nat /\ done \in [Ranks -> Nat]
              /\ outBuf \in [Ranks -> Rows]

\* Every variable of the connector, the streams and the sidecar keeps its type.
TypeOK == plan \in Plans /\ HostType /\ GpuType /\ InputType /\ WireType /\ ServerType

\* No stale and no torn embeddings: when the PLE layer of a forward is about to
\* read the device buffer, it holds the rows of exactly that forward's batch
\* (zeros for a dummy run), on every TP rank (prepare_forward's comment).
ForwardReadsOwnRows ==
    \A r \in Ranks : gp[r] = "embed" => gout[r] = Expected(gs)

\* The H2D copy of some real step is enqueued on rank r and has not executed.
CopyPending(r) ==
    \E k \in gs .. hs[r] :
        /\ Real(k)
        /\ k = gs => gp[r] \in {"prep", "copy"}
        /\ k = hs[r] => hp[r] = "idle"

\* The sidecar is writing, or is about to write, the result buffer of rank r.
Overwriting(r) ==
    \/ r = 0 /\ sc.ph = "write"
    \/ r = sc.to /\ sc.ph = "replicate"

\* The sidecar never writes a result buffer out of which a GPU copy of an
\* earlier launch is still pending (_handle_one: "No stream synchronisation
\* here: request N+1 only arrives after ... its DMA out of the pinned buffer
\* finished").
NoOverwriteUnderCopy == \A r \in Ranks : CopyPending(r) => ~Overwriting(r)

\* While the sidecar handles a request, the batch sizes it read from the page or
\* the message, and the inputs in the shared buffers, are those of TP0's current
\* launch: no torn doorbell, no inputs replaced under the lookup.
RequestIsCoherent ==
    sc.ph \in {"lookup", "write", "replicate"} =>
        sc.batch = lseq[0] /\ staged = lseq[0]

\* The completion count the sidecar publishes is the launch number the model
\* threads wait for, although neither side sends it: it trails TP0's launches by
\* at most the one in flight, and no page is ever ahead of it.
CountMeansLaunch ==
    /\ served <= lseq[0] /\ lseq[0] <= served + 1
    /\ \A r \in Ranks : done[r] <= served /\ served <= done[r] + 1

\* A doorbell is rung only after the sidecar consumed the one before it, so no
\* request is lost by overwriting the page.
NoLostDoorbell == [][page'.seq # page.seq => seen = page.seq]_vars

\* The request queue of one slot is free whenever the model thread puts into it:
\* its back-pressure, and the 300 s RuntimeError, are never exercised.
PutNeverBlocks == hp[0] = "put" => rq = <<>> /\ st.ph = "none"

\* The in-layer stream wait is already satisfied when the stream reaches it, so no
\* WAIT_REG_MEM packet is ever left pending on a GPU queue.
WaitNeverPending == \A r \in Ranks : gp[r] = "embed" => flag[r] = 1

\* The offloaded layer implements the local one: each forward of each rank gets the
\* rows of its own batch, once, in order, and every forward gets them eventually.
Local == INSTANCE PleLocal WITH
    batch    <- [k \in 1 .. MaxSteps |-> Expected(k)],
    embedded <- [r \in Ranks |-> IF gp[r] = "reduce" THEN gs ELSE gs - 1]

ImplementsLocal == Local!Spec

\* Every wait for a lookup is answered, on every TP rank, whatever batches came
\* before it, unless the sidecar died, the rank itself gave up, or TP rank 0 did
\* and the request was never made.  The deadline of another rank takes nobody's
\* answer away: its GPU stream then stops at the collective, which under
\* asynchronous scheduling holds the next step of the host back but not the
\* request thread (_launch: each item has its own event; _handle_one stores the
\* count in the page of every rank).
AnswerArrives ==
    \A r \in Ranks :
        hp[r] = "wait" ~> hp[r] # "wait" \/ life = "dead" \/ hp[0] = "failed"
=============================================================================
