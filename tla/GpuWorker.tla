------------------------------ MODULE GpuWorker ------------------------------
(* What the workers of a pipeline do with the calls of their engine:         *)
(* execute_model, weight updates, sleep and wake_up of v1/worker/gpu_worker.py *)
(* (class Worker), one worker per pipeline stage.                            *)
(*                                                                           *)
(* The engine broadcasts calls; each worker takes them in order.  A step is  *)
(* only enqueued by execute_model: the device runs the items of a worker's   *)
(* stream later, and the transfers between stages beside the streams.        *)
(* A graph replay writes its outputs to one static buffer, which is sent     *)
(* from where it lies.                                                       *)
EXTENDS Integers, Sequences, FiniteSets

CONSTANTS PP,         \* pipeline stages
          MaxSteps,   \* bound: steps of the engine
          MaxCalls,   \* bound: its other calls
          Workloads   \* bound: what the engine is busy with, one in a behaviour

ASSUME GpuWorkerAssumption == PP \in Nat \ {0} /\ MaxSteps \in Nat /\ MaxCalls \in Nat

Ranks == 0 .. PP - 1
Models == {"main", "draft"}

VARIABLES
    workload,  \* one of Workloads
    calls,     \* the calls sent so far
    pos,       \* per rank: calls it has taken
    \* steps
    stream,    \* per rank: items enqueued on the device, in order
    pending,   \* per rank: _pp_send_work, steps whose sends were not waited for
    wire,      \* per rank: steps whose metadata has come from the previous stage
    open,      \* per rank: transfers the device has reached, <<"send" | "recv", step>>
    sent,      \* per rank: steps whose send is complete
    got,       \* per rank: received tensors, step -> the step they really hold
    inBuf,     \* per rank: step whose tensors the static input buffers hold
    outBuf,    \* per rank: step whose tensors the static output buffers hold
    fresh,     \* per rank: outputs of runs without a graph, step -> contents
    computed,  \* per rank: step -> the step whose tensors it was computed from
    \* weight updates
    active,    \* per rank: _weight_update_active
    target,    \* per rank: the model the transfer engine loads into
    replies,   \* per rank: outcome of the last blocking call
    selected,  \* the model of the session the caller believes open, or "none"
    loads,     \* <<selected, target>> of every chunk loaded
    \* sleep
    mapped,    \* tags whose memory is mapped
    sleeping,  \* tags the executor knows to be asleep
    buffers,   \* model -> whether its buffers hold what they did
    saved      \* models whose buffers are saved
step == <<stream, pending, wire, open, sent, got, inBuf, outBuf, fresh, computed>>
session == <<active, target, replies, selected, loads>>
memory == <<mapped, sleeping, buffers, saved>>
vars == <<workload, calls, pos, step, session, memory>>

Tags == {"weights", "kv_cache"}

Init ==
    /\ workload \in Workloads /\ calls = <<>> /\ pos = [r \in Ranks |-> 0]
    /\ stream = [r \in Ranks |-> <<>>] /\ pending = [r \in Ranks |-> {}]
    /\ wire = [r \in Ranks |-> <<>>] /\ open = [r \in Ranks |-> {}]
    /\ sent = [r \in Ranks |-> {}] /\ got = [r \in Ranks |-> <<>>]
    /\ inBuf = [r \in Ranks |-> 0] /\ outBuf = [r \in Ranks |-> 0]
    /\ fresh = [r \in Ranks |-> <<>>] /\ computed = [r \in Ranks |-> <<>>]
    /\ active = [r \in Ranks |-> FALSE] /\ target = [r \in Ranks |-> "main"]
    /\ replies = [r \in Ranks |-> "ok"] /\ selected = "none" /\ loads = {}
    /\ mapped = Tags /\ sleeping = {} /\ buffers = [m \in Models |-> TRUE] /\ saved = {}

With(f, k, v) == [x \in DOMAIN f \cup {k} |-> IF x = k THEN v ELSE f[x]]
Call(r) == calls[pos[r] + 1]
Has(r, kind) == pos[r] < Len(calls) /\ Call(r).kind = kind
Took(r) == pos' = [pos EXCEPT ![r] = @ + 1]

-----------------------------------------------------------------------------
(* Steps.                                                                    *)

\* The engine keeps at most PP steps in flight.
EngineSteps ==
    /\ workload = "steps" /\ Len(calls) < MaxSteps
    /\ Len(calls) - Cardinality(DOMAIN computed[PP - 1]
           \cup {n \in 1 .. pos[PP - 1] : calls[n].tokens = 0}) < PP
    /\ \E tokens \in {0, 1}, full \in BOOLEAN :
        calls' = Append(calls, [kind |-> "execute", tokens |-> tokens, full |-> full])
    /\ UNCHANGED <<workload, pos, step, session, memory>>

Item(op, n) == [op |-> op, n |-> n]

\* Mutant: the next forward does not wait for the sends of the last.
Waits_None(r) == <<>>

\* The waits of execute_model for the sends of the step before.
Waits(r) == [i \in 1 .. Cardinality(pending[r]) |->
                Item("wait_send", CHOOSE n \in pending[r] :
                        Cardinality({m \in pending[r] : m < n}) = i - 1)]

\* Mutant: a step without tokens waits for tensors as well.
Receiving_Always(r) == r > 0

\* Only a step with tokens comes with tensors from the stage before.
Receiving(r) == r > 0 /\ Call(r).tokens > 0

\* irecv, and AsyncIntermediateTensors.wait_for_comm when the runner reads
\* `tensors` to copy them to its static buffers.
Receives(n) == <<Item("irecv", n), Item("wait_recv", n), Item("copy", n)>>

Sending(r) == r < PP - 1 /\ Call(r).tokens > 0

\* What execute_model enqueues for its next call.
Enqueued(r) ==
    LET n == pos[r] + 1
    IN  Waits(r)
        \o (IF Receiving(r) THEN Receives(Head(wire[r])) ELSE <<>>)
        \o (IF Call(r).tokens > 0 THEN <<Item("forward", n)>> ELSE <<>>)
        \o (IF Sending(r) THEN <<Item("isend", n)>> ELSE <<>>)

\* execute_model.  Receiving the metadata blocks the worker.
Execute(r) ==
    LET n == pos[r] + 1
    IN  /\ Has(r, "execute") /\ Took(r)
        /\ Receiving(r) => wire[r] # <<>>
        /\ stream' = [stream EXCEPT ![r] = @ \o Enqueued(r)]
        /\ pending' = [pending EXCEPT ![r] = IF Sending(r) THEN {n} ELSE {}]
        /\ wire' = [q \in Ranks |->
                IF q = r /\ Receiving(r) THEN Tail(wire[q])
                ELSE IF q = r + 1 /\ Sending(r) THEN Append(wire[q], n) ELSE wire[q]]
        /\ UNCHANGED <<workload, calls, open, sent, got, inBuf, outBuf, fresh, computed,
                       session, memory>>

\* A forward computes step n from what its input buffers hold.
Forward(r, n) ==
    LET from == IF r = 0 THEN n ELSE inBuf[r]
    IN  /\ computed' = [computed EXCEPT ![r] = With(@, n, from)]
        /\ IF calls[n].full
           THEN outBuf' = [outBuf EXCEPT ![r] = n] /\ UNCHANGED fresh
           ELSE fresh' = [fresh EXCEPT ![r] = With(@, n, n)] /\ UNCHANGED outBuf
        /\ UNCHANGED <<open, inBuf>>

\* The device runs the next item of a stream.
Device(r) ==
    /\ stream[r] # <<>> /\ stream' = [stream EXCEPT ![r] = Tail(@)]
    /\ LET n == Head(stream[r]).n
           is(op) == Head(stream[r]).op = op
       IN  \/ /\ is("wait_send") /\ n \in sent[r]
              /\ UNCHANGED <<open, inBuf, outBuf, fresh, computed>>
           \/ /\ is("wait_recv") /\ n \in DOMAIN got[r]
              /\ UNCHANGED <<open, inBuf, outBuf, fresh, computed>>
           \/ /\ is("isend") /\ open' = [open EXCEPT ![r] = @ \cup {<<"send", n>>}]
              /\ UNCHANGED <<inBuf, outBuf, fresh, computed>>
           \/ /\ is("irecv") /\ open' = [open EXCEPT ![r] = @ \cup {<<"recv", n>>}]
              /\ UNCHANGED <<inBuf, outBuf, fresh, computed>>
           \/ /\ is("copy")
              /\ inBuf' = [inBuf EXCEPT ![r] = IF n \in DOMAIN got[r] THEN got[r][n] ELSE 0]
              /\ UNCHANGED <<open, outBuf, fresh, computed>>
           \/ is("forward") /\ Forward(r, n)
    /\ UNCHANGED <<workload, calls, pos, pending, wire, sent, got, session, memory>>

\* A transfer reads the output where it lies when both ends have reached it.
Transfer(r) ==
    \E n \in DOMAIN calls :
        /\ <<"send", n>> \in open[r] /\ <<"recv", n>> \in open[r + 1]
        /\ open' = [open EXCEPT ![r] = @ \ {<<"send", n>>}, ![r + 1] = @ \ {<<"recv", n>>}]
        /\ sent' = [sent EXCEPT ![r] = @ \cup {n}]
        /\ got' = [got EXCEPT ![r + 1] =
                        With(@, n, IF calls[n].full THEN outBuf[r] ELSE fresh[r][n])]
        /\ UNCHANGED <<workload, calls, pos, stream, pending, wire, inBuf, outBuf, fresh,
                       computed, session, memory>>

-----------------------------------------------------------------------------
(* Weight updates.                                                           *)

AllReplied == \A r \in Ranks : pos[r] = Len(calls)

\* What the caller believes after the replies to its last call.
Believed ==
    IF calls = <<>> \/ \E r \in Ranks : replies[r] # "ok" THEN "none"
    ELSE LET c == calls[Len(calls)] IN
         IF c.kind = "start" THEN c.model ELSE IF c.kind = "finish" THEN "none" ELSE selected

\* A caller that sends chunks only while all its calls have succeeded; when one
\* fails it may finish what is open or start anew.
EngineUpdates ==
    /\ workload = "weights" /\ Len(calls) < MaxCalls /\ AllReplied
    /\ selected' = Believed
    /\ \/ \E m \in Models : calls' = Append(calls, [kind |-> "start", model |-> m])
       \/ Believed # "none" /\ calls' = Append(calls, [kind |-> "update"])
       \/ calls' = Append(calls, [kind |-> "finish"])
    /\ UNCHANGED <<workload, pos, step, active, target, replies, loads, memory>>

Replies(r, outcome) == replies' = [replies EXCEPT ![r] = outcome]
Rejects(r) == Replies(r, "error") /\ UNCHANGED <<active, target, loads>>

\* _start_weight_update.  Only a draft session sets the target; whatever
\* raises after that sets it back.
StartUpdate(r) ==
    /\ Has(r, "start") /\ Took(r)
    /\ IF active[r] THEN Rejects(r)
       ELSE \/ /\ active' = [active EXCEPT ![r] = TRUE] /\ Replies(r, "ok")
               /\ target' = IF Call(r).model = "draft"
                            THEN [target EXCEPT ![r] = "draft"] ELSE target
               /\ UNCHANGED loads
            \/ /\ target' = [target EXCEPT ![r] = "main"] /\ Replies(r, "error")
               /\ UNCHANGED <<active, loads>>
    /\ UNCHANGED <<workload, calls, step, selected, memory>>

Loaded(r) == loads' = loads \cup {<<selected, target[r]>>}

\* Mutant: a chunk that fails ends the session and leaves the target.
UpdateWeights_KeepTarget(r) ==
    /\ Has(r, "update") /\ Took(r)
    /\ IF ~active[r] THEN Rejects(r)
       ELSE \/ Loaded(r) /\ Replies(r, "ok") /\ UNCHANGED <<active, target>>
            \/ /\ active' = [active EXCEPT ![r] = FALSE] /\ Replies(r, "error")
               /\ UNCHANGED <<loads, target>>
    /\ UNCHANGED <<workload, calls, step, selected, memory>>

\* update_weights.
UpdateWeights(r) ==
    /\ Has(r, "update") /\ Took(r)
    /\ IF ~active[r] THEN Rejects(r)
       ELSE \/ Loaded(r) /\ Replies(r, "ok") /\ UNCHANGED <<active, target>>
            \/ /\ active' = [active EXCEPT ![r] = FALSE] /\ Replies(r, "error")
               /\ target' = [target EXCEPT ![r] = "main"] /\ UNCHANGED loads
    /\ UNCHANGED <<workload, calls, step, selected, memory>>

\* finish_weight_update: an engine that fails to finish leaves the session open.
FinishUpdate(r) ==
    /\ Has(r, "finish") /\ Took(r)
    /\ IF ~active[r] THEN Rejects(r)
       ELSE \/ /\ active' = [active EXCEPT ![r] = FALSE] /\ Replies(r, "ok")
               /\ target' = [target EXCEPT ![r] = "main"] /\ UNCHANGED loads
            \/ Rejects(r)
    /\ UNCHANGED <<workload, calls, step, selected, memory>>

-----------------------------------------------------------------------------
(* Sleep.  Every worker does the same: rank 0 stands for all.                *)

\* The executor's own guards: it sleeps only when all is awake, and wakes only
\* what it knows to be asleep.
EngineSleeps ==
    /\ workload = "sleep" /\ Len(calls) < MaxCalls /\ AllReplied
    /\ \/ /\ sleeping = {} /\ sleeping' = Tags
          /\ \E l \in {1, 2} : calls' = Append(calls, [kind |-> "sleep", level |-> l])
       \/ \E tags \in SUBSET sleeping \ {{}} :
            /\ sleeping' = sleeping \ tags
            /\ calls' = Append(calls, [kind |-> "wake", tags |-> tags])
    /\ UNCHANGED <<workload, pos, step, session, mapped, buffers, saved>>

\* sleep: level 2 discards the buffers with the weights, and saves them before.
\* Level 1 keeps a copy of all weights in host memory.
Sleep ==
    /\ Has(0, "sleep") /\ pos' = [r \in Ranks |-> pos[r] + 1] /\ mapped' = {}
    /\ IF Call(0).level = 2
       THEN saved' = {m \in Models : buffers[m]} /\ buffers' = [m \in Models |-> FALSE]
       ELSE UNCHANGED <<saved, buffers>>
    /\ UNCHANGED <<workload, calls, step, session, sleeping>>

\* Mutant: whatever wakes up, the saved buffers are put back.
WakeUp_AnyTag ==
    /\ Has(0, "wake") /\ pos' = [r \in Ranks |-> pos[r] + 1]
    /\ mapped' = mapped \cup Call(0).tags
    /\ saved' = {}
    /\ buffers' = [m \in Models |-> buffers[m] \/ (m \in saved /\ "weights" \in mapped')]
    /\ UNCHANGED <<workload, calls, step, session, sleeping>>

\* wake_up: the saved buffers are put back when the weights are.
WakeUp ==
    /\ Has(0, "wake") /\ pos' = [r \in Ranks |-> pos[r] + 1]
    /\ mapped' = mapped \cup Call(0).tags
    /\ IF "weights" \in Call(0).tags
       THEN buffers' = [m \in Models |-> buffers[m] \/ m \in saved] /\ saved' = {}
       ELSE UNCHANGED <<buffers, saved>>
    /\ UNCHANGED <<workload, calls, step, session, sleeping>>

-----------------------------------------------------------------------------
Quiet == AllReplied /\ \A r \in Ranks : stream[r] = <<>>

Next ==
    \/ EngineSteps \/ EngineUpdates \/ EngineSleeps
    \/ \E r \in Ranks : Execute(r) \/ Device(r)
    \/ \E r \in Ranks \ {PP - 1} : Transfer(r)
    \/ \E r \in Ranks : StartUpdate(r) \/ UpdateWeights(r) \/ FinishUpdate(r)
    \/ Sleep \/ WakeUp

\* Workers take their calls, devices run their streams, transfers complete.
Spec ==
    /\ Init /\ [][Next]_vars
    /\ \A r \in Ranks : WF_vars(Execute(r)) /\ WF_vars(Device(r))
    /\ \A r \in Ranks \ {PP - 1} : WF_vars(Transfer(r))

-----------------------------------------------------------------------------
(* Properties.                                                               *)

\* Every forward of every stage is computed from the tensors of its own step,
\* though the buffers they are sent from and copied to are reused.
\* (execute_model, AsyncIntermediateTensors, run_fullgraph)
OwnTensors ==
    \A r \in Ranks : \A n \in DOMAIN computed[r] : computed[r][n] = n

\* The stages never end up waiting for each other: every step that was sent to
\* the workers is run by all of them.  (the order of receive, forward and send)
StepsEnd == workload = "steps" => []<>Quiet

\* No worker loads a chunk into another model than the one the caller selected,
\* whichever calls have failed before, on whichever worker.  (_start_weight_update,
\* update_weights, finish_weight_update)
ChunksInSelected == \A l \in loads : l[1] = l[2]

\* When the weights are awake, the buffers of both models hold what they did.
\* (sleep and wake_up, with tags)
BuffersSurvive == "weights" \in mapped => \A m \in Models : buffers[m]
=============================================================================
