------------------------------ MODULE WorkerBoot ------------------------------
(* One GPU worker from its first look at the device to its first batches:    *)
(* v1/worker/gpu_worker.py, with the profiling and the capture of graphs of   *)
(* the V2 runner (v1/worker/gpu/cudagraph_utils.py, model_runner.py) and of   *)
(* the V1 runner (v1/worker/gpu_model_runner.py).                            *)
(*                                                                           *)
(* The worker sizes its KV cache by looking at what is free on the device    *)
(* before and after a trial run, while other processes come and go; it then  *)
(* records graphs once for their size alone, throws them away, and records   *)
(* them again.  At the end it writes down the size it should have asked for, *)
(* and the next start takes that without profiling.                          *)
EXTENDS GraphDispatch, Warmup

CONSTANTS Setups,   \* what the worker is started with: see MCWorkerBoot
          MaxMoves  \* bound: how often the other processes change their memory

\* V1 pads a warm-up run to a size that has no graph yet, and a wrapper would have
\* to record it: setups with such sizes or ranges are left out.
NoGap(s) ==
    s.compile.on /\ s.mgr.mode # "NONE" =>
        /\ s.compile.sizes \subseteq s.mgr.sizes
        /\ \A r \in s.compile.ranges : \/ \A n \in s.mgr.sizes : n < r[2]
                                       \/ \E n \in s.mgr.sizes : n \in r[1]..r[2]

\* V1 has one length of decodes and no adapters here, and its drafter no graphs.
IsV1(s) ==
    /\ ~s.mgr.varlen /\ s.mgr.queryLens = {s.mgr.queryLen} /\ s.mgr.loras = {0}
    /\ s.drafter = 0 /\ NoGap(s)

\* A trial run needs memory, a page holds some, and no batch has more adapters
\* than graphs are recorded for.
ASSUME SetupsAssumption ==
    \A s \in Setups :
        /\ s.runner \in {"v1", "v2"}
        /\ s.runner = "v1" => IsV1(s)
        /\ {s.device, s.others, s.requested, s.torch, s.rest, s.piece, s.first, s.more,
            s.drafter, s.manual, s.buffer} \subseteq Nat
        /\ {s.peak, s.page} \subseteq Nat \ {0} /\ s.drift \subseteq Nat
        /\ {s.applied, s.again, s.compile.on} \subseteq BOOLEAN
        /\ s.compile.sizes \subseteq Nat \ {0}
        /\ \A r \in s.compile.ranges : r[1] \in Nat /\ r[2] \in Nat \ {0} /\ r[1] <= r[2]
        /\ IsManager(s.mgr) /\ IsWarmup(s.warmup)
        /\ \A n \in s.active : n \in Nat /\ (n = 0 \/ s.mgr.loras \subseteq {0}
                                             \/ \E c \in s.mgr.loras : n <= c)

\* The warm-up is given enough to run at all.  warmup_kernels takes the first request
\* to be there when there are draft tokens, and the one request it makes in a small
\* cache to fit the model's length, for which alone the cache has been checked.
ASSUME WarmupAssumption ==
    \A w \in {s.warmup : s \in Setups} :
        /\ w.q \in Nat \ {0} /\ {w.spec, w.seqs, w.batched} \subseteq Nat
        /\ w.spec > 0 => w.seqs > 0 /\ w.batched >= PromptLen(w)
        /\ PromptLen(w) + w.q + 1 <= w.maxLen

VARIABLES
    setup,     \* one of Setups
    phase,     \* how far the boot is
    others,    \* device memory held by other processes
    seen,      \* others at the time of the first snapshot
    own,       \* what the worker holds: [torch, rest], without KV and graphs
    nonKv,     \* profile_result.non_kv_cache_memory
    estimate,  \* cudagraph_memory_estimate
    blocks,    \* blocks of the KV cache allocated now
    pool,      \* the graph pool each object is bound to
    graphs,    \* the recorded graphs: [owner, pool, desc]
    used,      \* pools that graphs have been recorded into
    out,       \* size of the manager's static output buffer, 0 before there is one
    keys,      \* V1: the keys of the CudagraphDispatcher
    capturing, \* V1: cudagraph_capturing_enabled
    plan,      \* the startup plan on disk: a size of the cache, 0 without one
    kept,      \* memory others had taken (below 0: given back) when it was measured
    warm,      \* token counts the model was run with for warm-up
    ran,       \* the last batch served and its descriptor
    moves
vars == <<setup, phase, others, seen, own, nonKv, estimate, blocks, pool, graphs, used,
          out, keys, capturing, plan, kept, warm, ran, moves>>

mgr == setup.mgr
V1 == setup.runner = "v1"
Owners == {"global", "manager", "wrappers", "speculator"}
Nothing == [owner |-> "none"]

Init ==
    /\ setup \in Setups /\ others = setup.others /\ seen = 0
    /\ phase = "start" /\ own = [torch |-> 0, rest |-> 0]
    /\ nonKv = 0 /\ estimate = 0 /\ blocks = 0
    /\ pool = [o \in Owners |-> "none"] /\ graphs = {} /\ used = {} /\ out = 0
    /\ keys = {} /\ capturing = FALSE
    /\ plan = 0 /\ kept = 0 /\ warm = {} /\ ran = Nothing /\ moves = 0

Graphs == <<pool, graphs, used, out, keys, capturing>>
Serving == <<plan, kept, warm, ran>>

-----------------------------------------------------------------------------
(* Device and model.                                                         *)

\* init_device: the snapshot and request_memory, which refuses to start.
InitDevice ==
    /\ phase = "start" /\ seen' = others
    /\ phase' = IF setup.device - others >= setup.requested THEN "device" ELSE "refused"
    /\ UNCHANGED <<setup, others, own, nonKv, estimate, blocks, Graphs, Serving, moves>>

\* load_model, and the allocations outside torch that come with the first run.
\* The compiled pieces bind the graph pool as they are built.
LoadModel ==
    /\ phase = "device"
    /\ IF others + setup.torch + setup.rest + setup.peak <= setup.device
       THEN /\ own' = [torch |-> setup.torch, rest |-> setup.rest]
            /\ pool' = IF mgr.mode = "NONE" THEN pool
                       ELSE [pool EXCEPT !["global"] = "persistent",
                                         !["wrappers"] = "persistent"]
            /\ phase' = "loaded"
       ELSE phase' = "refused" /\ UNCHANGED <<own, pool>>
    /\ UNCHANGED <<setup, others, seen, nonKv, estimate, blocks, graphs, used, out, keys,
                   capturing, Serving, moves>>

\* Other processes take or give back memory until the second snapshot.
OthersMove ==
    /\ phase \in {"device", "loaded"} /\ moves < MaxMoves /\ moves' = moves + 1
    /\ \E n \in setup.drift :
        /\ others' = n
        /\ n + own.torch + own.rest + (IF phase = "loaded" THEN setup.peak ELSE 0)
            <= setup.device
    /\ UNCHANGED <<setup, phase, seen, own, nonKv, estimate, blocks, Graphs, Serving>>

-----------------------------------------------------------------------------
(* determine_available_memory.                                               *)

\* maybe_rocm_profiling_fallback: a negative measurement is replaced by what
\* torch reserved.  The peak of the trial run comes on top of either.  The platform
\* is ROCm, which this repository builds for; on any other there is no fallback and
\* an assertion ends the boot.
NonKv(consumed) == (IF consumed >= 0 THEN consumed ELSE own.torch) + setup.peak

\* kv_cache_memory_bytes: set by hand, or by maybe_apply_startup_plan; 0 for None.
ByHand == IF setup.manual > 0 THEN setup.manual ELSE plan

\* profile_run between two snapshots of the device.
ProfileMemory ==
    /\ phase = "loaded" /\ ByHand = 0
    /\ nonKv' = NonKv(others + own.torch + own.rest - seen)
    /\ kept' = others - seen
    /\ phase' = IF mgr.mode = "NONE" THEN "sized" ELSE "profiled"
    /\ UNCHANGED <<setup, others, seen, own, estimate, blocks, Graphs, plan, warm, ran,
                   moves>>

\* The run alone, to compile.
SkipProfiling ==
    /\ phase = "loaded" /\ ByHand > 0 /\ phase' = "sized"
    /\ UNCHANGED <<setup, others, seen, own, nonKv, estimate, blocks, Graphs, Serving,
                   moves>>

\* What initialize_kv_cache binds to the pool of the moment.
Bound(p) == [p EXCEPT !["manager"] = p["global"],
                      !["speculator"] = IF setup.drafter > 0 THEN p["global"] ELSE @]

\* Mutant: the global pool stays the one the real graphs will use.
SwapPools_KeepGlobal(p) == [Bound(p) EXCEPT !["wrappers"] = "throwaway"]

\* profile_cudagraph_memory: the global pool is replaced before the managers
\* are built, the pools bound earlier are replaced one by one.
SwapPools(p) ==
    [Bound([p EXCEPT !["global"] = "throwaway"]) EXCEPT !["wrappers"] = "throwaway"]

MinBlocks == IF Least(mgr.maxReqs, mgr.maxSize) = 0 THEN 1 ELSE Least(mgr.maxReqs, mgr.maxSize)

StartGraphProfile ==
    /\ phase = "profiled" /\ ~V1 /\ phase' = "minimal"
    /\ pool' = SwapPools(pool) /\ blocks' = MinBlocks
    /\ UNCHANGED <<setup, others, seen, own, nonKv, estimate, graphs, used, out, keys,
                   capturing, Serving, moves>>

\* CudagraphDispatcher.initialize_cudagraph_keys.
DispatcherKeys == capture_descs(mgr)

\* V1: the minimal cache brings the dispatcher its keys; without any, it is
\* dropped again at once.  All graphs of V1 belong to wrappers.
StartGraphProfileV1 ==
    /\ phase = "profiled" /\ V1
    /\ IF DispatcherKeys = {}
       THEN phase' = "sized" /\ UNCHANGED <<blocks, pool, keys, capturing>>
       ELSE /\ phase' = "minimal" /\ blocks' = MinBlocks /\ keys' = DispatcherKeys
            /\ pool' = [pool EXCEPT !["wrappers"] = "throwaway"]
            /\ capturing' = TRUE
    /\ UNCHANGED <<setup, others, seen, own, nonKv, estimate, graphs, used, out, Serving,
                   moves>>

-----------------------------------------------------------------------------
(* _dummy_run: the requests a number of tokens is spread over, and the graph  *)
(* they are dispatched to.                                                   *)

\* V2: evenly, so that no request exceeds the model's length for want of spreading.
num_tokens_per_request(n) ==
    LET reqs == Least(n, mgr.maxReqs)
    IN  [i \in 1..reqs |-> n \div reqs + IF i > (reqs - (n % reqs)) THEN 1 ELSE 0]

DummyRun(n) ==
    LET split == num_tokens_per_request(n)
    IN  dispatch(mgr, \E g \in graphs : g.owner # "speculator",
                 Batch(Len(split), Sum(split), Max(Range(split)), FALSE, Max(mgr.loras)))

\* V1: decodes of the uniform length, the last of them cut off; else evenly, and
\* the last with all that is left.
num_scheduled_tokens_list(n, uniform) ==
    LET q == mgr.queryLen
        reqs == Least(mgr.maxReqs, IF uniform THEN CeilDiv(n, q) ELSE n)
    IN  [i \in 1..reqs |-> IF ~uniform THEN n \div reqs + (IF i = reqs THEN n % reqs ELSE 0)
                           ELSE IF i = reqs /\ n % q # 0 THEN n % q ELSE q]

\* V1 takes any batch of that shape for decodes, unless the caller knows.
_is_uniform_decode(reqs, tokens, query) == query = mgr.queryLen /\ tokens = query * reqs

_determine_batch_execution_and_padding(b, uniform) ==
    dispatch(mgr, keys # {},
             [b EXCEPT !.uniform = IF uniform THEN mgr.queryLen ELSE 0])

DummyRunV1(n, uniform, loras) ==
    LET split == num_scheduled_tokens_list(n, uniform)
    IN  _determine_batch_execution_and_padding(
            Batch(Len(split), n, IF uniform THEN mgr.queryLen ELSE n, TRUE, loras),
            uniform)

\* The run that is to record descriptor d, and its assertions.
RunOf(d) == DummyRunV1(d.tokens, d.uniform # 0, d.loras)
AssertsHold(d) == /\ Sum(num_scheduled_tokens_list(d.tokens, d.uniform # 0)) = d.tokens
                  /\ RunOf(d).mode = d.mode

-----------------------------------------------------------------------------
(* capture_model.                                                            *)

OfMode(mode) == {d \in capture_descs(mgr) : d.mode = mode}

\* The first n descriptors of a mode: _init_candidates sorts the largest first.
Sampled(n, descs) ==
    CHOOSE few \in kSubset(n, descs) :
        \A d \in few, e \in descs \ few : d.tokens >= e.tokens

Most(n, mode) == Sampled(Least(n, Cardinality(OfMode(mode))), OfMode(mode))

\* The graphs of a capture of at most n FULL graphs.
Recorded(n) ==
    LET of(o, d) == [owner |-> o, pool |-> pool[o], desc |-> d]
    IN  {of("wrappers", d) : d \in OfMode("PIECEWISE")}
        \cup {of("manager", d) : d \in Most(n, "FULL")}
        \cup (IF setup.drafter > 0 THEN {of("speculator", "draft")} ELSE {})

\* V1: of at most n graphs of each mode, of the keys there are.
get_capture_descs(n) == (Most(n, "PIECEWISE") \cup Most(n, "FULL")) \cap keys
RecordedV1(n) ==
    {[owner |-> "wrappers", pool |-> pool["wrappers"], desc |-> RunOf(d)] :
        d \in get_capture_descs(n)}

\* The allocator keeps a pool while a graph lives in it, and asserts that a
\* pool it has recorded into before is not given up.
PoolLost(gs) ==
    \E g \in gs : g.pool \in used /\ \A h \in graphs : h.pool # g.pool

\* PIECEWISE graphs are recorded first.  The eager run before the first recording
\* of all allocates the static output buffer, in its own size.
FirstMode == IF OfMode("PIECEWISE") = {} THEN "FULL" ELSE "PIECEWISE"
FirstSize == IF OfMode(FirstMode) = {} THEN 0 ELSE (CHOOSE d \in Most(1, FirstMode) : TRUE).tokens
Capture(n) ==
    /\ graphs' = graphs \cup Recorded(n)
    /\ used' = used \cup {g.pool : g \in Recorded(n)}
    /\ out' = FirstSize
    /\ UNCHANGED <<pool, keys, capturing>>

\* _capture_cudagraphs: an eager run and a recorded one, mode by mode.
CaptureV1(n) ==
    /\ graphs' = graphs \cup RecordedV1(n)
    /\ used' = used \cup {g.pool : g \in RecordedV1(n)}
    /\ UNCHANGED <<pool, out, keys>>
CaptureFails(n) == PoolLost(RecordedV1(n)) \/ \E d \in get_capture_descs(n) : ~AssertsHold(d)

Costs(n) ==
    Cardinality(OfMode("PIECEWISE")) * setup.piece + setup.drafter
    + (IF n = 0 THEN 0 ELSE setup.first + (n - 1) * setup.more)

\* Mutant: the samples stand for all graphs.
_extrapolate_full_graph_memory_Sampled(samples, total) == Sum(samples)

\* _extrapolate_full_graph_memory, with 1 for _MIN_PER_GRAPH_BYTES.
_extrapolate_full_graph_memory(samples, total) ==
    IF samples = <<>> THEN 0
    ELSE samples[1] + (total - 1) * (IF Len(samples) > 1 THEN Max({samples[2], 1}) ELSE 0)

\* _FULL_GRAPH_PROFILING_SAMPLES is 2.
CaptureForProfile ==
    LET total == Cardinality(OfMode("FULL"))
        samples == [i \in 1 .. Least(2, total) |-> IF i = 1 THEN setup.first ELSE setup.more]
        measured == Costs(Least(2, total))
    IN  /\ phase = "minimal" /\ ~V1
        /\ IF capture_descs(mgr) = {}
           THEN UNCHANGED <<estimate, Graphs>>
           ELSE /\ Capture(2)
                /\ estimate' = Max({0, measured - Sum(samples)
                                       + _extrapolate_full_graph_memory(samples, total)})
        /\ phase' = IF capture_descs(mgr) # {} /\ PoolLost(Recorded(2)) THEN "assert"
                    ELSE "teardown"
        /\ UNCHANGED <<setup, others, seen, own, nonKv, blocks, Serving, moves>>

\* V1 measures two graphs of each mode, the first of which brings the memory
\* of the pool: the modes overlay theirs, so that the larger counts.
EstimateV1 ==
    LET first(descs, size) == IF descs = {} THEN 0 ELSE size
        later(descs, size) == IF Cardinality(descs) <= 1 THEN 0
                              ELSE (Cardinality(descs) - 1) * Max({size, 1})
    IN  Max({first(OfMode("PIECEWISE"), setup.piece), first(OfMode("FULL"), setup.first)})
        + later(OfMode("PIECEWISE"), setup.piece) + later(OfMode("FULL"), setup.more)

CaptureForProfileV1 ==
    /\ phase = "minimal" /\ V1
    /\ CaptureV1(2) /\ UNCHANGED capturing
    /\ estimate' = EstimateV1
    /\ phase' = IF CaptureFails(2) THEN "assert" ELSE "teardown"
    /\ UNCHANGED <<setup, others, seen, own, nonKv, blocks, Serving, moves>>

\* The finally blocks: graphs cleared, pools given back, managers dropped.  The
\* speculator's managers are listed only once there is something to capture.
Restored(p) ==
    [o \in Owners |-> IF o \in {"global", "wrappers"} THEN "persistent"
                      ELSE IF o = "speculator" /\ capture_descs(mgr) = {} THEN p[o] ELSE "none"]

EndGraphProfile ==
    /\ phase = "teardown" /\ ~V1 /\ phase' = "sized"
    /\ graphs' = {} /\ out' = 0 /\ blocks' = 0 /\ pool' = Restored(pool)
    /\ UNCHANGED <<setup, others, seen, own, nonKv, estimate, used, keys, capturing, Serving,
                   moves>>

\* The finally block of V1, and _cleanup_profiling_kv_cache.
EndGraphProfileV1 ==
    /\ phase = "teardown" /\ V1 /\ phase' = "sized"
    /\ capturing' = FALSE /\ graphs' = {} /\ keys' = {} /\ blocks' = 0
    /\ pool' = [pool EXCEPT !["wrappers"] = "persistent"]
    /\ UNCHANGED <<setup, others, seen, own, nonKv, estimate, used, out, Serving, moves>>

-----------------------------------------------------------------------------
(* The real cache, the warm-up runs and the real graphs.                     *)

\* available_kv_cache_memory_bytes.
Available ==
    IF ByHand > 0 THEN ByHand
    ELSE setup.requested - nonKv - (IF setup.applied THEN estimate ELSE 0)

Shape(n) == [setup.warmup EXCEPT !.blocks = n]

\* The engine refuses a cache that cannot hold one request of maximal length;
\* initialize_from_config allocates the others.
InitializeKv ==
    LET n == IF Available <= 0 THEN 0 ELSE Available \div setup.page IN
    /\ phase = "sized"
    /\ IF n > TotalFor(setup.warmup, setup.warmup.maxLen)
       THEN /\ blocks' = n /\ phase' = "kv"
            /\ IF V1 THEN keys' = DispatcherKeys /\ UNCHANGED pool
               ELSE pool' = Bound(pool) /\ UNCHANGED keys
       ELSE phase' = "refused" /\ UNCHANGED <<blocks, pool, keys>>
    /\ UNCHANGED <<setup, others, seen, own, nonKv, estimate, graphs, used, out, capturing,
                   Serving, moves>>

\* Mutant: sizes that no graph is recorded for count as covered.
warmup_sizes_AllSizes(c) ==
    LET extra == c.sizes \ mgr.sizes
    IN  extra \cup {r[2] : r \in {s \in c.ranges :
                                    \A n \in mgr.sizes \cup extra : n \notin s[1]..s[2]}}

\* compile_or_warm_up_model: sizes to compile, less those the capture runs, and
\* the end of every compile range that has none of either.
warmup_sizes(c) ==
    LET recorded == IF mgr.mode = "NONE" THEN {} ELSE mgr.sizes
        extra == c.sizes \ recorded
    IN  extra \cup {r[2] : r \in {s \in c.ranges :
                                    \A n \in recorded \cup extra : n \notin s[1]..s[2]}}

\* A wrapper records a graph that it does not have, and refuses outside a capture.
Refused(d) == d.mode # "NONE" /\ ~capturing /\ \A g \in graphs : g.desc # d

\* Each size is run, V1 with the keys already there.
WarmUpSizes ==
    LET sizes == IF setup.compile.on THEN warmup_sizes(setup.compile) ELSE {}
        run(n) == IF V1 THEN DummyRunV1(n, FALSE, 0) ELSE DummyRun(n)
    IN
    /\ phase = "kv"
    /\ warm' = {run(n).tokens : n \in sizes}
    /\ phase' = IF V1 /\ \E n \in sizes : Refused(run(n)) THEN "assert" ELSE "warm"
    /\ UNCHANGED <<setup, others, seen, own, nonKv, estimate, blocks, Graphs, plan, kept, ran,
                   moves>>

CaptureModel ==
    /\ phase = "warm" /\ ~V1
    /\ IF mgr.mode = "NONE" \/ capture_descs(mgr) = {}
       THEN phase' = "captured" /\ UNCHANGED Graphs
       ELSE /\ Capture(Cardinality(OfMode("FULL")))
            /\ phase' = IF PoolLost(Recorded(1)) THEN "assert" ELSE "captured"
    /\ UNCHANGED <<setup, others, seen, own, nonKv, estimate, blocks, Serving, moves>>

\* V1: recording is allowed while it lasts and forbidden for good afterwards.
CaptureModelV1 ==
    /\ phase = "warm" /\ V1
    /\ IF mgr.mode = "NONE" THEN phase' = "captured" /\ UNCHANGED Graphs
       ELSE /\ CaptureV1(Cardinality(keys)) /\ capturing' = FALSE
            /\ phase' = IF PoolLost(RecordedV1(1)) \/ CaptureFails(Cardinality(keys))
                        THEN "assert" ELSE "captured"
    /\ UNCHANGED <<setup, others, seen, own, nonKv, estimate, blocks, Serving, moves>>

\* cuda_graph_memory_bytes: what the capture has taken.
GraphMemory == IF graphs = {} THEN 0 ELSE Costs(Cardinality(OfMode("FULL")))

\* kv_cache_memory_bytes_to_requested_limit.
Suggested ==
    setup.requested - nonKv - (IF setup.applied THEN estimate ELSE 0) - GraphMemory
    - setup.buffer

\* The end of compile_or_warm_up_model.  A size that was profiled is saved with
\* what is known by now.  V2 then runs warmup_kernels, whose steps are those of
\* module Warmup; V1 runs the model and the sampler without a batch.
WarmUpKernels ==
    /\ phase = "captured" /\ phase' = "serving"
    /\ plan' = IF ByHand = 0 /\ Suggested > 0 THEN Suggested ELSE plan
    /\ UNCHANGED <<setup, others, seen, own, nonKv, estimate, blocks, Graphs, kept, warm, ran,
                   moves>>

\* The server is started again: the process is new, the plan is still there.
Restart ==
    /\ phase = "serving" /\ setup.again /\ nonKv # 0
    /\ phase' = "start" /\ seen' = 0 /\ own' = [torch |-> 0, rest |-> 0]
    /\ nonKv' = 0 /\ estimate' = 0 /\ blocks' = 0
    /\ pool' = [o \in Owners |-> "none"] /\ graphs' = {} /\ used' = {} /\ out' = 0
    /\ keys' = {} /\ capturing' = FALSE /\ warm' = {} /\ ran' = Nothing
    /\ UNCHANGED <<setup, others, plan, kept, moves>>

\* execute_model: a batch the scheduler may send, decodes first, is dispatched.
ExecuteModel ==
    /\ phase = "serving"
    /\ \E reqs \in 1 .. mgr.maxReqs, query \in 1 .. mgr.queryLen + 1,
         tokens \in 1 .. mgr.maxSize + 1, prefill \in BOOLEAN, loras \in setup.active :
        LET b == [Batch(reqs, tokens, query, prefill, loras) EXCEPT
                    !.uniform = IF ~V1 THEN @
                                ELSE IF _is_uniform_decode(reqs, tokens, query) THEN query ELSE 0]
        IN
        /\ tokens \in reqs - 1 + query .. reqs * query
        /\ prefill \/ query <= mgr.queryLen
        /\ ran' = [owner |-> "batch", batch |-> b,
                   desc |-> dispatch(mgr, IF V1 THEN keys # {} /\ ~capturing
                                          ELSE \E g \in graphs : g.owner # "speculator", b)]
    /\ UNCHANGED <<setup, phase, others, seen, own, nonKv, estimate, blocks, Graphs, plan,
                   kept, warm, moves>>

Stopped == phase \in {"refused", "assert"} /\ UNCHANGED vars

Next ==
    \/ InitDevice \/ LoadModel \/ OthersMove
    \/ ProfileMemory \/ SkipProfiling
    \/ StartGraphProfile \/ CaptureForProfile \/ EndGraphProfile
    \/ StartGraphProfileV1 \/ CaptureForProfileV1 \/ EndGraphProfileV1
    \/ InitializeKv \/ WarmUpSizes \/ CaptureModel \/ CaptureModelV1 \/ WarmUpKernels
    \/ ExecuteModel \/ Restart \/ Stopped

Spec == Init /\ [][Next]_vars

-----------------------------------------------------------------------------
(* Properties.                                                               *)

Running == phase \in {"kv", "warm", "captured", "serving"}

\* A plan counts the graphs as well when their estimate is not applied.
Held ==
    own.torch + own.rest + setup.peak + blocks * setup.page
    + (IF setup.applied \/ (plan > 0 /\ nonKv = 0) THEN GraphMemory ELSE 0)

\* What V1 takes for an overlay: the smaller of the two first samples, although
\* the second was measured in the pool of the first.
Overlaid ==
    IF V1 /\ nonKv # 0 /\ OfMode("PIECEWISE") # {} /\ OfMode("FULL") # {}
    THEN Least(setup.piece, setup.first) ELSE 0

\* The worker never needs more than gpu_memory_utilization grants it, beyond
\* what others gave back while it was profiling; and what others took in that
\* time it does without.  That holds for a start that profiles and for one that
\* takes the size an earlier start has saved.  (determine_available_memory with
\* the ROCm fallback, and the graphs when their estimate is applied, up to what
\* V1 leaves out; not for a size set by hand.)
MemoryWithinRequest ==
    Running /\ setup.manual = 0 => Held <= setup.requested - kept + Overlaid

\* No graph is recorded into a pool the allocator has given up, and after the
\* profiling nothing is left in or bound to the throwaway pool, save managers
\* that are replaced with the real cache.  The buffer that replayed FULL graphs
\* write their outputs to holds the outputs of the largest.
CapturesSound ==
    /\ phase # "assert"
    /\ Running => \A o \in Owners : pool[o] # "throwaway"
    /\ \A g \in graphs :
        g.owner = "manager" /\ g.desc.mode = "FULL" => g.desc.tokens <= out

\* A batch runs with a graph that was recorded and computes that batch, and no
\* better one was recorded.  (CudaGraphManager.dispatch; with dynamic
\* speculation, where sizes of several query lengths interleave, a larger graph
\* may be missed, so that there only the first half is claimed.  On V1 a key
\* without a graph would be recorded then and there, which is an error.)
BatchGetsItsGraph ==
    ran # Nothing =>
        LET d == ran.desc
            b == ran.batch
            recorded == {g.desc : g \in {h \in graphs : h.owner # "speculator"}}
        IN  /\ Serves(d, b)
            /\ d.mode # "NONE" => d \in recorded
            /\ mgr.queryLens = {mgr.queryLen} =>
                \A e \in recorded :
                    /\ _is_compatible(e, b, _resolve_effective_loras(mgr, b.loras))
                    /\ Serves(e, b)
                    => ~Better(e, d)

\* The warm-up requests share no block, use none that is outside the pool, and
\* hold as many as their tokens and the look-ahead need; no step has more tokens
\* than a batch may have.
WarmupBlocksApart ==
    phase = "captured" /\ ~V1 =>
        LET w == Shape(blocks)
            steps == warmup_kernels(w) \o run_mixed_prefill_decode_warmup(w, w.batched)
        IN  \A i \in DOMAIN steps :
                /\ InBatch(w, steps[i])
                /\ Apart(w, steps[i]) /\ InPool(w, steps[i]) /\ Covered(w, steps[i])

\* When the worker serves, every range the model is compiled for has been run,
\* by the warm-up or by the capture of a size in it.  (compile_or_warm_up_model;
\* a mode with graphs for decodes only counts sizes as captured that it rounds
\* away or leaves out, so that it is left out here.)
EveryRangeWarm ==
    phase = "serving" /\ setup.compile.on /\ mgr.mode # "FULL_DECODE_ONLY" =>
        \A r \in setup.compile.ranges :
            \/ \E n \in warm : n \in r[1]..r[2]
            \/ \E g \in graphs : g.owner # "speculator" /\ g.desc.tokens \in r[1]..r[2]

\* Both at once: the warm-up neither misses a range nor mixes up blocks.
WarmUpSound == WarmupBlocksApart /\ EveryRangeWarm
=============================================================================
