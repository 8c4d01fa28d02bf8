# flashnext-v620-pp3: TLA+ models, checks and proofs

This directory holds TLA+ specifications of the parts of the repository in which
order matters: the processes, threads and GPU streams of the PLE CPU offload, the
batches that two model runners prepare before they know what the last one sampled,
the relay of tokens between pipeline stages, the drafting loops, the calls a GPU
worker takes and the way it boots; and of the algorithms of the KV cache. Paths below
are relative to `src/overlay/vllm/` unless they start with `src/`.

To check one run: `tlc -workers 2 -config <run>.cfg <Module>.tla`.
To check the proofs: `tlapm PleOffloadProofs.tla`, and so on for each `*Proofs` module.

## 1. Inventory

The repository is an overlay over vLLM (whole replaced files), patch series, HIP
kernels, and scripts to run and measure a server on three V620 GPUs. What keeps state
and takes part in a protocol:

| part | state it keeps | operations | interacts through |
|---|---|---|---|
| **PLE connector** (`v1/ple_offload/connector.py`), one per GPU worker | `_launch_seq`, shared input buffers, request queue (1 slot), D2H stream and event, one page of shared memory (completion count, doorbell) | `prepare_forward`, `_launch`, `_launch_inline`, `_wait_lookup_done`, `signal_dummy_outputs`, `release_outputs`, `close` | shared buffers and page with the sidecar, ZMQ, the model stream |
| **PLE sidecar** (`v1/ple_offload/worker.py`), one process | tables in RAM or on disk, `_done_seq`, `db_seen`, targets per DP and TP rank | `proc_main`, `_load_weights`, `accept_registrations`, `busy_loop`, `_handle_one` | the same; spawned and joined by the GPU worker |
| **PLE layer** (`model_executor/layers/ple_offload_layer.py`) | device output buffer, semaphore | `forward`, `release_offloaded_output` | the model stream |
| **PP relay** (`v1/worker/gpu/pp_utils.py`) | FIFO of pending receives, generation of each request index, broadcast stream | `receive`, `broadcast`, `broadcast_draft`, `get_prev_sampled_outputs`, `on_req_idx_freed` | NCCL broadcasts matched by order; request state |
| **V2 model runner** (`v1/worker/gpu/model_runner.py`) | request state by index, sampler and speculator state, `execute_model_state` | `execute_model`, `sample_tokens` and what they call, `_dummy_run`, `capture_model` | all of the above |
| **V1 model runner** (`v1/worker/gpu_model_runner.py`) | cached requests, the persistent batch, the previous step's rows, samples and counts | `_update_states`, `_prepare_inputs`, `sample_tokens`, `get_output`, `_dummy_run`, `capture_model` | scheduler output in, `AsyncGPUModelRunnerOutput` out; PLE connector; proposer |
| **GPU worker** (`v1/worker/gpu_worker.py`) | memory snapshots and estimates, sleep state, saved buffers, weight-update session, pending sends, sidecar handle | `init_device`, `determine_available_memory`, `compile_or_warm_up_model`, `execute_model`, `start_`/`update_`/`finish_weight_update`, `sleep`, `wake_up` | its engine's calls, the runner, point-to-point transfers |
| **Graph dispatch and warm-up** (`v1/worker/gpu/cudagraph_utils.py`, `warmup.py`) | captured graphs, pools, static outputs | `capture`, `dispatch`, `profile_cudagraph_memory`, `warmup_kernels` | the runners, the allocator |
| **Speculators** (`v1/worker/gpu/spec_decode/`, `v1/spec_decode/llm_base_proposer.py`) | persistent input buffers, draft KV cache | `prepare_prefill_inputs`, `propose`, `generate_draft`, the proposer's passes | the runner's batch and its rejections |
| **KV cache planning** (`v1/core/kv_cache_utils.py`, `platforms/interface.py`) | none between calls, many intermediate ones | `get_kv_cache_configs`, `resolve_kv_cache_block_sizes`, `update_block_size_for_backend` | layer specs in, tensors and groups out |
| **Free block list** (`v1/core/kv_cache_utils.py`) | linked list threaded through the blocks, a count | `popleft(_n)`, `remove`, `append(_n)`, `prepend_n`, iteration | BlockPool (not in the repository) |
| **Block hashing** (same file) | hashes of a request's full blocks | `request_block_hasher`, `BlockHashListWithBlockSize` | Request (not in the repository) |
| Qwen4 model, GDN, MoE, quantisation, fused lookup, HIP kernels | device buffers | numerical code | the runner |
| scripts, host agents | none worth a model | | |

What is hard here: two processes share pages and buffers without locks; the host runs
ahead of its GPU stream; a step is scheduled and prepared while the outcome of the last
is known on the GPU only; rows move between steps; ranks decide separately how many
collectives a step has; results are applied steps after they were asked for, when their
request may be gone; graphs read and write static buffers; the sidecar, its parent or
the machine may die; a cache is sized by differences of measurements others disturb.

What makes each part correct:

* PLE: a forward uses the rows of its own batch; buffers are not overwritten under a
  reader; no request is lost, handled twice or mixed up, though the request number is
  never sent; every request that is made is answered, unless the sidecar dies; no stream
  wait is left pending on the GPU.
* Sidecar: ready means serving; nobody waits for ever for a process that died; the
  sidecar ends with its parent; a table taken for complete is the one its maker made.
* PP relay: when a forward runs, each rank's request state says what the request's
  history says; the collectives pair up; nobody waits for ever.
* V1 batch: the corrected tokens and positions are the true ones; the sampler reads the
  rows of the request it samples for; every sampled token is reported once.
* GPU worker: a receiver reads its own step's tensors; every step ends; weight chunks go
  to the model their session selected; sleeping loses nothing.
* Boot: what is allocated fits in what was asked for; no graph is lost or recorded into
  the wrong pool; a batch gets a graph that fits it; warm-up stays in the cache.
* Drafting: the draft cache holds the request's own tokens at their positions; drafts
  follow from what is there.
* KV planning: every layer is in one group; pages do not overlap; the pool holds one
  request of the longest length; settled block sizes can be unified.
* Free list: the links, the count and the eviction order agree after any calls.
* Hashing: a block hash names its prefix, however its tokens arrived (with one exception,
  section 4).

`PROJECT.json` lists the components, the hazards with their lines and the properties
that cover them.

## 2. Modules

| module | models | extends / instantiates |
|---|---|---|
| `PleLocal` | abstract: a model that owns its tables | |
| `PleOffload` | the lookup protocol, one DP rank | `PleLocal` (refinement) |
| `PleOffloadProofs` | inductive invariant and theorems | extends `PleOffload` |
| `PleDisk` | the table on disk | |
| `SidecarLife`, `MCSidecar` | the sidecar's life and its parent's | extends `PleDisk` |
| `SidecarProofs` | theorems | extends `SidecarLife` |
| `PPRelay` | the token relay, all stages | |
| `PPRelayProofs` | theorems: the broadcasts pair up, forwards get the right inputs | extends `PPRelay` |
| `AsyncBatch` | the V1 runner's batch under asynchronous scheduling | |
| `AsyncBatchProofs` | theorems: inputs, sampler, outputs, accepted counts | extends `AsyncBatch` |
| `Drafter` | drafting, V2 speculator and V1 proposer | |
| `DrafterProofs` | theorems: the draft cache in sync, drafts that follow | extends `Drafter` |
| `GpuWorker` | the calls of the engine | |
| `GpuWorkerProofs` | theorems: weight updates, sleep, steps | extends `GpuWorker` |
| `GraphDispatch`, `Warmup` | operators: which graphs are recorded and chosen; which batches and blocks a warm-up takes | |
| `WorkerBoot`, `MCWorkerBoot` | from the first snapshot to the first batches | extends both |
| `WorkerBootProofs` | theorems: memory, captures, dispatch, warm-up | extends `WorkerBoot` |
| `KvSpecs`, `BlockSizes` | operators: layer specs; the platform's block sizes | |
| `KvPlan`, `MCKvPlan` | from layers and memory to the cache configuration | extends `BlockSizes` |
| `FreeQueue` | abstract: a queue and its operations | |
| `FreeBlockQueue` | the doubly linked free list | `FreeQueue` (refinement) |
| `BlockHasher`, `MCBlockHasher` | block hashes of one request | |
| `MCKvBlocks` | an instance of both: the list and the hasher, which share no state | extends `MCBlockHasher`, `FreeBlockQueue` |
| `KvCacheProofs` | theorems: links, iteration, refinement; same hashes, same prefixes; the pool holds a request | extends `FreeBlockQueue`, `BlockHasher`, `KvPlan` |

Operators named `X_Something` before `X` and marked "Mutant" are wrong versions of `X`,
used to see that each property can fail; nothing in the specifications uses them.

### PleOffload

Data is named by launch number: the batch, its inputs and the rows looked up for it are
one number, 0 stands for zeroed rows and `Torn` for a buffer being written or mixing
batches. Every step enqueues the same operations on a model stream (input preparation,
copy, PLE layer, the rest with its collective), and a stream runs in order, so it is a
program counter (`gs`, `gp`); an operation may run once the host has enqueued it, which
lets the host of the next step run ahead exactly as far as the code does.

| code | action |
|---|---|
| `prepare_forward` up to the launch, dummy branch, `_launch_seq += 1`; MRV1's `synchronize_input_prep` | `StartStep` |
| `_launch`: event per item, `queue.put` | `PutRequest` |
| `_wait_lookup_done` returns / raises | `LookupDone` / `Raise` |
| copy or zero fill, and signal, on the stream | `GpuCopy` |
| `ple_offload_wait` and the layer | `GpuEmbed` |
| the forward's collective, `release_outputs` | `GpuReduce` |
| `_request_loop`, `_copy_cuda_inputs`, `_copy_cpu_inputs` | `GetRequest`, `StageCuda`, `StageCpu` |
| the doorbell stores, or the send | `RingFields`, `RingSeq`, `SendRequest` |
| `busy_loop` | `SeeDoorbell`, `ReadFields`, `Receive` |
| `_handle_one` | `BeginLookup`, `EndLookup`, `Replicate`, `Publish` |

Stores of one process are seen in order (x86, as the comments in the code say), but
another process may act between any two of them. The constants choose the mode:
doorbell or ZMQ, CUDA (MRV2) or CPU (MRV1) inputs, asynchronous scheduling, faults.
Steps have no duration, so the deadlines of a wait (600 s, for a prefill an hour, section
4) and of the queue (300 s) are a `Raise` that may come at any time while the wait is not
over: the model has every behaviour of the code and more. `Raise` is never fair (`Turn`
leaves it out), so no liveness property leans on it. A rank that raised does not step on:
in the code the engine goes down.

### SidecarLife and PleDisk

`SidecarLife` has the parent (`Spawn`, `ReadReady`, `ReadyTimeout`, `Close`, `Joined`,
`Terminate`, `KillChild`), the other GPU workers (`Worker(w)`: load, register, fail,
leave), the sidecar's main thread (`Side`), its failures (`LoadRaises`), its monitor
thread (`MonitorParent`) and, once all have gone, the next boot (`Reboot`). The
executor above the workers is outside the repository: it may close the parent at any
time, and nothing forces it to. `PleDisk` is the part of `_load_weights` that touches
files: compare `done.json`, drop it, create or truncate, fill row by row, flush, write
`done.json`. A row is named by the checkpoint it came from, 0 being a hole; names of
files are durable at once and in order, contents only when flushed. A flush may fail
after any part of its work, which the code suppresses. Two ghost variables remember which
boot wrote `done.json` and whether its flush succeeded (`maker`, `flushed`): the code
compares shapes and types only, so a table is what its maker made, not necessarily what
the present boot is configured with, and `TableIsAsMade` says that.

### PPRelay

The host of a rank enqueues on its main stream in program order and never reads back,
so host and main stream are one program per rank; the side stream is a FIFO `bc`.
Tokens are named by the step that sampled or proposed them. Actions: `Update`
(`update_pp_decode_requests`, `finish_requests`, `add_requests`, `update_requests`, and
the early return of a step without tokens), `Forward`, `Receive`, `Sample`, `Propose`,
`Broadcast`.

`Schedule` chooses who is finished, preempted, new or continued and with how many tokens;
`Kept`, `Rows` and `Output` are what the scheduler then knows of its requests and tells
all ranks, and `Issue` puts that output before each of them.

The scheduler, `RequestState` and NCCL are not in the repository and are modelled from
their use. The scheduler keeps `P` steps in flight (`src/docs/RESULTS.md:240`), may put a
request whose prefill goes on into the very next step (comment in `sample_tokens`), a
decoding one `P` steps after the step that sampled for it, and may abort or preempt
any request at any time. NCCL matches broadcasts by order and completes one only when
all ranks posted the same number of elements (comments in `broadcast`).

### AsyncBatch

`Schedule` chooses any step the scheduler may ask for (new, continued, resumed,
preempted and left-out requests, drafts), counting drafts and samples as if they had
come; `Execute` is `_update_states`, `_prepare_inputs` with the correction on the GPU,
and the deferred correction of the CPU's counts (`Prepared`); `Sample` is the rejection
sampler (external: any number of drafts is kept), `_bookkeeping_sync` or `_pp_receive…`,
and the proposal; `Report` is `AsyncGPUModelRunnerOutput.get_output` and what the
scheduler makes of it. `truth` is the history of each request, which nobody on the CPU
knows in time; the properties compare the batch with it. Tokens are named by request,
generation of the id, and position; a draft also by the position it was proposed behind.

External, from their use: the scheduler, `InputBatch` (forgetting the previous row of a
removed id), the sampler. After new requests took the free rows, `condense` filled the
gaps and the attention backend reordered the batch as it likes, its rows are the requests
of the step in any order, the same on every stage: one of `Orders`. A
step is reported only when its successor has been executed, as the comment at
`gpu_model_runner.py:2214-2217` has it. Without drafts two stages are modelled, with
drafts the last one.

### GpuWorker

The engine broadcasts calls (`EngineSteps`, `EngineUpdates`, `EngineSleeps`), every
worker takes them in order at its own pace: `Execute` enqueues a step's items on the
device's stream (receive, wait of the lazily received tensors, forward or graph replay,
send), `Device` runs the next item, `Transfer` moves a tensor between stages beside the
streams. A graph replay writes its outputs into one static buffer, which is sent from
where it lies. `StartUpdate`, `UpdateWeights` and `FinishUpdate` may fail on any rank;
`Sleep` and `WakeUp` take every level and set of tags. The engine is busy with one of
the three in a behaviour: the code of one does not read the state of another.

### GraphDispatch, Warmup, WorkerBoot

`GraphDispatch` has `capture_descs` and `dispatch` as operators over a manager's
configuration; `Warmup` has the batches and block tables of `warmup_kernels`.
`WorkerBoot` is the boot in the order of the code: first snapshot, load, profile run
and second snapshot (or a size set by hand or by the startup plan), a throwaway cache
and throwaway graphs for their memory, the cache, the warm-up sizes, the real capture,
the kernel warm-up, then batches of any shape, and a restart that reads the plan.
Other processes move their memory before the second snapshot (`OthersMove`). The two
runners differ in who owns the graphs: V2's managers and wrappers, V1's wrappers alone,
keyed by its dispatcher. A dummy run (`DummyRun`, `DummyRunV1`) is the split of its
tokens into requests and the descriptor it is dispatched to; with V1 that descriptor is
what gets recorded, and the code's assertions about it are part of the model.

The V1 dispatcher, the wrapper and the allocator are outside the repository: the
dispatcher is taken to choose as V2's does, a wrapper records a graph it does not have
and refuses outside a capture, the allocator keeps a pool while a graph lives in it.
Simplified: `resolve_cudagraph_mode`'s narrowing by the backend, the multi-modal
reserve, exceptions while profiling, memory moved by others during a capture, DP
coordination, encoder graphs. The static output buffer is as large as the first graph
recorded, a PIECEWISE one if there is any (`FirstSize`); that this suffices for every FULL
graph rests on `max_cudagraph_capture_size` being the largest size, which `IsManager`
asks of a configuration (made outside the repository). A negative measurement takes the
ROCm fallback (`NonKv`), as on the cards the repository is for; on another platform the
assertion at `gpu_worker.py:719-730` ends the boot instead.

### Drafter

The target's batch with its rejections is an input (`Target`, `Offer`, `Evict`);
`Prefill`, `PrepareDecode` and `GenerateDraft` are V2's speculator, `FirstPass`,
`NextPass` and `SkipDrafter` V1's proposer, with a padded batch or one compacted on
the CPU. The persistent buffers keep what earlier steps left. A token or hidden state is
named by what it should be (request, position, from the target or drafted), so a cache
entry or a draft built from the wrong ones differs from the right name.

### KvSpecs, BlockSizes, KvPlan

`Align` is `update_block_size_for_backend`, `Group` the grouping, `AutoFit`, `Check`,
`Plan` and `Shrink` the rest of `get_kv_cache_configs`, `ResolveSizes` the scheduler's
block sizes. An error the code raises ends the behaviour in `Raised`. Spec classes are
outside the repository: their page sizes, merging and memory demands are taken from
how this code uses them, a skip layer keeps the smallest kernel block with its page
padded, and `mamba_block_size` is `max_model_len` unless given. The grouping of CSA layers
takes `prefix_match_unit` into account only with prefix caching (`CsaGroups`). Its
assertion on the bytes of a block (1376) is no outcome: in every layout of the run it holds.

Loops over layers, names and groups are recursive functions: `Where` keeps the elements
of a set, `Firsts` every value where it first appears, `Total` adds up. The specification
is `PlanSpec`. Three assumptions say what the planner may be given, and TLC evaluates
them. `PlanAssumption`: memories and overrides are natural numbers. `ModelsAssumption`:
no page of a layer whose spec is given is empty, and a model with hidden-state layers has
others too (with nothing but hidden-state layers of several sizes the code takes the
maximum of nothing). `PlatformsAssumption`: what a backend says of its kernels and
tokens is positive, the layers are of kinds the platform knows, and a token of an MLA
layer on such a platform has at least two bytes, as its page is half of them per token.

### FreeBlockQueue, BlockHasher

`FreeBlockQueue` has one action per method of `FreeKVCacheBlockQueue`, the single-block
ones being the case of one block. A loop over the links is `Walk`, the k-th node behind
a given one, and `UpTo`, the nodes met before one at which the loop stops. Its callers
keep the contract of the class: at most the free blocks are popped, only free ones
removed, only held ones given back, once. Its initial predicate, next-state relation and
specification are `QueueInit`, `QueueNext` and `QueueSpec`, so that one module of proofs
can extend it beside the others.

`BlockHasher` computes the hashes as the code does, call by call, and what
`resolve_block_hashes` makes of them: the hashes as they are for a group of their size
or one that looks up finer than its blocks (`FineGrained`), else the view at the group's
block size. Its loops over items (`AtItem`, `MmFrom`) and over blocks (`Block`, `Run`)
are recursive functions. All text tokens are equal and all placeholders are, so that
only the extra keys tell prefixes apart; the hash function is injective (a chained hash
is the sequence hashed); LoRA names and cache salts are different names. A request
carries at most one of LoRA, salt and prompt embeddings. `PassedOver` names the blocks
in which a resumed hasher passes items over (finding 2). The properties hold with
exactly that exception: `AsFromScratch` says which hashes differ, and `UniqueHashes`
that such a hash is shared with none but another such one.

The list and the hasher are called by the same classes, which are not in the repository,
and have no state in common: one run takes both, each stepping while the other rests
(`MCKvBlocks`).

## 3. Runs

| run | question | bounds | distinct states |
|---|---|---|---|
| `ple_inline` | production path, refinement of `PleLocal`, the proofs' invariant | 2 TP ranks, 4 steps, all 16 schedules of real and dummy steps | 7 700 |
| `ple_faults` | CPU inputs, request thread, ZMQ, sidecar death, deadlines | 2 ranks, 3 steps | 52 538 |
| `ple_mrv1_race` | buffer overwritten under a copy: **violated** (section 4) | 1 rank, 3 steps | |
| `sidecar` | table, readiness, nobody hangs, nobody is left | 3 boots, 2 workers, two checkpoints and a dummy load of one shape, one of another, failing flushes, power cuts | 671 682 |
| `pp_relay` | right outputs at the right step, pairing, liveness | 2 stages, 1 or 2 indices, 2 requests, 1 draft, 5 steps | 418 112 |
| `async_batch` | inputs, sampled rows and reports against the true history | 2 requests, prompts of 2, 0 or 1 draft, 4 tokens out, 2 breaks | 473 696 |
| `drafter` | draft cache and drafts | 2 requests (symmetric), 3 drafts, model length 6, chunks of 2, 3 steps, 3 implementations | 146 383 |
| `worker_calls` | transfers, weight updates, sleep | 3 stages, 4 steps, 5 other calls | 667 417 |
| `worker_boot` | memory, captures, dispatch, warm-up | some 480 setups, 2 moves of the others | 68 644 |
| `kv_plan` | groups, pages, memory, block sizes | some thirty models and platforms, 1 and 2 ranks, 3 memories | 185 024 |
| `kv_blocks` | list against queue; hashes name prefixes | 5 blocks, every order of return; hash blocks of 3, groups of 3 and 6, 12 tokens, prompts to 7, 2 items | 13 969 (list complete) |
| `hash_resume` | the hasher's docstring without the exception: **violated** (section 4) | as before | |

Why the bounds are enough. PLE: the protocol has one request in flight and every buffer
one slot, so a hazard needs a step, its successor, and one dummy step between or around
them: 3 steps; 4 add two real steps on each side of a dummy. Two ranks separate TP0,
which stages, from a rank that only waits, and give replication and publication a
middle. Sidecar: a table is made by one boot, found by another and found by a third
after a change of model; the four configurations are a checkpoint, another of its shape,
a dummy load of that shape and a model of another size. PP: an entry is consumed `P` = 2
steps after its receive, so 4 steps contain receive, free, reuse and consume, and 5 the
next consume; one index forces reuse, two allow mixed batches. A third stage would do
what the second does, with the same queue. Batch: rows move only between requests, so
two; a break and a return take two breaks; four tokens give accepted and rejected drafts
on both sides of them. Drafts: three passes are a first, a middle and a last one; a
request of length 6 meets the end of the model length in the second or third step.
Worker: three stages have one that receives and sends; four steps let one stage run
ahead by more than the static buffer has room for. Boot: every graph mode, sizes that
interleave with the query lengths, drift in both directions past the requested memory.
Free list: 5 blocks allow neighbours of every kind around the blocks taken and returned.
Hashes: blocks of 3 can hold an item's end, an item and another item's start, and two
items in the partial block at the end of a prompt.

Deadlock is checked in `ple_inline`, `kv_blocks` and `worker_boot`.
Elsewhere a behaviour may really end: a rank that raised, a bounded workload done, a
plan refused.

### Fairness

Weak fairness of each actor, as scheduling gives it. PLE: the model threads and the
sidecar spin or sleep-poll, the request thread blocks on its queue, a GPU stream
executes what is enqueued and not waiting. A deadline is not fair: a wait that nobody
answers may last for ever, and `AnswerArrives` names the cases in which that is so. PP:
each stage's program, and NCCL completes a matched broadcast. Sidecar: its main thread
and its monitor run; the parent's waits end, by an answer or by their own timeout;
failures, kills and `Close` are never fair, nor is a worker's progress. `GpuWorker`: a
worker takes the next call, a device runs what is enqueued, a transfer with both ends
posted completes. Nothing is assumed about the scheduler, the sidecar's survival, or
requests arriving.

## 4. Findings and observations

Two runs show these:

1. **Result buffer under a pending copy (V1 runner, `ple_mrv1_race`).** The comment in
   `_handle_one` (`worker.py:1393-1395`) rests on a completion published after the DMA.
   Today it is a plain store before the copy is even enqueued. With CUDA inputs the next
   request cannot be staged before that copy ran, and the claim is proved. With CPU inputs
   the host of step N+1 waits for the event at the end of step N's input preparation
   (`gpu_model_runner.py:4095-4108`, recorded at 4478), and the copy of step N is enqueued
   behind that event (4726): nothing orders it with the mirrors, the staging, the ring and
   the lookup of step N+1. The window is the time in which the copy of step N is queued or
   running. TLC shows it with one rank and N = 1: the input preparation of step 1 has
   executed, its lookup is answered, its copy is enqueued and not executed, and the sidecar
   begins to write the buffer for step 2.
2. **A hash that does not name all items (`hash_resume`).** "each hash uniquely
   fingerprints the prefix ending at its boundary" (`kv_cache_utils.py:752-755`, and for
   the coarser blocks 2758-2761), and of a block completed with generated tokens "we only
   need to consider the last mm input" (768-771). The block may hold the partial tail of
   the prompt, and several short items may reach into it; the hasher resumes at the last
   (772), and the keys of the others are missing. TLC shows it with blocks of 3 and a
   prompt of 5 tokens that has items at 3 and 4: after one generated token the hash of the
   second block is also that of a request with another item at 3. Both requests must have
   been resumed there; in one call all items are named.

The following came up while reading and modelling. Where a model would run into one, the
bound, configuration or named condition that keeps it out is given.

PLE offload
* The 600 s deadline is not looked at for prefills: `spin_after = 3600.0` for more than 8
  tokens, and the loop `continue`s before warning and deadline (`connector.py:652-675`).
* `done.json` records a shape and a type (`worker.py:846-849`), no checkpoint: another
  checkpoint of the same shape is served from the old table, and so is a real load after
  one with `load_format=dummy`, whose file may still be holes (884-904, 1107-1111).
* A flush that fails is suppressed and `done.json` written all the same (897-900): after a
  power cut a table may be marked that is not on the medium. `TableIsAsMade` states what
  remains true with all three; a torn `done.json` makes `json.load` raise at every later
  boot.
* A sidecar in `accept_registrations` (1145) answers neither the death pipe nor SIGTERM:
  orphaned there it stays, although the monitor logs "Parent exited, shutting down."
  `ServerFollowsParent` is about a serving sidecar.
* `_launch`'s comment gives the queue's bound as `max_num_seqs + 1`; `__init__` makes it
  1. `PutNeverBlocks` shows that one slot is enough.

Block hashes and KV planning
* A pipeline rank without an attention layer fails `assert bytes_per_block > 0`
  (1310-1322). The packed-MLA grouping can drop layers, which only "Some layers are not
  assigned to any group." (2723) catches.
* In align mode a stale `mamba_block_size` is read (`interface.py:790`, settled at 973);
  with TurboQuant an exact fit leaves `mamba_page_size_padded` unset and a skip spec then
  trips the assertion the docstring near 716 rules out (`ExactFit`); QSA offload does not
  boot with this grouping (`src/docs/JOURNEY.md:69`), so `AlignedPagesUnify` leaves it out.

V1 batch and drafting
* The accepted count of a row that was left out of a step is the CPU's
  (`gpu_model_runner.py:2202-2205`, comment at 1289-1292): `AcceptedIsPrevious` is about
  rows of the previous step.
* `_prepare_ngram_context` (3636-3676) reads the CPU's tokens up to the CPU's count,
  which under asynchronous scheduling are placeholders and optimistic; whether this model
  runs V1 asynchronously is decided outside the repository.
* `prepare_next_token_ids_padded` (`llm_base_proposer.py:1087-1091`) takes, for a prefill
  chunk, the token at `num_tokens_no_spec - 1` where the CPU variant (1055-1061) takes the
  next prompt token. `CacheInSync` compares what later reads need.
* `_input_fits_in_drafter` (`gpu_model_runner.py:4819-4832, 4914-4998`) skips the drafter
  for the whole batch when one request is near the end, so its neighbours' draft caches
  get holes, against the comment near `llm_base_proposer.py:610`; `missed` records them.
  The same guard keeps V1's position clamp from ever being needed.

Worker and boot
* `finish_weight_update` that raises leaves the session active with the draft as target
  (`gpu_worker.py:1557-1574`).
* The V1 estimate takes the largest first sample over modes, though the first of FULL is
  measured in a pool PIECEWISE has already grown (`gpu_model_runner.py:7046-7130`;
  `Overlaid`). Memory others release during the second FULL sample is multiplied.
* On V1 a warm-up size or the end of a range that lies between captured sizes would be
  padded to a size whose graph does not exist yet, and the wrapper would have to record
  it while recording is disabled; `NoGap` leaves such setups out. With
  `FULL_DECODE_ONLY` sizes count as captured that capture rounds away (887-911);
  `EveryRangeWarm` leaves that mode out.
* `warmup_kernels` with speculation and `max_num_batched_tokens` below
  `decode_query_len + 1` ends in an empty batch and an `IndexError`
  (`warmup.py:389-420`). Under dynamic speculation `dispatch` may fall through to a graph
  that is worse than the best one.

## 5. Proofs

### PleOffloadProofs

For every TP size, every number of steps and every schedule, from the assumptions on the
constants in `PleOffload`, with the doorbell or with ZMQ, with or without faults:

| theorem | of | condition |
|---|---|---|
| `TypeCorrect` | `Spec => []TypeOK` | none: every mode |
| `WaitNeverPendingHolds` | `Spec => []WaitNeverPending` | none |
| `InvariantHolds` | `Spec => []IInv` | `CudaInputs` |
| `ForwardReadsOwnRowsHolds` | `Spec => []ForwardReadsOwnRows` | `CudaInputs` |
| `NoOverwriteUnderCopyHolds` | `Spec => []NoOverwriteUnderCopy` | `CudaInputs` |
| `RequestIsCoherentHolds` | `Spec => []RequestIsCoherent` | `CudaInputs` |
| `CountMeansLaunchHolds` | `Spec => []CountMeansLaunch` | `CudaInputs` |
| `PutNeverBlocksHolds` | `Spec => []PutNeverBlocks` | `CudaInputs` |
| `NoLostDoorbellHolds` | `Spec => NoLostDoorbell` | `CudaInputs` |
| `ImplementsLocalSteps` | `Spec => Local!Init /\ [][Local!Next]_(Local!vars)` | `CudaInputs` |

`CudaInputs` is needed: finding 1 is a counterexample to the overwrite and to the
forward's rows without it.

None of the properties is inductive. `IInv` adds what the code relies on without saying:
each rank's launch number is the number of real steps it started (`HostSync`); a stream
is never past its host (`StreamOrder`); a rank that left `prepare_forward` has been
served (`HostServed`); all pages hold the count, up to those the sidecar is about to
store into (`DoneSync`); and the one request in flight is at exactly one place (`Flight`:
put, queue, stager, wire or sidecar), from staging on with TP0's stream standing between
the input preparation and the copy of that very step (`StagedNow`). The last is why
nothing is overwritten: while a request is in flight the copies of all earlier steps are
behind TP0's stream, and the collective in each forward keeps the other ranks' streams
within the same step. The module proves `Init => IInv`, `IInv /\ [Next]_vars => IInv'`,
one step per action, and each property from `IInv`; `ple_inline` checks `IInv` with TLC.
The refinement maps a step to a stutter or to the abstract step of the same operation;
its liveness half is checked by the same run.

### SidecarProofs

`TableIsAsMadeHolds` and `ReadyMeansServingHolds`, for tables of any size, any models,
any number of boots and workers, and failures, kills and power cuts anywhere. `DiskInv`
says what the file holds at each stage of its making (`Making`), that `done.json` names
the shape of its maker, whose rows, unless a flush failed, are in the file and on the
medium (`Marked`), and what is served (`Served`): the order of the five file operations
in the code is exactly what keeps it. `LifeInv` ties the parent's state to the
registrations the sidecar has counted; a parent reads READY only after all of them.

### GpuWorkerProofs

`ChunksInSelectedHolds` and `BuffersSurviveHolds`, for any number of ranks and calls. The
first rests on `Inv`: a rank that has answered "ok" has its session open on the caller's
model (`Open`), an inactive one targets the main model again (`SessionOK`). The second
rests on `SleepInv`: what is asleep, what is saved and what is mapped agree
(`MemoryOK`), and buffers are in one place or the other (`BuffersKept`).

The third theorem is `OwnTensorsHolds` (`Spec => []OwnTensors`), for any number of stages
and steps and any mix of graph replays and plain runs. `OwnTensors` alone is not
inductive; `Steps` adds why a buffer that is reused at once is never read too late or too
early. Going in: the metadata a stage has not taken are exactly the steps with tokens
between its position and that of the stage before, in order (`WireOK`), so the one taken
is of the step at hand; and each item of a stream comes right behind the one that prepares
it, or this has just run (`Prepared`). Going out: a send that is enqueued or open has its
output where it lies and is made once, and before the next forward of that stage comes the
wait for it, in the stream already or first thing in the next step while `_pp_send_work`
holds it (`SendsOK`, `Shielded`). The wait of `execute_model` for the sends of the step
before is what keeps the last part; without it TLC finds a counterexample. Under another
workload nothing is ever enqueued (`Idle`).

### WorkerBootProofs

For either runner, any sizes of the model and the device, any graph mode, sizes to
capture, lengths of decodes and adapters, any moves of the other processes, and any
number of restarts:

| theorem | of |
|---|---|
| `MemoryIsWithinRequest` | `Spec => []MemoryWithinRequest` |
| `CapturesAreSound` | `Spec => []CapturesSound` |
| `BatchesGetTheirGraphs` | `Spec => []BatchGetsItsGraph` |
| `WarmUpIsSound` | `Spec => []WarmUpSound` |

All follow from one invariant, `IInv` (`Types`, `MemoryInv`, `GraphInv`, `Roomy`,
`Warmed`); each action has a lemma for each of the parts it can disturb.

*Memory.* What a start has measured stands for the model, the peak of a run and what the
others have kept, and the estimate for all the graphs up to what V1 overlays
(`Measured`). The cache is no larger than that leaves of the request (`Granted`), and a
plan that was written leaves room for the same in the next start, in which nothing is
measured (`PlanFits`). That a sample of two graphs bounds a capture of all is
arithmetic over the number of graphs of each mode, with the largest of them first.

*Graphs.* The recorded graphs are those of `capture_descs`, none before the capture and
none left of the throwaway ones (`Recording`); V1's keys are these descriptors, so that a
dummy run for one is dispatched to it and the assertions hold (`Keys`); the throwaway
pool is in use, and bound to an owner, only between the minimal cache and its teardown
(`Pools`); and what a batch was dispatched to suits it (`Ran`). `dispatch` takes a
compatible descriptor of the least captured size that holds the batch, a FULL one if
there is any. The proof shows that, if decodes have one length and any graph of a mode fits a
batch, so does each of that mode's graphs of the least size that holds it
(`SmallestFits`); so looking at one size misses nothing, and no recorded graph serves the
batch better. With several lengths, sizes interleave and only the first half of the
property is claimed.

*Warm-up.* The cache holds a request of maximal length (`Roomy`), and every size that is
to be run for warm-up has been (`Warmed`): a dummy run takes as many tokens as it is told
to, on V1 because no graph pads it. That leaves the requests `warmup_kernels` makes up,
whose steps are no actions but a computation, so that the proof is an induction over its
loops (`GrownSteps`, `StepSteps`, `WarmupSteps`). `Good` is kept by each step: the blocks
handed out are exactly those below `next_block_id`, each once (`Table`), and each request
has in each group what its tokens reserve (`Holds`). Hence the pool is large enough if
the sum of what the requests may come to reserve is (`GoodIsSound`), and the number of
requests is chosen for that, by a reserve for `num_decode_steps` steps (`KernelsAreFine`).
Only when a cache is too small for one such reserve is nothing known but that it holds a
request of maximal length; then one request is made all the same.

`WarmupAssumption` is about that: the prompt and the two decode steps of a lone request
are no longer than the model, and speculation comes with at least one request and one
prompt per batch. The code checks neither. Without the second there is no first request,
and `_run_decode_step` fails (section 4, Worker and boot).

`SetupsAssumption` says what a setup is: sizes are natural numbers, the peak of a run and
a page are positive, sizes to capture do not exceed the largest, a batch has no more
adapters than graphs are recorded for. For V1 it restricts more (`IsV1`): the one length
of decodes, no adapters and no graphs of the drafter, which is all that is modelled of
V1, and `NoGap` (section 4, Worker and boot).

### KvCacheProofs: the free list

For any number of blocks, any callers that keep the contract of the class and any
sequence of calls:

| theorem | of |
|---|---|
| `LinksStayConsistent` | `QueueSpec => []LinksConsistent` |
| `IterationAlwaysResumes` | `QueueSpec => []IterationResumes` |
| `QueueIsImplemented` | `QueueSpec => ImplementsQueue`, the whole refinement |

The invariant (`AlwaysAList`) is a witness: there are a count `n` and distinct blocks
`s[1] .. s[n]` such that the links lead from the head along `s` to the tail and back, no
other block is linked, and `num_free_blocks = n` (`IsList`). Each method maps one witness
to another: a pop drops a prefix, `remove` one position, the appends and `prepend_n`
splice a sequence in between two neighbours (`Spliced`). What a loop over the links
yields is computed from the witness (`WalkOfPath`, `UpToOfPath`); there the proofs need
induction, which is done on sets of natural numbers (`LeastNatural`, `SetInduction`).
That a path of distinct nodes ends within the number of nodes, so that the loops end, is
`PathFits`.

### PPRelayProofs

`BroadcastsAlwaysMatch` (`Spec => []BroadcastsMatch`), for any pipeline depth, any requests
and any number of drafts and steps. The ranks share only the outputs of the scheduler,
which the specification drops once they are processed. The invariant brings them back: there is
a schedule `W` of which each rank has a suffix before it (`Scheduled`), every output
stands for 0, 2 or 3 broadcasts at a place `pos` of one global sequence `G` (`Laid`), and
what a rank has enqueued is a prefix of `G`, of the length its phase says, less the `c`
broadcasts that are completed (`Relayed`). So two ranks can only differ in how far they
are, never in what comes next.

`ForwardInputsAlwaysAgree` (`Spec => []ForwardInputsAgree`), for any pipeline depth, any
finite set of requests, any number of indices, drafts and steps: when a rank is about to
run a forward, the number of computed tokens, the last sampled token and the drafts it
holds for each request are what the request's history says, although they were sampled
on another rank, came by another stream and are applied `P` steps later, when the request
may have been finished, preempted, resumed, or moved to an index another one has left.

`FInv` adds two histories to the schedule: `R`, how many drafts were rejected in each
step, and `A`, what the outputs make of each request after each step (since when it runs,
the last step it was in and the last that sampled for it). `Holds` is, with these:

* the scheduler's knowledge is that of the history once the results in flight are in
  (`SchedulerOK`, `KnownOK`, `Pending`);
* a running request has a row of its own on each rank (`Placed`), holding what the
  history gives with the rejections of the steps applied so far (`SlotOK`, `Net`);
* the k-th entry of a rank's queue is for the k-th step after the last one it has applied,
  holds what has arrived of it by now (`Arrived`), and names each request by an index and a
  generation that still match exactly if it has run without a break since (`Marked`): this
  is what `on_req_idx_freed` is for;
* rejections a rank has applied are of steps the last rank has sampled (`Settled`), and
  what the last rank sends carries the rejections of `R` (`SentOK`).

The proof has a lemma per part of an action (applying the consumed entry, freeing rows,
placing new requests, receiving, sampling, rejecting, completing a broadcast); that a
free index can be found for each new request without two getting the same (`PlaceIs`) uses
the finiteness of `Reqs`.

### AsyncBatchProofs

| theorem | of |
|---|---|
| `CountsFit` | `Spec => []IInv` |
| `InputsAlwaysOwn` | `Spec => []InputsAreOwn` |
| `AcceptedAlwaysPrevious` | `Spec => []AcceptedIsPrevious` |
| `SamplerAlwaysReadsOwn` | `Spec => []SamplerReadsOwn` |
| `OutputsAlwaysTrue` | `Spec => []OutputsAreTrue` |

For any finite set of requests, any prompt length and numbers of drafts, any bounds, any
order of the rows and any drafts accepted. Nobody on the CPU knows the truth in time, so
the invariant says how wrong each count is. Of a request, the steps in flight have been
asked for `H` tokens and have found `N` of them (`SumAsked`, `SumNew`; a step counts for
the generation of the id it was scheduled for):

* the scheduler's computed tokens are the true ones plus `H - N` plus those of the step at
  hand, its placeholders are `H` plus those of that step, and the request is as long as
  its reported outputs and `N` make it (`Counts`);
* a step is asked only for what is known to follow, with drafts only behind all known
  tokens, and is told counts that are ahead by `H - N` (`Asks`);
* what the steps in flight hold for a request continues its reported outputs without a gap
  (`Continues`), so a report keeps all of this (`ReportKeeps`);
* a request that stays in the batch was sampled by the newest step in flight, if it has a
  row of the previous step at all, and that row holds the step's token, its drafts, the
  position it started from and how many it has accepted; it was asked for one token more
  than the runner remembers as drafts (`RowOK`, `PrevOK`). A request without such a row
  has nothing in flight (`Newcomer`).

The last is why the correction on the GPU gives the true position although two steps may
be in flight when a step is scheduled: one of them is reported before it is executed, so
that `H - N` is then the one previous step's rejected drafts, `prev_num_draft_len + 1 -
valid_sampled_token_count` (`Veteran`, `VeteranComputed`), and why every slot of the
input, from the CPU, from the previous tokens or from the drafts, gets the request's own
token (`VeteranInput`). `Execute` is first brought into a closed form, the same on every
stage (`UpdatedIs`, `PreparedIs`). The proof assumes that `None` is no request id
(`BatchAssumption`).

What the sampler reads follows from `SampleOK` alone, but for a batch of any number of
rows. Three running sums count the tokens, the sampled rows and the drafts of the rows so
far (`SumsOf`); that `CumSum` gives them (`CumSumIs`), that every index lies in one row's
range (`InRange`) and what a concatenation holds at each index (`FlatOf`, `FlattenIs`) are
proved by induction on sets of natural numbers. With these the metadata's indices are what
`Indexed` says, and an index looked up through two of them ends in the request's own row
(`SamplerFits`).

### DrafterProofs

| theorem | of |
|---|---|
| `CacheStaysInSync` | `Spec => []CacheInSync` |
| `DraftsAlwaysFollow` | `Spec => []DraftsFollow` |

For either runner and a padded or compacted batch, any finite set of requests, any number
of drafts, any lengths of the model, the prompts and the chunks, and any number of steps,
with any rejections and evictions. `IInv` has, beside the types:

* the entries of the batch are of different requests, fit in the buffers and end within
  the model's length (`BatchOK`), and what is computed of each ends with its last row that
  is not rejected, `Base` (`Counted`);
* what the target has computed is in the draft cache, but for the rows of the step at hand
  until the first pass has read them (`Sync`);
* the drafts made so far follow, and V2 keeps the logits of each (`Drawn`), as many as the
  phase says (`Passes`);
* before V2's `prepare_decode_inputs` the front rows hold the first pass's position,
  length, key, hidden state and indices (`Prepared`), and before a further pass those of
  position `Base + made`, all drafts before it being in the cache (`Lined`): V2 has the
  inputs of that position, V1 those of the one before, and at the end of the model's
  length V2's position stays at the last one.

The first pass is a matter of where rows are. `Start` is a sum over the batch, so that every
row is of one entry and every position of an entry has its row (`RowHasEntry`,
`RowOfPosition`) takes induction, done on sets of natural numbers; so does nothing else, as
the compacted batch needs only that the place of a row among the kept ones, a cardinality,
grows by one from row to row (`RankIs`). With these, the ids that were moved up by one row,
over the borders of requests, give each kept row the token after its own and the last one
the sampled token (`PrefillFed`, `FirstPassFed`); a rejected row is fed with whatever was
in the buffer, and writes behind `Base` only (`FirstPassSync`). A further pass writes
behind `Base` too, at a clamped position if need be (`Beyond`, `NextSync`), so that
rejecting its drafts later leaves the cache in sync. Requests in `missed`, those V1 passes
over or whose chunk it ends with another token, are excepted in the properties and in the
invariant alike.

### KvCacheProofs: block hashes

| theorem | of |
|---|---|
| `HashesAreAsFromScratch` | `Spec => []AsFromScratch` |
| `HashesNamePrefixes` | `Spec => []UniqueHashes` |

They hold for any block size, any sizes of the groups, any number of tokens and any items
of any lengths, several of which may reach into the last, partial block of a prompt.

The invariant `HInv` says that a request has the hashes `Hashes(Made(req),
Full(num_tokens))`: a hash is the sequence of what its blocks add (`Hash`), and a block
adds its tokens and keys by itself, without the item the loop carries from one block to
the next (`Entry`), but for the block in which items were passed over, which adds the key
of the last item only (`ShortEntry`). What the loop over the items returns for a block
does not depend on the item it starts with, as long as no item before that one reaches
into the block (`Settled`, `GenIs`); each block leaves the next one such an item, and so
does resuming at the last item if no other is in the tail (`OnlyLastInTail`, else
`LastAlone`). That the two recursive functions of the model satisfy their equations, and
what they give, is proved by induction on sets of natural numbers (`MmFromIs`, `RunIs`).

An entry tells the items at its places, the adapter, the salt and the embeddings
(`EntryTells`), because the names of the other keys are no identifiers
(`ItemsAssumption`); so equal hashes of whole entries have equal prefixes
(`HashNamesPrefix`). A short entry is never a whole one of any request: the item passed
over leaves placeholders in the block that no item with a key covers (`ShortTells`). So
items were passed over in both of two requests with one hash, or in neither
(`BothOrNeither`).

### KvCacheProofs: the pool

`PoolAlwaysHolds` (`PlanSpec => []PoolHoldsOneRequest`): for any layers on any number of
ranks, any platform, any memory and setting, the pool the scheduler gets has equally many
blocks on every rank and holds, beside the null block, a request of the length that is
served; an auto-fitted length is the longest of which that is true.

The invariant is `PlanInv`. Its part `PoolInv` says what each phase has settled: from the
memory check on, the length fits on every rank (`Fits`) and, if it was shortened, the next
one fails on some rank (`Longest`); after planning a rank has the blocks its memory holds
(`Own`), and after `Shrink` those of the poorest rank (`Poorest`). Three facts carry it:

* With `b` bytes per block, `b * pages <= memory - b` exactly if `pages` is less than
  `memory \div b` (`PoolHolds`). So the check in bytes is one in blocks, though ranks have
  different bytes per block, and giving a rank the memory of `n` blocks gives it `n`
  blocks back (`DivideBack`).
* A rank counts as many blocks for a request as the whole model (`ProjectedIs`,
  `RequestPagesIs`), although it knows only its own layers. For a uniform group, where a
  rank takes the maximum over the layers it has, this needs all its layers to take equally
  many blocks for every length (`WellGroup`).
* The bisection ends with a length that fits while the next does not, if fitting is
  monotone in the length; `_estimate_max_model_len_from_groups` is proved by an invariant
  of its interval, over its rounds.

The rest, and the longer part, is that every way to group yields such groups: one spec or
one type, layers promoted to full attention, pages unified and buckets striped, rows of
MLA and windowed MLA, CSA with linear attention, hidden states beside them. And the specs
a platform derives from its block sizes are ones that can be grouped (`LayerSpecIs`,
`AlignedIsModel`), so that the theorem covers both entries of the model.

### What is only model-checked

The liveness properties (`AnswerArrives`, `EveryStepCompletes`, `ParentMovesOn`,
`ServerFollowsParent`, `StepsEnd`), which rest on fairness; everything in the MRV1 mode of
`PleOffload` but types and `WaitNeverPending`; and of `KvPlan` the three invariants about
the layout, `EveryLayerOnce`, `PagesDisjoint` and `AlignedPagesUnify` (section 7).

## 6. Not modelled, and why

* Several DP ranks behind one sidecar: a rank has one request in flight, so the scan of
  the doorbells meets at most one piece of news per rank and round.
* The clock of the PLE wait (a wait may raise at any time) and the `int32` of the done
  page (2^31 launches).
* The numbers: lookups, dequantisation, kernels, sampling. Rows and tokens are names here.
* V1 batch: streaming requests, n-gram trimming, draft probabilities, the align mode's CPU
  counts (2171-2200), multi-modal inputs, LoRA rows, KV connectors, pooling.
* Drafting: trees, parallel drafts, several KV groups, loading and sharing of weights.
* GPU worker: elastic EP, profiler, LoRA, saving of models.
* Scripts and host agents: no protocol. Qwen4, GDN, MoE and HIP kernels: tensor code.

## 7. What is left

1. Several DP ranks in `PleOffload`'s sidecar: starvation by the scan's `break`.
2. Proofs: `EveryLayerOnce` and `PagesDisjoint` need, beyond what `PoolAlwaysHolds` rests on,
   where each name lands in the concatenations of buckets, stripes and tensors, and the
   offsets of the pages there; `AlignedPagesUnify` the divisibility of every pair of block
   sizes a platform can settle on.
3. The align mode's state indices in `AsyncBatch`, and streaming requests.
4. The fused lookup against its reference path (`worker.py:522-734`) as operators.
