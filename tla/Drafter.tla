------------------------------- MODULE Drafter -------------------------------
(* Autoregressive drafting (Eagle, MTP): the speculator of the V2 runner,    *)
(* v1/worker/gpu/spec_decode/autoregressive/speculator.py, and the proposer  *)
(* of the V1 runner, v1/spec_decode/llm_base_proposer.py, with a padded      *)
(* batch or one compacted on the CPU.                                        *)
(*                                                                           *)
(* The draft model reads, at position p of a request, the token of p+1 and   *)
(* the hidden state of p, attends to its own KV cache up to p, and predicts  *)
(* the token of p+2.  Its first pass follows the target's batch, rejected    *)
(* tokens included; each further pass has one row per request.  Rows of the  *)
(* persistent buffers keep what earlier steps left in them.                  *)
(*                                                                           *)
(* Contents are named by what they should be: <<r, p, kind>>, kind "t" for   *)
(* the token of position p the request really has and the target's hidden    *)
(* state there, "d" for a drafted token, "h" for the draft's hidden state.   *)
EXTENDS Integers, Sequences, FiniteSets, SequencesExt

CONSTANTS Reqs,         \* bound: requests at a time
          Impls,        \* bound: "v2", "padded", "cpu"
          K,            \* num_speculative_tokens
          MaxModelLen,
          PromptLens,   \* bound: lengths of prompts
          MaxChunk,     \* bound: tokens of a prefill chunk
          MaxSteps      \* bound: engine steps and evictions

ASSUME DrafterAssumption ==
    /\ IsFiniteSet(Reqs) /\ K \in Nat \ {0} /\ MaxModelLen \in Nat \ {0}
    /\ PromptLens \subseteq 1 .. MaxModelLen - 1 /\ MaxChunk \in Nat \ {0}
    /\ Impls \subseteq {"v2", "padded", "cpu"}

VARIABLES
    impl,      \* the implementation of this behaviour
    known,     \* request -> tokens it has
    computed,  \* request -> positions the target has computed
    offered,   \* request -> drafts the next step may verify
    steps,
    phase,     \* "idle", "target", "prepare", "drafting", "drafted"
    batch,     \* the rows of requests of this step, in order
    goal,      \* drafts to make for this batch
    made,      \* passes of the draft model so far
    kv,        \* draft cache: request -> position -> "T", "D" or "X"
    ids, pos, hid,  \* input buffers: row -> contents
    seq,       \* seq_lens: row -> length
    skey,      \* sample_src_positions: row -> position
    step,      \* current_draft_step
    topk,      \* indices shared between passes: row -> whose they are
    drafts,    \* draft_tokens: row -> draft -> token
    logits,    \* draft_logits: request -> draft -> token sampled from them
    missed     \* requests whose draft cache was passed over (V1)
engine == <<impl, known, computed, offered, steps>>
buffers == <<ids, pos, hid, seq, skey, step, topk, drafts, logits>>
vars == <<engine, phase, batch, goal, made, kv, buffers, missed>>

Symmetry == Permutations(Reqs)

Wrong == <<0, 0, "x">>
Token(r, p) == <<r, p, "t">>
Draft(r, p) == <<r, p, "d">>
Hidden(r, p) == <<r, p, "h">>
Positions == 0 .. MaxModelLen - 1
NumReqs == Cardinality(Reqs)
MaxQuery == IF MaxChunk > K + 1 THEN MaxChunk ELSE K + 1
Rows == 1 .. NumReqs * MaxQuery
Smaller(a, b) == IF a < b THEN a ELSE b

Empty == [p \in Positions |-> "X"]
Init ==
    /\ impl \in Impls /\ known \in [Reqs -> PromptLens]
    /\ computed = [r \in Reqs |-> 0] /\ offered = [r \in Reqs |-> 0] /\ steps = 0
    /\ phase = "idle" /\ batch = <<>> /\ goal = 0 /\ made = 0
    /\ kv = [r \in Reqs |-> Empty]
    /\ ids = [i \in Rows |-> Wrong] /\ pos = [i \in Rows |-> 0]
    /\ hid = [i \in Rows |-> Wrong] /\ seq = [i \in 1..NumReqs |-> 0]
    /\ skey = [i \in 1..NumReqs |-> 0] /\ step = 0
    /\ topk = [i \in Rows |-> Wrong]
    /\ drafts = [i \in 1..NumReqs |-> [j \in 1..K |-> Wrong]]
    /\ logits = [r \in Reqs |-> [j \in 1..K |-> Wrong]]
    /\ missed = {}

-----------------------------------------------------------------------------
(* The engine and the target model.                                          *)

\* A request of a batch: its first position, its rows, how many of them were
\* rejected, and whether a token was sampled after them.
InBatch(r, known_, drafts_, rejected) ==
    [r |-> r, start |-> computed[r], len |-> known_ + drafts_, rej |-> rejected,
     sampled |-> computed[r] + known_ = known[r]]

\* What the scheduler may run of a request, and how many drafts are rejected:
\* a chunk of what it knows, or all of it and the drafts it was offered.
Runs(r) ==
    LET rest == known[r] - computed[r]
        fits(n) == computed[r] + n < MaxModelLen
    IN  {InBatch(r, n, 0, 0) : n \in {m \in 1 .. Smaller(rest, MaxChunk) : fits(m)}}
        \cup (IF rest = 1
              THEN {InBatch(r, 1, e[1], e[2]) :
                        e \in {f \in (0 .. offered[r]) \X (0 .. K) :
                                   f[2] <= f[1] /\ fits(1 + f[1])}}
              ELSE {})

\* A step of the target: every accepted draft and the token sampled after them
\* become tokens of the request.
Target ==
    /\ phase = "idle" /\ steps < MaxSteps /\ steps' = steps + 1
    /\ \E chosen \in SUBSET Reqs \ {{}} : \E order \in SetToSeqs(chosen) :
        \E run \in [chosen -> UNION {Runs(r) : r \in Reqs}] :
            /\ \A r \in chosen : run[r] \in Runs(r)
            /\ batch' = [i \in DOMAIN order |-> run[order[i]]]
            /\ computed' = [r \in Reqs |-> IF r \in chosen
                    THEN computed[r] + run[r].len - run[r].rej ELSE computed[r]]
            /\ known' = [r \in Reqs |-> IF r \in chosen /\ run[r].sampled
                    THEN computed[r] + run[r].len - run[r].rej + 1 ELSE known[r]]
            /\ offered' = [r \in Reqs |-> IF r \in chosen THEN 0 ELSE offered[r]]
    /\ goal' \in (IF impl = "v2" THEN {K} ELSE 0 .. K)
    /\ phase' = "target" /\ made' = 0
    /\ UNCHANGED <<impl, kv, buffers, missed>>

\* The blocks of a request are given to another one, or back to itself.
Evict(r) ==
    /\ phase = "idle" /\ computed[r] > 0 /\ steps < MaxSteps - 1 /\ steps' = steps + 1
    /\ \/ known' = [known EXCEPT ![r] = CHOOSE n \in PromptLens : TRUE]
       \/ known[r] < MaxModelLen /\ UNCHANGED known
    /\ computed' = [computed EXCEPT ![r] = 0] /\ offered' = [offered EXCEPT ![r] = 0]
    /\ kv' = [kv EXCEPT ![r] = Empty] /\ missed' = missed \ {r}
    /\ UNCHANGED <<impl, phase, batch, goal, made, buffers>>

-----------------------------------------------------------------------------
(* The batch: query_start_loc and the target's rows.                         *)

n == Len(batch)
Start(i) == LET next[k \in 0 .. n] == IF k = 0 THEN 1 ELSE next[k - 1] + batch[k].len
            IN  next[i - 1]
NumTokens == Start(n + 1) - 1
\* The entry of the batch a row belongs to, and its position.
Entry(row) == CHOOSE i \in 1..n : row \in Start(i) .. Start(i + 1) - 1
Request(i) == batch[i].r
At(row) == batch[Entry(row)].start + row - Start(Entry(row))
\* The last position that is not rejected.
Base(i) == batch[i].start + batch[i].len - batch[i].rej - 1
TargetId(row) ==
    IF At(row) <= Base(Entry(row)) THEN Token(Request(Entry(row)), At(row)) ELSE Wrong
TargetHidden(row) == TargetId(row)

-----------------------------------------------------------------------------
(* The draft model.                                                          *)

\* The cache after writes <<request, position, entry>>.
Written(writes) ==
    [r \in Reqs |-> [p \in Positions |->
        IF \E w \in writes : w[1] = r /\ w[2] = p
        THEN (CHOOSE w \in writes : w[1] = r /\ w[2] = p)[3] ELSE kv[r][p]]]

\* First pass: the entry a row writes at the target's slot, and its output.
FirstEntry(in, row) ==
    LET r == Request(Entry(row)) p == At(row)
    IN  IF in.ids[row] = Token(r, p + 1) /\ in.hid[row] = Token(r, p) /\ in.pos[row] = p
        THEN "T" ELSE "X"
FirstKv(in, rows) == Written({<<Request(Entry(i)), At(i), FirstEntry(in, i)>> : i \in rows})
FirstOut(cache, row) ==
    LET r == Request(Entry(row)) IN
    IF \A p \in 0 .. At(row) : cache[r][p] = "T" THEN Hidden(r, At(row)) ELSE Wrong

\* Further passes: the row of request i at position p, which writes entry e and
\* attends to `length` entries, with the indices of row i of the shared buffer.
NextOut(cache, i, p, e, length) ==
    LET r == Request(i) IN
    IF /\ e = "D" /\ length = p + 1 /\ topk[i] = Hidden(r, Base(i))
       /\ \A q \in 0 .. Base(i) : cache[r][q] = "T"
       /\ \A q \in Base(i) + 1 .. p : cache[r][q] = "D"
    THEN Hidden(r, p) ELSE Wrong
NextEntry(i) ==
    IF ids[i] = Draft(Request(i), pos[i] + 1) /\ hid[i] = Hidden(Request(i), pos[i] - 1)
    THEN "D" ELSE "X"

\* A token is drawn with the position before it as its key.
Sampled(out, key) ==
    IF out # Wrong /\ key = out[2] + 1 THEN Draft(out[1], out[2] + 2) ELSE Wrong
SampledV1(out) == IF out # Wrong THEN Draft(out[1], out[2] + 2) ELSE Wrong

\* Mutant: the indices of the first pass stay where they are.
Compacted_Not(positions, last) ==
    [i \in Rows |-> IF i \in DOMAIN positions THEN positions[i] ELSE topk[i]]

\* The first pass computes the indices of all its rows, `positions`; those of
\* the last tokens are then moved to the front for the further passes, which
\* compute none (set_skip_topk, compact_topk_indices).
Compacted(positions, last) ==
    [i \in Rows |-> IF i <= n THEN positions[last[i]]
                    ELSE IF i \in DOMAIN positions THEN positions[i] ELSE topk[i]]

\* A buffer whose first n rows take new values.
InFront(buffer, values) == [row \in Rows |-> IF row <= n THEN values[row] ELSE buffer[row]]

\* draft_logits has a row per request of the runner.
LogitsOf(j, token) ==
    [r \in Reqs |-> IF \E i \in 1..n : Request(i) = r
                    THEN [logits[r] EXCEPT ![j] = token[CHOOSE i \in 1..n : Request(i) = r]]
                    ELSE logits[r]]

-----------------------------------------------------------------------------
(* V2: AutoRegressiveSpeculator.                                             *)

\* Mutant: rejected tokens count as verified.
prepare_prefill_inputs_KeepRejected ==
    LET last == [i \in 1..n |-> Start(i) + batch[i].len - 1]
        next(i) == Token(Request(i), Base(i) + 1)
    IN  [last |-> last,
         ids |-> [row \in Rows |->
            IF row > NumTokens THEN ids[row]
            ELSE IF row = last[Entry(row)] THEN next(Entry(row)) ELSE TargetId(row + 1)],
         pos |-> [row \in Rows |-> IF row <= NumTokens THEN At(row) ELSE pos[row]]]

\* prepare_prefill_inputs: rejected rows keep what was there.  The next token
\* is the sampled one, or the next of the prompt after a chunk.
prepare_prefill_inputs ==
    LET last == [i \in 1..n |-> Start(i) + batch[i].len - batch[i].rej - 1]
        valid == {row \in 1..NumTokens : row <= last[Entry(row)]}
        next(i) == Token(Request(i), Base(i) + 1)
    IN  [last |-> last,
         ids |-> [row \in Rows |->
            IF row \notin valid THEN ids[row]
            ELSE IF row = last[Entry(row)] THEN next(Entry(row)) ELSE TargetId(row + 1)],
         pos |-> [row \in Rows |-> IF row \in valid THEN At(row) ELSE pos[row]]]

HiddenCopied == [row \in Rows |-> IF row <= NumTokens THEN TargetHidden(row) ELSE hid[row]]

\* propose, to the end of the draft prefill.  A graph runs with more requests
\* than there are, whose last token is row 1.
Prefill ==
    /\ impl = "v2" /\ phase = "target"
    /\ LET inputs == prepare_prefill_inputs
           in == [ids |-> inputs.ids, pos |-> inputs.pos, hid |-> HiddenCopied]
           cache == FirstKv(in, 1..NumTokens)
           out == [i \in 1..n |-> FirstOut(cache, inputs.last[i])]
           key == [i \in 1..n |-> in.pos[inputs.last[i]] + 1]
           token == [i \in 1..n |-> Sampled(out[i], key[i])]
       IN  \E padded \in n .. NumReqs :
            LET from(i) == IF i <= n THEN inputs.last[i] ELSE 1 IN
            /\ kv' = cache /\ ids' = in.ids
            /\ drafts' = [i \in 1..NumReqs |->
                            IF i <= n THEN [drafts[i] EXCEPT ![1] = token[i]]
                            ELSE IF i <= padded THEN [drafts[i] EXCEPT ![1] = Wrong]
                            ELSE drafts[i]]
            /\ logits' = LogitsOf(1, token)
            /\ hid' = [row \in Rows |-> IF row <= n THEN out[row]
                                        ELSE IF row <= padded THEN Wrong ELSE in.hid[row]]
            /\ pos' = [row \in Rows |-> IF row <= padded THEN in.pos[from(row)]
                                        ELSE in.pos[row]]
            /\ skey' = [i \in 1..NumReqs |-> IF i <= padded THEN in.pos[from(i)] + 1
                                            ELSE skey[i]]
            /\ topk' = IF K > 1 THEN Compacted([i \in 1..NumTokens |-> Hidden(Request(Entry(i)), At(i))],
                                               inputs.last)
                       ELSE topk
    /\ step' = 0 /\ made' = 1
    /\ seq' = [i \in 1..NumReqs |-> IF i <= n THEN batch[i].start + batch[i].len ELSE 0]
    /\ phase' = IF K = 1 THEN "drafted" ELSE "prepare"
    /\ UNCHANGED <<engine, batch, goal, missed>>

\* prepare_decode_inputs, for one request: seq_lens.
prepare_decode_inputs(i) == Smaller(seq[i] - batch[i].rej + 1, MaxModelLen)

Advanced(p) == Smaller(p + 1, MaxModelLen - 1)

PrepareDecode ==
    /\ impl = "v2" /\ phase = "prepare" /\ phase' = "drafting"
    /\ ids' = [row \in Rows |-> IF row <= n THEN drafts[row][1] ELSE ids[row]]
    /\ skey' = [i \in 1..NumReqs |-> IF i <= n THEN skey[i] + 1 ELSE skey[i]]
    /\ pos' = [row \in Rows |-> IF row <= n THEN Advanced(pos[row]) ELSE pos[row]]
    /\ seq' = [i \in 1..NumReqs |-> IF i <= n THEN prepare_decode_inputs(i) ELSE 0]
    /\ UNCHANGED <<engine, batch, goal, made, kv, hid, step, topk, drafts, logits, missed>>

\* update_draft_inputs: the last pass leaves the inputs alone.
update_draft_inputs(out, token) ==
    /\ drafts' = [i \in 1..NumReqs |->
                    IF i <= n THEN [drafts[i] EXCEPT ![step' + 1] = token[i]] ELSE drafts[i]]
    /\ IF step' >= K - 1 THEN UNCHANGED <<ids, hid, pos, skey, seq>>
       ELSE /\ ids' = InFront(ids, token) /\ hid' = InFront(hid, out)
            /\ pos' = InFront(pos, [i \in 1..n |-> Advanced(pos[i])])
            /\ skey' = [i \in 1..NumReqs |-> IF i <= n THEN skey[i] + 1 ELSE skey[i]]
            /\ seq' = [i \in 1..NumReqs |->
                         IF i <= n THEN Smaller(seq[i] + 1, MaxModelLen) ELSE seq[i]]

\* _multi_step_decode and _fused_multi_step_decode number their passes from 1.
current_draft_step == made

\* _generate_draft.  Slots and lengths are those of the inputs, whether they are
\* rebuilt before each pass or updated between the passes of a fused loop.
GenerateDraft ==
    /\ impl = "v2" /\ phase = "drafting" /\ step' = current_draft_step
    /\ LET cache == Written({<<Request(i), pos[i], NextEntry(i)>> : i \in 1..n})
           out == [i \in 1..n |-> NextOut(cache, i, pos[i], NextEntry(i), seq[i])]
           token == [i \in 1..n |-> Sampled(out[i], skey[i])]
       IN  /\ kv' = cache /\ update_draft_inputs(out, token)
           /\ logits' = LogitsOf(step' + 1, token)
    /\ made' = made + 1 /\ phase' = IF made' = K THEN "drafted" ELSE "drafting"
    /\ UNCHANGED <<engine, batch, goal, topk, missed>>

-----------------------------------------------------------------------------
(* V1: SpecDecodeBaseProposer, called by the runner's sample_tokens.         *)

\* _input_fits_in_drafter: one long request keeps the whole batch from it.
_input_fits_in_drafter ==
    \A i \in 1..n : batch[i].start + batch[i].len + K <= MaxModelLen

\* The drafts are zeros, and are offered as such.
SkipDrafter ==
    /\ impl # "v2" /\ phase = "target" /\ ~_input_fits_in_drafter
    /\ drafts' = [i \in 1..NumReqs |-> [j \in 1..K |-> Wrong]]
    /\ missed' = missed \cup {Request(i) : i \in 1..n}
    /\ goal' = K /\ made' = 0 /\ phase' = "drafted"
    /\ UNCHANGED <<engine, batch, kv, ids, pos, hid, seq, skey, step, topk, logits>>

\* prepare_next_token_ids_padded and _cpu: after a chunk, the padded batch takes
\* the last token the request knows and the compacted one the next of the prompt.
NextToken(i) ==
    IF impl = "cpu" \/ batch[i].sampled THEN Token(Request(i), Base(i) + 1)
    ELSE Token(Request(i), known[Request(i)] - 1)

\* The rows of the target the first pass takes: prepare_inputs drops the rejected
\* ones, prepare_inputs_padded keeps them.
Kept == IF impl = "cpu" THEN {row \in 1..NumTokens : At(row) <= Base(Entry(row))}
        ELSE 1..NumTokens
KeptRow(i) == CHOOSE row \in Kept : Cardinality({k \in Kept : k <= row}) = i
Place(row) == Cardinality({k \in Kept : k <= row})

\* set_inputs_first_pass: the ids move up by one row, across requests, and each
\* request's last row then takes its next token.
set_inputs_first_pass ==
    LET m == Cardinality(Kept)
        last == [i \in 1..n |-> Place(Start(i) + batch[i].len - batch[i].rej - 1)]
    IN  [last |-> last,
         ids |-> [row \in Rows |->
            IF \E i \in 1..n : last[i] = row
            THEN NextToken(CHOOSE i \in 1..n : last[i] = row)
            ELSE IF row < m THEN TargetId(KeptRow(row + 1)) ELSE ids[row]],
         pos |-> [row \in Rows |-> IF row <= m THEN At(KeptRow(row)) ELSE pos[row]],
         hid |-> [row \in Rows |-> IF row <= m THEN TargetHidden(KeptRow(row)) ELSE hid[row]]]

\* propose, to the first draft.  Without drafts to make it keeps the cache up; with
\* more to make, its local tensors are kept in the front rows they will be copied to.
FirstPass ==
    /\ impl # "v2" /\ phase = "target" /\ _input_fits_in_drafter
    /\ LET in == set_inputs_first_pass
           row(i) == KeptRow(in.last[i])
           \* the inputs by the rows of the target
           byRow == [ids |-> [k \in Kept |-> in.ids[Place(k)]],
                     pos |-> [k \in Kept |-> in.pos[Place(k)]],
                     hid |-> [k \in Kept |-> in.hid[Place(k)]]]
           cache == FirstKv(byRow, Kept)
           out == [i \in 1..n |-> FirstOut(cache, row(i))]
           more == goal > 1
       IN  /\ kv' = cache /\ ids' = in.ids
           /\ hid' = IF more THEN InFront(in.hid, out) ELSE in.hid
           /\ pos' = IF more THEN InFront(in.pos, [i \in 1..n |-> in.pos[in.last[i]]]) ELSE in.pos
           /\ topk' = Compacted([i \in 1..Cardinality(Kept) |->
                                    Hidden(Request(Entry(KeptRow(i))), At(KeptRow(i)))],
                                in.last)
           /\ drafts' = [i \in 1..NumReqs |->
                IF i <= n /\ goal > 0 THEN [drafts[i] EXCEPT ![1] = SampledV1(out[i])]
                ELSE drafts[i]]
           /\ seq' = [i \in 1..NumReqs |->
                        IF i <= n THEN batch[i].start + batch[i].len - batch[i].rej ELSE 0]
           /\ phase' = IF more THEN "drafting" ELSE "drafted"
           /\ missed' = missed \cup {Request(i) : i \in {k \in 1..n :
                            NextToken(k) # Token(Request(k), Base(k) + 1)}}
    /\ made' = 1
    /\ UNCHANGED <<engine, batch, goal, skey, step, logits>>

\* One turn of propose's loop.  Its kernel gives a row beyond the model's length
\* position 0, no slot and one token to attend to.
NextPass ==
    /\ impl # "v2" /\ phase = "drafting"
    /\ LET within(i) == pos[i] + 1 < MaxModelLen
           at == [i \in 1..n |-> IF within(i) THEN pos[i] + 1 ELSE 0]
           entry(i) == IF drafts[i][made] = Draft(Request(i), at[i] + 1)
                          /\ hid[i] = Hidden(Request(i), at[i] - 1) THEN "D" ELSE "X"
           cache == Written({<<Request(i), at[i], entry(i)>> : i \in {k \in 1..n : within(k)}})
           length == [i \in 1..n |-> IF within(i) THEN seq[i] + 1 ELSE 1]
           out == [i \in 1..n |-> NextOut(cache, i, at[i], entry(i), length[i])]
       IN  /\ kv' = cache /\ pos' = InFront(pos, at)
           /\ ids' = InFront(ids, [i \in 1..n |-> drafts[i][made]])
           /\ hid' = InFront(hid, out)
           /\ seq' = [i \in 1..NumReqs |-> IF i <= n THEN length[i] ELSE seq[i]]
           /\ drafts' = [i \in 1..NumReqs |->
                IF i <= n THEN [drafts[i] EXCEPT ![made + 1] = SampledV1(out[i])]
                ELSE drafts[i]]
    /\ made' = made + 1 /\ phase' = IF made' = goal THEN "drafted" ELSE "drafting"
    /\ UNCHANGED <<engine, batch, goal, skey, step, topk, logits, missed>>

-----------------------------------------------------------------------------
\* The drafts are stored with their requests and offered to the scheduler.
Offer ==
    /\ phase = "drafted" /\ phase' = "idle"
    /\ offered' = [r \in Reqs |->
            IF \E i \in 1..n : Request(i) = r /\ batch[i].sampled THEN goal ELSE offered[r]]
    /\ UNCHANGED <<impl, known, computed, steps, batch, goal, made, kv, buffers, missed>>

Next ==
    \/ Target \/ Offer \/ \E r \in Reqs : Evict(r)
    \/ Prefill \/ PrepareDecode \/ GenerateDraft
    \/ SkipDrafter \/ FirstPass \/ NextPass

Spec == Init /\ [][Next]_vars

-----------------------------------------------------------------------------
(* Properties.                                                               *)

\* At every position the target has computed, the draft cache holds what the
\* draft model makes of the tokens the request really has, whatever was drafted,
\* rejected, evicted or left in the buffers before; but for requests that V1
\* has passed over, or whose chunk it ended with another token.  ("to keep the
\* drafter KV cache in sync")
CacheInSync ==
    phase # "target" =>
        \A r \in Reqs \ missed : \A p \in 0 .. computed[r] - 1 : kv[r][p] = "T"

\* Every draft is the one the draft model makes of its request's tokens and the
\* drafts before it, drawn with the key of its position, as far as the model's
\* length goes; and V2 keeps the logits it was drawn from as those of that draft.
DraftsFollow ==
    phase = "drafted" =>
        \A i \in 1..n : \A j \in 1..goal :
            Request(i) \notin missed /\ Base(i) + j <= MaxModelLen =>
                /\ drafts[i][j] = Draft(Request(i), Base(i) + 1 + j)
                /\ impl = "v2" => logits[Request(i)][j] = drafts[i][j]
=============================================================================
