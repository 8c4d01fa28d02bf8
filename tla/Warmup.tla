------------------------------- MODULE Warmup -------------------------------
(* v1/worker/gpu/warmup.py: the scheduler outputs the worker makes up to     *)
(* warm its kernels, and the KV blocks they name.  The scheduler plays no    *)
(* part, so nobody but this code keeps the blocks of two requests apart.     *)
(*                                                                           *)
(* A warm-up is a record [q, spec, seqs, batched, blocks, groups, ahead,     *)
(* maxLen, encLen, pooling]: decode_query_len, num_speculative_steps,        *)
(* max_num_seqs, max_num_batched_tokens, num_blocks, the specs of the cache  *)
(* groups, num_lookahead_tokens, max_model_len, max_encoder_len and          *)
(* is_pooling_model.  A spec is a record [kind, bs, spec]: "attention",      *)
(* "circular", "cross", "mamba" or "align" (Mamba in align mode).            *)
EXTENDS Integers, FiniteSets, FiniteSetsExt, SequencesExt

CeilDiv(n, k) == (n + k - 1) \div k
Least(a, b) == IF a < b THEN a ELSE b
Sum(s) == LET total[n \in 0 .. Len(s)] == IF n = 0 THEN 0 ELSE total[n - 1] + s[n]
          IN  total[Len(s)]

\* A warm-up that the configuration may give.
IsWarmup(w) ==
    /\ DOMAIN w = {"q", "spec", "seqs", "batched", "blocks", "groups", "ahead", "maxLen",
                   "encLen", "pooling"}
    /\ {w.ahead, w.maxLen, w.encLen} \subseteq Nat
    /\ w.groups = [g \in 1 .. Len(w.groups) |-> w.groups[g]] /\ Len(w.groups) \in Nat
    /\ \A g \in 1 .. Len(w.groups) : w.groups[g].bs \in Nat \ {0} /\ w.groups[g].spec \in Nat

\* Blocks the scheduler would hold for n tokens of a request.
_reserved_block_count(w, n, g) ==
    CASE g.kind = "circular" -> 1
      [] g.kind = "cross" -> CeilDiv(w.encLen, g.bs)
      [] g.kind = "align" -> CeilDiv(n, g.bs) + g.spec
      [] OTHER -> CeilDiv(Least(n + w.ahead, w.maxLen), g.bs) + g.spec

CountsFor(w, n) == [g \in DOMAIN w.groups |-> _reserved_block_count(w, n, w.groups[g])]
TotalFor(w, n) == Sum(CountsFor(w, n))

-----------------------------------------------------------------------------
(* The blocks handed out so far: next_block_id, the blocks of each request   *)
(* in each group, the tokens of each request, and the step's batch.          *)

Start(w, n) ==
    [next |-> 1, computed |-> [i \in 1..n |-> 0], batch |-> <<>>,
     held |-> [i \in 1..n |-> [g \in DOMAIN w.groups |-> {}]]]

\* _alloc_blocks, for one group of a request.
_alloc_blocks(s, i, g, n) ==
    [s EXCEPT !.held[i][g] = @ \cup (s.next .. s.next + n - 1), !.next = @ + n]

\* What request i needs more to hold `after` tokens, group by group.
Grown(w, s, i, after) ==
    LET delta(g) == CountsFor(w, after)[g] - Cardinality(s.held[i][g])
        upto[g \in 0 .. Len(w.groups)] ==
            IF g = 0 THEN s ELSE _alloc_blocks(upto[g - 1], i, g, delta(g))
    IN  upto[Len(w.groups)]

\* A step that gives the first requests, one after the other, the tokens of batch.
Step(w, s, batch) ==
    LET upto[k \in 0 .. Len(batch)] ==
            IF k = 0 THEN s ELSE Grown(w, upto[k - 1], k, s.computed[k] + batch[k])
    IN  [next |-> upto[Len(batch)].next, held |-> upto[Len(batch)].held, batch |-> batch,
         computed |-> [i \in DOMAIN s.computed |->
                          s.computed[i] + (IF i <= Len(batch) THEN batch[i] ELSE 0)]]

-----------------------------------------------------------------------------
(* warmup_kernels.                                                           *)

PromptLen(w) == w.q + 1
NumDecodeSteps(w) == IF w.pooling THEN 1 ELSE IF w.spec > 0 THEN 5 ELSE 3
DecodeLen(w) == PromptLen(w) + NumDecodeSteps(w) * w.q
MaxBlocksPerReq(w) == TotalFor(w, DecodeLen(w))

NumReqs(w) ==
    LET reqs == Least(w.seqs, w.batched \div PromptLen(w)) IN
    IF MaxBlocksPerReq(w) = 0 THEN reqs
    ELSE Least(reqs, Max({1, (w.blocks - 1) \div MaxBlocksPerReq(w)}))

\* The decode steps: whether each of the first requests has draft tokens.
decode_steps(w) ==
    LET n == NumReqs(w)
        use == w.spec > 0
    IN  <<[i \in 1..n |-> use]>>
        \o (IF n >= 2 THEN <<<<use, FALSE>>>> ELSE <<>>)
        \o (IF n >= 2 /\ use THEN <<<<FALSE, FALSE>>>> ELSE <<>>)
        \o (IF n > 1 THEN <<<<use>>>> ELSE <<>>)
        \o (IF use THEN <<<<FALSE>>>> ELSE <<>>)

\* _run_decode_step.
_run_decode_step(w, s, flags) ==
    Step(w, s, [i \in 1 .. Len(flags) |-> IF flags[i] THEN w.q ELSE 1])

Prefilled(w) == Step(w, Start(w, NumReqs(w)), [i \in 1..NumReqs(w) |-> PromptLen(w)])

\* The state after the prefill and after each decode step.
warmup_kernels(w) ==
    LET steps == decode_steps(w)
        after[k \in 0 .. Len(steps)] ==
            IF k = 0 THEN Prefilled(w) ELSE _run_decode_step(w, after[k - 1], steps[k])
    IN  IF w.pooling THEN <<Prefilled(w)>>
        ELSE [k \in 1 .. Len(steps) + 1 |-> after[k - 1]]

-----------------------------------------------------------------------------
(* run_mixed_prefill_decode_warmup: request 1 decodes while request 2 is     *)
(* prefilled, n tokens together.                                             *)

MixedRuns(w, n) ==
    /\ ~w.pooling /\ w.seqs >= 2 /\ n >= 3
    /\ w.blocks > TotalFor(w, 3) + TotalFor(w, n - 1)

run_mixed_prefill_decode_warmup(w, n) ==
    LET first == Step(w, Start(w, 2), <<2>>)
    IN  IF ~MixedRuns(w, n) THEN <<>> ELSE <<first, Step(w, first, <<1, n - 1>>)>>

-----------------------------------------------------------------------------
(* What a step may do: it has no more tokens than a batch, the blocks of      *)
(* different requests and groups are different, none is the null block or     *)
(* beyond the pool, and each request holds what the scheduler would have      *)
(* reserved for its tokens.                                                   *)

InBatch(w, s) == Sum(s.batch) <= w.batched
Apart(w, s) ==
    \A i, j \in DOMAIN s.held : \A g, h \in DOMAIN w.groups :
        <<i, g>> # <<j, h>> => s.held[i][g] \cap s.held[j][h] = {}
InPool(w, s) ==
    \A i \in DOMAIN s.held : \A g \in DOMAIN w.groups :
        s.held[i][g] \subseteq 1 .. w.blocks - 1
Covered(w, s) ==
    \A i \in DOMAIN s.computed : \A g \in DOMAIN w.groups :
        LET last == Least(s.computed[i] + w.ahead, w.maxLen) IN
        w.groups[g].kind = "attention" /\ s.computed[i] > 0 =>
            last <= Cardinality(s.held[i][g]) * w.groups[g].bs
=============================================================================
