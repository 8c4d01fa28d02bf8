---------------------------- MODULE GraphDispatch ----------------------------
(* v1/worker/gpu/cudagraph_utils.py: which CUDA graphs a manager captures    *)
(* and which of them a batch is run with.                                    *)
(*                                                                           *)
(* A manager is a record [mode, sizes, maxSize, maxReqs, queryLen,           *)
(* queryLens, varlen, loras]: its cudagraph_mode, the sizes to capture,      *)
(* max_cudagraph_capture_size, max_num_reqs, decode_query_len, the lengths   *)
(* dynamic speculation may decode with ({queryLen} without it),              *)
(* varlen_decode and lora_capture_cases.  A descriptor is a record [mode,    *)
(* tokens, reqs, uniform, query, loras], where 0 stands for Python's None.   *)
EXTENDS Integers, FiniteSets, FiniteSetsExt

\* A manager the configuration may give: max_cudagraph_capture_size is the largest
\* of the sizes.
IsManager(m) ==
    /\ m.mode \in {"NONE", "PIECEWISE", "FULL", "FULL_DECODE_ONLY", "FULL_AND_PIECEWISE"}
    /\ m.maxSize \in Nat /\ m.sizes \subseteq 1 .. m.maxSize
    /\ m.sizes # {} => m.maxSize \in m.sizes
    /\ m.maxReqs \in Nat \ {0} /\ m.queryLen \in Nat \ {0}
    /\ m.queryLens \subseteq 1 .. m.queryLen /\ m.queryLen \in m.queryLens
    /\ m.varlen \in BOOLEAN
    /\ m.loras \subseteq Nat /\ m.loras # {} /\ IsFiniteSet(m.loras)

\* CUDAGraphMode: the modes that capture decodes apart from mixed batches.
separate_routine(m) == m.mode \in {"FULL_DECODE_ONLY", "FULL_AND_PIECEWISE"}
mixed_mode(m) ==
    CASE m.mode = "FULL_DECODE_ONLY" -> "NONE"
      [] m.mode = "FULL_AND_PIECEWISE" -> "PIECEWISE"
      [] OTHER -> m.mode

Smaller(a, b) == IF a < b THEN a ELSE b
RoundUp(n, k) == ((n + k - 1) \div k) * k
MaxDecodeTokens(m) == m.maxReqs * m.queryLen

\* A graph for any mix of 1..queryLen tokens per request.
VarlenDescs(m) ==
    {[mode |-> "FULL", tokens |-> n, reqs |-> Smaller(n, m.maxReqs), uniform |-> 0,
      query |-> m.queryLen, loras |-> l] :
        n \in {s \in m.sizes : s <= MaxDecodeTokens(m)}, l \in m.loras}

\* Graphs for requests of exactly q tokens each, the sizes rounded up to them.
UniformDescs(m) ==
    {d \in {[mode |-> "FULL", tokens |-> RoundUp(n, q), reqs |-> RoundUp(n, q) \div q,
             uniform |-> q, query |-> 0, loras |-> l] :
                n \in m.sizes, q \in m.queryLens, l \in m.loras} :
        /\ d.tokens <= MaxDecodeTokens(m) /\ d.tokens <= m.maxSize
        /\ d.reqs <= m.maxReqs}

MixedDescs(m) ==
    {[mode |-> mixed_mode(m), tokens |-> n,
      reqs |-> IF mixed_mode(m) = "FULL" THEN Smaller(n, m.maxReqs) ELSE 0,
      uniform |-> 0, query |-> 0, loras |-> l] : n \in m.sizes, l \in m.loras}

\* _init_candidates, first half: everything the manager is to capture.
capture_descs(m) ==
    (IF separate_routine(m) THEN IF m.varlen THEN VarlenDescs(m) ELSE UniformDescs(m)
     ELSE {})
    \cup (IF mixed_mode(m) = "NONE" THEN {} ELSE MixedDescs(m))

\* _init_candidates, second half.  The candidates of a token count are, of each
\* mode, the descriptors of the next size; FULL ones are tried first.
Candidates(m, mode, n, l) ==
    LET fits == {d \in capture_descs(m) : d.mode = mode /\ d.loras = l /\ n <= d.tokens}
    IN  {d \in fits : \A e \in fits : d.tokens <= e.tokens}

-----------------------------------------------------------------------------
\* LoRA: a count is served by the smallest captured case that holds it.
_resolve_effective_loras(m, n) ==
    LET cases == {c \in m.loras : c > 0} IN
    IF n <= 0 \/ cases = {} THEN n
    ELSE IF n > Max(cases) THEN Max(cases) ELSE Min({c \in cases : c >= n})

\* A batch is a record [reqs, tokens, uniform, query, loras]: its requests and
\* tokens, the length all requests share (0: none), the longest query.
\* Mutant: the length of the queries is not compared.
_is_compatible_AnyQuery(d, b, l) ==
    /\ d.uniform \in {0, b.uniform}
    /\ d.reqs = 0 \/ d.reqs >= b.reqs
    /\ d.tokens >= b.tokens /\ d.loras = l

_is_compatible(d, b, l) ==
    /\ d.uniform \in {0, b.uniform}
    /\ d.query = 0 \/ (b.query # 0 /\ d.query >= b.query)
    /\ d.reqs = 0 \/ d.reqs >= b.reqs
    /\ d.tokens >= b.tokens /\ d.loras = l

\* Candidates of one mode are distinguished by uniform alone, so that at most
\* one of them is compatible with a batch.
dispatch(m, captured, b) ==
    LET l == _resolve_effective_loras(m, b.loras)
        fit(mode) == {d \in Candidates(m, mode, b.tokens, l) : _is_compatible(d, b, l)}
    IN  IF captured /\ b.tokens > 0 /\ fit("FULL") # {} THEN CHOOSE d \in fit("FULL") : TRUE
        ELSE IF captured /\ b.tokens > 0 /\ fit("PIECEWISE") # {}
        THEN CHOOSE d \in fit("PIECEWISE") : TRUE
        ELSE [mode |-> "NONE", tokens |-> b.tokens, reqs |-> b.reqs, uniform |-> 0,
              query |-> 0, loras |-> l]

\* get_uniform_decode_token_count: the common length of decodes.
UniformLength(reqs, tokens, query, prefill) ==
    IF ~prefill /\ tokens = reqs * query THEN query ELSE 0

Batch(reqs, tokens, query, prefill, loras) ==
    [reqs |-> reqs, tokens |-> tokens, query |-> query, loras |-> loras,
     uniform |-> UniformLength(reqs, tokens, query, prefill)]

-----------------------------------------------------------------------------
(* What a batch may be run with, from what a graph was recorded for.         *)

\* The graph d computes batch b: FULL graphs have the shape of the attention
\* metadata built in, and kernels launched for at most the recorded adapters.
Serves(d, b) ==
    /\ d.tokens >= b.tokens /\ d.loras >= b.loras
    /\ d.mode = "FULL" =>
        /\ d.reqs >= b.reqs
        /\ d.uniform # 0 => b.query = d.uniform /\ b.tokens = b.reqs * d.uniform
        /\ d.query # 0 => b.query <= d.query
    /\ d.mode = "NONE" => d.tokens = b.tokens

\* A run with d is better than one with e: recorded as a whole, then less padding.
Better(d, e) ==
    \/ d.mode = "FULL" /\ e.mode # "FULL"
    \/ d.mode = "PIECEWISE" /\ e.mode = "NONE"
    \/ d.mode = e.mode /\ d.tokens < e.tokens
=============================================================================
