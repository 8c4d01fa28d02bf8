----------------------------- MODULE BlockSizes -----------------------------
(* platforms/interface.py: the block size of attention, the block size and  *)
(* the padded pages of the other layers, settled before any layer states    *)
(* its spec, so that all of them can share one pool of blocks.              *)
(* A platform is what update_block_size_for_backend reads:                  *)
(*   [user, preferred, kernel, hybrid, mla, turbo, tok, skip, states,       *)
(*    mode, stateBlock, chunk, slot, full, pp]                              *)
(* user is --block-size (0: not given), preferred the backend's choice,     *)
(* kernel its smallest kernel block; tok and skip are the bytes a token     *)
(* takes in a layer and in a layer kept out of quantisation (0: no such     *)
(* layer); states the bytes of each kind of mamba state; mode is            *)
(* mamba_cache_mode and stateBlock a user's mamba_block_size; slot is what  *)
(* a token leaves on the GPU under VLLM_QSA_KV_OFFLOAD (0: off); full and   *)
(* pp count the full-attention layers and the pipeline stages.              *)
(* A cache configuration is [bs, stateBlock, statePad, skipPad], 0: None.   *)
EXTENDS KvSpecs

CONSTANTS
    MlaGranule,     \* 128: physical kernel blocks of an MLA decode
    OffloadGranule  \* 16: tokens of the smallest block under offload
ASSUME GranuleAssumption == {MlaGranule, OffloadGranule} \subseteq Nat \ {0}

\* What a model and a backend say of themselves is never empty; a layer is of
\* a kind the platform knows, and a page of an "mla" layer, which keeps every
\* second token, holds at least one.
IsPlatform(p) ==
    /\ {p.preferred, p.kernel, p.tok, p.chunk, p.pp} \subseteq Nat \ {0}
    /\ {p.user, p.skip, p.stateBlock, p.slot, p.full} \subseteq Nat
    /\ p.states \in Seq(Nat \ {0})
IsServed(kind, p) ==
    CASE kind = "full" \/ kind = "kv" \/ kind = "ring" -> TRUE
      [] kind = "skip" -> p.skip > 0
      [] kind = "mla"  -> p.tok > 1
      [] OTHER         -> kind[2] \in DOMAIN p.states

-----------------------------------------------------------------------------
\* Hybrid models.
\* Mutant: the first kind of state stands for all.
StatePage_First(p) == p.states[1]
StatePage(p) == Max(ToSet(p.states))
\* turboquant packs its pages: a page of both kinds of layers is a multiple
\* of the two.
TokenPage(p) == IF p.turbo /\ p.skip # 0 THEN LcmOf(p.tok, p.skip) ELSE p.tok
KernelAlignment(p, c) == Max({p.kernel, c.bs} \cup IF p.mla THEN {MlaGranule} ELSE {})

\* Tokens of the smallest attention block whose page holds any state; with
\* prefix caching of every block, also a multiple of the mamba kernel's chunk.
AttentionBlock(p, c) ==
    LET align == KernelAlignment(p, c)
        chunk == LcmOf(IF p.stateBlock = 0 THEN p.chunk ELSE p.stateBlock, align)
    IN  IF p.mode = "all" THEN chunk * CDiv(CDiv(StatePage(p), TokenPage(p)), chunk)
        ELSE align * CDiv(StatePage(p), align * TokenPage(p))

\* 0: the normal path.
_qsa_offload_block_size(p) ==
    LET bytes == Max({1, p.full \div p.pp}) * p.slot
    IN  IF p.slot = 0 \/ p.full = 0 THEN 0
        ELSE ((StatePage(p) \div bytes) \div OffloadGranule) * OffloadGranule

Offloaded(p, c) ==
    LET bs == _qsa_offload_block_size(p)
    IN  [c EXCEPT !.bs = bs, !.statePad = StatePage(p),
                  !.stateBlock = IF p.mode = "align" THEN bs ELSE @]

_align_hybrid_block_size(p, c) ==
    LET block == AttentionBlock(p, c)
        bs    == Max({c.bs, block})
        page  == bs * TokenPage(p)
    IN  IF p.states = <<>> THEN c
        ELSE IF _qsa_offload_block_size(p) # 0
        THEN Offloaded(p, [c EXCEPT !.stateBlock = IF p.mode = "all" THEN block ELSE @])
        ELSE [c EXCEPT !.bs = bs,
                       !.stateBlock = CASE p.mode = "all"   -> block
                                        [] p.mode = "align" -> bs
                                        [] OTHER            -> @,
                       !.statePad = IF page = StatePage(p) THEN @ ELSE page]

-----------------------------------------------------------------------------
\* Two precisions in one pool.
\* A page of the quantised layers grows until it covers a page of the skipped
\* ones at their smallest kernel block, and any state already padded.
_align_heterogeneous_kv_block_size(p, c) ==
    LET align  == Max({p.kernel, c.bs})
        needed == Max({p.skip * p.kernel, c.statePad})
        bs     == Max({c.bs, align * CDiv(needed, align * p.tok)})
    IN  IF p.skip = p.tok THEN c
        ELSE [c EXCEPT !.bs = bs, !.skipPad = bs * p.tok,
                       !.statePad = IF @ = 0 THEN 0 ELSE bs * p.tok]
\* "a higher-precision padded spec must not be smaller than the quantized
\* primary."
Misordered(p) == p.skip # 0 /\ p.skip < p.tok

-----------------------------------------------------------------------------
\* Both alignments may override --block-size.
update_block_size_for_backend(p) ==
    LET c == [bs |-> IF p.user = 0 THEN p.preferred ELSE p.user,
              stateBlock |-> p.stateBlock, statePad |-> 0, skipPad |-> 0]
        h == IF p.hybrid THEN _align_hybrid_block_size(p, c) ELSE c
    IN  IF p.skip # 0 THEN _align_heterogeneous_kv_block_size(p, h) ELSE h

\* The specs the layers then state (the attention and mamba layers read the
\* cache configuration; a skipped layer keeps its smallest kernel block).
\* kind: "full", "skip", a kind of state 1, 2 ..., or the roles of a QSA layer.
LayerSpec(kind, p, c, len) ==
    LET plain == [cls |-> IF p.mla THEN "mla" ELSE "full", bs |-> c.bs, tok |-> p.tok,
                  pad |-> 0, win |-> 0, tps |-> 1, rep |-> FALSE, draft |-> FALSE]
    IN  CASE kind = "full" -> plain
          [] kind = "skip" -> [plain EXCEPT !.tok = p.skip, !.pad = c.skipPad,
                                            !.bs = IF c.skipPad = 0 THEN @ ELSE p.kernel]
          [] kind = "kv"   -> [plain EXCEPT !.tok = IF p.slot = 0 THEN @ ELSE 2]
          [] kind = "mla"  -> [plain EXCEPT !.cls = "mla", !.tps = 2]
          [] kind = "ring" -> [plain EXCEPT !.cls = "circ", !.tok = 1]
          [] OTHER -> [plain EXCEPT
                 !.cls = "mamba", !.tok = p.states[kind[2]], !.pad = c.statePad,
                 !.rep = kind[2] > 1, !.bs = IF c.stateBlock = 0 THEN len ELSE c.stateBlock]
=============================================================================
