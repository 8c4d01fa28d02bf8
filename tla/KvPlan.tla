------------------------------- MODULE KvPlan -------------------------------
(* v1/core/kv_cache_utils.py: from the layers of every pipeline rank and    *)
(* the memory each rank has left to the cache configuration of every rank   *)
(* (get_kv_cache_configs), and the block sizes the scheduler then works     *)
(* with (resolve_kv_cache_block_sizes).  The specs of the layers are given, *)
(* or follow from the block sizes a platform settles on (BlockSizes).       *)
EXTENDS BlockSizes

CONSTANTS
    Models,     \* one sequence of kv_cache_specs, one per rank, per model
    Platforms,  \* records of BlockSizes, each with the layers it serves:
                \* [platform, ranks]; a layer is [name, idx, kind]
    Memories,   \* bytes each rank may have for its cache
    Settings    \* records [hma, eagle, v4, unit, caching, align, layout,
                \* override, auto, dcp]; override and unit are 0 when unset

CONSTANTS
    BlockSize,  \* cache_config.block_size
    ModelLen    \* max_model_len of the model
ASSUME PlanAssumption ==
    /\ BlockSize \in Nat \ {0} /\ ModelLen \in Nat \ {0}
    /\ Memories \subseteq Nat
    /\ \A setting \in Settings : setting.override \in Nat
\* Every rank has its layers; hidden states are kept beside other layers.
IsModel(ranks) ==
    /\ ranks \in Seq(ToSet(ranks))
    /\ \A L \in ToSet(ranks) : IsLayers(L) /\ \A s \in Specs(L) : Positive(s)
    /\ \/ \A L \in ToSet(ranks) : L = <<>>
       \/ \E L \in ToSet(ranks) : \E s \in Specs(L) : ~IsHidden(s)
ASSUME ModelsAssumption == \A ranks \in Models : IsModel(ranks)
IsUnaligned(ranks, p) ==
    /\ IsPlatform(p) /\ ranks \in Seq(ToSet(ranks))
    /\ \A L \in ToSet(ranks) : /\ L \in Seq(ToSet(L))
                              /\ \A l \in ToSet(L) : l.idx \in Nat /\ IsServed(l.kind, p)
ASSUME PlatformsAssumption ==
    \A case \in Platforms : IsUnaligned(case.ranks, case.platform)

VARIABLES
    platform,      \* what the specs are settled from; <<>>: they are given
    model, conf,   \* the input; the model of a platform, once aligned
    memory,        \* available_memory, by rank
    phase,         \* the step get_kv_cache_configs has reached
    groups,        \* global_kv_cache_groups
    maxLen,        \* model_config.max_model_len
    configs,       \* KVCacheConfig by rank: [blocks, tensors]
    sizes          \* <<scheduler_block_size, hash_block_size>>

planVars == <<platform, model, conf, memory, phase, groups, maxLen, configs, sizes>>

Ranks == DOMAIN model
RankNames == [r \in Ranks |-> {l.name : l \in ToSet(model[r])}]
\* The ranks' layers are distinct here: a pipeline without tensor parallelism.
Layers == FlattenSeq(model)

-----------------------------------------------------------------------------
\* _project_kv_cache_groups_to_worker: a uniform group that keeps a layer is
\* narrowed to its layers, one that keeps none is left with the global specs.
Projected(g, r) ==
    LET names == Where(g.names, RankNames[r])
    IN  [g EXCEPT !.names = names,
                  !.of = IF names = <<>> THEN @ ELSE [n \in ToSet(names) |-> @[n]],
                  !.spec = IF names = <<>> \/ ~g.uni THEN @ ELSE g.of[names[1]],
                  !.eagle = @ /\ names # <<>>]
GroupsOf(r) == [g \in DOMAIN groups |-> Projected(groups[g], r)]

GroupBytes(g) == Total([i \in DOMAIN g.names |-> Page(g.of[g.names[i]])])
_get_kv_cache_bytes_per_block(gs) == Max({GroupBytes(gs[g]) : g \in DOMAIN gs})
BytesPerBlock(r) == _get_kv_cache_bytes_per_block(GroupsOf(r))

\* Blocks one request of len tokens takes out of the shared pool.
GroupPages(g, len) ==
    IF g.uni THEN Max({Pages(g.of[n], len) : n \in DOMAIN g.of}) ELSE Pages(g.spec, len)
RequestPages(gs, len) == Total([g \in DOMAIN gs |-> GroupPages(gs[g], len)])
_max_memory_usage_bytes_from_groups(r, len) ==
    BytesPerBlock(r) * RequestPages(GroupsOf(r), len)

\* num_gpu_blocks_override replaces the memory a rank plans with, and the null
\* block is held back from what a request may use.
PlanMemory(r) == IF conf.override = 0 THEN memory[r] ELSE conf.override * BytesPerBlock(r)
\* Mutant: the null block is not held back.
CheckMemory_NoNull(r) == PlanMemory(r)
CheckMemory(r) == PlanMemory(r) - BytesPerBlock(r)
Fits(r, len) == _max_memory_usage_bytes_from_groups(r, len) <= CheckMemory(r)

\* _estimate_max_model_len_from_groups: the interval [left, right] is halved
\* until it is empty; ModelLen rounds are always enough.
Halve(r, search) ==
    LET mid == (search.left + search.right) \div 2 IN
    IF search.left > search.right THEN search
    ELSE IF Fits(r, mid) THEN [search EXCEPT !.result = mid, !.left = mid + 1]
    ELSE [search EXCEPT !.right = mid - 1]
_estimate_max_model_len_from_groups(r) ==
    LET search[i \in 0 .. ModelLen] ==
            IF i = 0 THEN [left |-> 1, right |-> ModelLen, result |-> 1]
            ELSE Halve(r, search[i - 1])
    IN  IF Fits(r, 1) THEN search[ModelLen].result ELSE 0

-----------------------------------------------------------------------------
\* Layouts: in "BLHNC" the layers of a block lie side by side, in "LBHNC" the
\* blocks of a layer do.
Mixed(gs) == Cardinality(UNION {{Page(g.of[n]) : n \in ToSet(g.names)} : g \in ToSet(gs)}) > 1
validate_kv_cache_layout(gs) == conf.layout = "LBHNC" /\ Len(gs) > 1 => ~Mixed(gs)

\* Mutant: the offset is left in logical bytes in the layer-major layout too.
Tensor_LogicalOffset(names, spec, byteOffset, blocks, bytes) ==
    LET outer == conf.layout = "BLHNC" IN
    [names |-> names, page |-> Page(spec), size |-> bytes * blocks,
     layerStride |-> IF outer THEN Page(spec) ELSE Page(spec) * blocks,
     blockStride |-> IF outer THEN bytes ELSE Page(spec), offset |-> byteOffset]

\* A tensor holds the layers names, each a page every blockStride bytes; layers
\* are layerStride bytes apart.
Tensor(names, spec, byteOffset, blocks, bytes) ==
    LET outer == conf.layout = "BLHNC" IN
    [names |-> names, page |-> Page(spec), size |-> bytes * blocks,
     layerStride |-> IF outer THEN Page(spec) ELSE Page(spec) * blocks,
     blockStride |-> IF outer THEN bytes ELSE Page(spec),
     offset |-> IF outer THEN byteOffset ELSE byteOffset * blocks]

\* One tensor for each spec of the group, in the order of its spec dict.
TensorsOf(g, blocks, bytes) ==
    LET specs == Firsts([i \in DOMAIN g.names |-> g.of[g.names[i]]])
        with(s) == Where(g.names, {n \in ToSet(g.names) : g.of[n] = s})
        before(k) == Total([j \in 1..(k - 1) |-> Len(with(specs[j])) * Page(specs[j])])
    IN  [k \in DOMAIN specs |-> Tensor(with(specs[k]), specs[k], before(k), blocks, bytes)]

\* CSA + linear: compressed pages follow the main_kv pages; compressor states
\* alias the compressed pages and mamba states the main_kv pages.  The assertion
\* that both kinds of pages add up to bytes cannot fail: a rank's states take no
\* more than its compressed pages (CsaGeometry), its mamba groups no more than
\* its main_kv pages (MambaFits).
CsaHas(g, cls) == \E n \in ToSet(g.names) : g.of[n].cls = cls
IsCsaPlan(gs) == (\E g \in ToSet(gs) : g.uni /\ CsaHas(g, "full") /\ CsaHas(g, "mla"))
                 /\ (\E g \in ToSet(gs) : g.uni /\ CsaHas(g, "circ"))
CsaTensors(gs, blocks, bytes) ==
    LET pairs == CHOOSE g \in ToSet(gs) : CsaHas(g, "full")
        state == CHOOSE g \in ToSet(gs) : CsaHas(g, "circ")
        with(cls) == Where(pairs.names, {n \in ToSet(pairs.names) : pairs.of[n].cls = cls})
        main  == with("full")
        comp  == with("mla")
        page  == Page(pairs.of[main[1]])
        cpage == Page(pairs.of[comp[1]])
        place(names, of, base, step) ==
            [i \in DOMAIN names |-> Tensor(<<names[i]>>, of[names[i]],
                                           base + (i - 1) * step, blocks, bytes)]
        mamba == Where(gs, {g \in ToSet(gs) : g.names # <<>> /\ ~g.uni})
    IN  place(main, pairs.of, 0, page)
        \o place(comp, pairs.of, Len(main) * page, cpage)
        \o place(state.names, state.of, Len(main) * page, cpage)
        \o FlattenSeq([g \in DOMAIN mamba |-> place(mamba[g].names, mamba[g].of, 0, page)])

get_kv_cache_config_from_groups(r, bytes) ==
    LET gs     == GroupsOf(r)
        blocks == IF conf.override = 0 THEN bytes \div BytesPerBlock(r) ELSE conf.override
    IN  IF gs = <<>> THEN [blocks |-> 1, tensors |-> <<>>]
        ELSE [blocks |-> blocks,
              tensors |-> IF IsCsaPlan(gs) THEN CsaTensors(gs, blocks, BytesPerBlock(r))
                          ELSE FlattenSeq([g \in DOMAIN gs |->
                                  TensorsOf(gs[g], blocks, BytesPerBlock(r))])]

-----------------------------------------------------------------------------
PlanInit ==
    /\ \/ platform = <<>> /\ model \in Models /\ phase = "group"
       \/ \E case \in Platforms :
             platform = case.platform /\ model = case.ranks /\ phase = "align"
    /\ conf \in Settings
    /\ memory \in [DOMAIN model -> Memories]
    /\ groups = <<>>
    /\ maxLen = ModelLen
    /\ configs = <<>>
    /\ sizes = <<>>

Goto(p) == phase' = p
Raise == Goto("raised") /\ UNCHANGED <<model, groups, maxLen, configs, sizes>>

\* The platform settles the sizes, every layer states its spec.
CacheConfig == update_block_size_for_backend(platform)
Align ==
    /\ phase = "align"
    /\ \/ Misordered(platform) /\ Raise
       \/ /\ ~Misordered(platform)
          /\ model' = [r \in Ranks |-> [i \in DOMAIN model[r] |->
                 [name |-> model[r][i].name, idx |-> model[r][i].idx,
                  spec |-> LayerSpec(model[r][i].kind, platform, CacheConfig, ModelLen)]]]
          /\ Goto("group") /\ UNCHANGED <<groups, maxLen, configs, sizes>>

\* Merge the ranks' specs and split the whole model into groups.  A rank whose
\* layers are missing from the groups fails the assertion of the last loop.
Group ==
    /\ phase = "group"
    /\ LET got == get_kv_cache_groups(Layers, conf, RankNames) IN
       \/ ~got.ok /\ Raise
       \/ /\ got.ok
          /\ groups' = got.groups
          /\ Goto("autofit")
          /\ UNCHANGED <<model, maxLen, configs, sizes>>

\* The assertion of _get_kv_cache_bytes_per_block, first reached here.
NoBytes == groups # <<>> /\ \E r \in Ranks : BytesPerBlock(r) = 0

AutoFit ==
    /\ phase = "autofit"
    /\ LET lens == {ModelLen} \cup {_estimate_max_model_len_from_groups(r) : r \in Ranks} IN
       \/ NoBytes /\ Raise
       \/ /\ ~NoBytes /\ (~conf.auto \/ groups = <<>>)
          /\ Goto("check") /\ UNCHANGED <<model, groups, maxLen, configs, sizes>>
       \/ ~NoBytes /\ conf.auto /\ groups # <<>> /\ Min(lens) = 0 /\ Raise
       \/ /\ ~NoBytes /\ conf.auto /\ groups # <<>> /\ Min(lens) > 0
          /\ maxLen' = Min(lens)
          /\ Goto("check") /\ UNCHANGED <<model, groups, configs, sizes>>

\* _check_enough_kv_cache_memory on every rank.
Enough(r) == groups # <<>> => (CheckMemory(r) > 0 /\ Fits(r, maxLen))
Check ==
    /\ phase = "check"
    /\ \/ (\E r \in Ranks : ~Enough(r)) /\ Raise
       \/ /\ \A r \in Ranks : Enough(r)
          /\ Goto("plan") /\ UNCHANGED <<model, groups, maxLen, configs, sizes>>

\* Every rank plans with its own memory; "Some layers are not assigned to any
\* group." is asserted first.
\* Mutant: the assertion is dropped.
Assigned_Unchecked(r) == TRUE
Assigned(r) == Total([g \in DOMAIN groups |-> Len(GroupsOf(r)[g].names)]) = Len(model[r])
Plan ==
    /\ phase = "plan"
    /\ \/ (\E r \in Ranks : ~Assigned(r) \/ ~validate_kv_cache_layout(GroupsOf(r))) /\ Raise
       \/ /\ \A r \in Ranks : Assigned(r) /\ validate_kv_cache_layout(GroupsOf(r))
          /\ configs' = [r \in Ranks |-> get_kv_cache_config_from_groups(r, PlanMemory(r))]
          /\ Goto("shrink") /\ UNCHANGED <<model, groups, maxLen, sizes>>

\* Every rank that has more blocks than the poorest plans again, with the
\* memory that many blocks take on it.
MinBlocks == Min({configs[r].blocks : r \in Ranks})
Shrink ==
    /\ phase = "shrink"
    /\ configs' = [r \in Ranks |->
           IF configs[r].blocks = MinBlocks THEN configs[r]
           ELSE get_kv_cache_config_from_groups(r, MinBlocks * BytesPerBlock(r))]
    /\ Goto("sizes") /\ UNCHANGED <<model, groups, maxLen, sizes>>

\* resolve_kv_cache_block_sizes.  Mamba states are not split over dcp ranks.
GroupBlock(g) == IF IsMamba(g.spec) THEN g.spec.bs ELSE g.spec.bs * conf.dcp
Hashed == {g \in ToSet(groups) : g.spec.cls # "circ"}
HashesOff == ~conf.caching \/ (~conf.align /\ \E g \in ToSet(groups) : IsMamba(g.spec))
HashSizes == {GroupBlock(g) : g \in IF Hashed = {} THEN ToSet(groups) ELSE Hashed}
HashSize == IF conf.unit = 0 THEN Gcd(HashSizes) ELSE conf.unit
SchedulerSize == Lcm({GroupBlock(g) : g \in ToSet(groups)})
CacheBlock == IF platform = <<>> THEN BlockSize ELSE CacheConfig.bs
ResolveSizes ==
    /\ phase = "sizes"
    /\ \/ /\ Len(groups) <= 1
          /\ sizes' = <<CacheBlock * conf.dcp, CacheBlock * conf.dcp>>
          /\ Goto("ready")
       \/ /\ Len(groups) > 1
          /\ HashesOff
          /\ sizes' = <<SchedulerSize, SchedulerSize>>
          /\ Goto("ready")
       \/ /\ Len(groups) > 1
          /\ ~HashesOff
          /\ \/ /\ \A s \in HashSizes : Divides(HashSize, s)
                /\ sizes' = <<SchedulerSize, HashSize>>
                /\ Goto("ready")
             \/ /\ \E s \in HashSizes : ~Divides(HashSize, s)
                /\ Goto("raised") /\ UNCHANGED sizes
    /\ UNCHANGED <<model, groups, maxLen, configs>>

PlanNext == (Align \/ Group \/ AutoFit \/ Check \/ Plan \/ Shrink \/ ResolveSizes)
        /\ UNCHANGED <<platform, conf, memory>>
PlanSpec == PlanInit /\ [][PlanNext]_planVars

-----------------------------------------------------------------------------
Ready == phase = "ready"
Bytes(t, i, b) == LET first == t.offset + (i - 1) * t.layerStride + (b - 1) * t.blockStride
                  IN  first..(first + t.page - 1)
GroupOf(n) == CHOOSE g \in DOMAIN groups : Contains(groups[g].names, n)

(* The plan that is served gives every layer of every rank to one group and *)
(* to one tensor of its rank: "Some layers are not assigned to any group."  *)
(* only compares two counts, which a layer placed twice would balance.      *)
EveryLayerOnce ==
    Ready => \A r \in Ranks : \A l \in ToSet(model[r]) :
        /\ Cardinality({p \in UNION {{g} \X DOMAIN groups[g].names : g \in DOMAIN groups} :
                             groups[p[1]].names[p[2]] = l.name}) = 1
        /\ Cardinality({t \in DOMAIN configs[r].tensors :
                             Contains(configs[r].tensors[t].names, l.name)}) = 1

(* Two caches share bytes only as aliases of one another: a page of block b *)
(* never meets a page of another block, whichever groups own the two, nor   *)
(* the page of another layer of its own group; every page lies inside the   *)
(* allocation, which fits the rank's memory unless the number of blocks is  *)
(* overridden.  Strides and offsets are computed rank by rank, planned      *)
(* twice on the richer ranks, and packed differently by each kind of model. *)
PagesDisjoint ==
    Ready => \A r \in Ranks :
        LET ts == configs[r].tensors
            places == UNION {{<<t, i>> : i \in DOMAIN ts[t].names} : t \in DOMAIN ts}
            owner == [p \in places |-> GroupOf(ts[p[1]].names[p[2]])]
        IN  /\ \A t \in DOMAIN ts : conf.override = 0 => ts[t].size <= memory[r]
            /\ \A p, q \in places : \A b, c \in 1..configs[r].blocks :
                   /\ Bytes(ts[p[1]], p[2], b) \subseteq 0..(ts[p[1]].size - 1)
                   /\ (b # c \/ (p # q /\ owner[p] = owner[q])) =>
                          Bytes(ts[p[1]], p[2], b) \cap Bytes(ts[q[1]], q[2], c) = {}

(* Whatever was planned on the ranks one by one, the pool the scheduler is  *)
(* given is the same everywhere and holds, besides the null block, a        *)
(* request of max_model_len tokens; an auto-fitted length is the longest    *)
(* one of which this is true.                                               *)
PoolHoldsOneRequest ==
    Ready /\ groups # <<>> =>
        /\ \A r \in Ranks : configs[r].blocks = configs[1].blocks
        /\ RequestPages(groups, maxLen) < configs[1].blocks
        /\ conf.auto /\ maxLen < ModelLen =>
               RequestPages(groups, maxLen + 1) >= configs[1].blocks

(* A platform aligns the block sizes before the layers state their specs,  *)
(* so that grouping them cannot fail later: every page holds what its layer *)
(* keeps in it, every group's pages are of one size, whichever precisions,  *)
(* kinds of state and --block-size come together, and the pool can be laid  *)
(* out either way.  QSA offload, whose main pages no longer hold a state,   *)
(* and a turboquant page that equals the state to the byte are the cases in *)
(* which grouping fails after all.                                          *)
ExactFit == platform.turbo /\ platform.skip # 0 /\ CacheConfig.statePad = 0
Plannable == conf.hma /\ platform.slot = 0 /\ ~ExactFit
GroupedPages == UNION {{Page(g.of[n]) : n \in ToSet(g.names)} : g \in ToSet(groups)}
AlignedPagesUnify ==
    platform # <<>> /\ phase \notin {"align", "raised"} =>
        /\ \A s \in Specs(Layers) : Page(s) >= RealPage(s)
        /\ Plannable /\ phase = "group" => get_kv_cache_groups(Layers, conf, RankNames).ok
        /\ Plannable /\ ~IsCsa(Layers) => Cardinality(GroupedPages) <= 1
=============================================================================
