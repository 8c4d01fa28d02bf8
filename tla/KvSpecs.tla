------------------------------ MODULE KvSpecs ------------------------------
(* v1/core/kv_cache_utils.py: how the layers of a model are split into KV   *)
(* cache groups (get_kv_cache_groups and everything it calls).              *)
(* A layer is [name, idx, spec]: idx is its transformer layer.  A spec is   *)
(*   [cls, bs, tok, pad, win, tps, rep, draft]                              *)
(* cls is the spec's class, bs its block_size, tok its bytes per token (the *)
(* bytes of the whole state for "mamba" and "circ"), pad page_size_padded   *)
(* (0: None), win the sliding window or chunk (0: none), tps                *)
(* tokens_per_state, rep tp_replicated, draft the marker of rule 1 of       *)
(* _annotate_eagle_groups.  A kv_cache_spec is a sequence of layers, in     *)
(* dict order.  A group is [names, of, uni, spec, eagle]: of gives the      *)
(* per-layer specs, uni says whether its spec is a UniformTypeKVCacheSpecs. *)
(* The spec classes themselves are outside this repository: the section     *)
(* "Spec classes" states what kv_cache_utils.py relies on.                  *)
\* Loops are recursive functions, so that they can be proved about.
EXTENDS Integers, SequencesExt, FiniteSetsExt

CDiv(a, b) == (a + b - 1) \div b
Divides(d, n) == n % d = 0
Gcd(S) == Max({d \in 1..Min(S) : \A n \in S : Divides(d, n)})
LcmOf(a, b) == Min({m \in 1..(a * b) : Divides(a, m) /\ Divides(b, m)})
Lcm(S) == Min({m \in 1..ProductSet(S) : \A n \in S : Divides(n, m)})
Specs(L) == {l.spec : l \in ToSet(L)}
LayerNames(L) == [i \in DOMAIN L |-> L[i].name]
SpecOf(L) == [n \in {l.name : l \in ToSet(L)} |->
                  (CHOOSE l \in ToSet(L) : l.name = n).spec]
WithSpec(L, F(_)) == [i \in DOMAIN L |-> [L[i] EXCEPT !.spec = F(L[i].spec)]]
Total(s) == LET sum[i \in 0 .. Len(s)] == IF i = 0 THEN 0 ELSE sum[i - 1] + s[i] IN sum[Len(s)]

\* Of a sequence, the elements in S, and every value where it first appears.
Where(s, S) ==
    LET kept[i \in 0 .. Len(s)] ==
            IF i = 0 THEN <<>>
            ELSE LET before == kept[i - 1] IN IF s[i] \in S THEN Append(before, s[i]) ELSE before
    IN  kept[Len(s)]
Firsts(s) ==
    LET seen[i \in 0 .. Len(s)] ==
            IF i = 0 THEN <<>>
            ELSE LET before == seen[i - 1]
                 IN  IF Contains(before, s[i]) THEN before ELSE Append(before, s[i])
    IN  seen[Len(s)]
\* The layers whose specs are in S.
Only(L, S) == Where(L, {l \in ToSet(L) : l.spec \in S})
Outcome(groups) == [ok |-> TRUE, groups |-> groups]
Raised == [ok |-> FALSE, groups |-> <<>>]

-----------------------------------------------------------------------------
\* Spec classes.
FullClasses == {"full", "mla"}
SwaClasses == {"swa", "swamla"}
StateClasses == {"mamba", "circ"}
IsFull(s) == s.cls \in FullClasses
IsSwa(s) == s.cls \in SwaClasses
IsHidden(s) == s.cls = "hidden"
IsMamba(s) == s.cls = "mamba"
RealPage(s) == IF s.cls \in StateClasses THEN s.tok ELSE (s.bs * s.tok) \div s.tps
Page(s) == IF s.pad = 0 THEN RealPage(s) ELSE s.pad
Pages(s, len) ==
    CASE IsSwa(s) /\ s.win < len -> CDiv(s.win, s.bs) + 1
      [] s.cls \in StateClasses  -> 1
      [] OTHER                   -> CDiv(len, s.bs)

\* A layer of a model as it is given: no page is empty.
Classes == FullClasses \cup SwaClasses \cup StateClasses \cup {"chunk", "hidden"}
SpecSet == [cls : Classes, bs : Nat \ {0}, tok : Nat, pad : Nat, win : Nat,
            tps : Nat \ {0}, rep : BOOLEAN, draft : BOOLEAN]
Positive(s) == Page(s) > 0 /\ s.tok > 0
IsLayer(l) == DOMAIN l = {"name", "idx", "spec"} /\ l.idx \in Nat /\ l.spec \in SpecSet
IsLayers(L) == L \in Seq(ToSet(L)) /\ \A l \in ToSet(L) : IsLayer(l)

\* merge: identical specs; full attention may differ in one sliding window.
MergeOk(S) == \/ Cardinality(S) <= 1
              \/ /\ \A s \in S : s.cls = "full"
                 /\ Cardinality({[s EXCEPT !.win = 0] : s \in S}) = 1
                 /\ Cardinality({s.win : s \in S} \ {0}) <= 1
Merged(specs) == LET w == {specs[i].win : i \in DOMAIN specs} \ {0}
                 IN  [specs[1] EXCEPT !.win = IF w = {} THEN 0 ELSE Max(w)]

\* UniformTypeKVCacheSpecs.is_uniform_type: the same number of token slots.
UniformType(S) ==
    /\ Cardinality({s.bs : s \in S}) = 1
    /\ \/ \A s \in S : IsFull(s)
       \/ (\A s \in S : IsSwa(s)) /\ Cardinality({s.win : s \in S}) = 1
       \/ \A s \in S : s.cls = "circ"
       \/ (\A s \in S : IsMamba(s)) /\ Cardinality({s.rep : s \in S}) = 1

\* One layer per page size: the tuples of a uniform group.
LayersOfSize(L, p) == Only(L, {s \in Specs(L) : Page(s) = p})
PageSizes(L) == {Page(s) : s \in Specs(L)}
LayerTuples(L) == Max({Len(LayersOfSize(L, p)) : p \in PageSizes(L)})

-----------------------------------------------------------------------------
\* Uniform models.
create_kv_cache_group_specs(L, grouped) ==
    [g \in DOMAIN grouped |->
        LET spec == Merged([i \in DOMAIN grouped[g] |-> SpecOf(L)[grouped[g][i]]])
        IN  [names |-> grouped[g], of |-> [n \in ToSet(grouped[g]) |-> spec],
             uni |-> FALSE, spec |-> spec, eagle |-> FALSE]]

UniformGroup(L) == [names |-> LayerNames(L), of |-> SpecOf(L), uni |-> TRUE,
                    spec |-> L[1].spec, eagle |-> FALSE]

is_kv_cache_spec_uniform(L) == MergeOk(Specs(L))
UniformSpecGroups(L) == create_kv_cache_group_specs(L, <<LayerNames(L)>>)

-----------------------------------------------------------------------------
\* Hybrid: one page size.
\* The largest page wins: smaller pages get a larger block where that divides,
\* mamba and non-MLA attention are padded, anything else cannot be unified.
Unifiable(s, page) ==
    \/ Page(s) = page \/ IsMamba(s) \/ Divides(Page(s), page)
    \/ s.cls \notin {"mla", "circ"}
Unified(s, page) ==
    CASE Page(s) = page \/ IsMamba(s) -> [s EXCEPT !.pad = IF Page(s) = page THEN @ ELSE page]
      [] ~IsMamba(s) /\ Page(s) # page /\ Divides(Page(s), page) ->
             [s EXCEPT !.bs = @ * (page \div Page(s))]
      [] OTHER -> [s EXCEPT !.pad = page]

MaxPage(L) == Max(PageSizes(L))
CanUnify(L) == Cardinality(PageSizes(L)) <= 1 \/ \A s \in Specs(L) : Unifiable(s, MaxPage(L))
\* A padded page does not grow with its block: the assertion behind replace.
UnifyAsserts(L) ==
    \E s \in Specs(L) : /\ ~IsMamba(s) /\ Page(s) # MaxPage(L) /\ s.pad # 0
                        /\ Divides(Page(s), MaxPage(L))
unify_kv_cache_spec_page_size(L) ==
    IF Cardinality(PageSizes(L)) <= 1 THEN L
    ELSE WithSpec(L, LAMBDA s : Unified(s, MaxPage(L)))

\* Layers of one spec join the first bucket whose specs theirs merge with.
SpecOrder(L) == Firsts([i \in DOMAIN L |-> L[i].spec])
Bucketed(L, buckets, spec) ==
    LET names == LayerNames(Only(L, {spec}))
        fits  == {b \in DOMAIN buckets : MergeOk(buckets[b].specs \cup {spec})}
    IN  IF fits = {} THEN Append(buckets, [specs |-> {spec}, names |-> names])
        ELSE [buckets EXCEPT ![Min(fits)].specs = @ \cup {spec},
                             ![Min(fits)].names = @ \o names]
LayerBuckets(L) ==
    LET specs == SpecOrder(L)
        buckets[i \in 0 .. Len(specs)] ==
            IF i = 0 THEN <<>> ELSE Bucketed(L, buckets[i - 1], specs[i])
        last == buckets[Len(specs)]
    IN  [b \in DOMAIN last |-> last[b].names]

GroupSize(buckets) ==
    LET sizes == {Len(buckets[b]) : b \in DOMAIN buckets}
    IN  IF 2 * Max(sizes) < 3 * Min(sizes) THEN Max(sizes) ELSE Min(sizes)

\* names[i::n], as Python slices: the stride keeps pipeline stages balanced.
Strided(names, i, n) ==
    [k \in 1..CDiv(Len(names) - i + 1, n) |-> names[i + (k - 1) * n]]
Striped(names, n) == [i \in 1..n |-> Strided(names, i, n)]

UniformPageSizeGroups(L) ==
    LET buckets == LayerBuckets(L)
        size    == GroupSize(buckets)
    IN  create_kv_cache_group_specs(L,
            FlattenSeq([b \in DOMAIN buckets |->
                Striped(buckets[b], CDiv(Len(buckets[b]), size))]))

-----------------------------------------------------------------------------
\* Local attention as full attention.
Promotable(L) == /\ \E s \in Specs(L) : IsFull(s)
                 /\ \E s \in Specs(L) : IsSwa(s) \/ s.cls = "chunk"
FullBlockSizes(L) == {s.bs : s \in {t \in Specs(L) : IsFull(t)}}
Promoted(L, s) ==
    LET bs == IF Cardinality(FullBlockSizes(L)) = 1 THEN Max(FullBlockSizes(L)) ELSE s.bs
    IN  IF ~(IsSwa(s) \/ s.cls = "chunk") THEN s
        ELSE [s EXCEPT !.cls = IF s.cls = "swamla" THEN "mla" ELSE "full",
                       !.bs = bs,
                       !.pad = IF @ = 0 THEN 0
                               ELSE Max({@, (RealPage(s) * bs) \div s.bs})]
OneType(L) == is_kv_cache_spec_uniform(L) \/ UniformType(Specs(L))
PromotedLayers(L) ==
    IF OneType(L) \/ ~Promotable(L) THEN L ELSE WithSpec(L, LAMBDA s : Promoted(L, s))
\* _promote_local_kv_cache_specs raises when this is FALSE.
CanPromote(L) == OneType(PromotedLayers(L))

FallbackGroups(L) ==
    IF /\ \A s \in Specs(L) : s.cls \notin {"hidden", "swamla", "chunk"}
       /\ \E s \in Specs(L) : s.cls = "mla"
       /\ \E s \in Specs(L) : s.cls = "swa"
       /\ CanPromote(L) /\ UniformType(Specs(PromotedLayers(L)))
    THEN Outcome(<<UniformGroup(PromotedLayers(L))>>)
    ELSE Raised

-----------------------------------------------------------------------------
\* MLA and windowed MLA.
\* group_and_unify_kv_cache_specs: the MLA layers, then one list of windowed
\* layers for each (block size, window), in order of first appearance.
IsPackedMla(L) == /\ \E s \in Specs(L) : s.cls = "swamla"
                  /\ Cardinality(PageSizes(L)) > 1
OfClass(L, cls) == Only(L, {s \in Specs(L) : s.cls = cls})
MlaLayers(L) == OfClass(L, "mla")
SwaKeys(L) == LET swa == OfClass(L, "swamla")
              IN  Firsts([i \in DOMAIN swa |-> <<swa[i].spec.bs, swa[i].spec.win>>])
SwaLists(L) == [k \in DOMAIN SwaKeys(L) |->
    Only(L, {s \in Specs(L) : s.cls = "swamla" /\ <<s.bs, s.win>> = SwaKeys(L)[k]})]

\* _approximate_gcd: the chunk size that pads least; ties prefer the larger.
Padding(values, d) == Total([i \in DOMAIN values |-> (d - (values[i] % d)) % d])
_approximate_gcd(values, low) ==
    IF low > Max(ToSet(values)) THEN low
    ELSE LET range == low..Max(ToSet(values))
             least == Min({Padding(values, d) : d \in range})
         IN  Max({d \in range : Padding(values, d) = least})

TupleRow(L, sizes, k) == [p \in DOMAIN sizes |-> LayerNames(LayersOfSize(L, sizes[p]))[k]]
SizeOrder(L) == Firsts([i \in DOMAIN L |-> Page(L[i].spec)])
PackedGroup(L, names) == [UniformGroup(Where(L, {l \in ToSet(L) : Contains(names, l.name)}))
                              EXCEPT !.names = names]
SplitTuples(L, tuples) ==
    LET rows == [k \in 1..LayerTuples(L) |-> TupleRow(L, SizeOrder(L), k)]
    IN  [i \in 1..CDiv(Len(rows), tuples) |->
            PackedGroup(L, FlattenSeq(Strided(rows, i, CDiv(Len(rows), tuples))))]

\* The assertions of group_and_unify_kv_cache_specs and of the split.
PackedOk(L) ==
    /\ MlaLayers(L) # <<>> /\ UniformType(Specs(MlaLayers(L)))
    /\ \A k \in DOMAIN SwaLists(L) : \A p, q \in PageSizes(SwaLists(L)[k]) :
           Len(LayersOfSize(SwaLists(L)[k], p)) = Len(LayersOfSize(SwaLists(L)[k], q))

UniformGroups(L) ==
    LET swa    == SwaLists(L)
        counts == <<LayerTuples(MlaLayers(L))>> \o [k \in DOMAIN swa |-> LayerTuples(swa[k])]
        tuples == _approximate_gcd(counts, counts[1])
    IN  <<UniformGroup(MlaLayers(L))>>
        \o FlattenSeq([k \in DOMAIN swa |-> SplitTuples(swa[k], tuples)])

-----------------------------------------------------------------------------
\* CSA + linear models.
IsCsa(L) == \E s \in Specs(L) : s.cls = "circ"
MainKv(L) == OfClass(L, "full")
Compressed(L) == Only(L, {s \in Specs(L) : s.cls = "mla" /\ s.tps > 1})
CompressorState(L) == OfClass(L, "circ")
MambaLayers(L, rep) == Only(L, {s \in Specs(L) : IsMamba(s) /\ s.rep = rep})
AllMamba(L) == MambaLayers(L, FALSE) \o MambaLayers(L, TRUE)
Indices(L) == {l.idx : l \in ToSet(L)}
\* Sorted; the roles below have one layer per index.
ByIndex(L) == [k \in DOMAIN L |->
    CHOOSE l \in ToSet(L) : Cardinality({i \in Indices(L) : i < l.idx}) = k - 1]

\* _classify_csa_linear_specs and _get_csa_linear_cache_tuples do not raise.
CsaRoles(L) ==
    /\ Len(MainKv(L)) > 0 /\ Len(Compressed(L)) > 0 /\ Len(AllMamba(L)) > 0
    /\ Len(MainKv(L)) + Len(Compressed(L)) + Len(CompressorState(L))
           + Len(AllMamba(L)) = Len(L)
    /\ \A R \in {MainKv(L), Compressed(L), CompressorState(L)} :
           Cardinality(Indices(R)) = Len(R) /\ Indices(R) = Indices(MainKv(L))

\* unit is 0 when no prefix is matched, or by no unit of its own.
CsaGeometry(L, unit) ==
    LET main == ByIndex(MainKv(L)) comp == ByIndex(Compressed(L)) IN
    /\ \A i \in DOMAIN main :
           /\ main[i].spec.bs = comp[i].spec.bs
           /\ RealPage(ByIndex(CompressorState(L))[i].spec) <= Page(comp[i].spec)
    /\ \A l \in ToSet(L) : IsMamba(l.spec) \/ l.spec.pad = 0
    /\ Cardinality({<<comp[i].spec.tps, main[i].spec.bs, Page(main[i].spec),
                      Page(comp[i].spec)>> : i \in DOMAIN main}) = 1
    /\ unit # 0 => Divides(comp[1].spec.tps, unit)

\* _get_csa_linear_mamba_group_count: on no pipeline rank may a group hold more
\* mamba layers than the rank has main_kv pages.  0: the rank has none.
RankCount(L, ranks, r) == Len(Where(L, {l \in ToSet(L) : l.name \in ranks[r]}))
MambaGroupCount(mamba, main, ranks) ==
    LET needy == {r \in DOMAIN ranks : RankCount(mamba, ranks, r) > 0}
    IN  IF Len(ranks) = 1 THEN CDiv(Len(mamba), Len(main))
        ELSE IF \E r \in needy : RankCount(main, ranks, r) = 0 THEN 0
        ELSE Max({CDiv(Len(mamba), Len(main))}
                 \cup {CDiv(RankCount(mamba, ranks, r), RankCount(main, ranks, r)) : r \in needy})

MambaFits(L, rep, ranks) ==
    LET mamba == MambaLayers(L, rep) IN
    Len(mamba) > 0 =>
        /\ Cardinality(Specs(mamba)) = 1
        /\ RealPage(mamba[1].spec) <= Page(MainKv(L)[1].spec)
        /\ MambaGroupCount(mamba, MainKv(L), ranks) > 0

MambaGroups(L, rep, ranks) ==
    LET mamba == MambaLayers(L, rep)
        padded == WithSpec(mamba, LAMBDA s : [s EXCEPT !.pad = Page(MainKv(L)[1].spec)])
    IN  IF mamba = <<>> THEN <<>>
        ELSE create_kv_cache_group_specs(padded,
                Striped(LayerNames(mamba), MambaGroupCount(mamba, MainKv(L), ranks)))

CsaGroups(L, unit, ranks) ==
    LET page == Page(ByIndex(Compressed(L))[1].spec)
        pairs == FlattenSeq([i \in DOMAIN MainKv(L) |->
                     <<ByIndex(MainKv(L))[i], ByIndex(Compressed(L))[i]>>])
        states == WithSpec(ByIndex(CompressorState(L)), LAMBDA s : [s EXCEPT !.pad = page])
    IN  IF /\ CsaRoles(L) /\ CsaGeometry(L, unit)
           /\ \A rep \in BOOLEAN : MambaFits(L, rep, ranks)
           /\ UniformType(Specs(pairs)) /\ UniformType(Specs(states))
        THEN Outcome(<<UniformGroup(pairs), UniformGroup(states)>>
                     \o MambaGroups(L, FALSE, ranks) \o MambaGroups(L, TRUE, ranks))
        ELSE Raised

-----------------------------------------------------------------------------
\* Hidden states, drafter, dispatch.
_largest_divisor_at_most(value, limit) ==
    Max({1} \cup {d \in 1..Min({value, limit}) : Divides(d, value)})

HiddenGroup(groups, layer) ==
    LET page == Page(groups[1].spec)
        fits == Max({page \div layer.spec.tok, 1})
        bs   == _largest_divisor_at_most(Gcd({groups[g].spec.bs : g \in DOMAIN groups}), fits)
    IN  create_kv_cache_group_specs(
            <<[layer EXCEPT !.spec.bs = bs, !.spec.pad = page]>>, <<<<layer.name>>>>)
WithHidden(groups, hidden) ==
    groups \o FlattenSeq([i \in DOMAIN hidden |-> HiddenGroup(groups, hidden[i])])

\* Rule 1 reads the merged spec of a group, rule 2 finds the last layer's group.
HasDraft(g) == ~g.uni /\ g.spec.draft
_annotate_eagle_groups(groups, eagle) ==
    [g \in DOMAIN groups |-> [groups[g] EXCEPT !.eagle = eagle /\ HasDraft(groups[g])]]
AnnotateLast(groups, L, eagle) ==
    [g \in DOMAIN groups |-> [groups[g] EXCEPT
        !.eagle = @ \/ (eagle /\ Contains(groups[g].names, Last(L).name))]]

HybridGroups(L, eagle) ==
    LET hidden == OfClass(L, "hidden")
        rest   == Only(L, {s \in Specs(L) : ~IsHidden(s)})
    IN  IF ~CanUnify(rest) THEN FallbackGroups(L)
        ELSE IF UnifyAsserts(rest) THEN Raised
        ELSE Outcome(_annotate_eagle_groups(
                WithHidden(UniformPageSizeGroups(unify_kv_cache_spec_page_size(rest)), hidden),
                eagle))

\* conf: [hma, eagle, v4, unit, caching]; ranks: the layer names of each pipeline rank.
get_kv_cache_groups(layers, conf, ranks) ==
    LET L == IF conf.hma THEN layers ELSE PromotedLayers(layers) IN
    IF ~conf.hma /\ ~CanPromote(layers) THEN Raised
    ELSE IF L = <<>> THEN Outcome(<<>>)
    ELSE IF is_kv_cache_spec_uniform(L) THEN Outcome(UniformSpecGroups(L))
    ELSE IF UniformType(Specs(L)) THEN Outcome(<<UniformGroup(L)>>)
    ELSE IF IsPackedMla(L) THEN
        IF PackedOk(L) THEN Outcome(AnnotateLast(
            _annotate_eagle_groups(UniformGroups(L), conf.eagle), L, conf.eagle /\ conf.v4))
        ELSE Raised
    ELSE IF IsCsa(L) THEN CsaGroups(L, IF conf.caching THEN conf.unit ELSE 0, ranks)
    ELSE HybridGroups(L, conf.eagle)
=============================================================================
