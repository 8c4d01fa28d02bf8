----------------------------- MODULE MCWorkerBoot -----------------------------
(* Instances of WorkerBoot.  Memory is counted in units of which the device  *)
(* has 60.  One manager meets every case of memory; every manager meets one. *)
EXTENDS WorkerBoot

\* A manager of three requests that decode two tokens each (one draft token).
Manager(mode) ==
    [mode |-> mode, sizes |-> {1, 2, 4, 7}, maxSize |-> 7, maxReqs |-> 3, queryLen |-> 2,
     queryLens |-> {2}, varlen |-> FALSE, loras |-> {0}]

Spec2(kind, bs, spec) == [kind |-> kind, bs |-> bs, spec |-> spec]
WarmUp ==
    [q |-> 2, spec |-> 1, seqs |-> 3, batched |-> 9, blocks |-> 0,
     groups |-> <<Spec2("attention", 2, 0), Spec2("align", 4, 1)>>, ahead |-> 1,
     maxLen |-> 16, encLen |-> 0, pooling |-> FALSE]

Base ==
    [runner |-> "v2", again |-> FALSE, buffer |-> 1, device |-> 60, others |-> 6, requested |-> 50, torch |-> 8, rest |-> 2, peak |-> 3,
     piece |-> 1, first |-> 3, more |-> 2, drafter |-> 2, applied |-> TRUE, manual |-> 0,
     page |-> 1, drift |-> {6}, mgr |-> Manager("FULL_AND_PIECEWISE"), active |-> {0},
     warmup |-> WarmUp,
     compile |-> [on |-> TRUE, sizes |-> {3}, ranges |-> {<<1, 4>>, <<5, 8>>, <<9, 12>>}]]

\* Others hold 0 to 18 units, the graphs count or not, the size is set by hand
\* or not, the later graphs are free, there is a drafter or none, and the trial run
\* needs less or more than the weights.
MemoryCases ==
    {[Base EXCEPT !.others = o, !.drift = {0, 3, 9, 18}, !.applied = a, !.more = m,
                  !.manual = h, !.requested = r, !.drafter = d, !.peak = p] :
        o \in {6, 18}, a \in BOOLEAN, m \in {0, 2}, h \in {0, 25}, r \in {42, 50},
        d \in {0, 2}, p \in {3, 16}}

\* The host is started again; V1 has no managers and its drafter no graphs.
RestartCases ==
    {[Base EXCEPT !.runner = v, !.again = TRUE, !.compile.sizes = {}, !.drift = {0, 3, 18}, !.applied = a,
                  !.requested = r, !.drafter = IF v = "v1" THEN 0 ELSE 2, !.more = m] :
        v \in {"v1", "v2"}, a \in BOOLEAN, r \in {42, 50}, m \in {0, 2}}

ManagerCases ==
    {b \in {[Base EXCEPT !.runner = v, !.mgr = m, !.compile.sizes = c, !.drafter = IF v = "v1" THEN 0 ELSE 2,
                         !.active = IF m.loras = {0} THEN {0} ELSE {0, 1, 2, 3}] :
              v \in {"v1", "v2"}, c \in {{}, {3}},
              m \in {[Manager(mode) EXCEPT !.sizes = s, !.maxSize = Max(s),
                                                !.varlen = len, !.loras = l] :
                       mode \in {"NONE", "PIECEWISE", "FULL", "FULL_DECODE_ONLY",
                                 "FULL_AND_PIECEWISE"},
                       s \in {{1, 2, 4, 7}, {3, 5}, {7}}, len \in BOOLEAN,
                       l \in {{0}, {0, 1, 3}}}} :
        b.runner = "v1" => ~b.mgr.varlen /\ b.mgr.loras = {0}}

\* V1 without drafts: one token per request, as small batches of any kind look.
PlainCases ==
    {[Base EXCEPT !.runner = "v1", !.drafter = 0, !.compile.sizes = {},
                  !.mgr = [Manager(mode) EXCEPT !.queryLen = 1, !.queryLens = {1}]] :
        mode \in {"PIECEWISE", "FULL", "FULL_DECODE_ONLY", "FULL_AND_PIECEWISE"}}

\* Dynamic speculation: one or two tokens per decode, sizes that interleave.
DynamicCases ==
    {[Base EXCEPT !.mgr = [Manager("FULL_AND_PIECEWISE") EXCEPT
                             !.queryLen = 3, !.queryLens = q, !.sizes = s, !.maxSize = Max(s)]] :
        q \in {{1, 3}, {1, 2, 3}}, s \in {{1, 2, 4, 7}, {3, 5}}}

\* Warm-ups: few or many blocks, groups of every kind, with and without drafts.
WarmUpCases ==
    {[Base EXCEPT !.page = p,
        !.warmup = [WarmUp EXCEPT !.q = k + 1, !.spec = k, !.ahead = k, !.groups = g,
                                  !.batched = b, !.pooling = pool_, !.encLen = 4]] :
        p \in 1..4, k \in 0..2, b \in {4, 9}, pool_ \in BOOLEAN,
        g \in {<<Spec2("attention", 2, 0)>>,
               <<Spec2("attention", 2, 0), Spec2("align", 4, 1)>>,
               <<Spec2("attention", 4, 0), Spec2("circular", 1, 0), Spec2("cross", 2, 0)>>,
               <<Spec2("mamba", 16, 2), Spec2("attention", 2, 0)>>}}

AllSetups ==
    MemoryCases \cup RestartCases \cup ManagerCases \cup PlainCases \cup DynamicCases \cup WarmUpCases
MCSetups == {b \in AllSetups : b.runner = "v1" => NoGap(b)}
=============================================================================
