------------------------------ MODULE MCKvPlan ------------------------------
(* Instances of KvPlan: one small model for each way of grouping layers,    *)
(* and the block sizes settled by small platforms.                          *)
EXTENDS KvPlan

Base == [cls |-> "full", bs |-> 2, tok |-> 2, pad |-> 0, win |-> 0, tps |-> 1,
         rep |-> FALSE, draft |-> FALSE]
Full == Base
Wide == [Base EXCEPT !.tok = 4]
Windowed == [Base EXCEPT !.win = 2]
Draft == [Base EXCEPT !.cls = "mla", !.draft = TRUE]
Swa == [Base EXCEPT !.cls = "swa", !.win = 3]
HugeSwa == [Swa EXCEPT !.tok = 6]
OddSwa == [Swa EXCEPT !.tok = 3]
Mla == [Base EXCEPT !.cls = "mla"]
Compact == [Base EXCEPT !.cls = "mla", !.tps = 2]
SwaMla(p) == [Base EXCEPT !.cls = "swamla", !.win = 3, !.tok = p]
Gdn == [Base EXCEPT !.cls = "mamba", !.tok = 3, !.bs = 4]
Ring == [Base EXCEPT !.cls = "circ", !.tok = 1]
Hidden == [Base EXCEPT !.cls = "hidden", !.tok = 1]

\* The layers of a rank: specs[i] is layer number first + i - 1.
Rank(first, specs) ==
    [i \in DOMAIN specs |-> [name |-> first + i - 1, idx |-> first + i - 1, spec |-> specs[i]]]
Csa(n) == <<[name |-> <<n, "kv">>, idx |-> n, spec |-> Full],
            [name |-> <<n, "mla">>, idx |-> n, spec |-> Compact],
            [name |-> <<n, "ring">>, idx |-> n, spec |-> Ring]>>
Linear(n, rep) == <<[name |-> <<n, "gdn">>, idx |-> n, spec |-> [Gdn EXCEPT !.rep = rep]]>>

SmallModels == {
    <<Rank(1, <<Gdn, Gdn, Full>>), Rank(4, <<Gdn, Gdn, Full, Full>>)>>,
    <<Rank(1, <<Gdn, Full>>), Rank(3, <<Gdn, Gdn>>), Rank(5, <<Full, Gdn>>)>>,
    <<Rank(1, <<Full, Swa, Swa>>), Rank(4, <<Full, Swa, Swa>>)>>,
    <<Rank(1, <<Full, Windowed, Wide>>), Rank(4, <<Wide>>)>>,
    <<Rank(1, <<Full, Windowed>>), Rank(3, <<Full>>)>>,
    <<Rank(1, <<Swa, Swa, Full>>), Rank(4, <<Full, Swa>>)>>,
    <<Rank(1, <<Mla, OddSwa>>), Rank(3, <<Mla>>)>>,
    <<Rank(1, <<OddSwa, Full>>), Rank(3, <<Full, Draft>>)>>,
    <<Rank(1, <<Mla, SwaMla(1), SwaMla(3), SwaMla(1)>>), Rank(5, <<SwaMla(3), SwaMla(1), SwaMla(3)>>)>>,
    <<Rank(1, <<Mla, SwaMla(3), Gdn>>)>>,
    <<Rank(1, <<Full, Hidden, Swa>>), Rank(4, <<Swa, Full>>)>>,
    <<Csa(1) \o Linear(2, FALSE) \o Linear(3, FALSE), Csa(4) \o Csa(5) \o Linear(6, TRUE)>>,
    <<Linear(1, FALSE), Csa(2)>>,
    <<Rank(1, <<Gdn, Full>>), Rank(3, <<HugeSwa>>)>>,
    <<<<>>, <<>>>>}

\* Models whose block sizes a platform settles: plain attention, attention
\* with skipped layers, with one or two kinds of state, and QSA layers.
Layer(n, kind) == [name |-> <<n, kind>>, idx |-> n, kind |-> kind]
Gdn1(n) == Layer(n, <<"state", 1>>)
Ple(n) == Layer(n, <<"state", 2>>)
Qsa(n) == <<Layer(n, "kv"), Layer(n, "mla"), Layer(n, "ring")>>
Backend == [user |-> 0, preferred |-> 2, kernel |-> 2, hybrid |-> TRUE, mla |-> FALSE,
            turbo |-> FALSE, tok |-> 2, skip |-> 0, states |-> <<6, 9>>, mode |-> "align",
            stateBlock |-> 0, chunk |-> 3, slot |-> 0, full |-> 1, pp |-> 1]
Mixture == <<<<Gdn1(1), Ple(1), Layer(2, "full")>>>>
Staged == <<<<Gdn1(1), Layer(2, "full")>>, <<Gdn1(3), Ple(3), Layer(4, "full")>>>>
Skipping == <<<<Gdn1(1), Layer(2, "full"), Layer(3, "skip")>>>>
PlainSkip == <<<<Layer(1, "full"), Layer(2, "skip")>>>>
Serve(platforms, models) == [platform : platforms, ranks : models]
SmallPlatforms ==
    Serve({[Backend EXCEPT !.user = user, !.mode = mode, !.mla = mla] :
              user \in {0, 3, 12}, mode \in {"none", "align", "all"}, mla \in BOOLEAN},
          {Mixture})
    \cup Serve({[Backend EXCEPT !.pp = 2, !.full = 2]}, {Staged})
    \cup Serve({[Backend EXCEPT !.skip = skip, !.turbo = turbo, !.states = <<state>>, !.user = user] :
                   skip \in {1, 2, 3}, turbo \in BOOLEAN, state \in {5, 12, 24}, user \in {0, 4}},
               {Skipping})
    \cup Serve({[Backend EXCEPT !.hybrid = FALSE, !.skip = skip, !.states = <<>>] : skip \in {2, 3}},
               {PlainSkip})
    \cup Serve({[Backend EXCEPT !.slot = slot, !.states = <<state, 9>>] : slot \in {0, 3}, state \in {6, 14}},
               {<<Qsa(2) \o <<Gdn1(1), Ple(1)>>>>})

SmallSettings ==
    {[hma |-> hma, eagle |-> TRUE, v4 |-> TRUE, unit |-> unit, caching |-> caching,
      align |-> TRUE, layout |-> layout, override |-> override, auto |-> auto, dcp |-> dcp] :
        hma \in BOOLEAN, unit \in {0, 4}, caching \in BOOLEAN, auto \in BOOLEAN,
        layout \in {"BLHNC", "LBHNC"}, override \in {0, 4}, dcp \in {1, 2}}
=============================================================================
