----------------------------- MODULE AsyncBatch -----------------------------
(* v1/worker/gpu_model_runner.py under asynchronous scheduling: the batch   *)
(* the runner keeps from step to step.  Step n+1 is scheduled and prepared  *)
(* before anyone on the CPU knows what step n sampled: the scheduler counts *)
(* every draft as accepted, the runner works with placeholders, and the     *)
(* forward has to correct positions and input tokens on the GPU from what   *)
(* step n left there, found through the row each request then had.          *)
(* The scheduler and the InputBatch are outside this repository; they are   *)
(* modelled from what _update_states reads of the one and asks of the other.*)
EXTENDS Integers, FiniteSets, SequencesExt, Functions

CONSTANTS
    Req,        \* request ids
    Prompt,     \* prompt length
    Drafts,     \* the values of num_speculative_tokens: 0 is a pipeline of two
                \* stages without a drafter, the others one stage with one
    MaxOut,     \* bound: tokens a request may have scheduled beyond its prompt
    MaxBreaks   \* bound: times a request is left out, preempted, ended or reused
ASSUME BatchAssumption ==
    /\ Prompt \in Nat \ {0} /\ Drafts \subseteq Nat /\ MaxOut \in Nat /\ MaxBreaks \in Nat
    /\ IsFiniteSet(Req) /\ <<>> \notin Req

VARIABLES
    num_spec,   \* num_speculative_tokens of this deployment
    breaks,     \* breaks so far
    sched,      \* the scheduler's requests
    out,        \* the SchedulerOutput being executed
    flight,     \* what steps have sampled and the scheduler has not seen
    truth,      \* tokens really computed, and known to the GPU, by request
    runner,     \* the runner of each pipeline stage
    phase       \* "schedule", "execute" or "sample"
vars == <<num_spec, breaks, sched, out, flight, truth, runner, phase>>

-----------------------------------------------------------------------------
\* Tokens: a real one is named by its request and position, a draft also by the
\* length of the request it was proposed for.
Real(r, gen, pos) == <<r, gen, pos>>
Draft(r, gen, pos, basis) == <<r, gen, pos, basis>>
Hole == <<>>

NoReq == [st |-> "none", gen |-> 0, comp |-> 0, outs |-> 0, holders |-> 0, last |-> FALSE]
NoOut == [finished |-> {}, fresh |-> {}, resumed |-> {}, k |-> <<>>, d |-> <<>>,
          comp |-> <<>>, nout |-> <<>>, gen |-> <<>>]
EmptyRunner == [reqs |-> <<>>, rows |-> <<>>, prevIdx |-> <<>>, prevTok |-> <<>>,
                counts |-> <<>>, drafts |-> <<>>, prevDrafts |-> <<>>,
                gComp |-> <<>>, gAcc |-> <<>>, mask |-> <<>>, input |-> <<>>]

Init ==
    /\ num_spec \in Drafts
    /\ breaks = 0
    /\ sched = [r \in Req |-> NoReq]
    /\ out = NoOut
    /\ flight = <<>>
    /\ truth = [r \in Req |-> [comp |-> 0, len |-> Prompt, acc |-> 1]]
    /\ runner = [s \in IF num_spec = 0 THEN {"first", "last"} ELSE {"last"} |-> EmptyRunner]
    /\ phase = "schedule"

-----------------------------------------------------------------------------
(* What a step returns: the rows of the batch as they were (the copies of       *)
(* req_id_to_index), the tensor of sampled tokens, which is copied to the CPU   *)
(* behind the step, and the rows not to be reported.  `asked` is what the       *)
(* scheduler remembers of the step.                                             *)
EMPTY_MODEL_RUNNER_OUTPUT == [index |-> <<>>, tokens |-> <<>>, invalid |-> {}, asked |-> <<>>]

\* AsyncGPUModelRunnerOutput.get_output, called once the copy has ended, when later
\* steps may have changed the batch.
get_output(o) == [i \in DOMAIN o.tokens |-> IF i \in o.invalid THEN <<>> ELSE o.tokens[i]]
Reports(o, r) == r \in DOMAIN o.index /\ get_output(o)[o.index[r]] # <<>>

-----------------------------------------------------------------------------
\* The scheduler.  A request is given k tokens, the last d of them drafts.
Choice(act, k, d) == [act |-> act, k |-> k, d |-> d]
InFlight(r) == \E i \in DOMAIN flight : Reports(flight[i], r)
Chunks(n, last) == {Choice("run", k, 0) : k \in 1..n} \cup {Choice("run", n + d, d) : d \in 1..last}
Start(r) == IF breaks < MaxBreaks \/ sched[r].gen = 0 THEN {Choice("new", k, 0) : k \in 1..Prompt} ELSE {}

OptionsOf(r) ==
    LET q == sched[r]
        known == Prompt + q.outs + q.holders
    IN  CASE q.st = "none" -> {Choice("skip", 0, 0)} \cup Start(r)
          [] q.st = "preempted" ->
                 {Choice("skip", 0, 0), Choice("finish", 0, 0)}
                 \cup (IF InFlight(r) THEN {} ELSE {Choice("resume", k, 0) : k \in 1..known})
          [] q.st = "running" ->
                 {Choice("skip", 0, 0), Choice("finish", 0, 0), Choice("preempt", 0, 0)}
                 \cup Start(r)
                 \cup {c \in Chunks(known - q.comp, IF q.last THEN num_spec ELSE 0) :
                           q.outs + q.holders + c.d < MaxOut}

Scheduled(c) == {r \in Req : c[r].act \in {"new", "run", "resume"}}
Reaches(r, c) == \* the step samples: all known tokens are scheduled
    IF c.act = "new" THEN c.k = Prompt
    ELSE IF c.act = "resume" THEN c.k = Prompt + sched[r].outs
    ELSE sched[r].comp + c.k - c.d = Prompt + sched[r].outs + sched[r].holders

Broken(r, c) == sched[r].gen > 0 /\ \/ c.act \in {"new", "preempt", "finish"}
                                    \/ c.act = "skip" /\ sched[r].st = "running"

AfterSchedule(r, c) ==
    LET q == sched[r]
        base == CASE c.act = "new" -> [NoReq EXCEPT !.gen = q.gen + 1]
                  [] c.act \in {"resume", "preempt"} -> [q EXCEPT !.comp = 0]
                  [] c.act = "finish" -> [NoReq EXCEPT !.gen = q.gen]
                  [] OTHER -> q
    IN  IF c.act \in {"new", "run", "resume"}
        THEN [base EXCEPT !.st = "running", !.comp = @ + c.k, !.last = Reaches(r, c),
                          !.holders = @ + IF Reaches(r, c) THEN 1 + c.d ELSE 0]
        ELSE [base EXCEPT !.last = FALSE,
                          !.st = IF c.act = "preempt" THEN "preempted" ELSE @]

\* A step is scheduled while the one before it is unreported: the runner takes
\* the scheduler's counts for optimistic ("all drafts accepted", 2214-2217).
Schedule ==
    /\ phase = "schedule" /\ Len(flight) <= 1
    /\ \E c \in [Req -> UNION {OptionsOf(r) : r \in Req}] :
           /\ \A r \in Req : c[r] \in OptionsOf(r)
           /\ \E r \in Req : c[r].act # "skip" \/ sched[r].st = "running"
           /\ breaks' = breaks + Cardinality({r \in Req : Broken(r, c[r])})
           /\ breaks' <= MaxBreaks
           /\ sched' = [r \in Req |-> AfterSchedule(r, c[r])]
           /\ out' = [finished |-> {r \in Req : /\ c[r].act \in {"finish", "new"}
                                                /\ sched[r].st # "none"},
                      fresh |-> {r \in Req : c[r].act = "new"},
                      resumed |-> {r \in Req : c[r].act = "resume"},
                      k |-> [r \in Scheduled(c) |-> c[r].k],
                      d |-> [r \in Scheduled(c) |-> c[r].d],
                      comp |-> [r \in Scheduled(c) |-> IF c[r].act = "run" THEN sched[r].comp ELSE 0],
                      nout |-> [r \in Scheduled(c) |-> IF c[r].act = "new" THEN 0
                                                       ELSE sched[r].outs + sched[r].holders],
                      gen |-> [r \in Scheduled(c) |-> sched'[r].gen]]
           /\ truth' = [r \in Req |-> CASE c[r].act = "new" -> [comp |-> 0, len |-> Prompt, acc |-> 1]
                                        [] c[r].act = "preempt" -> [truth[r] EXCEPT !.comp = 0, !.acc = 1]
                                        [] OTHER -> truth[r]]
    /\ phase' = "execute"
    /\ UNCHANGED <<num_spec, flight, runner>>

\* The scheduler learns what a step sampled one step late, or once nothing is
\* running; rejected drafts are given back.
Reported(q, new, rejected) ==
    [q EXCEPT !.outs = @ + new, !.holders = @ - new - rejected,
              !.comp = IF @ > 0 THEN @ - rejected ELSE 0]
Report ==
    /\ phase = "schedule" /\ flight # <<>>
    /\ Len(flight) = 2 \/ runner["last"].rows = <<>>
    /\ LET res == Head(flight)
           new(r) == Len(get_output(res)[res.index[r]])
       IN  sched' = [r \in Req |->
           IF Reports(res, r) /\ res.asked[r].gen = sched[r].gen /\ sched[r].st # "none"
           THEN Reported(sched[r], new(r), (res.asked[r].d + 1) - new(r)) ELSE sched[r]]
    /\ flight' = Tail(flight)
    /\ UNCHANGED <<num_spec, breaks, out, truth, runner, phase>>

-----------------------------------------------------------------------------
\* The persistent batch.  A row is [req, comp, known]: num_computed_tokens_cpu,
\* and how many leading tokens token_ids_cpu holds (the rest are placeholders).
RowOf(rows, r) == {i \in DOMAIN rows : rows[i].req = r}
EmptyRow == [req |-> Hole, comp |-> 0, known |-> 0]

\* InputBatch.remove_request: the row is empty until condense, and the request
\* has no row in the previous step either.  Mutant: it keeps that one.
RemoveRequests_KeepPrev(b, gone) ==
    [b EXCEPT !.rows = [i \in DOMAIN @ |-> IF @[i].req \in gone THEN EmptyRow ELSE @[i]]]
RemoveRequests(b, gone) ==
    [b EXCEPT !.rows = [i \in DOMAIN @ |-> IF @[i].req \in gone THEN EmptyRow ELSE @[i]],
              !.prevIdx = Restrict(@, DOMAIN @ \ gone)]

\* add_request fills the smallest empty row first, condense moves rows from the end
\* into the gaps, and the attention backend may reorder what comes of it: the rows
\* are the requests of the step in any order, the same on every stage.
Orders == {o \in [1 .. Cardinality(DOMAIN out.k) -> DOMAIN out.k] :
              IsInjective(o) /\ DOMAIN out.k \subseteq Range(o)}

-----------------------------------------------------------------------------
\* _update_states: finished and unscheduled requests leave the batch.
Removed(b) ==
    LET kept == DOMAIN out.k \ (out.resumed \cup out.fresh)
        rowReqs == {b.rows[i].req : i \in DOMAIN b.rows}
    IN  RemoveRequests([b EXCEPT !.reqs = Restrict(@, DOMAIN @ \ out.finished)],
                       out.finished \cup (rowReqs \ kept))

Cached == DOMAIN out.k \ out.fresh
\* Requests with drafts in their previous step, still in the batch: the drafts
\* are taken for accepted until the forward has been launched.
Optimistic(b) == {r \in Cached : b.reqs[r].prevDraft > 0 /\ RowOf(b.rows, r) # {}}

\* Mutant: the cached output is not aligned with the scheduler's count.
CachedRequest_NoAlign(s, b, r) ==
    LET q == b.reqs[r]
        outs == q.outs + IF r \in Optimistic(b) THEN q.prevDraft ELSE 0
    IN  [q EXCEPT !.comp = out.comp[r], !.prevDraft = out.d[r],
                  !.outs = IF RowOf(b.rows, r) = {} /\ out.nout[r] > 0 THEN out.nout[r] ELSE outs]
CachedRequest(s, b, r) ==
    LET q == b.reqs[r]
        outs == q.outs + IF r \in Optimistic(b) THEN q.prevDraft ELSE 0
        kept == IF s = "last" /\ out.nout[r] < outs THEN out.nout[r] ELSE outs
    IN  [q EXCEPT !.comp = out.comp[r], !.prevDraft = out.d[r],
                  !.outs = IF RowOf(b.rows, r) = {} /\ out.nout[r] > 0 THEN out.nout[r] ELSE kept]

NewRequest(r) == [gen |-> out.gen[r], comp |-> 0, outs |-> 0, prevDraft |-> 0]
NewRow(r, reqs) == [req |-> r, comp |-> out.comp[r], known |-> Prompt + reqs[r].outs]

\* prev_num_draft_len, by the row the request had.
PrevDrafts(b) == [i \in DOMAIN b.counts |->
    LET at == {r \in Optimistic(b) \cap DOMAIN b.prevIdx : b.prevIdx[r] = i}
    IN  IF at = {} THEN 0 ELSE b.reqs[CHOOSE r \in at : TRUE].prevDraft]

_update_states(s, old, order) ==
    LET b == Removed(old)
        reqs == [r \in DOMAIN b.reqs \cup out.fresh |->
                    IF r \in out.fresh THEN NewRequest(r)
                    ELSE IF r \in Cached THEN CachedRequest(s, b, r) ELSE b.reqs[r]]
        row(r) == IF RowOf(b.rows, r) = {} THEN NewRow(r, reqs)
                  ELSE [b.rows[CHOOSE i \in RowOf(b.rows, r) : TRUE] EXCEPT !.comp = out.comp[r]]
    IN  [b EXCEPT !.reqs = reqs, !.prevDrafts = PrevDrafts(b),
                  !.rows = [i \in DOMAIN order |-> row(order[i])]]
-----------------------------------------------------------------------------
\* _prepare_inputs.  prev_positions: the row of the previous step, 0 if none.
prev_positions(b) == [i \in DOMAIN b.rows |->
    IF b.rows[i].req \in DOMAIN b.prevIdx THEN b.prevIdx[b.rows[i].req] ELSE 0]
Rejecting(b, i) == \* update_num_computed_tokens_for_batch_change takes part
    /\ b.counts # <<>> /\ prev_positions(b)[i] > 0
    /\ b.prevDrafts[prev_positions(b)[i]] > 0
gpu_num_computed(b) == [i \in DOMAIN b.rows |->
    LET p == prev_positions(b)[i] IN
    IF Rejecting(b, i) THEN b.gComp[p] + b.counts[p] ELSE b.rows[i].comp]
\* Mutant: the count is read at the row's own index.
gpu_num_accepted_SameRow(b) == [i \in DOMAIN b.rows |->
    IF Rejecting(b, i) /\ i \in DOMAIN b.counts THEN b.counts[i] ELSE 1]
gpu_num_accepted(b) == [i \in DOMAIN b.rows |->
    IF Rejecting(b, i) THEN b.counts[prev_positions(b)[i]] ELSE 1]

\* optimistic_seq_lens_cpu < num_tokens: the step does not reach the last token.
discard_request_mask(b) == [i \in DOMAIN b.rows |->
    LET r == b.rows[i].req IN b.rows[i].comp + out.k[r] < Prompt + b.reqs[r].outs]

\* token_ids_cpu at the optimistic positions.
CpuToken(b, i, j) ==
    LET row == b.rows[i] IN
    IF row.comp + j - 1 < row.known THEN Real(row.req, b.reqs[row.req].gen, row.comp + j - 1)
    ELSE Hole

\* _prepare_input_ids: rows of the previous step take its sampled token, and its
\* drafts behind it; the other slots come from the CPU, which is copied only
\* when some row has more tokens than that.
_prepare_input_ids(b) ==
    LET pos == prev_positions(b)
        common == {i \in DOMAIN b.rows : pos[i] > 0}
        k(i) == out.k[b.rows[i].req]
        d(i) == out.d[b.rows[i].req]
        copied == \/ b.prevTok = <<>>
                  \/ \E i \in DOMAIN b.rows : i \notin common \/ k(i) > d(i) + 1
    IN  [i \in DOMAIN b.rows |-> [j \in 1..k(i) |->
            IF i \in common /\ b.prevTok # <<>> /\ j = k(i) - d(i) THEN b.prevTok[pos[i]]
            ELSE IF i \in common /\ b.drafts # <<>> /\ j > k(i) - d(i)
                 THEN b.drafts[pos[i]][j - (k(i) - d(i))]
            ELSE IF copied THEN CpuToken(b, i, j) ELSE Hole]]

CumSum(f) == LET sum[i \in 0 .. Len(f)] == IF i = 0 THEN 0 ELSE sum[i - 1] + f[i]
             IN  [i \in DOMAIN f |-> sum[i]]
\* Per row i, in order, the numbers last(i) - n(i) .. last(i) - 1.
Ranges(b, last, n) ==
    FlattenSeq([i \in DOMAIN b.rows |-> [j \in 1 .. n[i] |-> last[i] - n[i] + j - 1]])

\* Mutant: the drafts are looked for where the previous row's token is sampled.
_calc_spec_decode_metadata_OffByOne(b) ==
    LET drafts == [i \in DOMAIN b.rows |-> out.d[b.rows[i].req]]
        sampled == [i \in DOMAIN b.rows |-> drafts[i] + 1]
        logits == Ranges(b, CumSum([i \in DOMAIN b.rows |-> out.k[b.rows[i].req]]), sampled)
        target == Ranges(b, CumSum(sampled), drafts)
    IN  [logits_indices |-> logits, target_logits_indices |-> target,
         bonus_logits_indices |-> [i \in DOMAIN b.rows |-> CumSum(sampled)[i] - 1],
         draft_token_ids |-> [m \in DOMAIN target |-> FlattenSeq(b.input)[logits[target[m] + 1] + 1]]]

\* Indices from 0: the rows of the forward that are sampled, of these the ones a
\* draft is compared with, those behind the drafts, and the drafts.
_calc_spec_decode_metadata(b) ==
    LET drafts == [i \in DOMAIN b.rows |-> out.d[b.rows[i].req]]
        sampled == [i \in DOMAIN b.rows |-> drafts[i] + 1]
        logits == Ranges(b, CumSum([i \in DOMAIN b.rows |-> out.k[b.rows[i].req]]), sampled)
        target == Ranges(b, [i \in DOMAIN b.rows |-> CumSum(sampled)[i] - 1], drafts)
    IN  [logits_indices |-> logits, target_logits_indices |-> target,
         bonus_logits_indices |-> [i \in DOMAIN b.rows |-> CumSum(sampled)[i] - 1],
         draft_token_ids |-> [m \in DOMAIN target |-> FlattenSeq(b.input)[logits[target[m] + 2] + 1]]]

_prepare_inputs(b) ==
    [b EXCEPT !.gComp = gpu_num_computed(b), !.gAcc = gpu_num_accepted(b),
              !.mask = discard_request_mask(b), !.input = _prepare_input_ids(b)]

\* correct_spec_decode_token_counts(b, old), after the forward has been launched.
Correction(b, old, r) ==
    IF r \in Optimistic(old) /\ r \in DOMAIN b.prevIdx /\ b.counts # <<>>
    THEN old.reqs[r].prevDraft - (b.counts[b.prevIdx[r]] - 1) ELSE 0
correct_spec_decode_token_counts(b, old) ==
    LET fixed(q, r) == [q EXCEPT !.comp = @ - Correction(b, old, r)] IN
    [b EXCEPT !.reqs = [r \in DOMAIN @ |-> fixed(@[r], r)],
              !.rows = [i \in DOMAIN @ |-> fixed(@[i], b.rows[i].req)]]

-----------------------------------------------------------------------------
\* execute_model: the batch is brought up to date, the inputs are prepared, the
\* forward is launched, and then the deferred corrections are made.
Prepared(s, old, order) ==
    correct_spec_decode_token_counts(_prepare_inputs(_update_states(s, old, order)), Removed(old))
Execute ==
    /\ phase = "execute"
    /\ \E order \in Orders :
           IF DOMAIN out.k = {}
           THEN /\ runner' = [s \in DOMAIN runner |-> _update_states(s, runner[s], order)]
                /\ flight' = Append(flight, EMPTY_MODEL_RUNNER_OUTPUT)
                /\ out' = NoOut
                /\ phase' = "schedule"
           ELSE /\ runner' = [s \in DOMAIN runner |-> Prepared(s, runner[s], order)]
                /\ phase' = "sample"
                /\ UNCHANGED <<out, flight>>
    /\ UNCHANGED <<num_spec, breaks, sched, truth>>

-----------------------------------------------------------------------------
\* sample_tokens.  a[i] drafts of row i are accepted; the token sampled behind
\* them is at the position the forward computed for it.
SampledAt(b, a, i) == b.gComp[i] + out.k[b.rows[i].req] - out.d[b.rows[i].req] + a[i]
SampledRows(b) == {i \in DOMAIN b.rows : ~b.mask[i]}
GenOf(b, i) == b.reqs[b.rows[i].req].gen

\* The rows that sampled, with a placeholder appended to their outputs.
Bookkept(b) ==
    LET drawn == {b.rows[i].req : i \in SampledRows(b)}
        appended(q) == [q EXCEPT !.outs = @ + 1]
    IN  [b EXCEPT !.input = <<>>,
                  !.prevIdx = [r \in drawn |-> CHOOSE i \in SampledRows(b) : b.rows[i].req = r],
                  !.reqs = [r \in DOMAIN @ |-> IF r \in drawn THEN appended(@[r]) ELSE @[r]]]
SampledTokens(b, a) == [i \in DOMAIN b.rows |->
    IF b.mask[i] THEN Hole ELSE Real(b.rows[i].req, GenOf(b, i), SampledAt(b, a, i))]
propose_draft_token_ids(b, a) == [i \in DOMAIN b.rows |-> [j \in 1..num_spec |->
    Draft(b.rows[i].req, GenOf(b, i), SampledAt(b, a, i) + j, SampledAt(b, a, i) + 1)]]
_bookkeeping_sync(b, a) ==
    [Bookkept(b) EXCEPT
        !.prevTok = SampledTokens(b, a),
        !.counts = IF num_spec = 0 THEN <<>>
                   ELSE [i \in DOMAIN b.rows |-> IF b.mask[i] THEN 0 ELSE 1 + a[i]],
        !.drafts = IF num_spec = 0 THEN <<>> ELSE propose_draft_token_ids(b, a)]

\* The sampler gives every row its accepted drafts and one token more, the rows
\* that are not to be reported included.
AsyncGPUModelRunnerOutput(b, a) ==
    [index   |-> [r \in DOMAIN out.k |-> CHOOSE i \in DOMAIN b.rows : b.rows[i].req = r],
     tokens  |-> [i \in DOMAIN b.rows |-> [j \in 1 .. a[i] + 1 |->
                     Real(b.rows[i].req, GenOf(b, i), SampledAt(b, a, i) - a[i] + j - 1)]],
     invalid |-> DOMAIN b.rows \ SampledRows(b),
     asked   |-> [r \in DOMAIN out.k |-> [gen |-> out.gen[r], d |-> out.d[r]]]]

\* The broadcast is skipped by a stage all of whose rows are masked.
Received(b, sent) == IF SampledRows(b) = {} THEN [i \in DOMAIN b.rows |-> Hole] ELSE sent
_pp_receive(b, sent) == [Bookkept(b) EXCEPT !.prevTok = Received(b, sent)]

Accepted(b) == {a \in [DOMAIN b.rows -> 0..num_spec] : \A i \in DOMAIN b.rows :
                    a[i] <= IF b.mask[i] THEN 0 ELSE out.d[b.rows[i].req]}
Sample ==
    /\ phase = "sample"
    /\ LET b == runner["last"] IN \E a \in Accepted(b) :
       LET row(r) == CHOOSE i \in DOMAIN b.rows : b.rows[i].req = r
           drawn  == {b.rows[i].req : i \in SampledRows(b)}
       IN  /\ runner' = [s \in DOMAIN runner |->
                            IF s = "last" THEN _bookkeeping_sync(b, a)
                            ELSE _pp_receive(runner[s], SampledTokens(b, a))]
           /\ flight' = Append(flight, AsyncGPUModelRunnerOutput(b, a))
           /\ truth' = [r \in Req |->
                  IF r \notin DOMAIN out.k THEN truth[r]
                  ELSE IF r \notin drawn THEN [truth[r] EXCEPT !.comp = @ + out.k[r], !.acc = 1]
                  ELSE LET comp == truth[r].comp + out.k[r] - out.d[r] + a[row(r)]
                       IN  [comp |-> comp, len |-> comp + 1, acc |-> 1 + a[row(r)]]]
    /\ out' = NoOut
    /\ phase' = "schedule"
    /\ UNCHANGED <<num_spec, breaks, sched>>

Next == Schedule \/ Report \/ Execute \/ Sample
Spec == Init /\ [][Next]_vars

-----------------------------------------------------------------------------
\* Properties, of the batch that has been prepared.
Batch(s) == IF phase = "sample" THEN DOMAIN runner[s].rows ELSE {}
Wanted(r, pos) == IF pos < truth[r].len THEN Real(r, out.gen[r], pos)
                  ELSE Draft(r, out.gen[r], pos, truth[r].len)

\* Every slot of the forward holds the request's own token at the position that
\* is really computed there: a known token, or the draft proposed behind the
\* last accepted one; never a placeholder, another row's token, a draft of an
\* earlier step or of an earlier request with the same id (1842-1976).  The count
\* the CPU is left with after the deferred correction is the true one, too
\* (1588-1620, 2219-2242).
InputsAreOwn ==
    \A s \in DOMAIN runner : \A i \in Batch(s) :
        LET row == runner[s].rows[i]
            comp == truth[row.req].comp
        IN  /\ row.comp = comp
            /\ \A j \in DOMAIN runner[s].input[i] :
                   runner[s].input[i][j] = Wanted(row.req, comp + j - 1)

\* The sampler compares every draft with the output of the row before it, and takes
\* the token behind the drafts from the request's last row: "Fewer query rows than
\* that would silently select the preceding request's hidden states" (2337-2341).
\* The position a row is computed at, from the optimistic count, is the true one.
SamplerReadsOwn ==
    \A s \in DOMAIN runner : phase = "sample" =>
        LET b == runner[s]
            md == _calc_spec_decode_metadata(b)
            req(i) == b.rows[i].req
            draft(i) == truth[req(i)].comp + out.k[req(i)] - out.d[req(i)]
            \* the rows of the forward that are sampled, by request and position
            at == FlattenSeq([i \in DOMAIN b.rows |->
                      [j \in 1 .. out.k[req(i)] |-> <<req(i), b.gComp[i] + j - 1>>]])
            logits == [m \in DOMAIN md.logits_indices |-> at[md.logits_indices[m] + 1]]
        IN  /\ [m \in DOMAIN md.target_logits_indices |->
                    <<logits[md.target_logits_indices[m] + 1], md.draft_token_ids[m]>>]
                 = FlattenSeq([i \in DOMAIN b.rows |-> [j \in 1 .. out.d[req(i)] |->
                       <<<<req(i), draft(i) + j - 2>>, Wanted(req(i), draft(i) + j - 1)>>]])
            /\ \A i \in DOMAIN b.rows :
                   logits[md.bonus_logits_indices[i] + 1]
                     = <<req(i), truth[req(i)].comp + out.k[req(i)] - 1>>

\* Nothing that was sampled is lost on its way to the scheduler, reported twice or
\* given to another request: what the steps still hold continues what the scheduler
\* has of each request, up to the last token it really has, although a step is read
\* after the next one has moved the rows (3981-3984).  A sample is discarded only
\* if the step stops short of the request's last token, although the lengths
\* compared are optimistic (2160-2169).
OutputsAreTrue ==
    phase = "schedule" => \A r \in {q \in Req : sched[q].st # "none"} :
        LET of(o) == IF Reports(o, r) /\ o.asked[r].gen = sched[r].gen
                     THEN get_output(o)[o.index[r]] ELSE <<>>
            first == Prompt + sched[r].outs
        IN  FlattenSeq([i \in DOMAIN flight |-> of(flight[i])])
              = [j \in 1 .. truth[r].len - first |-> Real(r, sched[r].gen, first + j - 1)]

\* The number of accepted tokens a hybrid model picks its recurrent state with is
\* that of the request's own previous step, for a request that was in that step.
AcceptedIsPrevious ==
    \A s \in DOMAIN runner : \A i \in Batch(s) :
        prev_positions(runner[s])[i] > 0 =>
            runner[s].gAcc[i] = truth[runner[s].rows[i].req].acc
====
