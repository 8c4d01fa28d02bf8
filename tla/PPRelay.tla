------------------------------- MODULE PPRelay -------------------------------
(***************************************************************************)
(* The relay of sampled and draft tokens in pipeline parallelism: the last *)
(* stage samples, and the other stages, which need the result to feed a    *)
(* request's next decode step, receive it on a side stream and apply it P  *)
(* steps later (PPHandler, and the model runner's calls of it).            *)
(*                                                                         *)
(* The host of a rank enqueues in program order on its main stream and     *)
(* reads nothing back, so the two are one program here; the side stream on *)
(* which the broadcasts run is a FIFO beside it.  The scheduler and        *)
(* RequestState are external: what they promise is in Schedule and Place.  *)
(*                                                                         *)
(* Tokens are named by the step that sampled or proposed them; of the      *)
(* tokens of a request only their number and the last one are kept.        *)
(***************************************************************************)
EXTENDS Integers, Sequences, FiniteSets, Functions

CONSTANTS P,          \* pp_size
          Reqs, None, \* requests, and no request
          NumSlots,   \* bound: max_num_reqs
          K,          \* num_speculative_steps; with K > 0 drafts are relayed
          PromptLen,  \* prompt length of every request
          MaxLen,     \* max_seq_len of every request
          MaxSteps    \* bound: engine steps explored, one less per further slot

ASSUME PAssumption == P \in Nat /\ P >= 2
ASSUME SlotsAssumption == NumSlots \in Nat \ {0} /\ IsFiniteSet(Reqs) /\ None \notin Reqs
ASSUME LenAssumption == K \in Nat /\ {PromptLen, MaxLen} \subseteq Nat
                          /\ 0 < PromptLen /\ PromptLen < MaxLen

VARIABLES
    max_num_reqs,  \* request indices
    next,    \* scheduler: number of the next step
    reqs,    \* scheduler: what it knows of each request
    results, \* scheduler: outputs of the steps before, not yet processed
    todo,    \* per rank, scheduler outputs not yet executed
    ph,      \* per rank, what it does next with the first of them
    fwd,     \* per rank, the last step whose hidden states it has sent
    slots,   \* per rank, RequestState by request index
    gen,     \* per rank, req_idx_gen_np
    queue,   \* per non-last rank, PPHandler.queue
    bc       \* per rank, operations enqueued on its broadcast stream

moving == <<next, reqs, results, todo, ph, fwd, slots, gen, queue, bc>>
vars == <<max_num_reqs, moving>>

Ranks == 0 .. P - 1
Last  == P - 1
Idx   == 1 .. max_num_reqs
LastStep == MaxSteps + 1 - max_num_reqs

NoRecv  == [step |-> 0, left |-> 0, need |-> {}, idx |-> <<>>,
            gen |-> <<>>, sampled |-> 0, rej |-> <<>>, draft |-> 0]
NewReq  == [st |-> "new", computed |-> 0, len |-> PromptLen, plen |-> PromptLen,
            prev |-> 0, since |-> 0]
NoState == [req |-> None, computed |-> 0, last |-> 0, draft |-> 0]

Init ==
    /\ max_num_reqs \in 1 .. NumSlots
    /\ next = 1 /\ reqs = [q \in Reqs |-> NewReq] /\ results = <<>>
    /\ todo = [r \in Ranks |-> <<>>]
    /\ ph = [r \in Ranks |-> "update"]
    /\ fwd = [r \in Ranks |-> 0]
    /\ slots = [r \in Ranks |-> [i \in Idx |-> NoState]]
    /\ gen = [r \in Ranks |-> [i \in Idx |-> 0]]
    /\ queue = [r \in Ranks \ {Last} |-> [k \in 1 .. P |-> NoRecv]]
    /\ bc = [r \in Ranks |-> <<>>]

-----------------------------------------------------------------------------
(* The scheduler: P steps in flight, a request that sampled in step s      *)
(* decodes again in step s + P at the earliest, one whose prefill goes on  *)
(* may be in the very next step, any request may be aborted or preempted.  *)

Smaller(a, b) == IF a <= b THEN a ELSE b
Larger(a, b)  == IF a <= b THEN b ELSE a

\* The request q after the output o; one of an earlier incarnation is dropped.
Processed(q, o) ==
    IF reqs[q].st = "run" /\ q \in DOMAIN o.rej /\ o.step >= reqs[q].since
      THEN [reqs[q] EXCEPT !.computed = @ - o.rej[q],
                           !.len = Smaller(MaxLen, @ + o.num[q])]
      ELSE reqs[q]

AfterOutput == IF next <= P THEN reqs
                            ELSE [q \in Reqs |-> Processed(q, Head(results))]

\* Tokens that may be scheduled for a running request.
TokenChoices(q) ==
    IF q.computed < q.plen THEN 1 .. q.plen - q.computed
    ELSE IF q.prev + P <= next THEN {1, 1 + K} ELSE {}

Samples(row) == row.old + row.n >= row.plen

\* gone: finished or preempted; the latter may come back, among new, with what
\* is known of its tokens as its prompt.
Kept(now, gone, new) == [q \in Reqs |->
    IF q \in gone
      THEN [NewReq EXCEPT !.st = IF now[q].len = MaxLen THEN "gone" ELSE "out",
                          !.len = now[q].len]
    ELSE IF q \in new
      THEN [now[q] EXCEPT !.st = "run", !.plen = now[q].len, !.since = next]
    ELSE now[q]]

\* What an output says of each of its requests, n[q] being its tokens now.
Rows(kept, n) == [q \in DOMAIN n |-> [old |-> kept[q].computed, n |-> n[q],
                                      plen |-> kept[q].plen, prev |-> kept[q].prev]]

Output(gone, new, rows) == [step |-> next, gone |-> gone, new |-> new, rows |-> rows]

\* One output to all ranks, with n[q] tokens of the request q.
Issue(kept, gone, new, n) ==
    /\ todo' = [r \in Ranks |-> Append(todo[r], Output(gone, new, Rows(kept, n)))]
    /\ reqs' = [q \in Reqs |->
          IF q \notin DOMAIN n THEN kept[q]
          ELSE [kept[q] EXCEPT !.computed = @ + n[q],
                  !.prev = IF Samples(Rows(kept, n)[q]) THEN next ELSE @]]
    /\ next' = next + 1

Schedule ==
    /\ next <= LastStep
    /\ next > P => results # <<>>
    /\ results' = IF next > P THEN Tail(results) ELSE results
    /\ LET now     == AfterOutput
           running == {q \in Reqs : now[q].st = "run"}
           over    == {q \in running : now[q].len = MaxLen}
       IN \E gone \in SUBSET running, new \in SUBSET {q \in Reqs : now[q].st \in {"new", "out"}} :
            /\ over \subseteq gone
            /\ Cardinality(running \ gone) + Cardinality(new) <= max_num_reqs
            /\ LET kept == Kept(now, gone, new)
                   live == (running \ gone) \cup new
               IN \E S \in SUBSET {q \in live : TokenChoices(kept[q]) # {}} :
                  \E n \in [S -> 1 .. Larger(MaxLen, 1 + K)] :
                    /\ \A q \in S : n[q] \in TokenChoices(kept[q])
                    /\ Issue(kept, gone, new, n)
    /\ UNCHANGED <<ph, fwd, slots, gen, queue, bc>>

-----------------------------------------------------------------------------
(* execute_model.                                                          *)

Work(r) == Head(todo[r])
IndexOf(r, q) == CHOOSE i \in Idx : slots[r][i].req = q

\* Mutant: no check of the generation.
Wanted_AnyGeneration(r) == Head(queue[r]).need

\* get_prev_sampled_outputs: the rows still wanted of the entry of P steps ago.
Wanted(r) ==
    LET e == Head(queue[r])
    IN {q \in e.need : gen[r][e.idx[q]] = e.gen[q]}

\* update_pp_decode_requests: num_computed_tokens give back the rejected drafts.
Consumed(r) ==
    IF r = Last THEN slots[r]
    ELSE LET e == Head(queue[r])
         IN [i \in Idx |->
              IF \E q \in Wanted(r) : e.idx[q] = i
                THEN LET q == CHOOSE q \in Wanted(r) : e.idx[q] = i
                     IN [slots[r][i] EXCEPT !.computed = @ - e.rej[q],
                                            !.last = e.sampled,
                                            !.draft = IF K > 0 THEN e.draft ELSE @]
                ELSE slots[r][i]]

\* One entry leaves, one is reserved; the recv event is waited for only if some
\* row is still wanted.
Rotate(r) ==
    IF r = Last THEN UNCHANGED queue
    ELSE /\ Wanted(r) # {} => Head(queue[r]).left = 0
         /\ queue' = [queue EXCEPT ![r] = Append(Tail(@), NoRecv)]

\* finish_requests and add_requests: indices freed, and the generation bumped ...
Freed(r) == {i \in Idx : slots[r][i].req \in Work(r).gone}

Unused(r) == {i \in Idx : slots[r][i].req = None} \cup Freed(r)

\* ... and RequestState's choice of a free index for each new request.
Place(r) ==
    LET at == CHOOSE at \in [Work(r).new -> Unused(r)] : IsInjective(at)
    IN [i \in Idx |->
         IF \E q \in Work(r).new : at[q] = i
           THEN [NoState EXCEPT !.req = CHOOSE q \in Work(r).new : at[q] = i]
         ELSE IF i \in Freed(r) THEN NoState
         ELSE Consumed(r)[i]]

NoOutput(t) == [step |-> t, rej |-> <<>>, num |-> <<>>]

\* Up to the forward; a step without tokens ends here, after the bookkeeping.
Update(r) ==
    /\ todo[r] # <<>> /\ ph[r] = "update"
    /\ Rotate(r)
    /\ gen' = [gen EXCEPT ![r] = [i \in Idx |-> IF i \in Freed(r) THEN @[i] + 1 ELSE @[i]]]
    /\ slots' = [slots EXCEPT ![r] = Place(r)]
    /\ IF Work(r).rows = <<>>
         THEN /\ todo' = [todo EXCEPT ![r] = Tail(@)]
              /\ results' = IF r = Last THEN Append(results, NoOutput(Work(r).step))
                                        ELSE results
              /\ UNCHANGED ph
         ELSE /\ ph' = [ph EXCEPT ![r] = "forward"]
              /\ UNCHANGED <<todo, results>>
    /\ UNCHANGED <<next, reqs, fwd, bc>>

\* The forward needs the hidden states of the stage before.
Forward(r) ==
    /\ ph[r] = "forward"
    /\ r > 0 => fwd[r - 1] >= Work(r).step
    /\ fwd' = [fwd EXCEPT ![r] = Work(r).step]
    /\ ph' = [ph EXCEPT ![r] = "sample"]
    /\ UNCHANGED <<next, reqs, results, todo, slots, gen, queue, bc>>

-----------------------------------------------------------------------------
(* sample_tokens.                                                          *)

\* compute_need_sampled_mask.
Need(rows) == {q \in DOMAIN rows :
                 Samples(rows[q]) /\ Larger(rows[q].old, rows[q].plen) + 1 < MaxLen}

\* A broadcast: which of the step's three, and the number of elements.
Op(kind, t, elems, rej) == [kind |-> kind, step |-> t, elems |-> elems, rej |-> rej]

Advanced(r, rows, rej) == [i \in Idx |->
    LET q == slots[r][i].req
    IN IF q \in DOMAIN rows THEN [slots[r][i] EXCEPT !.computed = @ + rows[q].n - rej[q]]
                            ELSE slots[r][i]]

NumReqs(rows) == Cardinality(DOMAIN rows)

Recvs(t, rows) ==
    <<Op("sampled", t, NumReqs(rows) * (K + 1), <<>>),
      Op("combined", t, 2 * NumReqs(rows), <<>>)>>
    \o IF K > 0 THEN <<Op("draft", t, NumReqs(rows) * K, <<>>)>> ELSE <<>>

\* PPHandler.receive: the reserved entry, and the recvs on the side stream.
Entry(r, t, rows) ==
    [NoRecv EXCEPT !.step = t, !.left = Len(Recvs(t, rows)), !.need = Need(rows),
                   !.idx = [q \in DOMAIN rows |-> IndexOf(r, q)],
                   !.gen = [q \in DOMAIN rows |-> gen[r][IndexOf(r, q)]]]

\* A rank other than the last; num_computed_tokens advance optimistically.
Receive(r) ==
    /\ r # Last /\ ph[r] = "sample"
    /\ LET rows == Work(r).rows
           t == Work(r).step
       IN /\ IF Need(rows) = {}
               THEN UNCHANGED <<queue, bc>>
               ELSE /\ queue' = [queue EXCEPT ![r][P] = Entry(r, t, rows)]
                    /\ bc' = [bc EXCEPT ![r] = @ \o Recvs(t, rows)]
          /\ slots' = [slots EXCEPT ![r] = Advanced(r, rows, [q \in DOMAIN rows |-> 0])]
    /\ todo' = [todo EXCEPT ![r] = Tail(@)]
    /\ ph' = [ph EXCEPT ![r] = "update"]
    /\ UNCHANGED <<next, reqs, results, fwd, gen>>

IsDecode(row) == row.old >= row.plen
Drafts(row)   == IF IsDecode(row) THEN row.n - 1 ELSE 0

\* The sampler emits one column unless some row verifies drafts.
Width(rows) == IF \E q \in DOMAIN rows : Drafts(rows[q]) > 0 THEN K + 1 ELSE 1

\* Mutant: no padding.
Padded_NoPad(width) == width

\* PPHandler.broadcast pads to K + 1 columns.
Padded(width) == K + 1

Sends(t, rows, rej) ==
    IF Need(rows) = {} THEN <<>>
    ELSE <<Op("sampled", t, NumReqs(rows) * Padded(Width(rows)), <<>>),
           Op("combined", t, 2 * NumReqs(rows), rej)>>

\* The last rank: sample, broadcast, hand the output over, postprocess_sampled.
Sample ==
    /\ ph[Last] = "sample"
    /\ LET rows == Work(Last).rows
           t == Work(Last).step
       IN \E rej \in [DOMAIN rows -> 0 .. K] :
            /\ \A q \in DOMAIN rows : rej[q] <= Drafts(rows[q])
            /\ bc' = [bc EXCEPT ![Last] = @ \o Sends(t, rows, rej)]
            /\ results' = Append(results,
                 [step |-> t, rej |-> rej,
                  num |-> [q \in DOMAIN rows |->
                      IF Samples(rows[q]) THEN 1 + Drafts(rows[q]) - rej[q] ELSE 0]])
            /\ slots' = [slots EXCEPT ![Last] = [i \in Idx |->
                 LET s == Advanced(Last, rows, rej)[i]
                 IN IF s.req \in DOMAIN rows /\ Samples(rows[s.req])
                      THEN [s EXCEPT !.last = t] ELSE s]]
    /\ ph' = [ph EXCEPT ![Last] = "propose"]
    /\ UNCHANGED <<next, reqs, todo, fwd, gen, queue>>

\* The speculator proposes, and broadcast_draft relays.
Propose ==
    /\ ph[Last] = "propose"
    /\ LET rows == Work(Last).rows
           t == Work(Last).step
       IN IF K = 0 THEN UNCHANGED <<slots, bc>>
          ELSE /\ slots' = [slots EXCEPT ![Last] = [i \in Idx |->
                    IF @[i].req \in DOMAIN rows THEN [@[i] EXCEPT !.draft = t] ELSE @[i]]]
               /\ bc' = IF Need(rows) = {} THEN bc
                        ELSE [bc EXCEPT ![Last] =
                                Append(@, Op("draft", t, NumReqs(rows) * K, <<>>))]
    /\ todo' = [todo EXCEPT ![Last] = Tail(@)]
    /\ ph' = [ph EXCEPT ![Last] = "update"]
    /\ UNCHANGED <<next, reqs, results, fwd, gen, queue>>

-----------------------------------------------------------------------------
(* The broadcast streams: operations match by order, and one completes only *)
(* when the element counts of all ranks agree.                              *)

Delivered(e, recv, send) ==
    IF e.step # recv.step THEN e
    ELSE [e EXCEPT !.left = @ - 1,
                   !.sampled = IF recv.kind = "sampled" THEN send.step ELSE @,
                   !.rej     = IF recv.kind = "combined" THEN send.rej ELSE @,
                   !.draft   = IF recv.kind = "draft" THEN send.step ELSE @]

Broadcast ==
    /\ \A r \in Ranks : bc[r] # <<>>
    /\ \A r \in Ranks : Head(bc[r]).elems = Head(bc[Last]).elems
    /\ queue' = [r \in Ranks \ {Last} |-> [k \in 1 .. P |->
                    Delivered(queue[r][k], Head(bc[r]), Head(bc[Last]))]]
    /\ bc' = [r \in Ranks |-> Tail(bc[r])]
    /\ UNCHANGED <<next, reqs, results, todo, ph, fwd, slots, gen>>

Rank(r) == Update(r) \/ Forward(r) \/ Receive(r)

Next == /\ \/ Schedule \/ Sample \/ Propose \/ Broadcast
           \/ \E r \in Ranks : Rank(r)
        /\ UNCHANGED max_num_reqs

\* Every rank works off its scheduler outputs, and the streams run.
Fairness == /\ \A r \in Ranks : WF_moving(Rank(r))
            /\ WF_moving(Sample \/ Propose) /\ WF_moving(Broadcast)

Spec == Init /\ [][Next]_vars /\ Fairness

-----------------------------------------------------------------------------
(* Properties.                                                             *)

\* When a forward is about to run on any rank, RequestState holds for each row
\* what the request's history says: the computed tokens net of all rejected
\* drafts and, for a decode row, the token and the drafts of its last sampling
\* step, neither stale, nor of another request that had the index before.
ForwardInputsAgree ==
    \A r \in Ranks : ph[r] = "forward" =>
        \A q \in DOMAIN Work(r).rows :
            LET row == Work(r).rows[q]
                s == slots[r][IndexOf(r, q)]
            IN /\ s.computed = row.old
               /\ IsDecode(row) => s.last = row.prev
               /\ Drafts(row) > 0 => s.draft = row.prev

\* The operations the ranks have enqueued pair up in order, kind by kind and
\* with equal element counts, so that no broadcast is left without its peer
\* (broadcast's comment on the padding; __init__'s on the broadcast count).
BroadcastsMatch ==
    \A r \in Ranks \ {Last} : \A k \in DOMAIN bc[r] \cap DOMAIN bc[Last] :
        LET a == bc[r][k]
            b == bc[Last][k]
        IN a.kind = b.kind /\ a.step = b.step /\ a.elems = b.elems

\* Every step that was scheduled is executed by every rank, again and again:
\* neither the event waits nor the broadcasts nor the pipeline block each other
\* for ever.
EveryStepCompletes == []<>(\A r \in Ranks : todo[r] = <<>>)
=============================================================================
