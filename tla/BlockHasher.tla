----------------------------- MODULE BlockHasher -----------------------------
(***************************************************************************)
(* The block hashes of one request (get_request_block_hasher): computed    *)
(* when the request is created and again whenever tokens were appended,    *)
(* for the blocks that have become full since.  Request, which calls the   *)
(* hasher, is external.                                                    *)
(*                                                                         *)
(* Multi-modal items stand in the prompt as runs of one placeholder token, *)
(* so the tokens alone do not tell two items apart: the extra keys must.   *)
(* All text tokens are taken to be equal, and generated ones too: the case *)
(* in which everything depends on the keys.  The hash function is taken to *)
(* be injective: a chained hash is the sequence of what was hashed.  Token *)
(* positions count from 0, items and blocks from 1.  A KV cache group with *)
(* larger blocks reads the hashes through a view (resolve_block_hashes).   *)
(***************************************************************************)
EXTENDS Integers, Sequences, SequencesExt, FiniteSets

CONSTANTS hash_block_size,
          TargetSizes,   \* block sizes of the KV cache groups
          ItemLength,    \* identifiers of items, each with the length of its
                         \* placeholder
          MaxTokens,     \* bound: tokens of a request
          MaxPrompt,     \* bound: tokens of a prompt
          MaxItems       \* bound: multi-modal items of a request

ASSUME SizeAssumption ==
    /\ hash_block_size \in Nat \ {0}
    /\ \A t \in TargetSizes : t \in Nat \ {0} /\ t % hash_block_size = 0
\* The names of the other keys are no identifiers.
ASSUME ItemsAssumption ==
    /\ \A i \in DOMAIN ItemLength : ItemLength[i] \in Nat \ {0}
    /\ {"lora", "salt", "embeds"} \cap DOMAIN ItemLength = {}
ASSUME BoundsAssumption ==
    {MaxTokens, MaxPrompt, MaxItems} \subseteq Nat /\ MaxPrompt <= MaxTokens

VARIABLES req,          \* the request: prompt length, mm_features, the rest
          num_tokens,
          block_hashes  \* per hashed block, its chained hash

vars == <<req, num_tokens, block_hashes>>

EndOf(item) == item.offset + ItemLength[item.id]

\* Items sorted by offset, not overlapping, within the prompt.
Layouts(plen) == {s \in BoundedSeq([id : DOMAIN ItemLength, offset : 0 .. plen - 1], MaxItems) :
    /\ \A k \in DOMAIN s : EndOf(s[k]) <= plen
    /\ \A k \in 2 .. Len(s) : EndOf(s[k - 1]) <= s[k].offset}

Full(n) == n \div hash_block_size

\* LoRA name, cache salt and prompt embeddings; at most one of them at a time.
\* A key is a pair of a name, all names being different, and a number.
Variants == {[lora |-> <<>>, salt |-> <<>>, embeds |-> FALSE],
             [lora |-> <<<<"lora", 0>>>>, salt |-> <<>>, embeds |-> FALSE],
             [lora |-> <<>>, salt |-> <<<<"salt", 0>>>>, embeds |-> FALSE],
             [lora |-> <<>>, salt |-> <<>>, embeds |-> TRUE]}

Requests == UNION {[plen : {plen}, mm : Layouts(plen), with : Variants] : plen \in 1 .. MaxPrompt}

Token(r, j) == IF \E k \in DOMAIN r.mm : r.mm[k].offset <= j /\ j < EndOf(r.mm[k])
                 THEN "placeholder" ELSE "text"

-----------------------------------------------------------------------------
(* The extra keys of the block [start, end).                               *)

\* Identifier, and start relative to the block's.
MmKey(item, start) == <<item.id, item.offset - start>>

\* What the loop over the items returns from item k (from 1) on: their keys, and
\* the item the next block starts with; rest is what it returns from k + 1 on.
AtItem(mm, start, end, k, rest) ==
    IF k > Len(mm) \/ end <= mm[k].offset THEN [keys |-> <<>>, idx |-> k - 1]
    ELSE IF start >= EndOf(mm[k]) THEN rest
    ELSE IF end < EndOf(mm[k]) THEN [keys |-> <<MmKey(mm[k], start)>>, idx |-> k - 1]
    ELSE [keys |-> <<MmKey(mm[k], start)>> \o rest.keys, idx |-> rest.idx]

MmFrom(mm, start, end) ==
    LET from[k \in 1 .. Len(mm) + 1] == AtItem(mm, start, end, k, from[k + 1])
    IN from

\* Mutant: a block is done with items after the first one it contains.
GenMmKeys_OnlyOne(mm, start, end, idx) ==
    IF mm = <<>> \/ EndOf(Last(mm)) <= start THEN [keys |-> <<>>, idx |-> idx]
    ELSE LET found == MmFrom(mm, start, end)[IF idx < 0 THEN Len(mm) + idx + 1 ELSE idx + 1]
         IN [found EXCEPT !.keys = IF @ = <<>> THEN @ ELSE <<Head(@)>>]

\* _gen_mm_extra_hash_keys: from item idx (Python's: from 0, negative from the
\* end) on, the items in the block; and the item the next block starts with.
GenMmKeys(mm, start, end, idx) ==
    IF mm = <<>> \/ EndOf(Last(mm)) <= start THEN [keys |-> <<>>, idx |-> idx]
    ELSE MmFrom(mm, start, end)[IF idx < 0 THEN Len(mm) + idx + 1 ELSE idx + 1]

\* The slice of the prompt embeddings in the block, named by its length, as its
\* start is that of the block; empty behind the prompt.
EmbedsKeys(r, start, end) ==
    IF ~r.with.embeds THEN <<>>
    ELSE <<<<"embeds", Cardinality({j \in start .. end - 1 : j < r.plen})>>>>

SaltKeys(r, start) == IF start = 0 THEN r.with.salt ELSE <<>>

ExtraKeys(r, start, end, mmkeys) ==
    r.with.lora \o mmkeys \o SaltKeys(r, start) \o EmbedsKeys(r, start, end)

\* Mutant: a block completed with generated tokens is taken to contain no item.
FirstItem_PastLast(r, hashed) == IF hashed > 0 THEN Len(r.mm) ELSE 0

\* The item the first new block starts with: the last one when resuming.
FirstItem(r, hashed) == IF hashed > 0 THEN -1 ELSE 0

\* The parent's hash and what the block adds; NONE_HASH is <<>>.
hash_block_tokens(parent, tokens, extra) == Append(parent, [tokens |-> tokens, extra |-> extra])

BlockTokens(r, start) == [j \in 1 .. hash_block_size |-> Token(r, start + j - 1)]

\* The hash of block b, and the item the next one starts with, behind the block before.
Block(r, b, before) ==
    LET start == (b - 1) * hash_block_size
        end   == start + hash_block_size
        mm    == GenMmKeys(r.mm, start, end, before.idx)
    IN [hash |-> hash_block_tokens(before.hash, BlockTokens(r, start),
                                   ExtraKeys(r, start, end, mm.keys)),
        idx  |-> mm.idx]

\* The loop over the blocks up to last, behind the block done.
Run(r, done, before, last) ==
    LET run[b \in done .. last] == IF b = done THEN before ELSE Block(r, b, run[b - 1])
    IN run

\* request_block_hasher: hashes of the blocks after those of `hashes`.
NewHashes(r, hashes, n) ==
    LET done == Len(hashes)
        run  == Run(r, done, [hash |-> IF done = 0 THEN <<>> ELSE Last(hashes),
                              idx |-> FirstItem(r, done)], Full(n))
    IN [k \in 1 .. Full(n) - done |-> run[done + k].hash]

-----------------------------------------------------------------------------
(* Views of the hashes.                                                    *)

\* BlockHashListWithBlockSize: as many blocks as are complete, each with the
\* hash that ends where the block ends.
_get_value_at(hashes, i, scale) == hashes[i * scale]
BlockHashListWithBlockSize(hashes, target) ==
    LET scale == target \div hash_block_size
    IN [i \in 1 .. Len(hashes) \div scale |-> _get_value_at(hashes, i, scale)]

\* A group that supports it looks up the hashes as they are, if its caller aligns
\* to less than a block (no alignment_tokens is as good as a block's).
FineGrained(target, supports, alignment) ==
    supports /\ alignment < target /\ target % alignment = 0

resolve_block_hashes(hashes, target, supports, alignment) ==
    IF target = hash_block_size \/ FineGrained(target, supports, alignment)
      THEN hashes ELSE BlockHashListWithBlockSize(hashes, target)

\* Tokens from one hash of the view to the next.
Grain(target, supports, alignment) ==
    IF FineGrained(target, supports, alignment) THEN hash_block_size ELSE target

-----------------------------------------------------------------------------
Init ==
    /\ req \in Requests
    /\ num_tokens = req.plen
    /\ block_hashes = NewHashes(req, <<>>, num_tokens)

\* Output tokens are appended, one or, with speculative decoding, several.
AppendTokens(m) ==
    /\ num_tokens + m <= MaxTokens
    /\ num_tokens' = num_tokens + m
    /\ block_hashes' = block_hashes \o NewHashes(req, block_hashes, num_tokens')
    /\ UNCHANGED req

Finished == num_tokens = MaxTokens /\ UNCHANGED vars

Next == (\E m \in 1 .. MaxTokens : AppendTokens(m)) \/ Finished

Spec == Init /\ [][Next]_vars

-----------------------------------------------------------------------------
(* Properties.                                                             *)

\* The items that reach into the partial last block of the prompt.
InTail(r) == {k \in DOMAIN r.mm : EndOf(r.mm[k]) > Full(r.plen) * hash_block_size}

\* The hash of block b covers one in which items were passed over: generated tokens
\* completed it, several items reach into it, and the hasher resumed at the last
\* ("we only need to consider the last mm input"), there being blocks before it.
PassedOver(r, b) == 0 < Full(r.plen) /\ Full(r.plen) < b /\ Cardinality(InTail(r)) > 1

\* What the callers of resolve_block_hashes (external) ask for: the group's block
\* size, and alignment to a hash for fine-grained lookup, to a block else.
Lookups == UNION {[target : {t}, supports : BOOLEAN, alignment : {hash_block_size, t}] : t \in TargetSizes}
Views == {[hashes |-> resolve_block_hashes(block_hashes, q.target, q.supports, q.alignment),
           grain  |-> Grain(q.target, q.supports, q.alignment)] : q \in Lookups}

\* The hashes do not depend on the steps in which the tokens arrived: each is that
\* of a new request whose items and tokens are hashed in one call, except exactly
\* those that cover a block whose items were passed over; and a view of any size
\* ends with the last of its blocks that is complete.
AsFromScratch ==
    LET whole == NewHashes(req, <<>>, num_tokens) IN
    /\ Len(block_hashes) = Len(whole)
    /\ \A b \in DOMAIN whole : block_hashes[b] = whole[b] <=> ~PassedOver(req, b)
    /\ \A v \in Views : Len(v.hashes) = num_tokens \div v.grain

\* What of request r stands before position n: its tokens, the items that start
\* there, its LoRA, salt and embeddings.
Prefix(r, n) ==
    [tokens |-> [j \in 0 .. n - 1 |-> Token(r, j)],
     items  |-> {r.mm[k] : k \in {k \in DOMAIN r.mm : r.mm[k].offset < n}},
     lora   |-> r.with.lora, salt |-> r.with.salt,
     embeds |-> IF r.with.embeds THEN {j \in 0 .. n - 1 : j < r.plen} ELSE {-1}]

\* The hashes of a request, once it has all its tokens, and all the hashes
\* there can be, each with the prefix it stands for.
HashesOf(r) == LET first == NewHashes(r, <<>>, r.plen) IN first \o NewHashes(r, first, MaxTokens)
Known == UNION {LET hashes == HashesOf(r)
                IN  {[hash |-> hashes[b], prefix |-> Prefix(r, b * hash_block_size),
                      short |-> PassedOver(r, b)] : b \in 1 .. Full(MaxTokens)} : r \in Requests}

\* "each hash uniquely fingerprints the prefix ending at its boundary", in the
\* blocks of every group: if two requests have the hash of a block in common they
\* have all tokens, items and adapters up to its end in common, or the KV block of
\* one would be reused for the other; unless items were passed over in both, so
\* that a request hashed in one call never meets the KV blocks of another prefix.
UniqueHashes ==
    \A v \in Views : \A i \in DOMAIN v.hashes : \A known \in Known :
        v.hashes[i] = known.hash =>
            \/ Prefix(req, i * v.grain) = known.prefix
            \/ PassedOver(req, Full(i * v.grain)) /\ known.short

\* The docstring without the exception: "chained over the full prefix, so each
\* hash uniquely fingerprints the prefix ending at its boundary".
UniqueFingerprints ==
    \A b \in DOMAIN block_hashes : \A known \in Known :
        block_hashes[b] = known.hash => Prefix(req, b * hash_block_size) = known.prefix
=============================================================================
