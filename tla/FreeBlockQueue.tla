--------------------------- MODULE FreeBlockQueue ---------------------------
(***************************************************************************)
(* FreeKVCacheBlockQueue: the free KV-cache blocks as a doubly linked list *)
(* threaded through the blocks, between a fake head and a fake tail.  The  *)
(* callers (BlockPool) are external: they take at most what is free, remove *)
(* only free blocks and give back only blocks they hold, each once.        *)
(***************************************************************************)
EXTENDS Naturals, SequencesExt

CONSTANTS Blocks,            \* the block ids, 1 .. the number of blocks
          Head_, Tail_, None \* the fake blocks, and Python's None

ASSUME BlocksAssumption == IsFiniteSet(Blocks) /\ Blocks = 1 .. Cardinality(Blocks)
ASSUME FakesAssumption == /\ Head_ # Tail_ /\ None \notin {Head_, Tail_}
                          /\ {Head_, Tail_, None} \cap Blocks = {}

VARIABLES next,            \* next_free_block of each block and of the fakes
          prev,            \* prev_free_block
          num_free_blocks

queueVars == <<next, prev, num_free_blocks>>

Nodes == Blocks \cup {Head_, Tail_}

\* Links between all neighbours of a sequence of nodes; the others as they are.
NextAlong(s, old) == [x \in Nodes |->
    IF \E i \in 1 .. Len(s) - 1 : s[i] = x
      THEN s[(CHOOSE i \in 1 .. Len(s) - 1 : s[i] = x) + 1] ELSE old[x]]
PrevAlong(s, old) == [x \in Nodes |->
    IF \E i \in 2 .. Len(s) : s[i] = x
      THEN s[(CHOOSE i \in 2 .. Len(s) : s[i] = x) - 1] ELSE old[x]]

Unlinked == [x \in Nodes |-> None]

\* __init__: linked in the order of the block ids.
QueueInit ==
    LET s == <<Head_>> \o [i \in 1 .. Cardinality(Blocks) |-> i] \o <<Tail_>>
    IN /\ next = NextAlong(s, Unlinked)
       /\ prev = PrevAlong(s, Unlinked)
       /\ num_free_blocks = Cardinality(Blocks)

\* A block is in the list iff it is linked (what remove() tests).
Free(b) == prev[b] # None /\ next[b] # None

\* The k-th node after x along the links nxt, None behind the last.
Walk(nxt, x) ==
    LET nth[k \in 0 .. Cardinality(Nodes)] ==
            IF k = 0 THEN x
            ELSE IF nth[k - 1] = None THEN None ELSE nxt[nth[k - 1]]
    IN nth

\* What a loop over the nodes after x meets before a node at which it stops.
UpTo(nxt, x, Stop) ==
    LET nth == Walk(nxt, x)
        met == {k \in 1 .. Cardinality(Nodes) : \A j \in 1 .. k : nth[j] \notin Stop}
    IN [k \in 1 .. Cardinality(met) |-> nth[k]]

\* popleft, for n = 1, and popleft_n.
PopleftN(n) ==
    /\ num_free_blocks >= n
    /\ num_free_blocks' = num_free_blocks - n
    /\ LET walk == Walk(next, Head_)
           popped == {walk[i] : i \in 1 .. n}
           curr == walk[n + 1]
       IN /\ next' = [x \in Nodes |-> IF x = Head_ THEN curr
                                      ELSE IF x \in popped THEN None ELSE next[x]]
          /\ prev' = [x \in Nodes |-> IF x = curr THEN Head_
                                      ELSE IF x \in popped THEN None ELSE prev[x]]

\* Mutant: the removed block keeps its own next link.
RemoveBlock_KeepNext(b) ==
    /\ Free(b)
    /\ next' = [next EXCEPT ![prev[b]] = next[b]]
    /\ prev' = [prev EXCEPT ![next[b]] = prev[b], ![b] = None]
    /\ num_free_blocks' = num_free_blocks - 1

RemoveBlock(b) ==
    /\ Free(b)
    /\ next' = [next EXCEPT ![prev[b]] = next[b], ![b] = None]
    /\ prev' = [prev EXCEPT ![next[b]] = prev[b], ![b] = None]
    /\ num_free_blocks' = num_free_blocks - 1

\* append, for one block, and append_n.
AppendN(blocks) ==
    LET s == <<prev[Tail_]>> \o blocks \o <<Tail_>>
    IN /\ num_free_blocks' = num_free_blocks + Len(blocks)
       /\ next' = NextAlong(s, next)
       /\ prev' = PrevAlong(s, prev)

\* Mutant: block by block at the front, which reverses them.
PrependN_Reversed(blocks) ==
    LET s == <<Head_>> \o Reverse(blocks) \o <<next[Head_]>>
    IN /\ num_free_blocks' = num_free_blocks + Len(blocks)
       /\ next' = NextAlong(s, next)
       /\ prev' = PrevAlong(s, prev)

PrependN(blocks) ==
    LET s == <<Head_>> \o blocks \o <<next[Head_]>>
    IN /\ num_free_blocks' = num_free_blocks + Len(blocks)
       /\ next' = NextAlong(s, next)
       /\ prev' = PrevAlong(s, prev)

\* get_all_free_blocks: the linked blocks up to the fake tail, which has no next.
get_all_free_blocks == UpTo(next, Head_, {None} \cup {x \in Nodes : next[x] = None})

\* Mutant: the cursor itself is yielded again.
iter_blocks_after_FromCursor(cursor) ==
    UpTo(next, IF cursor = None THEN Head_ ELSE prev[cursor], {None, Tail_})

\* iter_blocks_after, None being the cursor of a fresh iteration.
iter_blocks_after(cursor) ==
    UpTo(next, IF cursor = None THEN Head_ ELSE cursor, {None, Tail_})

\* What a caller may give back: blocks it holds, each once, in any order.
Arrangements == [S \in SUBSET Blocks |->
    {s \in UNION {[1 .. k -> S] : k \in 1 .. Cardinality(S)} : IsInjective(s)}]

Returns == Arrangements[{b \in Blocks : ~Free(b)}]

QueueNext ==
    \/ \E n \in 1 .. num_free_blocks : PopleftN(n)
    \/ \E b \in Blocks : RemoveBlock(b)
    \/ \E blocks \in Returns : AppendN(blocks) \/ PrependN(blocks)

QueueSpec == QueueInit /\ [][QueueNext]_queueVars

-----------------------------------------------------------------------------
(* Properties.                                                             *)

\* Both chains of links visit the same blocks in opposite orders, the count is
\* the number of linked blocks (popleft's assertion: "num_free_blocks is out of
\* sync with the free list"), and a block that left the list keeps no link, or
\* remove() would accept it and cut out part of the list.
LinksConsistent ==
    /\ \A x \in Nodes \ {Tail_} : next[x] # None => prev[next[x]] = x
    /\ \A x \in Nodes \ {Head_} : prev[x] # None => next[prev[x]] = x
    /\ \A b \in Blocks : (prev[b] = None) = (next[b] = None)
    /\ num_free_blocks = Cardinality({b \in Blocks : Free(b)})

\* A pause of the iteration at any free block and a resumption after it yield
\* the rest of the eviction order, no block twice and none left out.
IterationResumes ==
    \A k \in 0 .. Len(get_all_free_blocks) :
        iter_blocks_after(IF k = 0 THEN None ELSE get_all_free_blocks[k])
          = SubSeq(get_all_free_blocks, k + 1, Len(get_all_free_blocks))

\* The linked list is a queue: every step is a call that does to the eviction
\* order what the docstring of its method says, down to the order in which the
\* blocks given back are put at either end.
Queue == INSTANCE FreeQueue WITH queue <- get_all_free_blocks

ImplementsQueue ==
    /\ Queue!Init
    /\ [][/\ \/ \E n \in 1 .. num_free_blocks : PopleftN(n) /\ Queue!Take(n)
             \/ \E b \in Blocks : RemoveBlock(b) /\ Queue!Drop(b)
             \/ \E s \in Returns : \/ AppendN(s) /\ Queue!GiveBack(s)
                                   \/ PrependN(s) /\ Queue!PutFirst(s)
          /\ Queue!Counted]_queueVars
=============================================================================
