------------------------------ MODULE FreeQueue ------------------------------
(***************************************************************************)
(* What FreeKVCacheBlockQueue promises: a queue of free blocks in eviction *)
(* order, with its length, from whose middle a block can be taken.  Who    *)
(* calls what is not its business: the operations are stated one by one.   *)
(***************************************************************************)
EXTENDS Naturals, Sequences, FiniteSets

CONSTANT Blocks

VARIABLES queue, num_free_blocks

\* "The queue is ordered by block ID in the beginning."
Init == /\ queue = [i \in 1 .. Cardinality(Blocks) |-> i]
        /\ num_free_blocks = Cardinality(Blocks)

Take(n)     == queue' = SubSeq(queue, n + 1, Len(queue))
Drop(b)     == \E i \in 1 .. Len(queue) :
                  /\ queue[i] = b
                  /\ queue' = SubSeq(queue, 1, i - 1) \o SubSeq(queue, i + 1, Len(queue))
GiveBack(s) == queue' = queue \o s
PutFirst(s) == queue' = s \o queue

Counted == num_free_blocks' = Len(queue')
=============================================================================
