------------------------------ MODULE MCKvBlocks ------------------------------
(* An instance of the two classes that kv_cache_utils.py gives the callers     *)
(* that manage blocks: the queue of the free ones, and the hasher of a request. *)
(* They share no state and step separately: the queue for one request, and the  *)
(* hasher while the queue is as it was made.                                    *)
EXTENDS MCBlockHasher, FreeBlockQueue

AnyRequest == CHOOSE r \in Requests : TRUE

KvBlocksInit == Init /\ QueueInit

QueueStep  == req = AnyRequest /\ num_tokens = req.plen /\ QueueNext /\ UNCHANGED vars
HasherStep == QueueInit /\ Next /\ UNCHANGED queueVars

KvBlocksNext == QueueStep \/ HasherStep

KvBlocksSpec == KvBlocksInit /\ [][KvBlocksNext]_<<vars, queueVars>>
=============================================================================
