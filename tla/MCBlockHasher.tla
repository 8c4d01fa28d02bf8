---------------------------- MODULE MCBlockHasher ----------------------------
(* An instance of BlockHasher: two items of one token and one of two. *)
EXTENDS BlockHasher

Pictures == [x |-> 1, y |-> 1, z |-> 2]
=============================================================================
