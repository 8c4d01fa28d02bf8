------------------------------ MODULE MCSidecar ------------------------------
(* Instances of SidecarLife: which configurations a host is booted with.    *)
EXTENDS SidecarLife

\* Two checkpoints of one shape, the same shape loaded with load_format=dummy, and
\* a larger model.
SameShapes ==
    {[rows |-> 1, shape |-> "small", ckpt |-> 1, dummy |-> FALSE],
     [rows |-> 1, shape |-> "small", ckpt |-> 2, dummy |-> FALSE],
     [rows |-> 1, shape |-> "small", ckpt |-> 1, dummy |-> TRUE],
     [rows |-> 2, shape |-> "large", ckpt |-> 3, dummy |-> FALSE]}
=============================================================================
