------------------------------ MODULE PleLocal ------------------------------
(***************************************************************************)
(* What the PLE offload must look like to the model: the PLE layer of a    *)
(* model that owns its embedding tables (PleOffloadLayer.forward when it   *)
(* delegates to forward_impl).  In every step each TP rank's layer returns *)
(* the rows of that step's own batch, in its own time; a rank cannot run a *)
(* whole step ahead of another, because each forward ends in a collective. *)
(* There is no sidecar, no request and no shared buffer here.              *)
(***************************************************************************)
EXTENDS Naturals

CONSTANTS Ranks,     \* tensor-parallel ranks
          MaxSteps   \* bound: engine steps explored

VARIABLES batch,     \* batch[k]: the batch of step k, 0 for a dummy run
          embedded,  \* per rank, steps whose PLE layer has run
          rows       \* per rank, rows the last PLE layer returned

vars == <<batch, embedded, rows>>

Init ==
    /\ batch \in [1 .. MaxSteps -> 0 .. MaxSteps]
    /\ embedded = [r \in Ranks |-> 0]
    /\ rows = [r \in Ranks |-> 0]

\* PleOffloadLayer.forward on rank r.
Forward(r) ==
    /\ embedded[r] < MaxSteps
    /\ \A q \in Ranks : embedded[q] >= embedded[r]
    /\ embedded' = [embedded EXCEPT ![r] = @ + 1]
    /\ rows' = [rows EXCEPT ![r] = batch[embedded[r] + 1]]
    /\ UNCHANGED batch

Next == \E r \in Ranks : Forward(r)

Spec == Init /\ [][Next]_vars /\ \A r \in Ranks : WF_vars(Forward(r))
=============================================================================
