----------------------------- MODULE SidecarLife -----------------------------
(***************************************************************************)
(* The life of the PLE sidecar process: spawned by the GPU worker of DP    *)
(* rank 0 and TP rank 0 (the parent), it loads its tables (PleDisk), takes *)
(* the registrations of all GPU workers, announces itself, serves, and     *)
(* ends with its parent.  GPU workers may fail or be killed at any time.   *)
(*                                                                         *)
(* The executor that drives the workers is external: it may shut the       *)
(* parent down at any time, and nothing forces it to.                      *)
(***************************************************************************)
EXTENDS PleDisk, FiniteSets

CONSTANTS Workers,   \* the GPU workers that hold PLE layers (DP x TP)
          Parent,    \* the one that spawns the sidecar
          MaxBoots   \* bound: boots of the engine explored

ASSUME ParentAssumption == Parent \in Workers /\ IsFiniteSet(Workers)
ASSUME BootsAssumption == MaxBoots \in Nat

VARIABLES
    boots,  \* boots so far
    gw,     \* per GPU worker, where it is
    wire,   \* registrations in the PUSH/PULL channel
    reader, \* the parent holds its end of the READY pipe
    ready,  \* the READY pipe: what the sidecar has put into it
    lifeline, \* the parent holds its end of the death pipe
    side,   \* the sidecar process
    got,    \* registrations it has taken
    stop    \* its shutdown_event

lifeVars == <<boots, gw, wire, reader, ready, lifeline, side, got, stop>>
vars     == <<diskVars, lifeVars>>

FreshProcesses ==
    /\ gw = [w \in Workers |-> IF w = Parent THEN "spawn" ELSE "load"]
    /\ wire = <<>> /\ reader = TRUE /\ ready = "empty" /\ lifeline = TRUE
    /\ side = "none" /\ got = {} /\ stop = FALSE

Init == DiskInit /\ boots = 1 /\ FreshProcesses

Running == {"load", "register", "announce", "serve"}
Gone    == {"none", "exit"}
Closing == {"join", "terminate", "kill"}
Alive   == side \in Running

-----------------------------------------------------------------------------
(* The GPU workers.                                                        *)

\* spawn_ple_offload: make_process.
Spawn ==
    /\ gw[Parent] = "spawn"
    /\ gw' = [gw EXCEPT ![Parent] = "load"]
    /\ side' = "load"
    /\ UNCHANGED <<diskVars, boots, wire, reader, ready, lifeline, got, stop>>

\* load_model ends with the connector's registration.
Register(w) ==
    /\ gw[w] = "load"
    /\ gw' = [gw EXCEPT ![w] = "registered"]
    /\ wire' = Append(wire, w)
    /\ UNCHANGED <<diskVars, boots, reader, ready, lifeline, side, got, stop>>

LoadFails(w) ==
    /\ gw[w] = "load"
    /\ gw' = [gw EXCEPT ![w] = "failed"]
    /\ UNCHANGED <<diskVars, boots, wire, reader, ready, lifeline, side, got, stop>>

\* wait_for_ready: a message, or the end of file of a sidecar that is gone, or
\* neither within VLLM_PLE_OFFLOAD_READY_TIMEOUT; the pipe's end is closed but
\* for the timeout.
ReadReady ==
    /\ gw[Parent] = "registered" /\ (ready # "empty" \/ side = "exit")
    /\ gw' = [gw EXCEPT ![Parent] = IF ready = "READY" THEN "up" ELSE "failed"]
    /\ reader' = FALSE
    /\ UNCHANGED <<diskVars, boots, wire, ready, lifeline, side, got, stop>>

\* Mutant: the wait has no timeout.
ReadyTimeout_Never == FALSE /\ UNCHANGED vars

ReadyTimeout ==
    /\ gw[Parent] = "registered" /\ ready = "empty"
    /\ gw' = [gw EXCEPT ![Parent] = "failed"]
    /\ UNCHANGED <<diskVars, boots, wire, reader, ready, lifeline, side, got, stop>>

\* shutdown calls the handle's close, which first closes both pipes.
Close ==
    /\ gw[Parent] \in {"load", "registered", "up", "failed"}
    /\ gw' = [gw EXCEPT ![Parent] = "join"]
    /\ reader' = FALSE /\ lifeline' = FALSE
    /\ UNCHANGED <<diskVars, boots, wire, ready, side, got, stop>>

\* Each of the three joins ends at once if the process has ended.
Joined ==
    /\ gw[Parent] \in Closing /\ ~Alive
    /\ gw' = [gw EXCEPT ![Parent] = "closed"]
    /\ UNCHANGED <<diskVars, boots, wire, reader, ready, lifeline, side, got, stop>>

\* join(timeout=5) gives up: SIGTERM, whose handler only sets the event.
Terminate ==
    /\ gw[Parent] = "join" /\ Alive
    /\ gw' = [gw EXCEPT ![Parent] = "terminate"]
    /\ stop' = TRUE
    /\ UNCHANGED <<diskVars, boots, wire, reader, ready, lifeline, side, got>>

\* The second join gives up: SIGKILL.
KillChild ==
    /\ gw[Parent] = "terminate" /\ Alive
    /\ gw' = [gw EXCEPT ![Parent] = "kill"]
    /\ side' = "exit"
    /\ UNCHANGED <<diskVars, boots, wire, reader, ready, lifeline, got, stop>>

\* A GPU worker is killed (the OOM killer, os._exit of its request thread): the
\* system closes its pipes.
Killed(w) ==
    /\ gw[w] \notin {"closed", "dead"}
    /\ gw' = [gw EXCEPT ![w] = "dead"]
    /\ IF w = Parent THEN reader' = FALSE /\ lifeline' = FALSE
                     ELSE UNCHANGED <<reader, lifeline>>
    /\ UNCHANGED <<diskVars, boots, wire, ready, side, got, stop>>

-----------------------------------------------------------------------------
(* The sidecar: proc_main.                                                 *)

\* An exception: FAILURE goes to the parent if it can, then the process ends.
Raise ==
    /\ side' = "exit"
    /\ ready' = IF reader /\ ready = "empty" THEN "FAILURE" ELSE ready

\* PleOffloadRunner.__init__: the tables are loaded, whatever the event says.
Load ==
    /\ side = "load" /\ load # "ready"
    /\ LoadStep
    /\ UNCHANGED lifeVars

\* Any step of the load may raise: the checkpoint, the disk, the model.
LoadRaises ==
    /\ side = "load" /\ load # "ready"
    /\ Raise
    /\ UNCHANGED <<diskVars, boots, gw, wire, reader, lifeline, got, stop>>

Bind ==
    /\ side = "load" /\ load = "ready"
    /\ side' = "register"
    /\ UNCHANGED <<diskVars, boots, gw, wire, reader, ready, lifeline, got, stop>>

\* Mutant: one registration is not waited for.
Accept_OneLess ==
    /\ side = "register" /\ wire # <<>>
    /\ got' = got \cup {Head(wire)}
    /\ wire' = Tail(wire)
    /\ side' = IF Cardinality(got') + 1 = Cardinality(Workers) THEN "announce" ELSE side
    /\ UNCHANGED <<diskVars, boots, gw, reader, ready, lifeline, stop>>

\* accept_registrations: a blocking recv for each GPU worker, then the checks.
Accept ==
    /\ side = "register" /\ wire # <<>>
    /\ got' = got \cup {Head(wire)}
    /\ wire' = Tail(wire)
    /\ side' = IF got' = Workers THEN "announce" ELSE side
    /\ UNCHANGED <<diskVars, boots, gw, reader, ready, lifeline, stop>>

\* Sending READY to a parent that has closed its end raises.
Announce ==
    /\ side = "announce"
    /\ IF reader THEN side' = "serve" /\ ready' = "READY" ELSE Raise
    /\ UNCHANGED <<diskVars, boots, gw, wire, reader, lifeline, got, stop>>

\* Mutant: the monitor notices the end of its parent and does nothing.
MonitorParent_Ignore ==
    /\ Alive /\ ~lifeline /\ ~stop
    /\ UNCHANGED vars

\* The thread that waits for the end of file of the death pipe.
MonitorParent ==
    /\ Alive /\ ~lifeline /\ ~stop
    /\ stop' = TRUE
    /\ UNCHANGED <<diskVars, boots, gw, wire, reader, ready, lifeline, side, got>>

\* busy_loop looks at the event between two requests.
LeaveLoop ==
    /\ side = "serve" /\ stop
    /\ side' = "exit"
    /\ UNCHANGED <<diskVars, boots, gw, wire, reader, ready, lifeline, got, stop>>

-----------------------------------------------------------------------------
(* The next boot, once nothing of this one is left.                        *)

AllGone == side \in Gone /\ \A w \in Workers : gw[w] \in {"closed", "dead"}

FreshProcesses_next ==
    /\ gw' = [w \in Workers |-> IF w = Parent THEN "spawn" ELSE "load"]
    /\ wire' = <<>> /\ reader' = TRUE /\ ready' = "empty" /\ lifeline' = TRUE
    /\ side' = "none" /\ got' = {} /\ stop' = FALSE

Reboot ==
    /\ boots < MaxBoots /\ boots' = boots + 1
    /\ \/ AllGone /\ Restart
       \/ PowerCut
    /\ FreshProcesses_next

Side == Load \/ Bind \/ Accept \/ Announce \/ LeaveLoop

Worker(w) == Register(w) \/ LoadFails(w) \/ Killed(w)

Next ==
    \/ Spawn \/ ReadReady \/ ReadyTimeout \/ Close \/ Joined \/ Terminate \/ KillChild
    \/ \E w \in Workers : Worker(w)
    \/ Side \/ LoadRaises \/ MonitorParent
    \/ Reboot

\* The sidecar's threads run; the parent's waits end in time; the executor, the
\* end of a model load and every failure may or may not come.
Fairness ==
    /\ WF_vars(Side) /\ WF_vars(MonitorParent)
    /\ WF_vars(ReadReady \/ ReadyTimeout)
    /\ WF_vars(Joined \/ Terminate \/ KillChild)

Spec == Init /\ [][Next]_vars /\ Fairness

-----------------------------------------------------------------------------
(* Properties.                                                             *)

\* A parent that came up has a sidecar that took the registration of every GPU
\* worker and serves a complete table, or that has ended since (wait_for_ready:
\* "Wait until weights and all GPU registrations are ready to serve").
ReadyMeansServing ==
    gw[Parent] = "up" => got = Workers /\ load = "ready" /\ side \in {"serve", "exit"}

\* The parent never waits for ever: not for READY, though a GPU worker that never
\* registers leaves the sidecar in recv, and not in close(), wherever in its
\* start-up or its loop the sidecar is (a blocked recv answers neither the death
\* pipe nor SIGTERM).
ParentMovesOn ==
    /\ gw[Parent] = "registered" ~> gw[Parent] # "registered"
    /\ gw[Parent] = "join" ~> gw[Parent] \notin Closing

\* A sidecar that serves, or is about to, ends when its parent was killed.
ServerFollowsParent ==
    gw[Parent] = "dead" /\ side \in {"announce", "serve"} ~> side \in Gone
=============================================================================
