------------------------------- MODULE PleDisk -------------------------------
(***************************************************************************)
(* The disk-backed embedding table of the PLE sidecar: attach, fill,       *)
(* finalise and reuse over several boots, with a crash of the process or   *)
(* of the machine between any two steps (_load_weights and what it calls). *)
(*                                                                         *)
(* A row of the table is named by the checkpoint it was read from, 0 being *)
(* a hole of the file.  Creating, truncating and removing a file are       *)
(* durable at once and in order (a journal); contents are durable only     *)
(* when flushed, and may or may not survive a power cut before that.       *)
(***************************************************************************)
EXTENDS Naturals, Sequences

CONSTANTS Configs,   \* what a boot may be configured with: records of
                     \*   rows   size of the table, in rows
                     \*   shape  shape and dtype of the table
                     \*   ckpt   the checkpoint
                     \*   dummy  load_format=dummy
          PowerCuts, \* the machine may lose power
          Absent     \* no done.json

ASSUME ConfigsAssumption ==
    \A c \in Configs : /\ c.rows \in Nat \ {0} /\ c.dummy \in BOOLEAN
                       /\ c.shape # Absent /\ c.ckpt # 0
ASSUME PowerCutsAssumption == PowerCuts \in BOOLEAN

VARIABLES
    cfg,    \* configuration of the current boot
    load,   \* _load_weights: what it does next
    row,    \* rows written so far by this boot
    bin,    \* the .bin file, as every process sees it
    medium, \* the same, as far as it is flushed
    done,   \* the .done.json file: Absent, "torn" or the shape it records
    safe,   \* contents of done.json are on the medium
    maker,  \* ghost: configuration of the boot that last wrote done.json
    flushed \* ghost: no flush of the table failed since its making began

diskVars == <<cfg, load, row, bin, medium, done, safe, maker, flushed>>

DiskInit ==
    /\ cfg \in Configs /\ load = "attach" /\ row = 0
    /\ bin = <<>> /\ medium = <<>>
    /\ done = Absent /\ safe = TRUE
    /\ maker = cfg /\ flushed = TRUE

-----------------------------------------------------------------------------
(* _ple_disk_attach                                                        *)

\* done.json is opened only if both files exist and the size is right.
SizeOK == done # Absent /\ Len(bin) = cfg.rows

Complete == SizeOK /\ done = cfg.shape

\* open("ab").truncate(nbytes): cut, or extended by a hole.
Resized(f) == [i \in 1 .. cfg.rows |-> IF i <= Len(f) THEN f[i] ELSE 0]

\* A finished file of the right shape is reused as it is; any other is declared
\* unfinished first, then brought to size and mapped for writing.
Attach ==
    /\ load = "attach"
    /\ ~(SizeOK /\ done = "torn")
    /\ IF Complete
         THEN load' = "ready" /\ UNCHANGED <<bin, medium, done, safe, flushed>>
         ELSE /\ load' = "fill"
              /\ done' = Absent /\ safe' = TRUE /\ flushed' = TRUE
              /\ bin' = Resized(bin) /\ medium' = Resized(medium)
    /\ UNCHANGED <<cfg, row, maker>>

-----------------------------------------------------------------------------
(* _load_weights: the rows come from the checkpoint, in order, through the *)
(* shared mapping.                                                         *)

FillRow ==
    /\ load = "fill" /\ ~cfg.dummy /\ row < cfg.rows
    /\ row' = row + 1
    /\ bin' = [bin EXCEPT ![row + 1] = cfg.ckpt]
    /\ UNCHANGED <<cfg, load, medium, done, safe, maker, flushed>>

\* The dummy loader moves the parameter to fresh RAM (to_empty) and fills that.
Filled ==
    /\ load = "fill" /\ (cfg.dummy \/ row = cfg.rows)
    /\ load' = "flush"
    /\ UNCHANGED <<cfg, row, bin, medium, done, safe, maker, flushed>>

-----------------------------------------------------------------------------
(* _ple_disk_finalize                                                      *)

\* Rows kept have reached the medium, the others have not.
Written(kept) == [i \in DOMAIN bin |-> IF i \in kept THEN bin[i] ELSE medium[i]]

\* Mutant: the mapping is not flushed before completion is recorded.
Flush_Not ==
    /\ load = "flush"
    /\ load' = "mark" /\ flushed' = TRUE
    /\ UNCHANGED <<cfg, row, bin, medium, done, safe, maker>>

\* An exception of the flush is suppressed, and completion recorded all the same;
\* what it wrote until then is on the medium.
Flush ==
    /\ load = "flush"
    /\ \/ medium' = bin /\ flushed' = TRUE
       \/ (\E kept \in SUBSET DOMAIN bin : medium' = Written(kept)) /\ flushed' = FALSE
    /\ load' = "mark"
    /\ UNCHANGED <<cfg, row, bin, done, safe, maker>>

\* open(done_path, "w") truncates ...
OpenMark ==
    /\ load = "mark"
    /\ done' = "torn" /\ safe' = TRUE
    /\ load' = "dump"
    /\ UNCHANGED <<cfg, row, bin, medium, maker, flushed>>

\* ... json.dump writes, and the table is mapped again, copy on write.
DumpMark ==
    /\ load = "dump"
    /\ done' = cfg.shape /\ safe' = FALSE
    /\ load' = "ready" /\ maker' = cfg
    /\ UNCHANGED <<cfg, row, bin, medium, flushed>>

LoadStep == Attach \/ FillRow \/ Filled \/ Flush \/ OpenMark \/ DumpMark

-----------------------------------------------------------------------------
(* Between two boots.                                                      *)

\* What is left of the files: all that was written, if only processes died ...
Restart ==
    /\ cfg' \in Configs /\ load' = "attach" /\ row' = 0
    /\ UNCHANGED <<bin, medium, done, safe, maker, flushed>>

\* ... and after a power cut any subset of what was not flushed.
PowerCut ==
    /\ PowerCuts
    /\ cfg' \in Configs /\ load' = "attach" /\ row' = 0
    /\ \E kept \in SUBSET DOMAIN bin : bin' = Written(kept)
    /\ medium' = bin'
    /\ done' \in (IF safe THEN {done} ELSE {done, "torn"})
    /\ safe' = TRUE
    /\ UNCHANGED <<maker, flushed>>

-----------------------------------------------------------------------------
\* A table that is served out of the file is the one its maker made, whatever
\* boots, crashes, power cuts and tables of other sizes came before: it has the
\* served shape, every row of it is the checkpoint's that the boot that wrote
\* done.json was configured with, and if the present boot filled it, that is its
\* own.  Two makers are not vouched for: one whose flush failed, which is
\* suppressed (_ple_disk_finalize), and one of load_format=dummy, which wrote no
\* row.  That a table made by an earlier boot is of the checkpoint configured now
\* is nothing the code establishes: it compares shape and type (_load_weights:
\* "Shard tensors that land inside an already-finished table are not re-read from
\* the checkpoint: mapping the file replaces them").
TableIsAsMade ==
    load = "ready" =>
        /\ Len(bin) = cfg.rows /\ maker.shape = cfg.shape
        /\ row > 0 => maker = cfg
        /\ flushed /\ ~maker.dummy => \A i \in DOMAIN bin : bin[i] = maker.ckpt
=============================================================================
