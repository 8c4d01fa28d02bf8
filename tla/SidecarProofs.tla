---------------------------- MODULE SidecarProofs ----------------------------
(* Theorems about SidecarLife, for tables of any size, any number of boots   *)
(* and of GPU workers, and failures, kills and power cuts between any two    *)
(* steps.                                                                    *)
EXTENDS SidecarLife, SequenceTheorems, TLAPS

Values == {0} \cup {c.ckpt : c \in Configs}

\* The file has the size of the present table, and this boot filled it up to row n,
\* if it is not a dummy's.
RowsOf(n) == /\ Len(bin) = cfg.rows
             /\ ~cfg.dummy => \A i \in 1 .. n : bin[i] = cfg.ckpt

\* Every row is the maker's, if its flush succeeded and it wrote any.
MakersRows == flushed /\ ~maker.dummy => \A i \in 1 .. Len(bin) : bin[i] = maker.ckpt

FilesOK == /\ cfg \in Configs /\ maker \in Configs /\ flushed \in BOOLEAN /\ row \in Nat /\ row <= cfg.rows
           /\ load \in {"attach", "fill", "flush", "mark", "dump", "ready"}
           /\ bin \in Seq(Values) /\ medium \in Seq(Values)
           /\ Len(medium) = Len(bin)

\* While a table is being made nothing says it is complete; when it is marked, all
\* of it has been flushed, unless the flush failed.
Making == /\ load = "attach" => row = 0
          /\ load = "fill" => RowsOf(row) /\ done = Absent
          /\ load \in {"flush", "mark", "dump"} => RowsOf(cfg.rows)
          /\ load \in {"flush", "mark"} => done = Absent
          /\ load = "dump" => done = "torn"
          /\ load \in {"mark", "dump"} /\ flushed => medium = bin

\* What a done.json says that can be read.
Marked == done \notin {Absent, "torn"} =>
    maker.shape = done /\ MakersRows /\ (flushed => medium = bin)

Served == load = "ready" =>
    /\ Len(bin) = cfg.rows /\ maker.shape = cfg.shape
    /\ row > 0 => maker = cfg
    /\ MakersRows

DiskInv == FilesOK /\ Making /\ Marked /\ Served

-----------------------------------------------------------------------------
LEMMA InitDisk == Init => DiskInv
<1> SUFFICES ASSUME Init PROVE DiskInv
  OBVIOUS
<1>1. /\ cfg \in Configs /\ cfg.rows \in Nat /\ row = 0 /\ load = "attach"
      /\ bin = <<>> /\ medium = <<>> /\ done = Absent /\ maker = cfg /\ flushed = TRUE
  BY ConfigsAssumption DEF Init, DiskInit
<1>. QED
  BY <1>1 DEF DiskInv, FilesOK, Making, Marked, Served

\* Cutting or extending a file keeps what it holds.
LEMMA ResizedOK ==
    ASSUME cfg \in Configs, NEW f \in Seq(Values)
    PROVE  Resized(f) \in Seq(Values) /\ Len(Resized(f)) = cfg.rows
<1>1. cfg.rows \in Nat
  BY ConfigsAssumption
<1>2. Resized(f) \in [1 .. cfg.rows -> Values]
  BY <1>1 DEF Resized, Values
<1>3. Resized(f) \in Seq(Values)
  BY <1>1, <1>2
<1>. QED
  BY <1>1, <1>2, <1>3, LenProperties

\* A file that is taken for complete is reused as its maker left it.
LEMMA AttachInv == ASSUME DiskInv, Attach PROVE DiskInv'
<1>1. CASE Complete
  <2>1. /\ UNCHANGED <<cfg, row, bin, medium, done, maker, flushed>> /\ load' = "ready"
        /\ load = "attach" /\ row = 0 /\ Len(bin) = cfg.rows
        /\ done = cfg.shape /\ done \notin {Absent, "torn"}
    BY <1>1 DEF Attach, Complete, SizeOK, DiskInv, Making
  <2>2. maker.shape = done /\ MakersRows
    BY <2>1 DEF DiskInv, Marked
  <2>3. Served'
    BY <2>1, <2>2 DEF Served, MakersRows
  <2>4. Marked' /\ Making' /\ FilesOK'
    BY <2>1 DEF DiskInv, FilesOK, Making, Marked, MakersRows
  <2>. QED
    BY <2>3, <2>4 DEF DiskInv
<1>2. CASE ~Complete
  <2>1. /\ UNCHANGED <<cfg, row, maker>> /\ load' = "fill" /\ done' = Absent
        /\ bin' = Resized(bin) /\ medium' = Resized(medium) /\ load = "attach"
        /\ flushed' = TRUE
    BY <1>2 DEF Attach
  <2>2. FilesOK' /\ Len(bin') = cfg.rows
    BY <2>1, ResizedOK DEF DiskInv, FilesOK
  <2>. QED
    BY <2>1, <2>2 DEF DiskInv, Making, Marked, Served, RowsOf
<1>. QED
  BY <1>1, <1>2

LEMMA FillRowInv == ASSUME DiskInv, FillRow PROVE DiskInv'
<1>1. /\ load = "fill" /\ ~cfg.dummy /\ row' = row + 1 /\ cfg \in Configs
      /\ UNCHANGED <<cfg, load, medium, done, maker, flushed>>
      /\ bin' = [bin EXCEPT ![row + 1] = cfg.ckpt]
      /\ row < cfg.rows /\ row \in Nat /\ cfg.rows \in Nat /\ done = Absent
      /\ Len(bin) = cfg.rows /\ \A i \in 1 .. row : bin[i] = cfg.ckpt
  BY ConfigsAssumption DEF FillRow, DiskInv, FilesOK, Making, RowsOf
<1>2. bin' \in Seq(Values) /\ Len(bin') = Len(bin)
  BY <1>1, ExceptSeq DEF DiskInv, FilesOK, Values
<1>3. \A i \in 1 .. row' : bin'[i] = cfg.ckpt
  BY <1>1 DEF DiskInv, FilesOK
<1>. QED
  BY <1>1, <1>2, <1>3 DEF DiskInv, FilesOK, Making, Marked, Served, RowsOf

\* What part of a file has been written to the medium is a file of its size.
LEMMA WrittenOK ==
    ASSUME DiskInv, NEW kept
    PROVE  /\ Written(kept) \in Seq(Values) /\ Len(Written(kept)) = Len(bin)
           /\ medium = bin => Written(kept) = bin
<1>1. /\ bin \in Seq(Values) /\ medium \in Seq(Values) /\ Len(medium) = Len(bin)
      /\ Len(bin) \in Nat /\ DOMAIN bin = 1 .. Len(bin)
  BY LenProperties DEF DiskInv, FilesOK
<1>2. Written(kept) \in [1 .. Len(bin) -> Values]
  BY <1>1, ElementOfSeq DEF Written
<1>3. Written(kept) \in Seq(Values) /\ Len(Written(kept)) = Len(bin)
  BY <1>1, <1>2, LenProperties
<1>4. medium = bin => Written(kept) = bin
  BY <1>1 DEF Written
<1>. QED
  BY <1>3, <1>4

\* The other steps of the load leave the rows as they are.
LEMMA MarkInv ==
    ASSUME DiskInv, Filled \/ Flush \/ OpenMark \/ DumpMark PROVE DiskInv'
<1>1. CASE Filled
  <2>1. RowsOf(cfg.rows)
    BY <1>1 DEF Filled, DiskInv, Making, RowsOf
  <2>. QED
    BY <1>1, <2>1 DEF Filled, DiskInv, FilesOK, Making, Marked, Served, RowsOf
<1>2. CASE Flush
  <2>1. /\ load = "flush" /\ load' = "mark" /\ done = Absent /\ RowsOf(cfg.rows)
        /\ UNCHANGED <<cfg, row, bin, done, maker>> /\ flushed' \in BOOLEAN
        /\ flushed' => medium' = bin
    BY <1>2 DEF Flush, DiskInv, Making
  <2>2. medium' \in Seq(Values) /\ Len(medium') = Len(bin)
    BY <1>2, WrittenOK DEF Flush, DiskInv, FilesOK
  <2>. QED
    BY <2>1, <2>2 DEF DiskInv, FilesOK, Making, Marked, Served, RowsOf
<1>3. CASE OpenMark
  BY <1>3 DEF OpenMark, DiskInv, FilesOK, Making, Marked, Served, RowsOf
<1>4. CASE DumpMark
  <2>1. /\ load = "dump" /\ load' = "ready" /\ done' = cfg.shape /\ maker' = cfg
        /\ UNCHANGED <<cfg, row, bin, medium, flushed>> /\ RowsOf(cfg.rows)
        /\ flushed => medium = bin
    BY <1>4 DEF DumpMark, DiskInv, Making
  <2>2. MakersRows'
    BY <2>1 DEF RowsOf, MakersRows
  <2>3. Served' /\ Marked'
    BY <2>1, <2>2 DEF Served, Marked, RowsOf
  <2>4. FilesOK' /\ Making'
    BY <2>1 DEF DiskInv, FilesOK, Making
  <2>. QED
    BY <2>3, <2>4 DEF DiskInv
<1>. QED
  BY <1>1, <1>2, <1>3, <1>4

\* A power cut may lose what was not flushed, which is nothing of a file that is
\* marked after a flush that succeeded, and may tear the mark.
LEMMA BootInv == ASSUME DiskInv, Restart \/ PowerCut PROVE DiskInv'
<1>1. /\ cfg' \in Configs /\ load' = "attach" /\ row' = 0 /\ cfg'.rows \in Nat
      /\ UNCHANGED <<maker, flushed>>
  BY ConfigsAssumption DEF Restart, PowerCut
<1>2. CASE Restart
  BY <1>1, <1>2 DEF Restart, DiskInv, FilesOK, Making, Marked, MakersRows, Served
<1>3. CASE PowerCut
  <2>1. PICK kept : bin' = Written(kept)
    BY <1>3 DEF PowerCut
  <2>2. /\ bin' \in Seq(Values) /\ medium' = bin' /\ Len(bin') = Len(bin)
        /\ medium = bin => bin' = bin
    BY <1>3, <2>1, WrittenOK DEF PowerCut
  <2>3. done' # done => done' = "torn"
    BY <1>3 DEF PowerCut
  <2>4. Marked'
    BY <1>1, <2>2, <2>3 DEF DiskInv, Marked, MakersRows
  <2>. QED
    BY <1>1, <2>2, <2>4 DEF DiskInv, FilesOK, Making, Served
<1>. QED
  BY <1>2, <1>3

LEMMA DiskStep == DiskInv /\ [Next]_vars => DiskInv'
<1> SUFFICES ASSUME DiskInv, [Next]_vars PROVE DiskInv'
  OBVIOUS
<1>1. CASE UNCHANGED diskVars
  BY <1>1 DEF diskVars, DiskInv, FilesOK, Making, Marked, MakersRows, Served, RowsOf
<1>2. CASE Load
  BY <1>2, AttachInv, FillRowInv, MarkInv DEF Load, LoadStep
<1>3. CASE Reboot
  BY <1>3, BootInv DEF Reboot
<1>4. Load \/ Reboot \/ UNCHANGED diskVars
  <2>1. ASSUME NEW w \in Workers, Worker(w) PROVE UNCHANGED diskVars
    BY <2>1 DEF Worker, Register, LoadFails, Killed, diskVars
  <2>2. ASSUME Side, ~Load PROVE UNCHANGED diskVars
    BY <2>2 DEF Side, Bind, Accept, Announce, LeaveLoop, diskVars
  <2>3. ASSUME Spawn \/ ReadReady \/ ReadyTimeout \/ Close \/ Joined \/ Terminate \/ KillChild
               \/ LoadRaises \/ MonitorParent
        PROVE  UNCHANGED diskVars
    BY <2>3 DEF Spawn, ReadReady, ReadyTimeout, Close, Joined, Terminate, KillChild,
                LoadRaises, MonitorParent, diskVars
  <2>. QED
    BY <2>1, <2>2, <2>3 DEF Next, vars
<1>. QED
  BY <1>1, <1>2, <1>3, <1>4

\* A table taken for complete is its maker's, row by row, whatever boots, changes of
\* checkpoint or load format, failures, failing flushes and power cuts came before
\* and however large it is; a table this boot filled is its own.
THEOREM TableIsAsMadeHolds == Spec => []TableIsAsMade
<1>1. DiskInv => TableIsAsMade
  <2> SUFFICES ASSUME DiskInv, load = "ready" PROVE TableIsAsMade
    BY DEF TableIsAsMade
  <2>1. DOMAIN bin = 1 .. Len(bin)
    BY LenProperties DEF DiskInv, FilesOK
  <2>. QED
    BY <2>1 DEF DiskInv, Served, MakersRows, TableIsAsMade
<1>. QED
  BY <1>1, InitDisk, DiskStep, PTL DEF Spec

-----------------------------------------------------------------------------
(* Start-up.                                                                 *)

Places == {"spawn", "load", "registered", "up", "failed", "join", "terminate",
           "kill", "closed", "dead"}

\* What each phase of the sidecar has behind it, and what READY says of it.
LifeInv == /\ gw \in [Workers -> Places]
           /\ side \in {"register", "announce", "serve"} => load = "ready"
           /\ side \in {"announce", "serve"} => got = Workers
           /\ ready = "READY" => got = Workers /\ load = "ready" /\ side \in {"serve", "exit"}
           /\ gw[Parent] = "up" => ready = "READY"
           /\ gw[Parent] = "spawn" => side = "none"

LEMMA LifeInit == Init => LifeInv
BY ParentAssumption DEF Init, DiskInit, FreshProcesses, LifeInv, Places

LEMMA LifeStep == LifeInv /\ [Next]_vars => LifeInv'
<1> SUFFICES ASSUME LifeInv, [Next]_vars PROVE LifeInv'
  OBVIOUS
<1>0. Parent \in Workers
  BY ParentAssumption
<1>1. CASE Load
  BY <1>1 DEF Load, lifeVars, LifeInv
<1>2. CASE Spawn
  BY <1>0, <1>2 DEF Spawn, diskVars, LifeInv, Places
<1>3. CASE ReadReady \/ ReadyTimeout
  BY <1>0, <1>3 DEF ReadReady, ReadyTimeout, diskVars, LifeInv, Places
<1>4. CASE Close \/ Joined \/ Terminate \/ KillChild
  BY <1>0, <1>4 DEF Close, Joined, Terminate, KillChild, Alive, Running, Closing, diskVars, LifeInv, Places
<1>5. ASSUME NEW w \in Workers, Worker(w) PROVE LifeInv'
  BY <1>0, <1>5 DEF Worker, Register, LoadFails, Killed, diskVars, LifeInv, Places
<1>6. CASE LoadRaises \/ MonitorParent
  BY <1>6 DEF LoadRaises, MonitorParent, Raise, diskVars, LifeInv, Places
<1>7. CASE Bind \/ Accept \/ Announce \/ LeaveLoop
  BY <1>7 DEF Bind, Accept, Announce, LeaveLoop, Raise, diskVars, LifeInv, Places
<1>8. CASE Reboot
  BY <1>0, <1>8 DEF Reboot, FreshProcesses_next, LifeInv, Places
<1>9. CASE UNCHANGED vars
  BY <1>9 DEF vars, diskVars, lifeVars, LifeInv
<1>. QED
  BY <1>1, <1>2, <1>3, <1>4, <1>5, <1>6, <1>7, <1>8, <1>9 DEF Next, Side

\* A parent that came up has a sidecar that took every registration and serves a
\* complete table, or that has ended since.
THEOREM ReadyMeansServingHolds == Spec => []ReadyMeansServing
<1>1. LifeInv => ReadyMeansServing
  BY DEF LifeInv, ReadyMeansServing
<1>. QED
  BY <1>1, LifeInit, LifeStep, PTL DEF Spec
=============================================================================
