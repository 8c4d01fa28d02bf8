--------------------------- MODULE GpuWorkerProofs ---------------------------
(* Theorems about GpuWorker for any number of workers and of calls: weight   *)
(* updates keep to their session, whichever calls fail and wherever;         *)
(* sleeping and waking by tags loses no buffers; and in any mix of graphs    *)
(* and plain runs each stage computes a step from the tensors of that step,  *)
(* though the static buffers are reused at once.                             *)
EXTENDS GpuWorker, SequenceTheorems, FiniteSetTheorems, TLAPS

CallRecords ==
    [kind : {"start"}, model : Models] \cup [kind : {"update", "finish"}]
    \cup [kind : {"execute"}, tokens : {0, 1}, full : BOOLEAN]
    \cup [kind : {"sleep"}, level : {1, 2}] \cup [kind : {"wake"}, tags : SUBSET Tags]

\* The calls an engine makes when it updates weights, and those it makes else.
Updates == {"start", "update", "finish"}

CallsOK == /\ calls \in Seq(CallRecords) /\ pos \in [Ranks -> Nat]
           /\ sleeping \subseteq Tags
           /\ workload = "weights" =>
                \A r \in Ranks : pos[r] \in {Len(calls), Len(calls) - 1}
           /\ \A i \in 1 .. Len(calls) : calls[i].kind \in Updates <=> workload = "weights"

SessionOK == /\ active \in [Ranks -> BOOLEAN] /\ target \in [Ranks -> Models]
             /\ replies \in [Ranks -> {"ok", "error"}]
             /\ \A r \in Ranks : ~active[r] => target[r] = "main"

Last == calls[Len(calls)]
Replied(r) == pos[r] = Len(calls)

\* A worker that has replied "ok" to the start of a session, or to a chunk of it,
\* has the session open on the caller's model; before a chunk every worker has.
InSession(r, m) == active[r] /\ target[r] = m
Open ==
    workload = "weights" /\ calls # <<>> => \A r \in Ranks :
        /\ Last.kind = "start" /\ Replied(r) /\ replies[r] = "ok" => InSession(r, Last.model)
        /\ Last.kind = "update" /\ (Replied(r) => replies[r] = "ok") => InSession(r, selected)

Inv == CallsOK /\ SessionOK /\ Open /\ ChunksInSelected

-----------------------------------------------------------------------------
LEMMA InvInit == Init => Inv
BY DEF Init, Inv, CallsOK, SessionOK, Open, ChunksInSelected, Models, Tags

\* Steps and sleep belong to other workloads, and touch no session.
LEMMA OtherCalls ==
    ASSUME Inv, NEW kind \in {"execute", "sleep", "wake"}, NEW r \in Ranks, Has(r, kind)
    PROVE  workload # "weights"
BY DEF Inv, CallsOK, Has, Call, Updates

LEMMA EngineInv == ASSUME Inv, EngineUpdates PROVE Inv'
<1>1. /\ workload = "weights" /\ AllReplied /\ selected' = Believed
      /\ UNCHANGED <<workload, pos, active, target, replies, loads, sleeping>>
  BY DEF EngineUpdates, step, memory
<1>2. PICK c \in CallRecords :
        /\ calls' = Append(calls, c) /\ c.kind \in Updates
        /\ c.kind = "update" => Believed # "none"
  <2>1. CASE \E m \in Models : calls' = Append(calls, [kind |-> "start", model |-> m])
    <3>1. PICK m \in Models : calls' = Append(calls, [kind |-> "start", model |-> m])
      BY <2>1
    <3>2. [kind |-> "start", model |-> m] \in CallRecords
      BY DEF CallRecords
    <3>. QED
      BY <3>1, <3>2 DEF Updates
  <2>2. [kind |-> "update"] \in CallRecords /\ [kind |-> "finish"] \in CallRecords
    BY DEF CallRecords
  <2>3. CASE Believed # "none" /\ calls' = Append(calls, [kind |-> "update"])
    BY <2>2, <2>3 DEF Updates
  <2>4. CASE calls' = Append(calls, [kind |-> "finish"])
    BY <2>2, <2>4 DEF Updates
  <2>. QED
    BY <2>1, <2>3, <2>4 DEF EngineUpdates
<1>3. /\ calls' \in Seq(CallRecords) /\ Len(calls') = Len(calls) + 1 /\ Len(calls) \in Nat
      /\ Last' = c /\ \A i \in 1 .. Len(calls) : calls'[i] = calls[i]
      /\ calls'[Len(calls) + 1] = c
  BY <1>2 DEF Inv, CallsOK, Last
<1>4. \A r \in Ranks : pos[r] = Len(calls) /\ pos'[r] = pos[r] /\ ~Replied(r)'
  BY <1>1, <1>3 DEF AllReplied, Replied
<1>5. CallsOK'
  <2>1. \A i \in 1 .. Len(calls') : calls'[i].kind \in Updates <=> workload = "weights"
    BY <1>1, <1>2, <1>3 DEF Inv, CallsOK
  <2>. QED
    BY <1>1, <1>3, <1>4, <2>1 DEF Inv, CallsOK
<1>6. SessionOK' /\ ChunksInSelected'
  BY <1>1 DEF Inv, SessionOK, ChunksInSelected
<1>7. Believed # "none" => \A r \in Ranks : InSession(r, Believed)
  <2> SUFFICES ASSUME Believed # "none", NEW r \in Ranks PROVE InSession(r, Believed)
    OBVIOUS
  <2>1. /\ calls # <<>> /\ replies[r] = "ok" /\ Replied(r)
        /\ Believed = IF Last.kind = "start" THEN Last.model
                      ELSE IF Last.kind = "finish" THEN "none" ELSE selected
    BY <1>4 DEF Believed, Last, Replied
  <2>2. Len(calls) \in 1 .. Len(calls) /\ Last.kind \in Updates
    BY <1>1, <2>1 DEF Inv, CallsOK, Last
  <2>. QED
    BY <1>1, <2>1, <2>2 DEF Inv, Open, Updates
<1>8. Open'
  BY <1>1, <1>2, <1>3, <1>4, <1>7 DEF Open, InSession
<1>. QED
  BY <1>5, <1>6, <1>8 DEF Inv

\* What is true of a worker that takes a call of a weight update: it is the last.
LEMMA TakesLast ==
    ASSUME Inv, NEW kind \in Updates, NEW r \in Ranks, Has(r, kind)
    PROVE  /\ workload = "weights" /\ pos[r] = Len(calls) - 1 /\ Len(calls) \in Nat \ {0}
           /\ Call(r) = Last /\ Last.kind = kind /\ calls # <<>>
           /\ kind = "start" => Last.model \in Models
<1>1. /\ pos[r] \in Nat /\ Len(calls) \in Nat /\ pos[r] < Len(calls)
      /\ calls[pos[r] + 1].kind = kind /\ calls[pos[r] + 1] \in CallRecords
  BY DEF Inv, CallsOK, Has, Call
<1>2. workload = "weights"
  BY <1>1 DEF Inv, CallsOK
<1>3. pos[r] = Len(calls) - 1
  BY <1>1, <1>2 DEF Inv, CallsOK
<1>4. kind = "start" => calls[pos[r] + 1].model \in Models
  BY <1>1 DEF CallRecords
<1>. QED
  BY <1>1, <1>2, <1>3, <1>4 DEF Call, Last

LEMMA WorkerInv ==
    ASSUME Inv, NEW r \in Ranks, StartUpdate(r) \/ UpdateWeights(r) \/ FinishUpdate(r)
    PROVE  Inv'
<1>1. PICK kind \in Updates : Has(r, kind) /\ Took(r) /\ Last.kind = kind
  BY TakesLast DEF StartUpdate, UpdateWeights, FinishUpdate, Updates
<1>2. /\ workload = "weights" /\ pos[r] = Len(calls) - 1 /\ Len(calls) \in Nat \ {0}
      /\ Call(r) = Last /\ calls # <<>> /\ (kind = "start" => Last.model \in Models)
  BY <1>1, TakesLast
<1>3. UNCHANGED <<workload, calls, selected, sleeping>>
  BY DEF StartUpdate, UpdateWeights, FinishUpdate, memory
<1>4. /\ active \in [Ranks -> BOOLEAN] /\ target \in [Ranks -> Models]
      /\ replies \in [Ranks -> {"ok", "error"}] /\ pos \in [Ranks -> Nat]
      /\ \A q \in Ranks : ~active[q] => target[q] = "main"
  BY DEF Inv, SessionOK, CallsOK
<1>5. pos' = [pos EXCEPT ![r] = Len(calls)]
  BY <1>1, <1>2, <1>4 DEF Took
<1>6. CallsOK'
  BY <1>2, <1>3, <1>5 DEF Inv, CallsOK
<1>7. Last' = Last /\ \A q \in Ranks : Replied(q)' <=> (q = r \/ Replied(q))
  BY <1>2, <1>3, <1>4, <1>5 DEF Last, Replied
<1>8. ~Replied(r)
  BY <1>2 DEF Replied
<1>9. SessionOK'
  <2>1. CASE StartUpdate(r)
    <3>1. CASE active[r]
      BY <1>4, <2>1, <3>1 DEF StartUpdate, Rejects, Replies, SessionOK
    <3>2. CASE ~active[r]
      <4>1. \E outcome \in {"ok", "error"} : replies' = [replies EXCEPT ![r] = outcome]
        BY <2>1, <3>2 DEF StartUpdate, Replies
      <4>2. CASE target' = [target EXCEPT ![r] = "main"] /\ UNCHANGED active
        BY <1>4, <4>1, <4>2 DEF SessionOK, Models
      <4>3. CASE active' = [active EXCEPT ![r] = TRUE] /\ target' = [target EXCEPT ![r] = "draft"]
        BY <1>4, <4>1, <4>3 DEF SessionOK, Models
      <4>4. CASE active' = [active EXCEPT ![r] = TRUE] /\ UNCHANGED target
        BY <1>4, <4>1, <4>4 DEF SessionOK, Models
      <4>. QED
        BY <2>1, <3>2, <4>2, <4>3, <4>4 DEF StartUpdate
    <3>. QED
      BY <3>1, <3>2
  <2>2. CASE UpdateWeights(r)
    BY <1>4, <2>2 DEF UpdateWeights, Rejects, Replies, Loaded, SessionOK, Models
  <2>3. CASE FinishUpdate(r)
    BY <1>4, <2>3 DEF FinishUpdate, Rejects, Replies, SessionOK, Models
  <2>. QED
    BY <2>1, <2>2, <2>3
<1>10. \A q \in Ranks \ {r} : /\ active'[q] = active[q] /\ target'[q] = target[q]
                             /\ replies'[q] = replies[q]
  BY <1>4 DEF StartUpdate, UpdateWeights, FinishUpdate, Rejects, Replies, Loaded
<1>11. Last.kind = "start" /\ replies'[r] = "ok" => InSession(r, Last.model)'
  <2> SUFFICES ASSUME Last.kind = "start", replies'[r] = "ok" PROVE InSession(r, Last.model)'
    OBVIOUS
  <2>1. StartUpdate(r)
    BY <1>1, <1>2, TakesLast DEF UpdateWeights, FinishUpdate, Has
  <2>2. ~active[r]
    BY <1>4, <2>1 DEF StartUpdate, Rejects, Replies
  <2>3. active'[r] /\ target'[r] = IF Last.model = "draft" THEN "draft" ELSE "main"
    BY <1>2, <1>4, <2>1, <2>2 DEF StartUpdate, Replies
  <2>. QED
    BY <1>1, <1>2, <1>7, <2>3 DEF InSession, Models
<1>12. Last.kind = "update" => InSession(r, selected)
  BY <1>2, <1>8 DEF Inv, Open
<1>13. Last.kind = "update" /\ replies'[r] = "ok" => InSession(r, selected)'
  <2> SUFFICES ASSUME Last.kind = "update", replies'[r] = "ok" PROVE InSession(r, selected)'
    OBVIOUS
  <2>1. UpdateWeights(r)
    BY <1>1, <1>2, TakesLast DEF StartUpdate, FinishUpdate, Has
  <2>. QED
    BY <1>3, <1>4, <1>12, <2>1 DEF UpdateWeights, Rejects, Replies, InSession
<1>14. Open'
  <2> SUFFICES ASSUME NEW q \in Ranks
               PROVE  /\ Last.kind = "start" /\ Replied(q)' /\ replies'[q] = "ok"
                            => InSession(q, Last.model)'
                      /\ Last.kind = "update" /\ (Replied(q)' => replies'[q] = "ok")
                            => InSession(q, selected)'
    BY <1>3, <1>7 DEF Open
  <2>1. CASE q = r
    BY <1>7, <1>11, <1>13, <2>1
  <2>2. CASE q # r
    BY <1>2, <1>3, <1>7, <1>10, <2>2 DEF Inv, Open, InSession
  <2>. QED
    BY <2>1, <2>2
<1>15. ChunksInSelected'
  <2>1. CASE Last.kind = "update"
    BY <1>3, <1>12, <2>1 DEF StartUpdate, UpdateWeights, FinishUpdate, Loaded, Rejects, Inv,
                             ChunksInSelected, InSession
  <2>2. CASE Last.kind # "update"
    BY <1>1, <1>2, <1>3, <2>2, TakesLast
    DEF StartUpdate, UpdateWeights, FinishUpdate, Rejects, Has, Inv, ChunksInSelected
  <2>. QED
    BY <2>1, <2>2
<1>. QED
  BY <1>6, <1>9, <1>14, <1>15 DEF Inv

\* Steps and sleep: no session is touched, and no call of one is made.
LEMMA OthersInv ==
    ASSUME Inv, EngineSteps \/ EngineSleeps \/ Sleep \/ WakeUp
                \/ (\E r \in Ranks : Execute(r) \/ Device(r) \/ Transfer(r))
    PROVE  Inv'
<1>1. UNCHANGED <<workload, session>>
  BY DEF EngineSteps, EngineSleeps, Sleep, WakeUp, Execute, Device, Transfer
<1>2. SessionOK' /\ ChunksInSelected'
  BY <1>1 DEF Inv, SessionOK, ChunksInSelected, session
<1>3. CASE EngineSteps \/ EngineSleeps
  <2>1. workload # "weights" /\ UNCHANGED pos /\ sleeping' \subseteq Tags
    BY <1>3 DEF EngineSteps, EngineSleeps, memory, Inv, CallsOK
  <2>2. PICK c \in CallRecords : calls' = Append(calls, c) /\ c.kind \notin Updates
    <3>1. CASE EngineSteps
      <4>1. PICK tokens \in {0, 1}, full \in BOOLEAN :
              calls' = Append(calls, [kind |-> "execute", tokens |-> tokens, full |-> full])
        BY <3>1 DEF EngineSteps
      <4>2. [kind |-> "execute", tokens |-> tokens, full |-> full] \in CallRecords
        BY DEF CallRecords
      <4>. QED
        BY <4>1, <4>2 DEF Updates
    <3>2. CASE EngineSleeps /\ \E l \in {1, 2} : calls' = Append(calls, [kind |-> "sleep", level |-> l])
      <4>1. PICK l \in {1, 2} : calls' = Append(calls, [kind |-> "sleep", level |-> l])
        BY <3>2
      <4>2. [kind |-> "sleep", level |-> l] \in CallRecords
        BY DEF CallRecords
      <4>. QED
        BY <4>1, <4>2 DEF Updates
    <3>3. CASE EngineSleeps /\ \E tags \in SUBSET sleeping :
                 calls' = Append(calls, [kind |-> "wake", tags |-> tags])
      <4>1. PICK tags \in SUBSET sleeping : calls' = Append(calls, [kind |-> "wake", tags |-> tags])
        BY <3>3
      <4>2. [kind |-> "wake", tags |-> tags] \in CallRecords
        BY DEF CallRecords, Inv, CallsOK
      <4>. QED
        BY <4>1, <4>2 DEF Updates
    <3>. QED
      BY <1>3, <3>1, <3>2, <3>3 DEF EngineSleeps
  <2>3. CallsOK'
    BY <1>1, <2>1, <2>2 DEF Inv, CallsOK
  <2>. QED
    BY <1>1, <1>2, <2>1, <2>3 DEF Inv, Open
<1>4. CASE Sleep \/ WakeUp \/ (\E r \in Ranks : Execute(r))
  <2>1. workload # "weights"
    <3>1. CASE Sleep \/ WakeUp
      <4>1. PICK kind \in {"sleep", "wake"} : Has(0, kind)
        BY <3>1 DEF Sleep, WakeUp
      <4>. QED
        BY <4>1, GpuWorkerAssumption, OtherCalls DEF Ranks
    <3>2. CASE \E r \in Ranks : Execute(r)
      BY <3>2, OtherCalls DEF Execute
    <3>. QED
      BY <1>4, <3>1, <3>2
  <2>2. pos' \in [Ranks -> Nat] /\ UNCHANGED <<calls, sleeping>>
    <3>1. pos \in [Ranks -> Nat]
      BY DEF Inv, CallsOK
    <3>2. CASE Sleep \/ WakeUp
      <4>1. pos' = [r \in Ranks |-> pos[r] + 1] /\ UNCHANGED <<calls, sleeping>>
        BY <3>2 DEF Sleep, WakeUp
      <4>. QED
        BY <3>1, <4>1
    <3>3. ASSUME NEW r \in Ranks, Execute(r)
          PROVE  pos' \in [Ranks -> Nat] /\ UNCHANGED <<calls, sleeping>>
      <4>1. pos' = [pos EXCEPT ![r] = @ + 1] /\ calls' = calls /\ memory' = memory
        BY <3>3 DEF Execute, Took
      <4>. QED
        BY <3>1, <4>1 DEF memory
    <3>. QED
      BY <1>4, <3>2, <3>3
  <2>. QED
    BY <1>1, <1>2, <2>1, <2>2 DEF Inv, CallsOK, Open
<1>5. CASE \E r \in Ranks : Device(r) \/ Transfer(r)
  <2>1. UNCHANGED <<calls, pos, sleeping>>
    <3>1. ASSUME NEW r \in Ranks, Device(r) PROVE UNCHANGED <<calls, pos, sleeping>>
      BY <3>1 DEF Device, memory
    <3>2. ASSUME NEW r \in Ranks, Transfer(r) PROVE UNCHANGED <<calls, pos, sleeping>>
      BY <3>2 DEF Transfer, memory
    <3>. QED
      BY <1>5, <3>1, <3>2
  <2>. QED
    <3>1. CallsOK'
      BY <1>1, <2>1 DEF Inv, CallsOK
    <3>2. UNCHANGED <<active, target, replies, selected>>
      BY <1>1 DEF session
    <3>3. Open'
      BY <1>1, <2>1, <3>2 DEF Inv, Open, Last, Replied, InSession
    <3>. QED
      BY <1>2, <3>1, <3>3 DEF Inv
<1>. QED
  BY <1>3, <1>4, <1>5

LEMMA InvStep == Inv /\ [Next]_vars => Inv'
<1> SUFFICES ASSUME Inv, [Next]_vars PROVE Inv'
  OBVIOUS
<1>1. CASE UNCHANGED vars
  BY <1>1 DEF vars, session, memory, Inv, CallsOK, SessionOK, Open, ChunksInSelected, Last,
              Replied, InSession
<1>2. CASE Next
  BY <1>2, EngineInv, WorkerInv, OthersInv DEF Next
<1>. QED
  BY <1>1, <1>2

\* No worker loads a chunk into another model than the one its caller selected.
THEOREM ChunksInSelectedHolds == Spec => []ChunksInSelected
<1>1. Inv => ChunksInSelected
  BY DEF Inv
<1>. QED
  BY <1>1, InvInit, InvStep, PTL DEF Spec

-----------------------------------------------------------------------------
(* Sleep.                                                                    *)

Sleeps == {"sleep", "wake"}

\* Sleeping calls come one at a time; what the executor believes to be asleep is
\* what is not mapped, but for the call that is under way.
MemoryOK ==
    /\ mapped \subseteq Tags /\ buffers \in [Models -> BOOLEAN]
    /\ \A i \in 1 .. Len(calls) : calls[i].kind \in Sleeps <=> workload = "sleep"
    /\ workload = "sleep" => \A r \in Ranks : pos[r] = pos[0] /\ pos[r] \in {Len(calls), Len(calls) - 1}
    /\ workload = "sleep" /\ pos[0] = Len(calls) => sleeping = Tags \ mapped
    /\ workload = "sleep" /\ pos[0] = Len(calls) - 1 =>
        \/ Last.kind = "sleep" /\ mapped = Tags /\ sleeping = Tags
        \/ Last.kind = "wake" /\ sleeping = Tags \ (mapped \cup Last.tags)

\* A buffer that lost its contents is saved, and is not missing from live weights.
BuffersKept == \A m \in Models : buffers[m] \/ (m \in saved /\ "weights" \notin mapped)

SleepInv == CallsOK /\ MemoryOK /\ BuffersKept

LEMMA SleepInit == Init => SleepInv
BY GpuWorkerAssumption DEF Init, SleepInv, CallsOK, MemoryOK, BuffersKept, Models, Tags, Ranks

\* The calls of the other workloads leave the memory alone.
LEMMA AwakeInv ==
    ASSUME SleepInv, CallsOK', workload # "sleep", UNCHANGED <<workload, mapped, buffers, saved>>,
           \A i \in 1 .. Len(calls') : calls'[i].kind \notin Sleeps
    PROVE  SleepInv'
BY DEF SleepInv, MemoryOK, BuffersKept

LEMMA EngineSleepsInv == ASSUME SleepInv, CallsOK', EngineSleeps PROVE SleepInv'
<1>1. /\ workload = "sleep" /\ \A r \in Ranks : pos[r] = Len(calls)
      /\ UNCHANGED <<workload, pos, mapped, buffers, saved>>
  BY DEF EngineSleeps, AllReplied
<1>2. /\ 0 \in Ranks /\ calls \in Seq(CallRecords) /\ Len(calls) \in Nat
      /\ sleeping = Tags \ mapped /\ mapped \subseteq Tags
  BY <1>1, GpuWorkerAssumption DEF Ranks, SleepInv, CallsOK, MemoryOK
<1>3. PICK c : /\ calls' = Append(calls, c)
               /\ \/ c.kind = "sleep" /\ sleeping = {} /\ sleeping' = Tags
                  \/ c.kind = "wake" /\ c.tags \subseteq sleeping /\ sleeping' = sleeping \ c.tags
  <2>1. CASE sleeping = {} /\ sleeping' = Tags
             /\ \E l \in {1, 2} : calls' = Append(calls, [kind |-> "sleep", level |-> l])
    BY <2>1
  <2>2. CASE \E tags \in SUBSET sleeping \ {{}} :
               /\ sleeping' = sleeping \ tags
               /\ calls' = Append(calls, [kind |-> "wake", tags |-> tags])
    <3>1. PICK tags \in SUBSET sleeping : /\ sleeping' = sleeping \ tags
                                          /\ calls' = Append(calls, [kind |-> "wake", tags |-> tags])
      BY <2>2
    <3>2. [kind |-> "wake", tags |-> tags].tags = tags
      OBVIOUS
    <3>. QED
      BY <3>1, <3>2
  <2>. QED
    BY <2>1, <2>2 DEF EngineSleeps
<1>4. /\ Len(calls') = Len(calls) + 1 /\ calls'[Len(calls) + 1] = c /\ Last' = c
      /\ \A i \in 1 .. Len(calls) : calls'[i] = calls[i]
  BY <1>2, <1>3 DEF Last
<1>5. MemoryOK'
  <2>1. \A i \in 1 .. Len(calls') : calls'[i].kind \in Sleeps <=> workload = "sleep"
    BY <1>1, <1>2, <1>3, <1>4 DEF SleepInv, MemoryOK, Sleeps
  <2>2. \/ Last'.kind = "sleep" /\ mapped = Tags /\ sleeping' = Tags
        \/ Last'.kind = "wake" /\ sleeping' = Tags \ (mapped \cup Last'.tags)
    BY <1>2, <1>3, <1>4
  <2>3. \A r \in Ranks : pos'[r] = Len(calls') - 1
    BY <1>1, <1>2, <1>4
  <2>. QED
    BY <1>1, <1>2, <1>4, <2>1, <2>2, <2>3 DEF SleepInv, MemoryOK
<1>. QED
  BY <1>1, <1>5 DEF SleepInv, BuffersKept

LEMMA SleepWakeInv == ASSUME SleepInv, CallsOK', Sleep \/ WakeUp PROVE SleepInv'
<1>1. /\ 0 \in Ranks /\ calls \in Seq(CallRecords) /\ Len(calls) \in Nat
      /\ pos \in [Ranks -> Nat] /\ UNCHANGED <<workload, calls, sleeping>>
      /\ pos' = [r \in Ranks |-> pos[r] + 1]
  BY GpuWorkerAssumption DEF Ranks, SleepInv, CallsOK, Sleep, WakeUp
<1>2. /\ pos[0] < Len(calls) /\ calls[pos[0] + 1].kind \in Sleeps
      /\ Sleep => calls[pos[0] + 1].kind = "sleep"
      /\ WakeUp => calls[pos[0] + 1].kind = "wake"
  BY DEF Sleep, WakeUp, Has, Call, Sleeps
<1>3. workload = "sleep" /\ pos[0] = Len(calls) - 1
  BY <1>1, <1>2 DEF SleepInv, MemoryOK
<1>4. Call(0) = Last /\ Last' = Last
  BY <1>1, <1>3 DEF Call, Last
<1>5. \A r \in Ranks : pos'[r] = Len(calls)
  BY <1>1, <1>3 DEF SleepInv, MemoryOK
<1>6. CASE Sleep
  <2>1. mapped = Tags /\ sleeping = Tags /\ mapped' = {}
    BY <1>2, <1>3, <1>4, <1>6 DEF SleepInv, MemoryOK, Sleep, Call
  <2>2. \A m \in Models : buffers[m]
    BY <2>1 DEF SleepInv, BuffersKept, Tags
  <2>3. /\ buffers' \in [Models -> BOOLEAN]
        /\ \A m \in Models : buffers'[m] \/ m \in saved'
    BY <1>6, <2>2 DEF Sleep, SleepInv, MemoryOK
  <2>4. MemoryOK'
    BY <1>1, <1>3, <1>5, <2>1, <2>3 DEF SleepInv, MemoryOK
  <2>. QED
    BY <2>1, <2>3, <2>4 DEF SleepInv, BuffersKept
<1>7. CASE WakeUp
  <2>1. sleeping = Tags \ (mapped \cup Last.tags) /\ mapped' = mapped \cup Last.tags
    BY <1>2, <1>3, <1>4, <1>7 DEF SleepInv, MemoryOK, WakeUp, Call
  <2>2. Last.tags \subseteq Tags
    <3>1. Last \in CallRecords /\ Last.kind = "wake"
      BY <1>1, <1>2, <1>3, <1>4, <1>7 DEF Last, Call
    <3>. QED
      BY <3>1 DEF CallRecords
  <2>3. buffers' \in [Models -> BOOLEAN] /\ BuffersKept'
    <3>1. CASE "weights" \in Last.tags
      <4>1. buffers' = [m \in Models |-> buffers[m] \/ m \in saved]
        BY <1>4, <1>7, <3>1 DEF WakeUp
      <4>2. \A m \in Models : buffers[m] \/ m \in saved
        BY DEF SleepInv, BuffersKept
      <4>3. \A m \in Models : buffers'[m]
        BY <4>1, <4>2
      <4>4. buffers' \in [Models -> BOOLEAN]
        BY <4>1, Zenon
      <4>. QED
        BY <4>3, <4>4 DEF BuffersKept
    <3>2. CASE "weights" \notin Last.tags
      BY <1>4, <1>7, <2>1, <3>2 DEF WakeUp, SleepInv, MemoryOK, BuffersKept
    <3>. QED
      BY <3>1, <3>2
  <2>4. MemoryOK'
    BY <1>1, <1>3, <1>5, <2>1, <2>2, <2>3 DEF SleepInv, MemoryOK
  <2>. QED
    BY <2>3, <2>4 DEF SleepInv
<1>. QED
  BY <1>6, <1>7

LEMMA SleepStep == Inv /\ SleepInv /\ [Next]_vars => SleepInv'
<1> SUFFICES ASSUME Inv, SleepInv, [Next]_vars PROVE SleepInv'
  OBVIOUS
<1>0. CallsOK'
  BY InvStep DEF Inv
<1>1. CASE UNCHANGED vars
  BY <1>0, <1>1 DEF vars, memory, SleepInv, MemoryOK, BuffersKept, Last
<1>2. CASE EngineSleeps \/ Sleep \/ WakeUp
  BY <1>0, <1>2, EngineSleepsInv, SleepWakeInv
<1>3. ASSUME workload # "sleep", UNCHANGED <<workload, mapped, buffers, saved>>,
             \/ UNCHANGED calls
             \/ \E c : calls' = Append(calls, c) /\ c.kind \notin Sleeps
      PROVE  SleepInv'
  <2>1. calls \in Seq(CallRecords) /\ \A i \in 1 .. Len(calls) : calls[i].kind \notin Sleeps
    BY <1>3 DEF SleepInv, CallsOK, MemoryOK
  <2>2. \A i \in 1 .. Len(calls') : calls'[i].kind \notin Sleeps
    BY <1>3, <2>1
  <2>. QED
    BY <1>0, <1>3, <2>2, AwakeInv
<1>4. CASE EngineSteps
  <2>1. PICK tokens \in {0, 1}, full \in BOOLEAN :
          calls' = Append(calls, [kind |-> "execute", tokens |-> tokens, full |-> full])
    BY <1>4 DEF EngineSteps
  <2>2. \E c : calls' = Append(calls, c) /\ c.kind \notin Sleeps
    BY <2>1 DEF Sleeps
  <2>. QED
    BY <1>3, <1>4, <2>2 DEF EngineSteps, memory
<1>5. CASE EngineUpdates
  <2>1. \E c : calls' = Append(calls, c) /\ c.kind \notin Sleeps
    <3>1. CASE \E m \in Models : calls' = Append(calls, [kind |-> "start", model |-> m])
      BY <3>1 DEF Sleeps
    <3>2. CASE calls' = Append(calls, [kind |-> "update"])
      BY <3>2 DEF Sleeps
    <3>3. CASE calls' = Append(calls, [kind |-> "finish"])
      BY <3>3 DEF Sleeps
    <3>. QED
      BY <1>5, <3>1, <3>2, <3>3 DEF EngineUpdates
  <2>. QED
    BY <1>3, <1>5, <2>1 DEF EngineUpdates, memory
<1>6. ASSUME NEW r \in Ranks,
             Execute(r) \/ StartUpdate(r) \/ UpdateWeights(r) \/ FinishUpdate(r)
      PROVE  SleepInv'
  <2>1. PICK kind \in {"execute", "start", "update", "finish"} : Has(r, kind)
    BY <1>6 DEF Execute, StartUpdate, UpdateWeights, FinishUpdate
  <2>2. workload # "sleep"
    BY <2>1 DEF SleepInv, CallsOK, MemoryOK, Has, Call, Sleeps
  <2>. QED
    BY <1>3, <1>6, <2>2 DEF Execute, StartUpdate, UpdateWeights, FinishUpdate, memory
<1>7. ASSUME NEW r \in Ranks, Device(r) \/ Transfer(r) PROVE SleepInv'
  <2>1. UNCHANGED <<workload, calls, pos, memory>>
    BY <1>7 DEF Device, Transfer
  <2>. QED
    BY <1>0, <2>1 DEF memory, SleepInv, MemoryOK, BuffersKept, Last
<1>. QED
  BY <1>1, <1>2, <1>4, <1>5, <1>6, <1>7 DEF Next

\* When the weights are awake the buffers of both models hold what they did,
\* whichever levels and tags came before.
THEOREM BuffersSurviveHolds == Spec => []BuffersSurvive
<1>1. SleepInv => BuffersSurvive
  BY DEF SleepInv, BuffersKept, BuffersSurvive
<1>. QED
  BY <1>1, InvInit, InvStep, SleepInit, SleepStep, PTL DEF Spec

-----------------------------------------------------------------------------
(* Steps with tokens: the tensors between the stages.                        *)

Ops == {"wait_send", "irecv", "wait_recv", "copy", "forward", "isend"}
Items == [op : Ops, n : Nat]

StepCalls == [kind : {"execute"}, tokens : {0, 1}, full : BOOLEAN]

Typed ==
    /\ calls \in Seq(StepCalls)
    /\ pos \in [Ranks -> Nat] /\ \A r \in Ranks : pos[r] <= Len(calls)
    /\ stream \in [Ranks -> Seq(Items)] /\ wire \in [Ranks -> Seq(Nat)]
    /\ pending \in [Ranks -> SUBSET Nat] /\ \A r \in Ranks : pending[r] \subseteq {pos[r]}
    /\ open \in [Ranks -> SUBSET ({"send", "recv"} \X Nat)]
    /\ sent \in [Ranks -> SUBSET Nat]
    /\ DOMAIN got = Ranks /\ DOMAIN fresh = Ranks /\ DOMAIN computed = Ranks
    /\ DOMAIN inBuf = Ranks /\ DOMAIN outBuf = Ranks

\* Metadata: the steps with tokens that the stage before has taken and this one has
\* not, in order; and this one is never ahead by such a step.
WireOK(r) ==
    /\ \A i, j \in 1 .. Len(wire[r]) : i < j => wire[r][i] < wire[r][j]
    /\ \A i \in 1 .. Len(wire[r]) :
           wire[r][i] \in pos[r] + 1 .. pos[r - 1] /\ calls[wire[r][i]].tokens > 0
    /\ \A n \in pos[r] + 1 .. pos[r - 1] :
           calls[n].tokens > 0 => \E i \in 1 .. Len(wire[r]) : wire[r][i] = n
    /\ \A n \in pos[r - 1] + 1 .. pos[r] : calls[n].tokens = 0

\* The outputs of step n are where a transfer will read them.
Output(r, n) == IF calls[n].full THEN outBuf[r] = n ELSE n \in DOMAIN fresh[r]

\* Item y of rank r comes right behind the item that prepares it.
Follows(y, x, r) ==
    /\ y.op = "forward" /\ r > 0 => x = Item("copy", y.n)
    /\ y.op = "copy" => x = Item("wait_recv", y.n)
    /\ y.op = "isend" => x = Item("forward", y.n)

\* What that item has left, when it has been run.
Ready(y, r) ==
    /\ y.op = "forward" /\ r > 0 => inBuf[r] = y.n
    /\ y.op = "copy" => y.n \in DOMAIN got[r]
    /\ y.op = "isend" => Output(r, y.n)

Linked(s, r) == \A i \in 2 .. Len(s) : Follows(s[i], s[i - 1], r)

Prepared(r) == /\ Linked(stream[r], r)
               /\ stream[r] # <<>> => Ready(Head(stream[r]), r)

\* Behind the first k items no forward comes before the wait for the send of n,
\* which the next step will enqueue if it is still in p (_pp_send_work).
Shielded(s, k, n, p) ==
    \/ n \in p /\ \A i \in k + 1 .. Len(s) : s[i].op # "forward"
    \/ \E j \in k + 1 .. Len(s) :
           s[j] = Item("wait_send", n) /\ \A i \in k + 1 .. j - 1 : s[i].op # "forward"

\* A send is enqueued once, for a step that was taken, and no forward overtakes it,
\* whether it is still in the stream or open.
QueuedSends(r) ==
    \A k \in 1 .. Len(stream[r]) : stream[r][k].op = "isend" =>
        LET n == stream[r][k].n
        IN  /\ n \in 1 .. pos[r] /\ n \notin sent[r] /\ <<"send", n>> \notin open[r]
            /\ Shielded(stream[r], k, n, pending[r])
            /\ \A i \in 1 .. Len(stream[r]) : stream[r][i] = stream[r][k] => i = k
OpenSends(r) ==
    \A n \in Nat : <<"send", n>> \in open[r] =>
        /\ n \in 1 .. pos[r] /\ n \notin sent[r]
        /\ Output(r, n) /\ Shielded(stream[r], 0, n, pending[r])
SendsOK(r) == (\A n \in sent[r] : n <= pos[r]) /\ QueuedSends(r) /\ OpenSends(r)

\* Forwards are of steps that were taken, and what is recorded of a step is of that step.
ContentsOK(r) ==
    /\ \A k \in 1 .. Len(stream[r]) : stream[r][k].op = "forward" => stream[r][k].n \in 1 .. pos[r]
    /\ \A n \in DOMAIN got[r] : got[r][n] = n
    /\ \A n \in DOMAIN fresh[r] : fresh[r][n] = n
    /\ \A n \in DOMAIN computed[r] : computed[r][n] = n

RankOK(r) == (r > 0 => WireOK(r)) /\ Prepared(r) /\ SendsOK(r) /\ ContentsOK(r)
Steps == Typed /\ \A r \in Ranks : RankOK(r)

\* With another workload no step is ever enqueued.
Idle ==
    /\ \A i \in 1 .. Len(calls) : calls[i].kind # "execute"
    /\ \A r \in Ranks : stream[r] = <<>> /\ open[r] = {} /\ computed[r] = <<>>

StepInv == IF workload = "steps" THEN Steps ELSE Idle

-----------------------------------------------------------------------------
(* Sequences of items.                                                       *)

LEMMA ShieldTail ==
    ASSUME NEW s \in Seq(Items), s # <<>>, NEW k \in Nat, NEW n, NEW p, Shielded(s, k + 1, n, p)
    PROVE  Shielded(Tail(s), k, n, p)
<1>1. /\ Len(s) \in Nat /\ Len(Tail(s)) = Len(s) - 1
      /\ \A i \in 1 .. Len(s) - 1 : Tail(s)[i] = s[i + 1]
  BY HeadTailProperties, LenProperties
<1>2. CASE n \in p /\ \A i \in k + 2 .. Len(s) : s[i].op # "forward"
  <2>1. \A i \in k + 1 .. Len(s) - 1 : i \in 1 .. Len(s) - 1 /\ i + 1 \in k + 2 .. Len(s)
    BY <1>1
  <2>. QED
    BY <1>1, <1>2, <2>1 DEF Shielded
<1>3. CASE \E j \in k + 2 .. Len(s) :
             s[j] = Item("wait_send", n) /\ \A i \in k + 2 .. j - 1 : s[i].op # "forward"
  <2>1. PICK j \in k + 2 .. Len(s) :
          s[j] = Item("wait_send", n) /\ \A i \in k + 2 .. j - 1 : s[i].op # "forward"
    BY <1>3
  <2>2. /\ j - 1 \in k + 1 .. Len(s) - 1 /\ j - 1 \in 1 .. Len(s) - 1 /\ (j - 1) + 1 = j
        /\ \A i \in k + 1 .. j - 2 : i \in 1 .. Len(s) - 1 /\ i + 1 \in k + 2 .. j - 1
    BY <1>1
  <2>3. /\ Tail(s)[j - 1] = Item("wait_send", n)
        /\ \A i \in k + 1 .. j - 2 : Tail(s)[i].op # "forward"
    BY <1>1, <2>1, <2>2
  <2>4. (j - 1) - 1 = j - 2
    BY <1>1
  <2>. QED
    BY <1>1, <2>2, <2>3, <2>4 DEF Shielded
<1>4. (k + 1) + 1 = k + 2
  OBVIOUS
<1>. QED
  BY <1>2, <1>3, <1>4 DEF Shielded

\* What is shielded stays so while the device runs anything but the wait for it.
LEMMA ShieldPop ==
    ASSUME NEW s \in Seq(Items), s # <<>>, NEW n, NEW p, Shielded(s, 0, n, p),
           Head(s) # Item("wait_send", n)
    PROVE  Head(s).op # "forward" /\ Shielded(Tail(s), 0, n, p)
<1>1. Len(s) \in Nat /\ Len(s) >= 1 /\ Head(s) = s[1]
  BY LenProperties, HeadTailProperties
<1>2. Head(s).op # "forward" /\ Shielded(s, 1, n, p)
  <2>1. CASE n \in p /\ \A i \in 1 .. Len(s) : s[i].op # "forward"
    BY <1>1, <2>1 DEF Shielded
  <2>2. CASE \E j \in 1 .. Len(s) :
               s[j] = Item("wait_send", n) /\ \A i \in 1 .. j - 1 : s[i].op # "forward"
    BY <1>1, <2>2 DEF Shielded
  <2>. QED
    BY <2>1, <2>2 DEF Shielded
<1>3. Shielded(s, 0 + 1, n, p)
  BY <1>2
<1>. QED
  BY <1>2, <1>3, ShieldTail

\* ... and when the next step's items are enqueued behind it, which begin with the wait.
LEMMA ShieldAppend ==
    ASSUME NEW s \in Seq(Items), NEW b \in Seq(Items), NEW k \in 0 .. Len(s), NEW n, NEW p, NEW q,
           Shielded(s, k, n, p), n \in p => b # <<>> /\ b[1] = Item("wait_send", n)
    PROVE  Shielded(s \o b, k, n, q)
<1>1. /\ Len(s) \in Nat /\ Len(b) \in Nat /\ Len(s \o b) = Len(s) + Len(b)
      /\ b # <<>> => Len(b) >= 1
      /\ \A i \in 1 .. Len(s) + Len(b) : (s \o b)[i] = IF i <= Len(s) THEN s[i] ELSE b[i - Len(s)]
  BY ConcatProperties, LenProperties, EmptySeq
<1>2. CASE n \in p /\ \A i \in k + 1 .. Len(s) : s[i].op # "forward"
  <2>1. Len(s) + 1 \in k + 1 .. Len(s) + Len(b)
    BY <1>1, <1>2
  <2>2. (s \o b)[Len(s) + 1] = Item("wait_send", n)
    BY <1>1, <1>2, <2>1
  <2>3. \A i \in k + 1 .. (Len(s) + 1) - 1 : (s \o b)[i].op # "forward"
    BY <1>1, <1>2
  <2>. QED
    BY <1>1, <2>1, <2>2, <2>3 DEF Shielded
<1>3. CASE \E j \in k + 1 .. Len(s) :
             s[j] = Item("wait_send", n) /\ \A i \in k + 1 .. j - 1 : s[i].op # "forward"
  <2>1. PICK j \in k + 1 .. Len(s) :
          s[j] = Item("wait_send", n) /\ \A i \in k + 1 .. j - 1 : s[i].op # "forward"
    BY <1>3
  <2>2. j \in k + 1 .. Len(s) + Len(b) /\ (s \o b)[j] = Item("wait_send", n)
    BY <1>1, <2>1
  <2>3. \A i \in k + 1 .. j - 1 : (s \o b)[i].op # "forward"
    BY <1>1, <2>1
  <2>. QED
    BY <1>1, <2>2, <2>3 DEF Shielded
<1>. QED
  BY <1>2, <1>3 DEF Shielded

\* The items of one step: each follows on what it needs, the wait for the send of the
\* step before comes first, the step's own send last.
Block(b, n, r, p) ==
    /\ b \in Seq(Items) /\ Linked(b, r)
    /\ b # <<>> => b[1].op \notin {"copy", "isend"} /\ (b[1].op = "forward" => r = 0)
    /\ \A i \in 1 .. Len(b) :
        /\ b[i].op \in {"forward", "isend"} => b[i].n = n
        /\ b[i].op = "isend" => i = Len(b)
    /\ \A m \in p : b # <<>> /\ b[1] = Item("wait_send", m)

NoSend(b) == \A i \in 1 .. Len(b) : b[i].op # "isend"

\* One more item.
Snoc(h, x) == h \o <<x>>

LEMMA SnocValue ==
    ASSUME NEW h \in Seq(Items), NEW x \in Items
    PROVE  /\ Snoc(h, x) \in Seq(Items) /\ Snoc(h, x) # <<>>
           /\ Len(h) \in Nat /\ Len(Snoc(h, x)) = Len(h) + 1
           /\ Snoc(h, x)[Len(h) + 1] = x /\ \A i \in 1 .. Len(h) : Snoc(h, x)[i] = h[i]
<1>1. <<x>> \in Seq(Items) /\ Len(<<x>>) = 1 /\ <<x>>[1] = x
  OBVIOUS
<1>2. /\ h \o <<x>> \in Seq(Items) /\ Len(h \o <<x>>) = Len(h) + 1 /\ Len(h) \in Nat
      /\ \A i \in 1 .. Len(h) + 1 :
             (h \o <<x>>)[i] = IF i <= Len(h) THEN h[i] ELSE <<x>>[i - Len(h)]
  BY <1>1, ConcatProperties, LenProperties
<1>3. (Len(h) + 1) - Len(h) = 1
  BY <1>2
<1>. QED
  BY <1>1, <1>2, <1>3, EmptySeq DEF Snoc

LEMMA SnocLast ==
    ASSUME NEW h \in Seq(Items), NEW x \in Items
    PROVE  /\ Snoc(h, x) \in Seq(Items) /\ Snoc(h, x) # <<>>
           /\ Snoc(h, x)[Len(Snoc(h, x))] = x
<1>1. Snoc(h, x) \in Seq(Items) /\ Snoc(h, x) # <<>>
  BY SnocValue
<1>2. Len(Snoc(h, x)) = Len(h) + 1 /\ Snoc(h, x)[Len(h) + 1] = x
  BY SnocValue
<1>. QED
  BY <1>1, <1>2

LEMMA BlockSnoc ==
    ASSUME NEW h, NEW n, NEW r, NEW p, Block(h, n, r, p), NoSend(h),
           NEW x \in Items, x.op \in {"forward", "isend"} => x.n = n,
           h # <<>> => Follows(x, h[Len(h)], r), x.op = "isend" => h # <<>>,
           h = <<>> => x.op # "copy" /\ (x.op = "forward" => r = 0)
    PROVE  Block(Snoc(h, x), n, r, p) /\ (x.op # "isend" => NoSend(Snoc(h, x)))
<1>1. /\ h \in Seq(Items) /\ Snoc(h, x) \in Seq(Items) /\ Snoc(h, x) # <<>>
      /\ Len(h) \in Nat /\ Len(Snoc(h, x)) = Len(h) + 1
      /\ Snoc(h, x)[Len(h) + 1] = x /\ \A i \in 1 .. Len(h) : Snoc(h, x)[i] = h[i]
      /\ h = <<>> => Len(h) = 0
      /\ h # <<>> => Len(h) >= 1
  <2>1. h \in Seq(Items)
    BY DEF Block
  <2>2. h # <<>> => Len(h) >= 1
    BY <2>1, EmptySeq
  <2>. QED
    BY <2>1, <2>2, SnocValue, EmptySeq
<1>2. Linked(Snoc(h, x), r)
  <2> SUFFICES ASSUME NEW i \in 2 .. Len(h) + 1 PROVE Follows(Snoc(h, x)[i], Snoc(h, x)[i - 1], r)
    BY <1>1 DEF Linked
  <2>1. CASE i = Len(h) + 1
    BY <1>1, <2>1
  <2>2. CASE i # Len(h) + 1
    <3>1. i \in 2 .. Len(h) /\ i - 1 \in 1 .. Len(h) /\ i \in 1 .. Len(h)
      BY <1>1, <2>2
    <3>. QED
      BY <1>1, <3>1 DEF Block, Linked
  <2>. QED
    BY <2>1, <2>2
<1>3. h # <<>> => Snoc(h, x)[1] = h[1]
  BY <1>1
<1>4. h = <<>> => Snoc(h, x)[1] = x
  BY <1>1
<1>5. \A m \in p : Snoc(h, x)[1] = Item("wait_send", m)
  BY <1>1, <1>3 DEF Block
<1>6. Snoc(h, x)[1].op \notin {"copy", "isend"} /\ (Snoc(h, x)[1].op = "forward" => r = 0)
  BY <1>3, <1>4 DEF Block
<1>7. ASSUME NEW i \in 1 .. Len(h) + 1
      PROVE  /\ Snoc(h, x)[i].op \in {"forward", "isend"} => Snoc(h, x)[i].n = n
             /\ Snoc(h, x)[i].op = "isend" => i = Len(h) + 1 /\ x.op = "isend"
  <2>1. CASE i = Len(h) + 1
    BY <1>1, <2>1
  <2>2. CASE i # Len(h) + 1
    <3>1. i \in 1 .. Len(h)
      BY <1>1, <2>2
    <3>. QED
      BY <1>1, <3>1 DEF Block, NoSend
  <2>. QED
    BY <2>1, <2>2
<1>. QED
  BY <1>1, <1>2, <1>5, <1>6, <1>7 DEF Block, NoSend

LEMMA Snoc3 ==
    ASSUME NEW w \in Seq(Items), NEW x \in Items, NEW y \in Items, NEW z \in Items
    PROVE  w \o <<x, y, z>> = Snoc(Snoc(Snoc(w, x), y), z)
<1>1. /\ <<x, y, z>> \in Seq(Items) /\ Len(<<x, y, z>>) = 3
      /\ <<x, y, z>>[1] = x /\ <<x, y, z>>[2] = y /\ <<x, y, z>>[3] = z
  OBVIOUS
<1>. DEFINE t == <<x, y, z>>
            s1 == Snoc(w, x)
            s2 == Snoc(s1, y)
            s3 == Snoc(s2, z)
<1>2. /\ w \o t \in Seq(Items) /\ Len(w \o t) = Len(w) + 3 /\ Len(w) \in Nat
      /\ \A i \in 1 .. Len(w) + 3 : (w \o t)[i] = IF i <= Len(w) THEN w[i] ELSE t[i - Len(w)]
  BY <1>1, ConcatProperties, LenProperties
<1>3. /\ s1 \in Seq(Items) /\ Len(s1) = Len(w) + 1
      /\ s1[Len(w) + 1] = x /\ \A i \in 1 .. Len(w) : s1[i] = w[i]
  BY SnocValue
<1>4. /\ s2 \in Seq(Items) /\ Len(s2) = Len(s1) + 1
      /\ s2[Len(s1) + 1] = y /\ \A i \in 1 .. Len(s1) : s2[i] = s1[i]
  BY <1>3, SnocValue
<1>5. /\ s3 \in Seq(Items) /\ Len(s3) = Len(s2) + 1
      /\ s3[Len(s2) + 1] = z /\ \A i \in 1 .. Len(s2) : s3[i] = s2[i]
  BY <1>4, SnocValue
<1>. HIDE DEF t, s1, s2, s3
<1>6. t[1] = x /\ t[2] = y /\ t[3] = z
  BY <1>1 DEF t
<1>7. \A i \in 1 .. Len(w) + 3 : (w \o t)[i] = s3[i]
  <2>. SUFFICES ASSUME NEW i \in 1 .. Len(w) + 3 PROVE (w \o t)[i] = s3[i]
    OBVIOUS
  <2>1. CASE i <= Len(w)
    BY <1>2, <1>3, <1>4, <1>5, <2>1
  <2>2. CASE i = Len(w) + 1
    <3>1. i - Len(w) = 1
      BY <1>2, <2>2
    <3>. QED
      BY <1>2, <1>3, <1>4, <1>5, <1>6, <2>2, <3>1
  <2>3. CASE i = Len(w) + 2
    <3>1. i - Len(w) = 2
      BY <1>2, <2>3
    <3>. QED
      BY <1>2, <1>3, <1>4, <1>5, <1>6, <2>3, <3>1
  <2>4. CASE i = Len(w) + 3
    <3>1. i - Len(w) = 3
      BY <1>2, <2>4
    <3>. QED
      BY <1>2, <1>3, <1>4, <1>5, <1>6, <2>4, <3>1
  <2>. QED
    BY <1>2, <2>1, <2>2, <2>3, <2>4
<1>8. Len(w \o t) = Len(s3) /\ \A i \in 1 .. Len(w \o t) : (w \o t)[i] = s3[i]
  BY <1>2, <1>3, <1>4, <1>5, <1>7
<1>9. w \o t = s3
  BY <1>2, <1>5, <1>8, SeqEqual
<1>. QED
  BY <1>9 DEF t, s1, s2, s3

LEMMA LinkedAppend ==
    ASSUME NEW s \in Seq(Items), NEW n, NEW r, NEW p, NEW b, Block(b, n, r, p),
           Linked(s, r)
    PROVE  Linked(s \o b, r)
<1>1. /\ Len(s) \in Nat /\ Len(b) \in Nat /\ Len(s \o b) = Len(s) + Len(b)
      /\ Len(b) >= 1 => b # <<>>
      /\ \A i \in 1 .. Len(s) + Len(b) : (s \o b)[i] = IF i <= Len(s) THEN s[i] ELSE b[i - Len(s)]
  BY ConcatProperties, LenProperties, EmptySeq DEF Block
<1> SUFFICES ASSUME NEW i \in 2 .. Len(s) + Len(b) PROVE Follows((s \o b)[i], (s \o b)[i - 1], r)
  BY <1>1 DEF Linked
<1>2. CASE i <= Len(s)
  <2>1. (s \o b)[i] = s[i] /\ (s \o b)[i - 1] = s[i - 1] /\ i \in 2 .. Len(s)
    BY <1>1, <1>2
  <2>. QED
    BY <2>1 DEF Linked
<1>3. CASE i = Len(s) + 1
  <2>1. (s \o b)[i] = b[1] /\ b # <<>>
    BY <1>1, <1>3
  <2>. QED
    BY <2>1 DEF Block, Follows
<1>4. CASE i > Len(s) + 1
  <2>1. i - Len(s) \in 2 .. Len(b) /\ (i - 1) - Len(s) = (i - Len(s)) - 1
    BY <1>1, <1>4
  <2>2. (s \o b)[i] = b[i - Len(s)] /\ (s \o b)[i - 1] = b[(i - Len(s)) - 1]
    BY <1>1, <1>4, <2>1
  <2>. QED
    BY <2>1, <2>2 DEF Block, Linked
<1>. QED
  BY <1>1, <1>2, <1>3, <1>4

-----------------------------------------------------------------------------
(* What one call enqueues.                                                   *)

LEMMA WaitsValue ==
    ASSUME Typed, NEW r \in Ranks
    PROVE  /\ pending[r] = {} => Waits(r) = <<>>
           /\ pending[r] # {} => /\ pending[r] = {pos[r]}
                                /\ Waits(r) = <<Item("wait_send", pos[r])>>
<1>1. CASE pending[r] = {}
  <2>1. Cardinality(pending[r]) = 0
    BY <1>1, FS_EmptySet
  <2>2. 1 .. Cardinality(pending[r]) = {}
    BY <2>1
  <2>. QED
    BY <1>1, <2>2 DEF Waits
<1>2. CASE pending[r] # {}
  <2>1. pending[r] = {pos[r]} /\ pos[r] \in Nat
    BY <1>2 DEF Typed
  <2>2. Cardinality(pending[r]) = 1
    BY <2>1, FS_Singleton
  <2>3. {m \in pending[r] : m < pos[r]} = {}
    BY <2>1
  <2>4. Cardinality({m \in pending[r] : m < pos[r]}) = 0
    BY <2>3, FS_EmptySet
  <2>5. \A i \in 1 .. 1 :
          (CHOOSE n \in pending[r] : Cardinality({m \in pending[r] : m < n}) = i - 1) = pos[r]
    <3> SUFFICES ASSUME NEW i \in 1 .. 1
                 PROVE (CHOOSE n \in pending[r] : Cardinality({m \in pending[r] : m < n}) = i - 1) = pos[r]
      OBVIOUS
    <3>1. i - 1 = 0
      OBVIOUS
    <3>2. \E n \in pending[r] : Cardinality({m \in pending[r] : m < n}) = i - 1
      BY <2>1, <2>4, <3>1
    <3>3. (CHOOSE n \in pending[r] : Cardinality({m \in pending[r] : m < n}) = i - 1) \in pending[r]
      BY <3>2, Zenon
    <3>. QED
      BY <2>1, <3>3
  <2>6. Waits(r) = [i \in 1 .. 1 |-> Item("wait_send", CHOOSE n \in pending[r] :
                        Cardinality({m \in pending[r] : m < n}) = i - 1)]
    BY <2>2 DEF Waits
  <2>7. Waits(r) = [i \in 1 .. 1 |-> Item("wait_send", pos[r])]
    BY <2>5, <2>6, Zenon
  <2>8. [i \in 1 .. 1 |-> Item("wait_send", pos[r])] = <<Item("wait_send", pos[r])>>
    OBVIOUS
  <2>. QED
    BY <1>2, <2>1, <2>7, <2>8
<1>. QED
  BY <1>1, <1>2

\* The metadata a worker takes first is that of its next step.
LEMMA HeadIsNext ==
    ASSUME Typed, NEW r \in Ranks, r > 0, WireOK(r), Receiving(r), wire[r] # <<>>
    PROVE  /\ Head(wire[r]) = pos[r] + 1
           /\ pos[r] + 1 <= pos[r - 1]
<1>1. wire[r] \in Seq(Nat) /\ r - 1 \in Ranks
  BY GpuWorkerAssumption DEF Typed, Ranks
<1>2. Len(wire[r]) \in Nat /\ Len(wire[r]) >= 1 /\ Head(wire[r]) = wire[r][1]
  BY <1>1, LenProperties, HeadTailProperties
<1>3. pos[r] \in Nat /\ pos[r - 1] \in Nat
  BY <1>1 DEF Typed
<1>4. wire[r][1] \in pos[r] + 1 .. pos[r - 1]
  BY <1>2 DEF WireOK
<1>5. pos[r] + 1 \in pos[r] + 1 .. pos[r - 1]
  BY <1>3, <1>4
<1>6. PICK i \in 1 .. Len(wire[r]) : wire[r][i] = pos[r] + 1
  BY <1>5 DEF WireOK, Receiving, Call
<1>7. i = 1 \/ wire[r][1] < wire[r][i]
  BY <1>2 DEF WireOK
<1>. QED
  BY <1>2, <1>3, <1>4, <1>5, <1>6, <1>7

LEMMA EnqueuedIsBlock ==
    ASSUME Typed, NEW r \in Ranks, r > 0 => WireOK(r), Has(r, "execute"),
           Receiving(r) => wire[r] # <<>>
    PROVE  /\ Block(Enqueued(r), pos[r] + 1, r, pending[r])
           /\ ~Sending(r) => NoSend(Enqueued(r))
<1>. DEFINE n == pos[r] + 1
            w == Waits(r)
<1>1. n \in Nat /\ pos[r] \in Nat /\ r \in Nat /\ Call(r) \in StepCalls
  <2>1. pos[r] \in Nat /\ calls \in Seq(StepCalls) /\ Len(calls) \in Nat
    BY LenProperties DEF Typed
  <2>2. pos[r] + 1 \in 1 .. Len(calls)
    BY <2>1 DEF Has
  <2>3. Call(r) \in StepCalls
    BY <2>1, <2>2, ElementOfSeq DEF Call
  <2>4. r \in Nat
    BY GpuWorkerAssumption DEF Ranks
  <2>. QED
    BY <2>1, <2>3, <2>4
<1>2. /\ \A op \in Ops : Item(op, n) \in Items /\ Item(op, n).op = op /\ Item(op, n).n = n
      /\ Item("wait_send", pos[r]) \in Items /\ Item("wait_send", pos[r]).op = "wait_send"
  BY <1>1 DEF Item, Items, Ops
<1>3. Block(w, n, r, pending[r]) /\ NoSend(w)
  <2>1. <<>> \in Seq(Items) /\ Len(<<>>) = 0
    BY EmptySeq
  <2>2. CASE pending[r] = {}
    <3>1. w = <<>>
      BY <2>2, WaitsValue
    <3>. QED
      BY <2>1, <2>2, <3>1 DEF Block, Linked, NoSend
  <2>3. CASE pending[r] # {}
    <3>1. pending[r] = {pos[r]} /\ w = <<Item("wait_send", pos[r])>>
      BY <2>3, WaitsValue
    <3>. DEFINE x == Item("wait_send", pos[r])
    <3>. HIDE DEF x
    <3>2. w = <<x>> /\ x \in Items /\ x.op = "wait_send"
      BY <1>2, <3>1 DEF x
    <3>3. /\ <<x>> \in Seq(Items) /\ Len(<<x>>) = 1 /\ <<x>>[1] = x /\ <<x>> # <<>>
      BY <3>2
    <3>4. \A m \in pending[r] : x = Item("wait_send", m)
      BY <3>1 DEF x
    <3>. QED
      BY <3>2, <3>3, <3>4 DEF Block, Linked, NoSend
  <2>. QED
    BY <2>2, <2>3
<1>. DEFINE R == IF Receiving(r) THEN Receives(n) ELSE <<>>
            F == IF Call(r).tokens > 0 THEN <<Item("forward", n)>> ELSE <<>>
            S == IF Sending(r) THEN <<Item("isend", n)>> ELSE <<>>
<1>4. Enqueued(r) = w \o R \o F \o S
  <2>1. Receiving(r) => Head(wire[r]) = n
    BY HeadIsNext DEF Receiving
  <2>. QED
    BY <2>1 DEF Enqueued
<1>5. w \in Seq(Items)
  BY <1>3 DEF Block
<1>6. CASE Call(r).tokens = 0
  <2>1. R = <<>> /\ F = <<>> /\ S = <<>> /\ ~Sending(r)
    BY <1>6 DEF Receiving, Sending
  <2>2. Enqueued(r) = w
    BY <1>4, <1>5, <2>1, ConcatEmptySeq
  <2>. QED
    BY <1>3, <2>1, <2>2
<1>7. CASE Call(r).tokens = 1
  <2>. DEFINE h == w \o R
  <2>. HIDE DEF w, R, F, S, h
  <2>1. F = <<Item("forward", n)>> /\ (Receiving(r) <=> r > 0)
    BY <1>7 DEF F, Receiving
  <2>2. /\ Block(h, n, r, pending[r]) /\ NoSend(h) /\ h \in Seq(Items)
        /\ r > 0 => h # <<>> /\ h[Len(h)] = Item("copy", n)
    <3>1. CASE r = 0
      <4>1. R = <<>>
        BY <2>1, <3>1 DEF R
      <4>2. h = w
        BY <1>5, <4>1, ConcatEmptySeq DEF h
      <4>. QED
        BY <1>3, <1>5, <3>1, <4>2
    <3>2. CASE r > 0
      <4>. DEFINE x == Item("irecv", n)
                  y == Item("wait_recv", n)
                  z == Item("copy", n)
      <4>1. /\ x \in Items /\ x.op = "irecv" /\ y \in Items /\ y.op = "wait_recv"
            /\ z \in Items /\ z.op = "copy" /\ z.n = n
        BY <1>2 DEF Ops
      <4>2. R = <<x, y, z>>
        BY <2>1, <3>2 DEF R, Receives
      <4>. DEFINE g == Snoc(Snoc(w, x), y)
      <4>3. Block(Snoc(w, x), n, r, pending[r]) /\ NoSend(Snoc(w, x))
        BY <1>3, <4>1, BlockSnoc DEF Follows
      <4>4. Block(g, n, r, pending[r]) /\ NoSend(g) /\ g # <<>> /\ g[Len(g)] = y /\ g \in Seq(Items)
        <5>1. Snoc(w, x) \in Seq(Items) /\ Snoc(w, x) # <<>>
          BY <1>5, <4>1, SnocLast
        <5>2. Follows(y, Snoc(w, x)[Len(Snoc(w, x))], r)
          BY <4>1 DEF Follows
        <5>. HIDE DEF x, y
        <5>3. Block(g, n, r, pending[r]) /\ NoSend(g)
          BY <4>1, <4>3, <5>1, <5>2, BlockSnoc
        <5>. QED
          BY <4>1, <5>1, <5>3, SnocLast
      <4>5. /\ Block(Snoc(g, z), n, r, pending[r]) /\ NoSend(Snoc(g, z)) /\ Snoc(g, z) # <<>>
            /\ Snoc(g, z) \in Seq(Items) /\ Snoc(g, z)[Len(Snoc(g, z))] = z
        <5>1. Follows(z, g[Len(g)], r)
          BY <4>1, <4>4 DEF Follows
        <5>. HIDE DEF g, z
        <5>. QED
          BY <4>1, <4>4, <5>1, BlockSnoc, SnocLast
      <4>6. h = Snoc(g, z)
        <5>. HIDE DEF x, y, z
        <5>1. w \o <<x, y, z>> = Snoc(Snoc(Snoc(w, x), y), z)
          BY <1>5, <4>1, Snoc3
        <5>. QED
          BY <4>2, <5>1 DEF h
      <4>. QED
        BY <4>5, <4>6
    <3>. QED
      BY <1>1, <3>1, <3>2
  <2>. DEFINE f == Item("forward", n)
  <2>3. f \in Items /\ f.op = "forward" /\ f.n = n
    BY <1>2 DEF Ops
  <2>4. h # <<>> => Follows(f, h[Len(h)], r)
    BY <2>2, <2>3 DEF Follows
  <2>5. h = <<>> => r = 0
    BY <1>1, <2>2
  <2>6. Block(Snoc(h, f), n, r, pending[r]) /\ NoSend(Snoc(h, f))
    <3>. HIDE DEF f
    <3>. QED
      BY <2>2, <2>3, <2>4, <2>5, BlockSnoc
  <2>7. /\ Snoc(h, f) \in Seq(Items) /\ Snoc(h, f) # <<>>
        /\ Snoc(h, f)[Len(Snoc(h, f))] = f
    BY <2>2, <2>3, SnocLast
  <2>8. CASE ~Sending(r)
    <3>1. S = <<>>
      BY <2>8 DEF S
    <3>2. Enqueued(r) = Snoc(h, f) \o <<>>
      BY <1>4, <2>1, <3>1 DEF h, Snoc
    <3>3. Enqueued(r) = Snoc(h, f)
      BY <2>7, <3>2, ConcatEmptySeq
    <3>. QED
      BY <2>6, <2>8, <3>3
  <2>9. CASE Sending(r)
    <3>. DEFINE s == Item("isend", n)
    <3>1. s \in Items /\ s.op = "isend" /\ s.n = n
      BY <1>2 DEF Ops
    <3>2. Enqueued(r) = Snoc(Snoc(h, f), s)
      BY <1>4, <2>1, <2>9 DEF h, Snoc, S
    <3>3. Follows(s, f, r)
      BY <3>1 DEF Follows
    <3>. HIDE DEF f, s
    <3>4. Block(Snoc(Snoc(h, f), s), n, r, pending[r])
      BY <2>6, <2>7, <3>1, <3>3, BlockSnoc
    <3>. QED
      BY <2>9, <3>2, <3>4
  <2>. QED
    BY <2>8, <2>9
<1>. QED
  BY <1>1, <1>6, <1>7 DEF StepCalls

-----------------------------------------------------------------------------
(* Each action preserves the invariant.                                      *)

Local(q) == Prepared(q) /\ SendsOK(q) /\ ContentsOK(q)

\* A rank nothing happens to: other calls may be added.
LEMMA LocalFrame ==
    ASSUME Typed, NEW q \in Ranks, Local(q),
           UNCHANGED <<stream[q], pos[q], pending[q], open[q], sent[q], got[q], inBuf[q],
                       outBuf[q], fresh[q], computed[q]>>,
           \A n \in 1 .. pos[q] : calls'[n] = calls[n]
    PROVE  Local(q)'
<1>1. \A n \in 1 .. pos[q] : Output(q, n)' <=> Output(q, n)
  BY DEF Output
<1>2. SendsOK(q)' /\ ContentsOK(q)'
  <2>1. QueuedSends(q)'
    BY DEF Local, SendsOK, QueuedSends, Shielded
  <2>2. OpenSends(q)'
    BY <1>1 DEF Local, SendsOK, OpenSends, Shielded
  <2>. QED
    BY <2>1, <2>2 DEF Local, SendsOK, ContentsOK
<1>3. Prepared(q)'
  <2>1. Linked(stream[q], q)'
    BY DEF Local, Prepared, Linked, Follows
  <2>2. ASSUME stream[q] # <<>> PROVE Ready(Head(stream[q]), q)'
    <3>1. /\ stream[q] \in Seq(Items) /\ Len(stream[q]) \in Nat /\ 1 \in 1 .. Len(stream[q])
          /\ Head(stream[q]) = stream[q][1]
      BY <2>2, EmptySeq, LenProperties, HeadTailProperties DEF Typed
    <3>2. Head(stream[q]).op = "isend" => Head(stream[q]).n \in 1 .. pos[q]
      BY <3>1 DEF Local, SendsOK, QueuedSends
    <3>. QED
      BY <1>1, <2>2, <3>2 DEF Local, Prepared, Ready
  <2>. QED
    BY <2>1, <2>2 DEF Prepared
<1>. QED
  BY <1>2, <1>3 DEF Local

\* Positions behind the first l of l + k, and what lies above the first of a range.
LEMMA Beyond ==
    ASSUME NEW l \in Nat, NEW k \in Nat, NEW i \in 1 .. l + k, i > l
    PROVE  i - l \in 1 .. k
OBVIOUS

LEMMA AboveFirst ==
    ASSUME NEW a \in Nat, NEW c \in Nat, NEW v \in a + 1 .. c, v # a + 1
    PROVE  v \in (a + 1) + 1 .. c
OBVIOUS

LEMMA EngineStepsInv == ASSUME Steps, EngineSteps PROVE Steps'
<1>1. PICK c \in StepCalls : calls' = Append(calls, c)
  <2>1. PICK tokens \in {0, 1}, full \in BOOLEAN :
          calls' = Append(calls, [kind |-> "execute", tokens |-> tokens, full |-> full])
    BY DEF EngineSteps
  <2>2. [kind |-> "execute", tokens |-> tokens, full |-> full] \in StepCalls
    BY DEF StepCalls
  <2>. QED
    BY <2>1, <2>2
<1>2. UNCHANGED <<pos, stream, pending, wire, open, sent, got, inBuf, outBuf, fresh, computed>>
  BY DEF EngineSteps, step
<1>3. /\ calls' \in Seq(StepCalls) /\ Len(calls') = Len(calls) + 1 /\ Len(calls) \in Nat
      /\ \A n \in 1 .. Len(calls) : calls'[n] = calls[n]
  BY <1>1, AppendProperties, LenProperties DEF Steps, Typed
<1>4. \A r \in Ranks : pos[r] \in Nat /\ pos[r] <= Len(calls)
  BY DEF Steps, Typed
<1>5. Typed'
  BY <1>2, <1>3, <1>4 DEF Steps, Typed
<1>6. ASSUME NEW r \in Ranks PROVE RankOK(r)'
  <2>1. \A n \in 1 .. pos[r] : calls'[n] = calls[n]
    BY <1>3, <1>4
  <2>2. Local(r)'
    BY <1>2, <2>1, LocalFrame DEF Steps, RankOK, Local
  <2>3. ASSUME r > 0 PROVE WireOK(r)'
    <3>1. r - 1 \in Ranks
      BY <2>3, GpuWorkerAssumption DEF Ranks
    <3>2. /\ pos[r] \in Nat /\ pos[r - 1] \in Nat /\ pos[r] <= Len(calls) /\ pos[r - 1] <= Len(calls)
      BY <1>4, <3>1
    <3>3. /\ \A n \in pos[r] + 1 .. pos[r - 1] : calls'[n] = calls[n]
          /\ \A n \in pos[r - 1] + 1 .. pos[r] : calls'[n] = calls[n]
      BY <1>3, <3>2
    <3>. QED
      BY <1>2, <2>3, <3>3 DEF Steps, RankOK, WireOK
  <2>. QED
    BY <2>2, <2>3 DEF RankOK, Local
<1>. QED
  BY <1>5, <1>6 DEF Steps

LEMMA ExecuteInv == ASSUME Steps, NEW r \in Ranks, Execute(r) PROVE Steps'
<1>. DEFINE n == pos[r] + 1
            b == Enqueued(r)
<1>1. /\ Has(r, "execute") /\ (Receiving(r) => wire[r] # <<>>)
      /\ stream' = [stream EXCEPT ![r] = @ \o b] /\ pos' = [pos EXCEPT ![r] = @ + 1]
      /\ pending' = [pending EXCEPT ![r] = IF Sending(r) THEN {n} ELSE {}]
      /\ wire' = [q \in Ranks |->
                IF q = r /\ Receiving(r) THEN Tail(wire[q])
                ELSE IF q = r + 1 /\ Sending(r) THEN Append(wire[q], n) ELSE wire[q]]
      /\ UNCHANGED <<calls, open, sent, got, inBuf, outBuf, fresh, computed>>
  BY DEF Execute, Took
<1>2. /\ pos \in [Ranks -> Nat] /\ n \in Nat /\ n <= Len(calls) /\ r \in Int /\ PP \in Nat
      /\ calls \in Seq(StepCalls) /\ Len(calls) \in Nat
  <2>1. pos \in [Ranks -> Nat] /\ calls \in Seq(StepCalls) /\ Len(calls) \in Nat
    BY LenProperties DEF Steps, Typed
  <2>2. r \in Int /\ PP \in Nat
    BY GpuWorkerAssumption DEF Ranks
  <2>. QED
    BY <1>1, <2>1, <2>2 DEF Has
<1>3. Block(b, n, r, pending[r]) /\ (~Sending(r) => NoSend(b)) /\ b \in Seq(Items) /\ Len(b) \in Nat
  BY <1>1, EnqueuedIsBlock, LenProperties DEF Steps, RankOK, Block
<1>. HIDE DEF b
<1>4. \A q \in Ranks : stream[q] \in Seq(Items) /\ wire[q] \in Seq(Nat) /\ pending[q] \in SUBSET Nat
  BY DEF Steps, Typed
<1>5. pos'[r] = n /\ \A q \in Ranks : q # r => pos'[q] = pos[q]
  BY <1>1, <1>2
<1>6. /\ stream'[r] = stream[r] \o b /\ pending'[r] = (IF Sending(r) THEN {n} ELSE {})
      /\ \A q \in Ranks : q # r => stream'[q] = stream[q] /\ pending'[q] = pending[q]
  BY <1>1 DEF Steps, Typed
<1>7. /\ stream'[r] \in Seq(Items) /\ Len(stream'[r]) = Len(stream[r]) + Len(b) /\ Len(stream[r]) \in Nat
      /\ \A i \in 1 .. Len(stream[r]) + Len(b) :
             stream'[r][i] = IF i <= Len(stream[r]) THEN stream[r][i] ELSE b[i - Len(stream[r])]
  BY <1>3, <1>4, <1>6, ConcatProperties, LenProperties
<1>8. ASSUME NEW i \in 1 .. Len(stream[r]) + Len(b), i > Len(stream[r])
       PROVE  i - Len(stream[r]) \in 1 .. Len(b) /\ stream'[r][i] = b[i - Len(stream[r])]
  <2>1. i - Len(stream[r]) \in 1 .. Len(b)
    BY <1>3, <1>7, <1>8, Beyond
  <2>2. ~(i <= Len(stream[r]))
    BY <1>7, <1>8
  <2>. QED
    BY <1>7, <2>1, <2>2
<1>9. Typed'
  <2>1. \A q \in Ranks : wire'[q] \in Seq(Nat)
    <3>1. ASSUME NEW q \in Ranks PROVE wire'[q] \in Seq(Nat)
      <4>1. CASE q = r /\ Receiving(r)
        BY <1>1, <1>4, <4>1, HeadTailProperties
      <4>2. CASE ~(q = r /\ Receiving(r)) /\ q = r + 1 /\ Sending(r)
        BY <1>1, <1>2, <1>4, <4>2, AppendProperties
      <4>3. CASE ~(q = r /\ Receiving(r)) /\ ~(q = r + 1 /\ Sending(r))
        BY <1>1, <1>4, <4>3
      <4>. QED
        BY <4>1, <4>2, <4>3
    <3>. QED
      BY <3>1
  <2>2. wire' \in [Ranks -> Seq(Nat)]
    BY <1>1, <2>1
  <2>3. stream' \in [Ranks -> Seq(Items)]
    BY <1>1, <1>3, <1>4, <1>6, <1>7 DEF Steps, Typed
  <2>4. pending' \in [Ranks -> SUBSET Nat] /\ \A q \in Ranks : pending'[q] \subseteq {pos'[q]}
    BY <1>1, <1>2, <1>5, <1>6 DEF Steps, Typed
  <2>5. pos' \in [Ranks -> Nat] /\ \A q \in Ranks : pos'[q] <= Len(calls')
    BY <1>1, <1>2, <1>5 DEF Steps, Typed
  <2>. QED
    BY <1>1, <2>2, <2>3, <2>4, <2>5 DEF Steps, Typed
<1>10. ASSUME NEW q \in Ranks, q # r PROVE Local(q)'
  BY <1>1, <1>5, <1>6, <1>10, LocalFrame DEF Steps, RankOK, Local
<1>11. Prepared(r)'
  <2>1. Linked(stream'[r], r)
    BY <1>3, <1>4, <1>6, LinkedAppend DEF Steps, RankOK, Prepared
  <2>2. ASSUME stream'[r] # <<>> PROVE Ready(Head(stream[r]), r)'
    <3>1. Head(stream'[r]) = stream'[r][1] /\ Len(stream'[r]) >= 1
      BY <1>7, <2>2, HeadTailProperties, EmptySeq
    <3>2. CASE stream[r] # <<>>
      <4>1. stream'[r][1] = Head(stream[r])
        BY <1>4, <1>7, <3>1, <3>2, HeadTailProperties, EmptySeq
      <4>2. Ready(Head(stream[r]), r)
        BY <3>2 DEF Steps, RankOK, Prepared
      <4>. QED
        BY <1>1, <3>1, <4>1, <4>2 DEF Ready, Output
    <3>3. CASE stream[r] = <<>>
      <4>1. Len(stream[r]) = 0
        BY <3>3, EmptySeq
      <4>2. stream'[r][1] = b[1] /\ b # <<>>
        BY <1>3, <1>7, <3>1, <4>1, EmptySeq
      <4>. QED
        BY <1>2, <1>3, <3>1, <4>2 DEF Block, Ready
    <3>. QED
      BY <3>2, <3>3
  <2>3. Linked(stream[r], r)'
    BY <2>1 DEF Linked, Follows
  <2>. QED
    BY <2>2, <2>3 DEF Prepared
<1>12. ASSUME NEW k \in 0 .. Len(stream[r]), NEW m, Shielded(stream[r], k, m, pending[r])
       PROVE  Shielded(stream'[r], k, m, pending'[r])
  <2>1. m \in pending[r] => b # <<>> /\ b[1] = Item("wait_send", m)
    BY <1>3 DEF Block
  <2>2. Shielded(stream[r] \o b, k, m, pending'[r])
    BY <1>3, <1>4, <1>12, <2>1, ShieldAppend
  <2>. QED
    BY <1>6, <2>2
<1>13. QueuedSends(r)'
  <2> SUFFICES ASSUME NEW k \in 1 .. Len(stream[r]) + Len(b), stream'[r][k].op = "isend"
               PROVE  LET m == stream'[r][k].n
                      IN  /\ m \in 1 .. pos'[r] /\ m \notin sent'[r] /\ <<"send", m>> \notin open'[r]
                          /\ Shielded(stream'[r], k, m, pending'[r])
                          /\ \A i \in 1 .. Len(stream[r]) + Len(b) : stream'[r][i] = stream'[r][k] => i = k
    BY <1>7 DEF QueuedSends, Shielded
  <2>. DEFINE m == stream'[r][k].n
  <2>1. \A i \in 1 .. Len(stream[r]) : stream[r][i].op = "isend" => stream[r][i].n \in 1 .. pos[r]
    BY DEF Steps, RankOK, SendsOK, QueuedSends
  <2>2. \A i \in 1 .. Len(b) : b[i].op = "isend" => b[i].n = n /\ i = Len(b) /\ Sending(r)
    BY <1>3 DEF Block, NoSend
  <2>3. CASE k <= Len(stream[r])
    <3>1. stream'[r][k] = stream[r][k] /\ k \in 1 .. Len(stream[r])
      BY <1>7, <2>3
    <3>2. /\ m \in 1 .. pos[r] /\ m \notin sent[r] /\ <<"send", m>> \notin open[r]
          /\ Shielded(stream[r], k, m, pending[r])
          /\ \A i \in 1 .. Len(stream[r]) : stream[r][i] = stream[r][k] => i = k
      BY <3>1 DEF Steps, RankOK, SendsOK, QueuedSends
    <3>3. \A i \in 1 .. Len(stream[r]) + Len(b) : stream'[r][i] = stream'[r][k] => i = k
      <4> SUFFICES ASSUME NEW i \in 1 .. Len(stream[r]) + Len(b), stream'[r][i] = stream'[r][k]
                   PROVE i = k
        OBVIOUS
      <4>1. CASE i <= Len(stream[r])
        BY <1>7, <3>1, <3>2, <4>1
      <4>2. CASE i > Len(stream[r])
        <5>1. i - Len(stream[r]) \in 1 .. Len(b) /\ stream'[r][i] = b[i - Len(stream[r])]
          BY <1>8, <4>2
        <5>2. stream'[r][i].op = "isend" /\ stream'[r][i].n = m
          OBVIOUS
        <5>3. m = n
          BY <2>2, <5>1, <5>2
        <5>. QED
          BY <1>2, <3>2, <5>3
      <4>. QED
        BY <1>7, <4>1, <4>2
    <3>4. Shielded(stream'[r], k, m, pending'[r])
      BY <1>12, <1>7, <3>1, <3>2
    <3>5. m \in 1 .. pos'[r]
      BY <1>2, <1>5, <3>2
    <3>. QED
      BY <1>1, <3>2, <3>3, <3>4, <3>5
  <2>4. CASE k > Len(stream[r])
    <3>1. k - Len(stream[r]) \in 1 .. Len(b) /\ stream'[r][k] = b[k - Len(stream[r])]
      BY <1>8, <2>4
    <3>2. m = n /\ k - Len(stream[r]) = Len(b) /\ Sending(r)
      BY <2>2, <3>1
    <3>3. k = Len(stream'[r])
      BY <1>3, <1>7, <3>2
    <3>4. m \notin sent[r] /\ <<"send", m>> \notin open[r]
      BY <1>2, <3>2 DEF Steps, RankOK, SendsOK, OpenSends
    <3>5. Shielded(stream'[r], k, m, pending'[r])
      <4>1. m \in pending'[r]
        BY <1>6, <3>2
      <4>2. \A i \in k + 1 .. Len(stream'[r]) : stream'[r][i].op # "forward"
        BY <1>3, <1>7, <3>3
      <4>. QED
        BY <4>1, <4>2 DEF Shielded
    <3>6. \A i \in 1 .. Len(stream[r]) + Len(b) : stream'[r][i] = stream'[r][k] => i = k
      <4> SUFFICES ASSUME NEW i \in 1 .. Len(stream[r]) + Len(b), stream'[r][i] = stream'[r][k]
                   PROVE i = k
        OBVIOUS
      <4>0. stream'[r][i].op = "isend" /\ stream'[r][i].n = m
        OBVIOUS
      <4>1. CASE i <= Len(stream[r])
        <5>1. m \in 1 .. pos[r]
          BY <1>7, <2>1, <4>0, <4>1
        <5>. QED
          BY <1>2, <3>2, <5>1
      <4>2. CASE i > Len(stream[r])
        <5>1. i - Len(stream[r]) \in 1 .. Len(b) /\ stream'[r][i] = b[i - Len(stream[r])]
          BY <1>8, <4>2
        <5>2. i - Len(stream[r]) = Len(b)
          BY <2>2, <4>0, <5>1
        <5>. QED
          BY <1>3, <1>7, <3>2, <5>2
      <4>. QED
        BY <1>7, <4>1, <4>2
    <3>7. m \in 1 .. pos'[r]
      BY <1>2, <1>5, <3>2
    <3>. QED
      BY <1>1, <3>4, <3>5, <3>6, <3>7
  <2>. QED
    BY <1>7, <2>3, <2>4
<1>14. OpenSends(r)'
  <2> SUFFICES ASSUME NEW m \in Nat, <<"send", m>> \in open[r]
               PROVE  /\ m \in 1 .. pos'[r] /\ m \notin sent'[r]
                      /\ Output(r, m)' /\ Shielded(stream'[r], 0, m, pending'[r])
    BY <1>1 DEF OpenSends, Output, Shielded
  <2>1. /\ m \in 1 .. pos[r] /\ m \notin sent[r]
        /\ Output(r, m) /\ Shielded(stream[r], 0, m, pending[r])
    BY DEF Steps, RankOK, SendsOK, OpenSends
  <2>2. Shielded(stream'[r], 0, m, pending'[r])
    BY <1>7, <1>12, <2>1
  <2>. QED
    BY <1>1, <1>2, <1>5, <2>1, <2>2 DEF Output
<1>15. SendsOK(r)'
  BY <1>1, <1>2, <1>5, <1>13, <1>14 DEF Steps, Typed, RankOK, SendsOK
<1>16. ContentsOK(r)'
  <2>1. ASSUME NEW k \in 1 .. Len(stream[r]) + Len(b), stream'[r][k].op = "forward"
        PROVE  stream'[r][k].n \in 1 .. pos'[r]
    <3>1. CASE k <= Len(stream[r])
      <4>1. stream'[r][k] = stream[r][k] /\ k \in 1 .. Len(stream[r])
        BY <1>7, <3>1
      <4>2. stream[r][k].n \in 1 .. pos[r]
        BY <2>1, <4>1 DEF Steps, RankOK, ContentsOK
      <4>. QED
        BY <1>2, <1>5, <4>1, <4>2
    <3>2. CASE k > Len(stream[r])
      <4>1. k - Len(stream[r]) \in 1 .. Len(b) /\ stream'[r][k] = b[k - Len(stream[r])]
        BY <1>8, <3>2
      <4>2. stream'[r][k].n = n
        BY <1>3, <2>1, <4>1 DEF Block
      <4>. QED
        BY <1>2, <1>5, <4>2
    <3>. QED
      BY <1>7, <3>1, <3>2
  <2>. QED
    BY <1>1, <1>7, <2>1 DEF Steps, RankOK, ContentsOK
<1>17. ASSUME NEW q \in Ranks, q > 0 PROVE WireOK(q)'
  <2>0. /\ q \in Int /\ q - 1 \in Ranks /\ pos[q] \in Nat /\ pos[q - 1] \in Nat
        /\ wire[q] \in Seq(Nat) /\ Len(wire[q]) \in Nat /\ WireOK(q)
    <3>1. q - 1 \in Ranks /\ q \in Int
      BY <1>17, GpuWorkerAssumption DEF Ranks
    <3>. QED
      BY <1>2, <1>4, <1>17, <3>1, LenProperties DEF Steps, RankOK
  <2>1. CASE q = r
    <3>1. pos'[q] = n /\ pos'[q - 1] = pos[q - 1]
      BY <1>5, <2>0, <2>1
    <3>2. CASE Receiving(r)
      <4>1. wire'[q] = Tail(wire[q]) /\ wire[q] # <<>>
        BY <1>1, <2>1, <3>2
      <4>2. /\ Len(wire'[q]) = Len(wire[q]) - 1
            /\ \A i \in 1 .. Len(wire'[q]) : wire'[q][i] = wire[q][i + 1]
        BY <2>0, <4>1, HeadTailProperties
      <4>3. wire[q][1] = n /\ n <= pos[q - 1] /\ Len(wire[q]) >= 1
        BY <1>17, <2>0, <2>1, <3>2, <4>1, HeadIsNext, HeadTailProperties, EmptySeq DEF Steps
      <4>4. \A i, j \in 1 .. Len(wire'[q]) : i < j => wire'[q][i] < wire'[q][j]
        BY <2>0, <4>2 DEF WireOK
      <4>5. \A i \in 1 .. Len(wire'[q]) :
              wire'[q][i] \in n + 1 .. pos[q - 1] /\ calls[wire'[q][i]].tokens > 0
        <5> SUFFICES ASSUME NEW i \in 1 .. Len(wire'[q])
                     PROVE wire'[q][i] \in n + 1 .. pos[q - 1] /\ calls[wire'[q][i]].tokens > 0
          OBVIOUS
        <5>1. i + 1 \in 1 .. Len(wire[q]) /\ 1 \in 1 .. Len(wire[q]) /\ 1 < i + 1
          BY <2>0, <4>2
        <5>2. wire[q][1] < wire[q][i + 1] /\ wire[q][i + 1] \in pos[q] + 1 .. pos[q - 1]
              /\ calls[wire[q][i + 1]].tokens > 0
          BY <2>0, <5>1 DEF WireOK
        <5>3. wire'[q][i] = wire[q][i + 1]
          BY <4>2
        <5>4. wire[q][i + 1] \in n + 1 .. pos[q - 1]
          <6>1. wire[q][i + 1] # pos[q] + 1
            BY <2>0, <2>1, <4>3, <5>2
          <6>. QED
            BY <2>0, <2>1, <5>2, <6>1, AboveFirst
        <5>. QED
          BY <5>2, <5>3, <5>4
      <4>6. \A m \in n + 1 .. pos[q - 1] :
              calls[m].tokens > 0 => \E i \in 1 .. Len(wire'[q]) : wire'[q][i] = m
        <5> SUFFICES ASSUME NEW m \in n + 1 .. pos[q - 1], calls[m].tokens > 0
                     PROVE \E i \in 1 .. Len(wire'[q]) : wire'[q][i] = m
          OBVIOUS
        <5>1. m \in pos[q] + 1 .. pos[q - 1]
          BY <1>2, <2>0, <2>1
        <5>2. PICK i \in 1 .. Len(wire[q]) : wire[q][i] = m
          BY <2>0, <5>1 DEF WireOK
        <5>3. i # 1
          BY <1>2, <4>3, <5>2
        <5>4. i - 1 \in 1 .. Len(wire'[q]) /\ (i - 1) + 1 = i
          BY <2>0, <4>2, <5>3
        <5>. QED
          BY <4>2, <5>2, <5>4
      <4>7. pos[q - 1] + 1 .. n = {}
        BY <1>2, <2>0, <4>3
      <4>. QED
        BY <1>1, <3>1, <4>4, <4>5, <4>6, <4>7 DEF WireOK
    <3>3. CASE ~Receiving(r)
      <4>1. wire'[q] = wire[q] /\ calls[n].tokens = 0
        <5>1. calls[n] \in StepCalls
          BY <1>2, ElementOfSeq
        <5>2. ~(calls[n].tokens > 0)
          BY <1>17, <2>1, <3>3 DEF Receiving, Call
        <5>. QED
          BY <1>1, <1>2, <2>1, <3>3, <5>1, <5>2 DEF StepCalls
      <4>2. \A i \in 1 .. Len(wire[q]) : wire[q][i] \in n + 1 .. pos[q - 1]
        <5> SUFFICES ASSUME NEW i \in 1 .. Len(wire[q]) PROVE wire[q][i] \in n + 1 .. pos[q - 1]
          OBVIOUS
        <5>1. wire[q][i] \in pos[q] + 1 .. pos[q - 1] /\ calls[wire[q][i]].tokens > 0
          BY <2>0 DEF WireOK
        <5>2. wire[q][i] # pos[q] + 1
          BY <2>1, <4>1, <5>1
        <5>. QED
          BY <2>0, <2>1, <5>1, <5>2, AboveFirst
      <4>3. \A m \in n + 1 .. pos[q - 1] : m \in pos[q] + 1 .. pos[q - 1]
        BY <1>2, <2>0, <2>1
      <4>4. \A m \in pos[q - 1] + 1 .. n : m = n \/ m \in pos[q - 1] + 1 .. pos[q]
        BY <1>2, <2>0, <2>1
      <4>5. calls' = calls
        BY <1>1
      <4>6. /\ \A i, j \in 1 .. Len(wire[q]) : i < j => wire[q][i] < wire[q][j]
            /\ \A i \in 1 .. Len(wire[q]) : calls[wire[q][i]].tokens > 0
            /\ \A m \in n + 1 .. pos[q - 1] :
                   calls[m].tokens > 0 => \E i \in 1 .. Len(wire[q]) : wire[q][i] = m
        BY <2>0, <4>3 DEF WireOK
      <4>7. \A m \in pos[q - 1] + 1 .. n : calls[m].tokens = 0
        BY <2>0, <4>1, <4>4 DEF WireOK
      <4>. QED
        BY <3>1, <4>1, <4>2, <4>5, <4>6, <4>7 DEF WireOK
    <3>. QED
      BY <3>2, <3>3
  <2>2. CASE q = r + 1
    <3>0. pos[r] \in Nat
      BY <1>2
    <3>1. q - 1 = r /\ pos'[q] = pos[q] /\ pos'[q - 1] = n /\ q # r
      BY <1>2, <1>5, <2>0, <2>2
    <3>2. r < PP - 1
      BY <1>2, <2>2 DEF Ranks
    <3>3. CASE Sending(r)
      <4>1. wire'[q] = Append(wire[q], n)
        BY <1>1, <2>2, <3>1, <3>3
      <4>2. /\ Len(wire'[q]) = Len(wire[q]) + 1 /\ wire'[q][Len(wire[q]) + 1] = n
            /\ \A i \in 1 .. Len(wire[q]) : wire'[q][i] = wire[q][i]
        BY <1>2, <2>0, <4>1, AppendProperties
      <4>3. calls[n].tokens > 0
        BY <3>3 DEF Sending, Call
      <4>4. pos[q] <= pos[r]
        <5>1. ASSUME pos[q] > pos[r] PROVE FALSE
          <6>1. n \in pos[q - 1] + 1 .. pos[q]
            BY <1>2, <2>0, <3>1, <5>1
          <6>2. calls[n].tokens = 0
            BY <2>0, <6>1 DEF WireOK
          <6>. QED
            BY <4>3, <6>2
        <5>. QED
          BY <1>2, <2>0, <5>1
      <4>5. \A i, j \in 1 .. Len(wire'[q]) : i < j => wire'[q][i] < wire'[q][j]
        <5> SUFFICES ASSUME NEW i \in 1 .. Len(wire'[q]), NEW j \in 1 .. Len(wire'[q]), i < j
                     PROVE wire'[q][i] < wire'[q][j]
          OBVIOUS
        <5>1. i \in 1 .. Len(wire[q]) /\ wire[q][i] \in pos[q] + 1 .. pos[r]
          <6>1. i \in 1 .. Len(wire[q])
            BY <2>0, <4>2
          <6>. QED
            BY <2>0, <3>1, <6>1 DEF WireOK
        <5>2. CASE j = Len(wire[q]) + 1
          <6>1. wire[q][i] < n
            BY SMTT(30), <2>0, <3>0, <5>1
          <6>2. wire'[q][i] = wire[q][i] /\ wire'[q][j] = n
            BY <4>2, <5>1, <5>2
          <6>. QED
            BY <6>1, <6>2
        <5>3. CASE j # Len(wire[q]) + 1
          <6>1. j \in 1 .. Len(wire[q])
            BY <2>0, <4>2, <5>3
          <6>2. wire[q][i] < wire[q][j]
            BY <2>0, <5>1, <6>1 DEF WireOK
          <6>. QED
            BY <4>2, <5>1, <6>1, <6>2
        <5>. QED
          BY <5>2, <5>3
      <4>6. \A i \in 1 .. Len(wire'[q]) :
              wire'[q][i] \in pos[q] + 1 .. n /\ calls[wire'[q][i]].tokens > 0
        <5> SUFFICES ASSUME NEW i \in 1 .. Len(wire'[q])
                     PROVE wire'[q][i] \in pos[q] + 1 .. n /\ calls[wire'[q][i]].tokens > 0
          OBVIOUS
        <5>1. CASE i = Len(wire[q]) + 1
          BY SMTT(30), <1>2, <2>0, <3>1, <4>2, <4>3, <4>4, <5>1
        <5>2. CASE i # Len(wire[q]) + 1
          <6>1. i \in 1 .. Len(wire[q])
            BY <2>0, <4>2, <5>2
          <6>2. wire[q][i] \in pos[q] + 1 .. pos[r] /\ calls[wire[q][i]].tokens > 0
            BY <2>0, <3>1, <6>1 DEF WireOK
          <6>3. wire'[q][i] = wire[q][i]
            BY <4>2, <6>1
          <6>4. wire[q][i] \in pos[q] + 1 .. n
            BY <2>0, <3>0, <6>2
          <6>. QED
            BY <6>2, <6>3, <6>4
        <5>. QED
          BY <5>1, <5>2
      <4>7. \A m \in pos[q] + 1 .. n :
              calls[m].tokens > 0 => \E i \in 1 .. Len(wire'[q]) : wire'[q][i] = m
        <5> SUFFICES ASSUME NEW m \in pos[q] + 1 .. n, calls[m].tokens > 0
                     PROVE \E i \in 1 .. Len(wire'[q]) : wire'[q][i] = m
          OBVIOUS
        <5>1. CASE m = n
          <6>1. Len(wire[q]) + 1 \in 1 .. Len(wire'[q])
            BY <2>0, <4>2
          <6>. QED
            BY <4>2, <5>1, <6>1
        <5>2. CASE m # n
          <6>1. m \in pos[q] + 1 .. pos[q - 1]
            BY <1>2, <2>0, <3>1, <5>2
          <6>2. PICK i \in 1 .. Len(wire[q]) : wire[q][i] = m
            BY <2>0, <6>1 DEF WireOK
          <6>3. i \in 1 .. Len(wire'[q])
            BY <2>0, <4>2
          <6>. QED
            BY <4>2, <6>2, <6>3
        <5>. QED
          BY <5>1, <5>2
      <4>8. n + 1 .. pos[q] = {}
        BY <1>2, <2>0, <3>1, <4>4
      <4>. QED
        BY <1>1, <3>1, <4>5, <4>6, <4>7, <4>8 DEF WireOK
    <3>4. CASE ~Sending(r)
      <4>1. wire'[q] = wire[q] /\ calls[n].tokens = 0
        <5>1. calls[n] \in StepCalls
          BY <1>2, ElementOfSeq
        <5>2. ~(calls[n].tokens > 0)
          BY <3>2, <3>4 DEF Sending, Call
        <5>. QED
          BY <1>1, <3>1, <3>4, <5>1, <5>2 DEF StepCalls
      <4>2. \A i \in 1 .. Len(wire[q]) : wire[q][i] \in pos[q] + 1 .. n
        <5> SUFFICES ASSUME NEW i \in 1 .. Len(wire[q]) PROVE wire[q][i] \in pos[q] + 1 .. n
          OBVIOUS
        <5>1. wire[q][i] \in pos[q] + 1 .. pos[r]
          BY <2>0, <3>1 DEF WireOK
        <5>. QED
          BY SMTT(30), <2>0, <3>0, <5>1
      <4>3. \A m \in pos[q] + 1 .. n : m = n \/ m \in pos[q] + 1 .. pos[q - 1]
        BY <1>2, <2>0, <3>1
      <4>4. \A m \in n + 1 .. pos[q] : m \in pos[q - 1] + 1 .. pos[q]
        BY <1>2, <2>0, <3>1
      <4>5. \A m \in pos[q] + 1 .. n :
              calls[m].tokens > 0 => \E i \in 1 .. Len(wire[q]) : wire[q][i] = m
        <5>1. ~(calls[n].tokens > 0)
          BY <4>1
        <5>. QED
          BY <2>0, <4>3, <5>1 DEF WireOK
      <4>6. /\ \A m \in n + 1 .. pos[q] : calls[m].tokens = 0
            /\ \A i, j \in 1 .. Len(wire[q]) : i < j => wire[q][i] < wire[q][j]
            /\ \A i \in 1 .. Len(wire[q]) : calls[wire[q][i]].tokens > 0
        BY <2>0, <4>4 DEF WireOK
      <4>7. calls' = calls
        BY <1>1
      <4>. QED
        BY <3>1, <4>1, <4>2, <4>5, <4>6, <4>7 DEF WireOK
    <3>. QED
      BY <3>3, <3>4
  <2>3. CASE q # r /\ q # r + 1
    <3>1. q - 1 # r
      BY <1>2, <2>0, <2>3
    <3>2. pos'[q] = pos[q] /\ pos'[q - 1] = pos[q - 1] /\ wire'[q] = wire[q]
      BY <1>1, <1>5, <2>0, <2>3, <3>1
    <3>3. calls' = calls
      BY <1>1
    <3>. QED
      BY <2>0, <3>2, <3>3 DEF WireOK
  <2>. QED
    BY <2>1, <2>2, <2>3
<1>. QED
  BY <1>9, <1>10, <1>11, <1>15, <1>16, <1>17 DEF Steps, RankOK, Local

\* Items by their parts.
LEMMA ItemEqual ==
    ASSUME NEW x \in Items, NEW y \in Items, x.op = y.op, x.n = y.n
    PROVE  x = y
BY DEF Items

LEMMA FollowsValue ==
    ASSUME NEW y, NEW x, NEW r, Follows(y, x, r)
    PROVE  /\ y.op = "forward" /\ r > 0 => x.op = "copy" /\ x.n = y.n
           /\ y.op = "copy" => x.op = "wait_recv" /\ x.n = y.n
           /\ y.op = "isend" => x.op = "forward" /\ x.n = y.n
BY DEF Follows, Item

\* The device runs the item at the head of a stream: nothing of what it runs from was
\* overwritten, and the buffer it overwrites waits for no transfer.
LEMMA DeviceInv == ASSUME Steps, NEW r \in Ranks, Device(r) PROVE Steps'
<1>. DEFINE s == stream[r]
            x == Head(s)
            n == x.n
<1>1. /\ s # <<>> /\ stream' = [stream EXCEPT ![r] = Tail(@)]
      /\ UNCHANGED <<calls, pos, pending, wire, sent, got>>
  BY DEF Device
<1>2. /\ s \in Seq(Items) /\ Len(s) \in Nat /\ 1 \in 1 .. Len(s) /\ x = s[1] /\ x \in Items
      /\ Tail(s) \in Seq(Items) /\ Len(Tail(s)) = Len(s) - 1
      /\ \A i \in 1 .. Len(s) - 1 : Tail(s)[i] = s[i + 1]
      /\ stream'[r] = Tail(s) /\ \A q \in Ranks : q # r => stream'[q] = stream[q]
      /\ stream' \in [Ranks -> Seq(Items)]
  <2>1. s \in Seq(Items)
    BY DEF Steps, Typed
  <2>2. Len(s) \in Nat /\ 1 \in 1 .. Len(s)
    BY <1>1, <2>1, EmptySeq
  <2>3. /\ x = s[1] /\ x \in Items /\ Tail(s) \in Seq(Items) /\ Len(Tail(s)) = Len(s) - 1
        /\ \A i \in 1 .. Len(s) - 1 : Tail(s)[i] = s[i + 1]
    BY <1>1, <2>1, <2>2, HeadTailProperties, ElementOfSeq
  <2>. QED
    BY <1>1, <2>1, <2>2, <2>3 DEF Steps, Typed
<1>3. Local(r) /\ Typed /\ r \in Int /\ pos[r] \in Nat /\ n \in Nat
  <2>1. Local(r) /\ Typed
    BY DEF Steps, RankOK, Local
  <2>2. r \in Int /\ n \in Nat
    BY <1>2, GpuWorkerAssumption DEF Ranks, Items
  <2>. QED
    BY <2>1, <2>2 DEF Typed
<1>. HIDE DEF s, x
\* What a step of the device leaves of the invariant, in terms of what it changes.
<1>4. ASSUME \A q \in Ranks : q # r => UNCHANGED <<open[q], inBuf[q], outBuf[q], fresh[q], computed[q]>>,
             open' \in [Ranks -> SUBSET ({"send", "recv"} \X Nat)],
             DOMAIN fresh' = Ranks, DOMAIN computed' = Ranks,
             DOMAIN inBuf' = Ranks, DOMAIN outBuf' = Ranks, Local(r)'
      PROVE  Steps'
  <2>1. Typed'
    BY <1>1, <1>2, <1>4 DEF Steps, Typed
  <2>2. ASSUME NEW q \in Ranks PROVE RankOK(q)'
    <3>1. Local(q)'
      <4>1. CASE q = r
        BY <1>4, <4>1
      <4>2. CASE q # r
        BY <1>1, <1>2, <1>4, <4>2, LocalFrame DEF Steps, RankOK, Local
      <4>. QED
        BY <4>1, <4>2
    <3>2. q > 0 => WireOK(q)'
      BY <1>1 DEF Steps, RankOK, WireOK
    <3>. QED
      BY <3>1, <3>2 DEF RankOK, Local
  <2>. QED
    BY <2>1, <2>2 DEF Steps
<1>5. Linked(stream[r], r)'
  <2> SUFFICES ASSUME NEW i \in 2 .. Len(s) - 1 PROVE Follows(Tail(s)[i], Tail(s)[i - 1], r)
    BY <1>2 DEF Linked, Follows
  <2>1. /\ Tail(s)[i] = s[i + 1] /\ Tail(s)[i - 1] = s[i] /\ (i + 1) - 1 = i
        /\ i + 1 \in 2 .. Len(s)
    BY <1>2
  <2>. QED
    BY <1>3, <2>1 DEF Local, Prepared, Linked, s
<1>6. Tail(s) # <<>> => Follows(Head(Tail(s)), x, r)
  <2> SUFFICES ASSUME Tail(s) # <<>> PROVE Follows(Head(Tail(s)), x, r)
    OBVIOUS
  <2>1. Len(s) - 1 >= 1 /\ Head(Tail(s)) = Tail(s)[1]
    BY <1>2, EmptySeq, HeadTailProperties
  <2>2. Head(Tail(s)) = s[2] /\ 2 \in 2 .. Len(s) /\ 2 - 1 = 1
    BY <1>2, <2>1
  <2>. QED
    BY <1>2, <1>3, <2>2 DEF Local, Prepared, Linked, s
<1>7. ASSUME NEW k \in 1 .. Len(s) - 1
      PROVE  k + 1 \in 1 .. Len(s) /\ Tail(s)[k] = s[k + 1]
  BY <1>2
\* The sends that are still in the stream.
<1>8. ASSUME \A k \in 1 .. Len(s) - 1 : s[k + 1].op = "isend" =>
                 <<"send", s[k + 1].n>> \notin open'[r]
      PROVE  QueuedSends(r)'
  <2>0. Len(stream'[r]) = Len(s) - 1 /\ stream'[r] = Tail(s)
    BY <1>2
  <2> SUFFICES ASSUME NEW k \in 1 .. Len(s) - 1, stream'[r][k].op = "isend"
               PROVE  LET m == stream'[r][k].n
                      IN  /\ m \in 1 .. pos'[r] /\ m \notin sent'[r] /\ <<"send", m>> \notin open'[r]
                          /\ Shielded(stream'[r], k, m, pending'[r])
                          /\ \A i \in 1 .. Len(s) - 1 : stream'[r][i] = stream'[r][k] => i = k
    BY <2>0 DEF QueuedSends, Shielded
  <2>. DEFINE m == Tail(s)[k].n
  <2>1. k + 1 \in 1 .. Len(s) /\ Tail(s)[k] = s[k + 1]
    BY <1>7
  <2>2. /\ m \in 1 .. pos[r] /\ m \notin sent[r] /\ Shielded(s, k + 1, m, pending[r])
        /\ \A i \in 1 .. Len(s) : s[i] = s[k + 1] => i = k + 1
    BY <1>3, <2>0, <2>1 DEF Local, SendsOK, QueuedSends, s
  <2>3. Shielded(Tail(s), k, m, pending[r])
    <3>1. k \in Nat
      BY <1>2
    <3>. QED
      BY <1>1, <1>2, <2>2, <3>1, ShieldTail DEF s
  <2>4. \A i \in 1 .. Len(s) - 1 : Tail(s)[i] = Tail(s)[k] => i = k
    <3> SUFFICES ASSUME NEW i \in 1 .. Len(s) - 1, Tail(s)[i] = Tail(s)[k] PROVE i = k
      OBVIOUS
    <3>1. s[i + 1] = s[k + 1] /\ i + 1 \in 1 .. Len(s)
      BY <1>7, <2>1
    <3>2. i + 1 = k + 1
      BY <2>2, <3>1
    <3>. QED
      BY <3>2
  <2>5. <<"send", m>> \notin open'[r]
    BY <1>8, <2>0, <2>1
  <2>. QED
    BY <1>1, <2>0, <2>2, <2>3, <2>4, <2>5
\* The sends that were open, when no forward runs or none is of a graph.
<1>9. ASSUME NEW m \in Nat, <<"send", m>> \in open[r]
      PROVE  /\ m \in 1 .. pos[r] /\ m \notin sent[r] /\ Output(r, m)
             /\ \/ x = Item("wait_send", m)
                \/ x.op # "forward" /\ Shielded(Tail(s), 0, m, pending[r])
  <2>1. /\ m \in 1 .. pos[r] /\ m \notin sent[r] /\ Output(r, m)
        /\ Shielded(s, 0, m, pending[r])
    BY <1>3, <1>9 DEF Local, SendsOK, OpenSends, s
  <2>. QED
    BY <1>1, <1>2, <2>1, ShieldPop DEF s
<1>10. \A k \in 1 .. Len(s) - 1 : s[k + 1].op = "isend" => <<"send", s[k + 1].n>> \notin open[r]
  BY <1>3, <1>7 DEF Local, SendsOK, QueuedSends, s
<1>11. ASSUME NEW m \in Nat, <<"send", m>> \in open[r], x.op = "wait_send" => n \in sent[r]
       PROVE  x.op # "forward" /\ Shielded(Tail(s), 0, m, pending[r])
  <2>1. x # Item("wait_send", m)
    BY <1>9, <1>11 DEF Item
  <2>. QED
    BY <1>9, <1>11, <2>1
<1>12. ASSUME \A m \in Nat : <<"send", m>> \in open'[r] =>
                  /\ m \in 1 .. pos[r] /\ m \notin sent[r]
                  /\ Output(r, m)' /\ Shielded(Tail(s), 0, m, pending[r])
       PROVE  OpenSends(r)'
  <2>1. stream'[r] = Tail(s) /\ pos' = pos /\ sent' = sent /\ pending' = pending
    BY <1>1, <1>2
  <2>. QED
    BY <1>12, <2>1 DEF OpenSends, Shielded
<1>13. ASSUME UNCHANGED <<outBuf, fresh>>, NEW m, Output(r, m) PROVE Output(r, m)'
  BY <1>1, <1>13 DEF Output
<1>14. \A m \in sent[r] : m <= pos[r]
  BY <1>3 DEF Local, SendsOK
<1>15. /\ \A k \in 1 .. Len(s) - 1 : Tail(s)[k].op = "forward" => Tail(s)[k].n \in 1 .. pos[r]
       /\ \A m \in DOMAIN got[r] : got[r][m] = m
       /\ \A m \in DOMAIN fresh[r] : fresh[r][m] = m
       /\ \A m \in DOMAIN computed[r] : computed[r][m] = m
  BY <1>3, <1>7 DEF Local, ContentsOK, s
<1>16. Ready(x, r)
  BY <1>1, <1>3 DEF Local, Prepared, s, x
\* The waits.
<1>17. CASE /\ \/ x.op = "wait_send" /\ n \in sent[r]
               \/ x.op = "wait_recv" /\ n \in DOMAIN got[r]
            /\ UNCHANGED <<open, inBuf, outBuf, fresh, computed>>
  <2>1. Prepared(r)'
    <3>1. ASSUME Tail(s) # <<>> PROVE Ready(Head(stream[r]), r)'
      <4>1. Follows(Head(Tail(s)), x, r)
        BY <1>6, <3>1
      <4>2. Head(Tail(s)).op = "copy" => x.op = "wait_recv" /\ n = Head(Tail(s)).n
        BY <4>1, FollowsValue
      <4>3. Head(Tail(s)).op # "isend" /\ (Head(Tail(s)).op = "forward" => ~(r > 0))
        BY <1>17, <4>1, FollowsValue
      <4>. QED
        BY <1>1, <1>2, <1>17, <4>2, <4>3 DEF Ready
    <3>. QED
      BY <1>2, <1>5, <3>1 DEF Prepared
  <2>2. OpenSends(r)'
    BY <1>9, <1>11, <1>17, <1>12, <1>13
  <2>3. QueuedSends(r)'
    BY <1>8, <1>10, <1>17
  <2>4. ContentsOK(r)'
    BY <1>1, <1>2, <1>15, <1>17 DEF ContentsOK
  <2>5. Local(r)'
    BY <1>1, <1>14, <2>1, <2>2, <2>3, <2>4 DEF Local, SendsOK
  <2>. QED
    BY <1>3, <1>4, <1>17, <2>5 DEF Typed
\* isend: the output is there, and is shielded from here on.
<1>18. CASE /\ x.op = "isend" /\ open' = [open EXCEPT ![r] = @ \cup {<<"send", n>>}]
            /\ UNCHANGED <<inBuf, outBuf, fresh, computed>>
  <2>1. Prepared(r)'
    <3>1. ASSUME Tail(s) # <<>> PROVE Ready(Head(stream[r]), r)'
      <4>1. Follows(Head(Tail(s)), x, r)
        BY <1>6, <3>1
      <4>2. Head(Tail(s)).op \notin {"copy", "isend"} /\ (Head(Tail(s)).op = "forward" => ~(r > 0))
        BY <1>18, <4>1, FollowsValue
      <4>. QED
        BY <1>1, <1>2, <1>18, <4>2 DEF Ready
    <3>. QED
      BY <1>2, <1>5, <3>1 DEF Prepared
  <2>2. /\ n \in 1 .. pos[r] /\ n \notin sent[r] /\ Shielded(s, 1, n, pending[r])
        /\ \A i \in 1 .. Len(s) : s[i] = s[1] => i = 1
    BY <1>2, <1>3, <1>18 DEF Local, SendsOK, QueuedSends, s
  <2>3. Shielded(Tail(s), 0, n, pending[r]) /\ Output(r, n)
    <3>1. Shielded(s, 0 + 1, n, pending[r])
      BY <2>2
    <3>. QED
      BY <1>1, <1>2, <1>16, <1>18, <3>1, ShieldTail DEF s, Ready
  <2>4. open'[r] = open[r] \cup {<<"send", n>>} /\ \A q \in Ranks : q # r => open'[q] = open[q]
    BY <1>3, <1>18 DEF Typed
  <2>5. OpenSends(r)'
    <3> SUFFICES ASSUME NEW m \in Nat, <<"send", m>> \in open'[r]
                 PROVE  /\ m \in 1 .. pos[r] /\ m \notin sent[r]
                        /\ Output(r, m) /\ Shielded(Tail(s), 0, m, pending[r])
      BY <1>18, <1>12, <1>13
    <3>1. CASE m = n
      BY <2>2, <2>3, <3>1
    <3>2. CASE m # n
      <4>1. <<"send", m>> \in open[r]
        BY <2>4, <3>2
      <4>. QED
        BY <1>9, <1>11, <1>18, <4>1
    <3>. QED
      BY <3>1, <3>2
  <2>6. QueuedSends(r)'
    <3>1. ASSUME NEW k \in 1 .. Len(s) - 1, s[k + 1].op = "isend", s[k + 1].n = n PROVE FALSE
      <4>1. s[k + 1] \in Items /\ k + 1 \in 1 .. Len(s) /\ k + 1 # 1
        BY <1>2, <1>7, ElementOfSeq
      <4>2. s[k + 1] = s[1]
        BY <1>2, <1>18, <3>1, <4>1, ItemEqual
      <4>. QED
        BY <2>2, <4>1, <4>2
    <3>2. \A k \in 1 .. Len(s) - 1 : s[k + 1].op = "isend" => <<"send", s[k + 1].n>> \notin open'[r]
      BY <1>10, <2>4, <3>1
    <3>. QED
      BY <1>8, <3>2
  <2>7. ContentsOK(r)'
    BY <1>1, <1>2, <1>15, <1>18 DEF ContentsOK
  <2>8. Local(r)'
    BY <1>1, <1>14, <2>1, <2>5, <2>6, <2>7 DEF Local, SendsOK
  <2>9. open' \in [Ranks -> SUBSET ({"send", "recv"} \X Nat)]
    BY <1>3, <1>18 DEF Typed
  <2>. QED
    BY <1>3, <1>4, <1>18, <2>4, <2>8, <2>9 DEF Typed
<1>19. CASE /\ x.op = "irecv" /\ open' = [open EXCEPT ![r] = @ \cup {<<"recv", n>>}]
            /\ UNCHANGED <<inBuf, outBuf, fresh, computed>>
  <2>1. Prepared(r)'
    <3>1. ASSUME Tail(s) # <<>> PROVE Ready(Head(stream[r]), r)'
      <4>1. Follows(Head(Tail(s)), x, r)
        BY <1>6, <3>1
      <4>2. Head(Tail(s)).op \notin {"copy", "isend"} /\ (Head(Tail(s)).op = "forward" => ~(r > 0))
        BY <1>19, <4>1, FollowsValue
      <4>. QED
        BY <1>1, <1>2, <1>19, <4>2 DEF Ready
    <3>. QED
      BY <1>2, <1>5, <3>1 DEF Prepared
  <2>2. open'[r] = open[r] \cup {<<"recv", n>>} /\ \A q \in Ranks : q # r => open'[q] = open[q]
    BY <1>3, <1>19 DEF Typed
  <2>3. \A m : <<"send", m>> \in open'[r] <=> <<"send", m>> \in open[r]
    BY <2>2
  <2>4. OpenSends(r)'
    BY <1>9, <1>11, <1>19, <1>12, <1>13, <2>3
  <2>5. QueuedSends(r)'
    BY <1>8, <1>10, <2>3
  <2>6. ContentsOK(r)'
    BY <1>1, <1>2, <1>15, <1>19 DEF ContentsOK
  <2>7. Local(r)'
    BY <1>1, <1>14, <2>1, <2>4, <2>5, <2>6 DEF Local, SendsOK
  <2>8. open' \in [Ranks -> SUBSET ({"send", "recv"} \X Nat)]
    BY <1>3, <1>19 DEF Typed
  <2>. QED
    BY <1>3, <1>4, <1>19, <2>2, <2>7, <2>8 DEF Typed
<1>20. CASE /\ x.op = "copy"
            /\ inBuf' = [inBuf EXCEPT ![r] = IF n \in DOMAIN got[r] THEN got[r][n] ELSE 0]
            /\ UNCHANGED <<open, outBuf, fresh, computed>>
  <2>1. inBuf'[r] = n /\ \A q \in Ranks : q # r => inBuf'[q] = inBuf[q]
    BY <1>3, <1>15, <1>16, <1>20 DEF Typed, Ready
  <2>2. Prepared(r)'
    <3>1. ASSUME Tail(s) # <<>> PROVE Ready(Head(stream[r]), r)'
      <4>1. Follows(Head(Tail(s)), x, r)
        BY <1>6, <3>1
      <4>2. /\ Head(Tail(s)).op \notin {"copy", "isend"}
            /\ Head(Tail(s)).op = "forward" /\ r > 0 => n = Head(Tail(s)).n
        BY <1>20, <4>1, FollowsValue
      <4>. QED
        BY <1>2, <2>1, <4>2 DEF Ready
    <3>. QED
      BY <1>2, <1>5, <3>1 DEF Prepared
  <2>3. OpenSends(r)'
    BY <1>9, <1>11, <1>20, <1>12, <1>13
  <2>4. QueuedSends(r)'
    BY <1>8, <1>10, <1>20
  <2>5. ContentsOK(r)'
    BY <1>1, <1>2, <1>15, <1>20 DEF ContentsOK
  <2>6. Local(r)'
    BY <1>1, <1>14, <2>2, <2>3, <2>4, <2>5 DEF Local, SendsOK
  <2>7. DOMAIN inBuf' = Ranks
    BY <1>3, <1>20 DEF Typed
  <2>. QED
    BY <1>3, <1>4, <1>20, <2>1, <2>6, <2>7 DEF Typed
\* forward: its input is its own, and no send reads the buffer it overwrites.
<1>21. CASE x.op = "forward" /\ Forward(r, n)
  <2>. DEFINE from == IF r = 0 THEN n ELSE inBuf[r]
  <2>1. from = n
    BY <1>3, <1>16, <1>21, GpuWorkerAssumption DEF Ready, Ranks
  <2>2. /\ computed' = [computed EXCEPT ![r] = With(@, n, from)] /\ UNCHANGED <<open, inBuf>>
        /\ IF calls[n].full
           THEN outBuf' = [outBuf EXCEPT ![r] = n] /\ UNCHANGED fresh
           ELSE fresh' = [fresh EXCEPT ![r] = With(@, n, n)] /\ UNCHANGED outBuf
    BY <1>21 DEF Forward
  <2>3. /\ computed'[r] = With(computed[r], n, n) /\ DOMAIN computed' = Ranks
        /\ \A q \in Ranks : q # r => computed'[q] = computed[q]
    BY <1>3, <2>1, <2>2 DEF Typed
  <2>4. /\ DOMAIN outBuf' = Ranks /\ DOMAIN fresh' = Ranks
        /\ \A q \in Ranks : q # r => outBuf'[q] = outBuf[q] /\ fresh'[q] = fresh[q]
    BY <1>3, <2>2 DEF Typed
  <2>5. /\ IF calls[n].full THEN outBuf'[r] = n ELSE n \in DOMAIN fresh'[r]
        /\ fresh'[r] = fresh[r] \/ fresh'[r] = With(fresh[r], n, n)
    <3>1. CASE calls[n].full
      BY <1>3, <2>2, <3>1 DEF Typed
    <3>2. CASE ~calls[n].full
      <4>1. fresh'[r] = With(fresh[r], n, n)
        BY <1>3, <2>2, <3>2 DEF Typed
      <4>. QED
        BY <3>2, <4>1 DEF With
    <3>. QED
      BY <3>1, <3>2
  <2>6. Prepared(r)'
    <3>1. ASSUME Tail(s) # <<>> PROVE Ready(Head(stream[r]), r)'
      <4>1. Follows(Head(Tail(s)), x, r)
        BY <1>6, <3>1
      <4>2. /\ Head(Tail(s)).op = "forward" => ~(r > 0)
            /\ Head(Tail(s)).op # "copy"
            /\ Head(Tail(s)).op = "isend" => n = Head(Tail(s)).n
        BY <1>21, <4>1, FollowsValue
      <4>. QED
        BY <1>1, <1>2, <2>5, <4>2 DEF Ready, Output
    <3>. QED
      BY <1>2, <1>5, <3>1 DEF Prepared
  <2>7. OpenSends(r)'
    <3>1. \A m \in Nat : <<"send", m>> \notin open[r]
      BY <1>11, <1>21
    <3>. QED
      BY <2>2, <3>1 DEF OpenSends
  <2>8. QueuedSends(r)'
    BY <1>8, <1>10, <2>2
  <2>9. ContentsOK(r)'
    <3>1. /\ \A m \in DOMAIN computed'[r] : computed'[r][m] = m
          /\ \A m \in DOMAIN fresh'[r] : fresh'[r][m] = m
      BY <1>15, <2>3, <2>5 DEF With
    <3>. QED
      BY <1>1, <1>2, <1>15, <3>1 DEF ContentsOK
  <2>10. Local(r)'
    BY <1>1, <1>14, <2>6, <2>7, <2>8, <2>9 DEF Local, SendsOK
  <2>. QED
    BY <1>3, <1>4, <2>2, <2>3, <2>4, <2>10 DEF Typed
<1>. QED
  <2>1. \/ x.op = "wait_send" /\ n \in sent[r] /\ UNCHANGED <<open, inBuf, outBuf, fresh, computed>>
        \/ x.op = "wait_recv" /\ n \in DOMAIN got[r] /\ UNCHANGED <<open, inBuf, outBuf, fresh, computed>>
        \/ /\ x.op = "isend" /\ open' = [open EXCEPT ![r] = @ \cup {<<"send", n>>}]
           /\ UNCHANGED <<inBuf, outBuf, fresh, computed>>
        \/ /\ x.op = "irecv" /\ open' = [open EXCEPT ![r] = @ \cup {<<"recv", n>>}]
           /\ UNCHANGED <<inBuf, outBuf, fresh, computed>>
        \/ /\ x.op = "copy"
           /\ inBuf' = [inBuf EXCEPT ![r] = IF n \in DOMAIN got[r] THEN got[r][n] ELSE 0]
           /\ UNCHANGED <<open, outBuf, fresh, computed>>
        \/ x.op = "forward" /\ Forward(r, n)
    BY DEF Device, s, x
  <2>. QED
    BY <1>17, <1>18, <1>19, <1>20, <1>21, <2>1

\* A transfer reads the output of its own step, for no forward has run since.
LEMMA TransferInv == ASSUME Steps, NEW r \in Ranks, r + 1 \in Ranks, Transfer(r) PROVE Steps'
<1>1. PICK n \in DOMAIN calls :
        /\ <<"send", n>> \in open[r] /\ <<"recv", n>> \in open[r + 1]
        /\ open' = [open EXCEPT ![r] = @ \ {<<"send", n>>}, ![r + 1] = @ \ {<<"recv", n>>}]
        /\ sent' = [sent EXCEPT ![r] = @ \cup {n}]
        /\ got' = [got EXCEPT ![r + 1] =
                        With(@, n, IF calls[n].full THEN outBuf[r] ELSE fresh[r][n])]
        /\ UNCHANGED <<calls, pos, stream, pending, wire, inBuf, outBuf, fresh, computed>>
  BY DEF Transfer
<1>2. r \in Int /\ r # r + 1 /\ n \in Nat
  BY <1>1, GpuWorkerAssumption DEF Ranks, Steps, Typed
<1>3. /\ open'[r] = open[r] \ {<<"send", n>>} /\ open'[r + 1] = open[r + 1] \ {<<"recv", n>>}
      /\ sent'[r] = sent[r] \cup {n} /\ got'[r] = got[r] /\ sent'[r + 1] = sent[r + 1]
      /\ \A q \in Ranks : q # r /\ q # r + 1 =>
             open'[q] = open[q] /\ sent'[q] = sent[q] /\ got'[q] = got[q]
  BY <1>1, <1>2 DEF Steps, Typed
<1>4. /\ n \in 1 .. pos[r] /\ n \notin sent[r] /\ Output(r, n)
      /\ Local(r) /\ Local(r + 1) /\ pos[r] \in Nat
  BY <1>1, <1>2 DEF Steps, Typed, RankOK, SendsOK, OpenSends, Local
<1>5. got'[r + 1] = With(got[r + 1], n, n)
  <2>1. (IF calls[n].full THEN outBuf[r] ELSE fresh[r][n]) = n
    BY <1>4 DEF Output, Local, ContentsOK
  <2>. QED
    BY <1>1, <2>1 DEF Steps, Typed
<1>6. Typed'
  <2>1. /\ open' \in [Ranks -> SUBSET ({"send", "recv"} \X Nat)] /\ sent' \in [Ranks -> SUBSET Nat]
        /\ DOMAIN got' = Ranks
    BY <1>1, <1>2 DEF Steps, Typed
  <2>. QED
    BY <1>1, <2>1 DEF Steps, Typed
<1>7. Local(r)'
  <2>1. Prepared(r)' /\ ContentsOK(r)'
    BY <1>1, <1>3, <1>4 DEF Local, Prepared, Linked, Follows, Ready, Output, ContentsOK
  <2>2. QueuedSends(r)'
    <3>1. ASSUME NEW k \in 1 .. Len(stream[r]), stream[r][k].op = "isend" PROVE stream[r][k].n # n
      BY <1>1, <1>4, <3>1 DEF Local, SendsOK, QueuedSends
    <3> SUFFICES ASSUME NEW k \in 1 .. Len(stream[r]), stream[r][k].op = "isend"
                 PROVE  LET m == stream[r][k].n
                        IN  /\ m \in 1 .. pos[r] /\ m \notin sent'[r] /\ <<"send", m>> \notin open'[r]
                            /\ Shielded(stream[r], k, m, pending[r])
                            /\ \A i \in 1 .. Len(stream[r]) : stream[r][i] = stream[r][k] => i = k
      <4>1. UNCHANGED <<pos, stream, pending>>
        BY <1>1
      <4>. QED
        BY <4>1 DEF QueuedSends, Shielded
    <3>. DEFINE m == stream[r][k].n
    <3>2. /\ m \in 1 .. pos[r] /\ m \notin sent[r] /\ <<"send", m>> \notin open[r]
          /\ Shielded(stream[r], k, m, pending[r])
          /\ \A i \in 1 .. Len(stream[r]) : stream[r][i] = stream[r][k] => i = k
      BY <1>4 DEF Local, SendsOK, QueuedSends
    <3>3. m \notin sent'[r] /\ <<"send", m>> \notin open'[r]
      BY <1>3, <3>1, <3>2
    <3>. QED
      BY <3>2, <3>3
  <2>3. OpenSends(r)'
    <3> SUFFICES ASSUME NEW m \in Nat, <<"send", m>> \in open'[r]
                 PROVE  /\ m \in 1 .. pos[r] /\ m \notin sent'[r]
                        /\ Output(r, m) /\ Shielded(stream[r], 0, m, pending[r])
      BY <1>1 DEF OpenSends, Output, Shielded
    <3>1. m # n /\ <<"send", m>> \in open[r]
      BY <1>3
    <3>. QED
      BY <1>3, <1>4, <3>1 DEF Local, SendsOK, OpenSends
  <2>4. \A m \in sent'[r] : m <= pos'[r]
    BY <1>1, <1>3, <1>4 DEF Local, SendsOK
  <2>. QED
    BY <2>1, <2>2, <2>3, <2>4 DEF Local, SendsOK
<1>8. Local(r + 1)'
  <2>1. \A m : <<"send", m>> \in open'[r + 1] <=> <<"send", m>> \in open[r + 1]
    BY <1>3
  <2>2. QueuedSends(r + 1)' /\ OpenSends(r + 1)' /\ \A m \in sent'[r + 1] : m <= pos'[r + 1]
    <3>1. QueuedSends(r + 1)'
      <4>1. UNCHANGED <<pos, stream, pending>> /\ sent'[r + 1] = sent[r + 1]
        BY <1>1, <1>3
      <4>2. QueuedSends(r + 1)
        BY <1>4 DEF Local, SendsOK
      <4> SUFFICES ASSUME NEW k \in 1 .. Len(stream[r + 1]), stream[r + 1][k].op = "isend"
                   PROVE  LET m == stream[r + 1][k].n
                          IN  /\ m \in 1 .. pos[r + 1] /\ m \notin sent[r + 1]
                              /\ <<"send", m>> \notin open'[r + 1]
                              /\ Shielded(stream[r + 1], k, m, pending[r + 1])
                              /\ \A i \in 1 .. Len(stream[r + 1]) :
                                     stream[r + 1][i] = stream[r + 1][k] => i = k
        BY <4>1 DEF QueuedSends, Shielded
      <4>. QED
        BY <2>1, <4>2 DEF QueuedSends
    <3>2. OpenSends(r + 1)'
      <4>1. UNCHANGED <<calls, pos, stream, pending, outBuf, fresh>> /\ sent'[r + 1] = sent[r + 1]
        BY <1>1, <1>3
      <4>2. OpenSends(r + 1)
        BY <1>4 DEF Local, SendsOK
      <4>. QED
        BY <2>1, <4>1, <4>2 DEF OpenSends, Output, Shielded
    <3>. QED
      BY <1>1, <1>3, <1>4, <3>1, <3>2 DEF Local, SendsOK
  <2>3. Prepared(r + 1)' /\ ContentsOK(r + 1)'
    <3>1. /\ DOMAIN got[r + 1] \subseteq DOMAIN got'[r + 1]
          /\ (\A m \in DOMAIN got[r + 1] : got[r + 1][m] = m)
                => \A m \in DOMAIN got'[r + 1] : got'[r + 1][m] = m
      BY <1>5 DEF With
    <3>2. Prepared(r + 1)'
      BY <1>1, <1>4, <3>1 DEF Local, Prepared, Linked, Follows, Ready, Output
    <3>3. ContentsOK(r + 1)'
      BY <1>1, <1>4, <3>1 DEF Local, ContentsOK
    <3>. QED
      BY <3>2, <3>3
  <2>. QED
    BY <2>2, <2>3 DEF Local, SendsOK
<1>9. ASSUME NEW q \in Ranks PROVE RankOK(q)'
  <2>1. Local(q)'
    <3>1. CASE q # r /\ q # r + 1
      BY <1>1, <1>3, <3>1, LocalFrame DEF Steps, RankOK, Local
    <3>. QED
      BY <1>7, <1>8, <3>1
  <2>2. q > 0 => WireOK(q)'
    BY <1>1 DEF Steps, RankOK, WireOK
  <2>. QED
    BY <2>1, <2>2 DEF RankOK, Local
<1>. QED
  BY <1>6, <1>9 DEF Steps

-----------------------------------------------------------------------------
LEMMA StepInvInit == Init => StepInv
<1> SUFFICES ASSUME Init PROVE StepInv
  OBVIOUS
<1>1. CASE workload = "steps"
  <2>1. <<>> \in Seq(StepCalls) /\ <<>> \in Seq(Items) /\ <<>> \in Seq(Nat) /\ Len(<<>>) = 0
    BY EmptySeq
  <2>2. Typed
    BY <2>1 DEF Init, Typed
  <2>3. ASSUME NEW r \in Ranks PROVE RankOK(r)
    <3>1. /\ stream[r] = <<>> /\ wire[r] = <<>> /\ open[r] = {} /\ sent[r] = {} /\ pos[r] = 0
          /\ DOMAIN got[r] = {} /\ DOMAIN fresh[r] = {} /\ DOMAIN computed[r] = {}
      BY DEF Init
    <3>2. ASSUME r > 0 PROVE WireOK(r)
      <4>1. r - 1 \in Ranks
        BY <3>2, GpuWorkerAssumption DEF Ranks
      <4>2. pos[r - 1] = 0
        BY <4>1 DEF Init
      <4>. QED
        BY <2>1, <3>1, <4>2 DEF WireOK
    <3>3. Prepared(r) /\ QueuedSends(r) /\ OpenSends(r) /\ ContentsOK(r)
      BY <2>1, <3>1 DEF Prepared, Linked, QueuedSends, OpenSends, ContentsOK
    <3>. QED
      BY <3>1, <3>2, <3>3 DEF RankOK, SendsOK
  <2>. QED
    BY <1>1, <2>2, <2>3 DEF StepInv, Steps
<1>2. CASE workload # "steps"
  BY <1>2, EmptySeq DEF Init, StepInv, Idle
<1>. QED
  BY <1>1, <1>2

\* While the engine is busy with steps it makes no other calls.
LEMMA OnlySteps ==
    ASSUME Steps, NEW r \in Ranks, NEW kind \in {"start", "update", "finish", "sleep", "wake"},
           Has(r, kind)
    PROVE  FALSE
<1>1. pos[r] + 1 \in 1 .. Len(calls) /\ calls \in Seq(StepCalls)
  BY LenProperties DEF Steps, Typed, Has
<1>2. calls[pos[r] + 1] \in StepCalls
  BY <1>1, ElementOfSeq
<1>. QED
  BY <1>2 DEF Has, Call, StepCalls

\* With another workload there is no step to execute, and nothing on the devices.
LEMMA IdleInv == ASSUME Inv, Idle, workload # "steps", [Next]_vars PROVE Idle'
<1>1. calls \in Seq(CallRecords) /\ Len(calls) \in Nat /\ pos \in [Ranks -> Nat]
  BY LenProperties DEF Inv, CallsOK
<1>2. UNCHANGED step /\ (UNCHANGED calls \/ \E c : calls' = Append(calls, c) /\ c.kind # "execute")
  <2>1. CASE UNCHANGED vars
    BY <2>1 DEF vars
  <2>2. CASE EngineUpdates
    <3>1. UNCHANGED step
      BY <2>2 DEF EngineUpdates
    <3>2. CASE \E m \in Models : calls' = Append(calls, [kind |-> "start", model |-> m])
      BY <3>1, <3>2
    <3>3. CASE calls' = Append(calls, [kind |-> "update"])
      BY <3>1, <3>3
    <3>4. CASE calls' = Append(calls, [kind |-> "finish"])
      BY <3>1, <3>4
    <3>. QED
      BY <2>2, <3>2, <3>3, <3>4 DEF EngineUpdates
  <2>3. CASE EngineSleeps
    <3>1. UNCHANGED step
      BY <2>3 DEF EngineSleeps
    <3>2. CASE \E l \in {1, 2} : calls' = Append(calls, [kind |-> "sleep", level |-> l])
      BY <3>1, <3>2
    <3>3. CASE \E tags \in SUBSET sleeping :
                 calls' = Append(calls, [kind |-> "wake", tags |-> tags])
      BY <3>1, <3>3
    <3>. QED
      BY <2>3, <3>2, <3>3 DEF EngineSleeps
  <2>4. CASE \E r \in Ranks : StartUpdate(r) \/ UpdateWeights(r) \/ FinishUpdate(r)
    BY <2>4 DEF StartUpdate, UpdateWeights, FinishUpdate
  <2>5. CASE Sleep \/ WakeUp
    BY <2>5 DEF Sleep, WakeUp
  <2>6. ASSUME NEW r \in Ranks, Execute(r) PROVE FALSE
    <3>1. pos[r] + 1 \in 1 .. Len(calls) /\ calls[pos[r] + 1].kind = "execute"
      BY <1>1, <2>6 DEF Execute, Has, Call
    <3>. QED
      BY <3>1 DEF Idle
  <2>7. ASSUME NEW r \in Ranks, Device(r) \/ Transfer(r) PROVE FALSE
    BY <2>7 DEF Device, Transfer, Idle
  <2>. QED
    BY <2>1, <2>2, <2>3, <2>4, <2>5, <2>6, <2>7 DEF Next, EngineSteps
<1>3. \A i \in 1 .. Len(calls') : calls'[i].kind # "execute"
  BY <1>1, <1>2 DEF Idle
<1>. QED
  BY <1>2, <1>3 DEF Idle, step

LEMMA StepsInv == ASSUME Steps, workload = "steps", [Next]_vars PROVE Steps'
<1>1. CASE UNCHANGED vars
  <2>1. UNCHANGED <<calls, pos, stream, pending, wire, open, sent, got, inBuf, outBuf, fresh, computed>>
    BY <1>1 DEF vars, step
  <2>2. Typed'
    BY <2>1 DEF Steps, Typed
  <2>3. ASSUME NEW r \in Ranks PROVE RankOK(r)'
    <3>1. Local(r)'
      BY <2>1, LocalFrame DEF Steps, RankOK, Local
    <3>2. r > 0 => WireOK(r)'
      BY <2>1 DEF Steps, RankOK, WireOK
    <3>. QED
      BY <3>1, <3>2 DEF RankOK, Local
  <2>. QED
    BY <2>2, <2>3 DEF Steps
<1>2. CASE EngineUpdates \/ EngineSleeps
  BY <1>2 DEF EngineUpdates, EngineSleeps
<1>3. ASSUME NEW r \in Ranks, StartUpdate(r) \/ UpdateWeights(r) \/ FinishUpdate(r) PROVE FALSE
  BY <1>3, OnlySteps DEF StartUpdate, UpdateWeights, FinishUpdate
<1>4. CASE Sleep \/ WakeUp
  <2>1. 0 \in Ranks
    BY GpuWorkerAssumption DEF Ranks
  <2>. QED
    BY <1>4, <2>1, OnlySteps DEF Sleep, WakeUp
<1>5. ASSUME NEW r \in Ranks \ {PP - 1}, Transfer(r) PROVE Steps'
  <2>1. r + 1 \in Ranks
    BY GpuWorkerAssumption DEF Ranks
  <2>. QED
    BY <1>5, <2>1, TransferInv
<1>. QED
  BY <1>1, <1>2, <1>3, <1>4, <1>5, EngineStepsInv, ExecuteInv, DeviceInv DEF Next

LEMMA StepInvStep == Inv /\ StepInv /\ [Next]_vars => StepInv'
<1> SUFFICES ASSUME Inv, StepInv, [Next]_vars PROVE StepInv'
  OBVIOUS
<1>1. UNCHANGED workload
  BY DEF Next, vars, EngineSteps, EngineUpdates, EngineSleeps, Execute, Device, Transfer,
         StartUpdate, UpdateWeights, FinishUpdate, Sleep, WakeUp
<1>. QED
  BY <1>1, IdleInv, StepsInv DEF StepInv

\* Every forward of every stage is computed from the tensors of its own step.
THEOREM OwnTensorsHolds == Spec => []OwnTensors
<1>1. StepInv => OwnTensors
  <2>1. Steps => OwnTensors
    BY DEF Steps, RankOK, ContentsOK, OwnTensors
  <2>2. Idle => OwnTensors
    BY DEF Idle, OwnTensors
  <2>. QED
    BY <2>1, <2>2 DEF StepInv
<1>. QED
  BY <1>1, InvInit, InvStep, StepInvInit, StepInvStep, PTL DEF Spec
=============================================================================
