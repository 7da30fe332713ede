------------------------ MODULE SgpuLifecycle_proofs ------------------------
(***************************************************************************)
(* Theorems about SgpuLifecycle, for any number of files, instances and    *)
(* scheduler threads.                                                      *)
(***************************************************************************)
EXTENDS SgpuLifecycle, FiniteSetTheorems, TLAPS

-----------------------------------------------------------------------------
(* How the places of files, finalizers and threads change.                 *)
LEMMA FileSet ==
    ASSUME Types, NEW f \in File, NEW next \in FileStates, file' = [file EXCEPT ![f] = next]
    PROVE  /\ file' \in [File -> FileStates]
           /\ file'[f] = next
           /\ \A g \in File \ {f} : file'[g] = file[g]
  BY DEF Types

LEMMA FilePlaced ==
    ASSUME Types, NEW f \in File,
           NEW place \in {"closed", "dead", "find", "driver", "open", "start"}, FileAt(f, place)
    PROVE  /\ file' \in [File -> FileStates]
           /\ file'[f].at = place
           /\ \A g \in File \ {f} : file'[g] = file[g]
  <1>. DEFINE next == [at |-> place]
  <1>1. next \in FileStates /\ next.at = place  BY DEF FileStates
  <1>2. file' = [file EXCEPT ![f] = next]  BY DEF FileAt
  <1>. HIDE DEF next
  <1>. QED  BY <1>1, <1>2, FileSet

LEMMA FinSet ==
    ASSUME Types, NEW w \in Finalizer, NEW next \in FinStates, fin' = [fin EXCEPT ![w] = next]
    PROVE  /\ fin' \in [Finalizer -> FinStates]
           /\ fin'[w] = next
           /\ \A v \in Finalizer \ {w} : fin'[v] = fin[v]
  BY DEF Types

LEMMA FinPlaced ==
    ASSUME Types, NEW w \in Finalizer,
           NEW place \in {"off", "check", "call", "locks", "free", "done", "stuck"},
           FinAt(w, place)
    PROVE  /\ fin' \in [Finalizer -> FinStates]
           /\ fin'[w].at = place
           /\ \A v \in Finalizer \ {w} : fin'[v] = fin[v]
  <1>. DEFINE next == [at |-> place]
  <1>1. next \in FinStates /\ next.at = place  BY DEF FinStates
  <1>2. fin' = [fin EXCEPT ![w] = next]  BY DEF FinAt
  <1>. HIDE DEF next
  <1>. QED  BY <1>1, <1>2, FinSet

LEMMA ThreadSet ==
    ASSUME Types, NEW t \in Kthread, NEW next \in ThreadStates, kt' = [kt EXCEPT ![t] = next]
    PROVE  /\ kt' \in [Kthread -> ThreadStates]
           /\ kt'[t] = next
           /\ \A u \in Kthread \ {t} : kt'[u] = kt[u]
  BY DEF Types

(* The steps of the files, as far as their places go.                      *)
LEMMA BeginEffect ==
    ASSUME Types, NEW f \in File, OpenBegin(f)
    PROVE  /\ file' \in [File -> FileStates]
           /\ file[f].at = "closed"
           /\ \/ gpu = "live" /\ opened /\ file'[f].at = "find"
              \/ gpu = "live" /\ ~opened /\ file'[f].at = "fill" /\ file'[f].inst = 0
              \/ gpu # "live" /\ file'[f].at = "find" /\ f \in stale'
           /\ \A g \in File \ {f} : file'[g] = file[g]
  <1>1. file[f].at = "closed"  BY DEF OpenBegin, Closed
  <1>2. CASE gpu = "live"
    <2>. DEFINE next == IF opened THEN [at |-> "find"] ELSE [at |-> "fill", inst |-> 0]
    <2>1. 0 \in Inst  BY LifecycleAssumption DEF Inst
    <2>2. CASE opened
      <3>1. next \in FileStates /\ next.at = "find"  BY <2>2 DEF FileStates
      <3>2. file' = [file EXCEPT ![f] = next]  BY <1>2 DEF OpenBegin
      <3>. HIDE DEF next
      <3>. QED  BY <1>1, <1>2, <2>2, <3>1, <3>2, FileSet
    <2>3. CASE ~opened
      <3>1. next \in FileStates /\ next.at = "fill" /\ next.inst = 0
        BY <2>1, <2>3 DEF FileStates
      <3>2. file' = [file EXCEPT ![f] = next]  BY <1>2 DEF OpenBegin
      <3>. HIDE DEF next
      <3>. QED  BY <1>1, <1>2, <2>3, <3>1, <3>2, FileSet
    <2>. QED  BY <2>2, <2>3
  <1>3. CASE gpu # "live"
    <2>1. FileAt(f, "find") /\ stale' = stale \cup {f}  BY <1>3 DEF OpenBegin
    <2>. QED  BY <1>1, <1>3, <2>1, FilePlaced
  <1>. QED  BY <1>2, <1>3

LEMMA FillEffect ==
    ASSUME Types, NEW f \in File, OpenFill(f)
    PROVE  /\ file' \in [File -> FileStates]
           /\ file[f].at = "fill" /\ file[f].inst \in Inst /\ f \notin stale
           /\ \/ file'[f].at = "dead" /\ UNCHANGED <<filled, opened>>
              \/ /\ filled' = filled \cup {file[f].inst}
                 /\ opened' = (opened \/ file[f].inst = NInst - 1)
                 /\ \/ file[f].inst = NInst - 1 /\ file'[f].at = "find"
                    \/ /\ file[f].inst # NInst - 1
                       /\ file'[f].at = "fill" /\ file'[f].inst = file[f].inst + 1
           /\ \A g \in File \ {f} : file'[g] = file[g]
  <1>1. file[f].at = "fill" /\ f \notin stale  BY DEF OpenFill
  <1>2. file[f].inst \in Inst /\ file[f] = [at |-> "fill", inst |-> file[f].inst]
    BY <1>1 DEF Types, FileStates
  <1>3. CASE FileAt(f, "dead") /\ UNCHANGED <<filled, opened>>
    BY <1>1, <1>2, <1>3, FilePlaced
  <1>4. CASE /\ filled' = filled \cup {file[f].inst}
             /\ opened' = (opened \/ file[f].inst = NInst - 1)
             /\ file[f].inst = NInst - 1 /\ FileAt(f, "find")
    BY <1>1, <1>2, <1>4, FilePlaced
  <1>5. CASE /\ filled' = filled \cup {file[f].inst}
             /\ opened' = (opened \/ file[f].inst = NInst - 1)
             /\ file[f].inst # NInst - 1
             /\ file' = [file EXCEPT ![f].inst = @ + 1]
    <2>. DEFINE next == [at |-> "fill", inst |-> file[f].inst + 1]
                other == [file[f] EXCEPT !.inst = @ + 1]
    <2>1. other = next
      <3>1. other = [file[f] EXCEPT !.inst = @ + 1]  OBVIOUS
      <3>. HIDE DEF other
      <3>. QED  BY <1>2, <3>1
    <2>2. file[f].inst + 1 \in Inst  BY <1>2, <1>5, LifecycleAssumption DEF Inst
    <2>3. next \in FileStates /\ next.at = "fill" /\ next.inst = file[f].inst + 1
      BY <2>2 DEF FileStates
    <2>4. file' = [file EXCEPT ![f] = next]  BY <1>5, <2>1
    <2>. HIDE DEF next
    <2>. QED  BY <1>1, <1>2, <1>5, <2>3, <2>4, FileSet
  <1>. QED  BY <1>3, <1>4, <1>5 DEF OpenFill

LEMMA RunEffect ==
    ASSUME Types, NEW f \in File, KickRun(f)
    PROVE  /\ file' \in [File -> FileStates]
           /\ file[f].at = "start" /\ file'[f].at = "store"
           /\ \A g \in File \ {f} : file'[g] = file[g]
           /\ kt' \in [Kthread -> ThreadStates]
           /\ \/ /\ file'[f].made \in Kthread
                 /\ kt[file'[f].made].at = "gone" /\ kt'[file'[f].made].at = "sleep"
                 /\ \A u \in Kthread \ {file'[f].made} : kt'[u] = kt[u]
                 /\ \A w \in Finalizer :
                       fin[w].at = "wait" => fin[w].thread # file'[f].made
                 /\ IF \/ \E u \in Kthread : Running(u)
                       \/ \E g \in File : file[g].at = "store"
                    THEN Note("start") ELSE UNCHANGED trouble
              \/ file'[f].made = ErrPtr /\ kt' = kt /\ Note("failed")
  <1>1. file[f].at = "start"  BY DEF KickRun
  <1>2. CASE \E t \in Kthread :
            /\ kt[t] = NoThread
            /\ \A w \in Finalizer : fin[w].at = "wait" => fin[w].thread # t
            /\ kt' = [kt EXCEPT ![t] = [at |-> "sleep", turn |-> 0]]
            /\ file' = [file EXCEPT ![f] = [at |-> "store", made |-> t]]
            /\ IF \/ \E u \in Kthread : Running(u)
                  \/ \E g \in File : file[g].at = "store"
               THEN Note("start") ELSE UNCHANGED trouble
    <2>1. PICK t \in Kthread :
            /\ kt[t] = NoThread
            /\ \A w \in Finalizer : fin[w].at = "wait" => fin[w].thread # t
            /\ kt' = [kt EXCEPT ![t] = [at |-> "sleep", turn |-> 0]]
            /\ file' = [file EXCEPT ![f] = [at |-> "store", made |-> t]]
            /\ IF \/ \E u \in Kthread : Running(u)
                  \/ \E g \in File : file[g].at = "store"
               THEN Note("start") ELSE UNCHANGED trouble
      BY <1>2
    <2>. DEFINE next == [at |-> "store", made |-> t]
                thread == [at |-> "sleep", turn |-> 0]
    <2>2. next \in FileStates /\ next.at = "store" /\ next.made = t  BY DEF FileStates
    <2>3. thread \in ThreadStates /\ thread.at = "sleep"
      BY LifecycleAssumption DEF ThreadStates, Inst
    <2>4. file' = [file EXCEPT ![f] = next] /\ kt' = [kt EXCEPT ![t] = thread]  BY <2>1
    <2>5. kt[t].at = "gone"  BY <2>1 DEF NoThread
    <2>. HIDE DEF next, thread
    <2>6. /\ file' \in [File -> FileStates] /\ file'[f].at = "store" /\ file'[f].made = t
          /\ \A g \in File \ {f} : file'[g] = file[g]
      BY <2>2, <2>4, FileSet
    <2>7. /\ kt' \in [Kthread -> ThreadStates] /\ kt'[t].at = "sleep"
          /\ \A u \in Kthread \ {t} : kt'[u] = kt[u]
      BY <2>3, <2>4, ThreadSet
    <2>. QED  BY <1>1, <2>1, <2>5, <2>6, <2>7
  <1>3. CASE /\ file' = [file EXCEPT ![f] = [at |-> "store", made |-> ErrPtr]]
             /\ Note("failed") /\ UNCHANGED kt
    <2>. DEFINE next == [at |-> "store", made |-> ErrPtr]
    <2>1. next \in FileStates /\ next.at = "store" /\ next.made = ErrPtr  BY DEF FileStates
    <2>2. file' = [file EXCEPT ![f] = next]  BY <1>3
    <2>. HIDE DEF next
    <2>. QED  BY <1>1, <1>3, <2>1, <2>2, FileSet DEF Types
  <1>. QED  BY <1>2, <1>3 DEF KickRun

(* The steps of a thread.                                                  *)
LEMMA ThreadEffect ==
    ASSUME Types, NEW t \in Kthread, ThreadNext(t)
    PROVE  /\ kt' \in [Kthread -> ThreadStates]
           /\ \/ Wake(t) /\ kt[t].at = "sleep" /\ kt'[t].at \in {"out", "turn", "look"}
              \/ /\ Look(t) /\ kt[t].at \in {"turn", "look"}
                 /\ kt'[t].at \in {"out", "sleep", "turn", "look"}
              \/ Out(t) /\ kt[t].at = "out" /\ kt'[t].at = "left"
              \/ Return(t) /\ kt[t].at = "left" /\ kt'[t].at = "gone"
           /\ \A u \in Kthread \ {t} : kt'[u] = kt[u]
  <1>1. kt[t] \in ThreadStates  BY DEF Types
  <1>2. ASSUME NEW place \in {"sleep", "turn", "look", "out", "left"},
               kt[t].at # "gone", kt' = [kt EXCEPT ![t].at = place]
        PROVE  /\ kt' \in [Kthread -> ThreadStates] /\ kt'[t].at = place
               /\ \A u \in Kthread \ {t} : kt'[u] = kt[u]
    <2>1. kt[t].turn \in Inst /\ kt[t] = [at |-> kt[t].at, turn |-> kt[t].turn]
      BY <1>1, <1>2 DEF ThreadStates
    <2>. DEFINE next == [at |-> place, turn |-> kt[t].turn]
    <2>2. [kt[t] EXCEPT !.at = place] = next  BY <2>1
    <2>3. next \in ThreadStates /\ next.at = place  BY <2>1 DEF ThreadStates
    <2>4. kt' = [kt EXCEPT ![t] = next]  BY <1>2, <2>2
    <2>. HIDE DEF next
    <2>. QED  BY <2>3, <2>4, ThreadSet
  <1>3. CASE Wake(t)  BY <1>2, <1>3 DEF Wake
  <1>4. CASE Look(t)
    <2>. DEFINE i == NextInstance(t)
                next == [at |-> PlaceAfter(i), turn |-> i]
    <2>1. kt[t].at \in {"turn", "look"} /\ kt[t].turn \in Inst
      BY <1>1, <1>4 DEF ThreadStates, Look
    <2>2. i \in Inst
      <3>1. maxInst \in 1 .. NInst  BY LifecycleAssumption DEF Types
      <3>2. kt[t].turn \in Int /\ NInst \in Int  BY <2>1, LifecycleAssumption DEF Inst
      <3>3. (kt[t].turn + 1) % maxInst \in 0 .. maxInst - 1  BY <3>1, <3>2
      <3>4. (kt[t].turn + 1) % maxInst \in Inst  BY <3>1, <3>2, <3>3 DEF Inst
      <3>. QED  BY <2>1, <3>4 DEF NextInstance
    <2>3. PlaceAfter(i) \in {"out", "sleep", "turn", "look"}
      <3>1. policy \in Policy  BY DEF Types
      <3>. QED  BY <3>1 DEF PlaceAfter, Policy
    <2>4. next \in ThreadStates /\ next.at \in {"out", "sleep", "turn", "look"}
      BY <2>2, <2>3 DEF ThreadStates
    <2>5. kt' = [kt EXCEPT ![t] = next]  BY <1>4 DEF Look
    <2>. HIDE DEF next
    <2>. QED  BY <1>4, <2>1, <2>4, <2>5, ThreadSet
  <1>5. CASE Out(t)  BY <1>2, <1>5 DEF Out
  <1>6. CASE Return(t)
    <2>1. NoThread \in ThreadStates /\ NoThread.at = "gone"  BY DEF NoThread, ThreadStates
    <2>. QED  BY <1>6, <2>1, ThreadSet DEF Return
  <1>. QED  BY <1>3, <1>4, <1>5, <1>6 DEF ThreadNext

-----------------------------------------------------------------------------
(* Every step keeps the types, but for the bound of the references.        *)
LEMMA SameTypes ==
    ASSUME Types, fin' \in [Finalizer -> FinStates],
           trouble' \subseteq {"orphan", "overlap", "start", "failed", "left", "leaving", "freed"},
           UNCHANGED <<mod, chrdevs, nodes, cores, gpu, policy, maxInst, devices>>,
           UNCHANGED <<opened, filled, tasks, file, stale, driverOpen, refs>>,
           UNCHANGED <<taskStruct, kt, shouldStop, badStop>>
    PROVE  Types'
  <1>1. /\ mod' \in {"init", "chr", "ctl", "procfs", "undo ctl", "undo chr", "undo",
                    "live", "exit", "deinit", "unregister", "gone", "dead"}
        /\ nodes' \in BOOLEAN /\ opened' \in BOOLEAN /\ badStop' \in BOOLEAN
    BY DEF Types
  <1>2. chrdevs' \subseteq {"sgpu-km", "sgpu-km-ctl"} /\ cores' \in {"idle", "removing", "nodes"}
    BY DEF Types
  <1>3. file' \in [File -> FileStates] /\ kt' \in [Kthread -> ThreadStates]  BY DEF Types
  <1>4. tasks' \in [Inst -> SUBSET File] /\ devices' \subseteq Device \X {"gpu", "lost"}
    BY DEF Types
  <1>5. /\ stale' \subseteq File /\ driverOpen' \subseteq File /\ filled' \subseteq Inst
        /\ shouldStop' \subseteq Kthread /\ refs' \in Int
        /\ taskStruct' \in Kthread \cup {NULL, ErrPtr}
    BY DEF Types
  <1>6. /\ gpu' \in {"null", "live", "unlocked", "freed"} /\ maxInst' \in MaxInsts
        /\ policy' \in Policy
    BY DEF Types
  <1>. QED  BY <1>1, <1>2, <1>3, <1>4, <1>5, <1>6 DEF Types

LEMMA FileTypes ==
    ASSUME Types, NEW f \in File, FileNext(f)
    PROVE  Types'
  <1>. USE DEF vars, modVars, gpuVars, openVars, threadVars, histVars
  <1>1. InstOf[f] \in Inst  BY LifecycleAssumption
  <1>2. ASSUME OpenRest, file' \in [File -> FileStates], opened' \in BOOLEAN,
               filled' \subseteq Inst, tasks' \in [Inst -> SUBSET File],
               stale' \subseteq File, driverOpen' \subseteq File, refs' \in Int,
               trouble' \subseteq {"orphan", "overlap", "start", "failed", "left", "leaving", "freed"}
        PROVE  Types'
    BY <1>2 DEF OpenRest, Types
  <1>3. /\ opened \in BOOLEAN /\ filled \subseteq Inst /\ tasks \in [Inst -> SUBSET File]
        /\ stale \subseteq File /\ driverOpen \subseteq File /\ refs \in Int
        /\ trouble \subseteq {"orphan", "overlap", "start", "failed", "left", "leaving", "freed"}
    BY DEF Types
  <1>4. CASE OpenBegin(f)
    <2>1. file' \in [File -> FileStates]  BY <1>4, BeginEffect
    <2>2. /\ trouble' \subseteq {"orphan", "overlap", "start", "failed", "left", "leaving", "freed"}
          /\ stale' \subseteq File /\ refs' = refs + 1
          /\ UNCHANGED <<opened, filled, tasks, driverOpen>> /\ OpenRest
      BY <1>3, <1>4 DEF OpenBegin, Note
    <2>. QED  BY <1>2, <1>3, <2>1, <2>2
  <1>5. CASE OpenFill(f)
    <2>1. /\ file' \in [File -> FileStates] /\ filled' \subseteq Inst /\ opened' \in BOOLEAN
      BY <1>3, <1>5, FillEffect
    <2>. QED  BY <1>2, <1>3, <1>5, <2>1 DEF OpenFill
  <1>6. CASE OpenFind(f)
    <2>1. file' \in [File -> FileStates]  BY <1>6, FilePlaced DEF OpenFind
    <2>2. tasks' \in [Inst -> SUBSET File] /\ refs' \in Int  BY <1>1, <1>3, <1>6 DEF OpenFind
    <2>. QED  BY <1>2, <1>3, <1>6, <2>1, <2>2 DEF OpenFind
  <1>7. CASE OpenDone(f)
    <2>1. file' \in [File -> FileStates]  BY <1>7, FilePlaced DEF OpenDone
    <2>. QED  BY <1>2, <1>3, <1>7, <2>1 DEF OpenDone
  <1>8. CASE OpenFail(f)
    <2>1. file' \in [File -> FileStates]  BY <1>8, FilePlaced DEF OpenFail
    <2>. QED  BY <1>2, <1>3, <1>8, <2>1 DEF OpenFail
  <1>9. CASE Close(f)
    <2>1. file' \in [File -> FileStates]  BY <1>9, FilePlaced DEF Close, Types
    <2>2. /\ tasks' \in [Inst -> SUBSET File] /\ refs' \in Int /\ driverOpen' \subseteq File
          /\ stale' \subseteq File
      BY <1>1, <1>3, <1>9 DEF Close
    <2>. QED  BY <1>2, <1>3, <1>9, <2>1, <2>2 DEF Close
  <1>10. CASE KickCheck(f)
    <2>1. file' \in [File -> FileStates]  BY <1>10, FilePlaced DEF KickCheck
    <2>. QED  BY <1>10, <2>1 DEF KickCheck, KickRest, Types
  <1>11. CASE KickRun(f)
    <2>1. file' \in [File -> FileStates] /\ kt' \in [Kthread -> ThreadStates]
      BY <1>11, RunEffect
    <2>2. trouble' \subseteq {"orphan", "overlap", "start", "failed", "left", "leaving", "freed"}
      BY <1>3, <1>11 DEF KickRun, Note
    <2>. QED  BY <1>11, <2>1, <2>2 DEF KickRun, KickRest, Types
  <1>12. CASE KickStore(f)
    <2>1. file' \in [File -> FileStates]  BY <1>12, FilePlaced DEF KickStore
    <2>2. file[f].made \in Kthread \cup {ErrPtr}  BY <1>12 DEF KickStore, Types, FileStates
    <2>. QED  BY <1>12, <2>1, <2>2 DEF KickStore, KickRest, Types
  <1>. QED  BY <1>4, <1>5, <1>6, <1>7, <1>8, <1>9, <1>10, <1>11, <1>12 DEF FileNext

LEMMA FinTypes ==
    ASSUME Types, NEW w \in Finalizer, FinNext(w)
    PROVE  Types' /\ \A v \in Finalizer \ {w} : fin'[v] = fin[v]
  <1>. USE DEF vars, modVars, gpuVars, openVars, threadVars, histVars
  <1>0. trouble \subseteq {"orphan", "overlap", "start", "failed", "left", "leaving", "freed"}  BY DEF Types
  <1>1. CASE FinCheck(w)
    <2>1. fin' \in [Finalizer -> FinStates] /\ \A v \in Finalizer \ {w} : fin'[v] = fin[v]
      BY <1>1, FinPlaced DEF FinCheck
    <2>2. trouble' \subseteq {"orphan", "overlap", "start", "failed", "left", "leaving", "freed"}
      BY <1>0, <1>1 DEF FinCheck, CheckNotes
    <2>3. /\ UNCHANGED <<gpu, policy, maxInst, devices>>
          /\ UNCHANGED <<opened, filled, tasks, file, stale, driverOpen>>
          /\ UNCHANGED <<taskStruct, shouldStop, badStop>> /\ FinRest
      BY <1>1 DEF FinCheck
    <2>4. Types'  BY <2>1, <2>2, <2>3, SameTypes DEF FinRest
    <2>. QED  BY <2>1, <2>4
  <1>2. CASE FinCall(w)
    <2>1. CASE /\ taskStruct \in Kthread /\ shouldStop' = shouldStop \cup {taskStruct}
               /\ fin' = [fin EXCEPT ![w] = [at |-> "wait", thread |-> taskStruct]]
               /\ UNCHANGED badStop
      <3>1. [at |-> "wait", thread |-> taskStruct] \in FinStates  BY <2>1 DEF FinStates
      <3>2. fin' \in [Finalizer -> FinStates] /\ \A v \in Finalizer \ {w} : fin'[v] = fin[v]
        BY <2>1, <3>1, FinSet
      <3>. QED  BY <1>2, <2>1, <3>2, ZenonT(30) DEF FinCall, FinRest, Types
    <2>2. CASE badStop' = TRUE /\ FinAt(w, "stuck") /\ UNCHANGED shouldStop
      <3>1. fin' \in [Finalizer -> FinStates] /\ \A v \in Finalizer \ {w} : fin'[v] = fin[v]
        BY <2>2, FinPlaced
      <3>. QED  BY <1>2, <2>2, <3>1 DEF FinCall, FinRest, Types
    <2>. QED  BY <1>2, <2>1, <2>2 DEF FinCall
  <1>3. CASE FinWait(w)
    <2>1. fin' \in [Finalizer -> FinStates] /\ \A v \in Finalizer \ {w} : fin'[v] = fin[v]
      BY <1>3, FinPlaced DEF FinWait
    <2>. QED  BY <1>3, <2>1 DEF FinWait, FinRest, Types
  <1>4. CASE FinLocks(w)
    <2>1. fin' \in [Finalizer -> FinStates] /\ \A v \in Finalizer \ {w} : fin'[v] = fin[v]
      BY <1>4, FinPlaced DEF FinLocks
    <2>. QED  BY <1>4, <2>1 DEF FinLocks, FinRest, Types
  <1>5. CASE FinFree(w)
    <2>1. fin' \in [Finalizer -> FinStates] /\ \A v \in Finalizer \ {w} : fin'[v] = fin[v]
      BY <1>5, FinPlaced DEF FinFree
    <2>2. devices' \subseteq Device \X {"gpu", "lost"} /\ policy' \in Policy /\ maxInst' \in MaxInsts
      BY <1>5, LifecycleAssumption DEF FinFree, Types, Policy
    <2>. QED  BY <1>5, <2>1, <2>2 DEF FinFree, FinRest, Types
  <1>. QED  BY <1>1, <1>2, <1>3, <1>4, <1>5 DEF FinNext

LEMMA ModTypes ==
    ASSUME Types, ModNext
    PROVE  Types'
  <1>. USE DEF vars, modVars, gpuVars, openVars, threadVars, histVars
  <1>1. "mod" \in Finalizer /\ "cores" \in Finalizer  BY DEF Finalizer
  <1>2. ASSUME NEW D \in DeviceSets, GpuMade(D)
        PROVE  /\ gpu' = "live" /\ devices' \subseteq Device \X {"gpu", "lost"}
               /\ opened' = FALSE /\ filled' = {} /\ tasks' \in [Inst -> SUBSET File]
               /\ taskStruct' = NULL /\ policy' \in Policy /\ maxInst' \in MaxInsts
               /\ UNCHANGED trouble
    BY <1>2, LifecycleAssumption DEF GpuMade, Types, Policy
  <1>14. ASSUME GpuNotMade
         PROVE  /\ devices' \subseteq Device \X {"gpu", "lost"}
                /\ trouble' \subseteq {"orphan", "overlap", "start", "failed", "left", "leaving", "freed"}
                /\ UNCHANGED <<gpu, policy, maxInst, opened, filled, tasks, taskStruct>>
    BY <1>14, LifecycleAssumption DEF GpuNotMade, Types, Note
  <1>3. CASE LoadGpu
    <2>1. CASE \E D \in DeviceSets : GpuMade(D) /\ mod' = "chr"
      BY <1>2, <1>3, <2>1 DEF LoadGpu, Types
    <2>2. CASE GpuNotMade /\ mod' = "undo"
      BY <1>3, <1>14, <2>2 DEF LoadGpu, Types
    <2>3. CASE /\ mod' = "dead"
               /\ UNCHANGED <<gpuVars, opened, filled, tasks, taskStruct, trouble>>
      BY <1>3, <2>3 DEF LoadGpu, Types
    <2>. QED  BY <1>3, <2>1, <2>2, <2>3 DEF LoadGpu
  <1>4. CASE LoadChr \/ LoadCtl \/ LoadProcfs \/ UndoCtl \/ UndoChr
    BY <1>4 DEF LoadChr, LoadCtl, LoadProcfs, UndoCtl, UndoChr, LoadRest, Types
  <1>5. CASE UndoGpu
    <2>1. fin' \in [Finalizer -> FinStates]  BY <1>1, <1>5, FinPlaced DEF UndoGpu
    <2>. QED  BY <1>5, <2>1 DEF UndoGpu, Types
  <1>6. CASE Unload
    <2>1. fin' \in [Finalizer -> FinStates]  BY <1>1, <1>6, FinPlaced DEF Unload
    <2>2. trouble' \subseteq {"orphan", "overlap", "start", "failed", "left", "leaving", "freed"}
      BY <1>6 DEF Unload, Note, Types
    <2>. QED  BY <1>6, <2>1, <2>2 DEF Unload, Types
  <1>7. CASE ExitGpu
    <2>1. fin' \in [Finalizer -> FinStates]  BY <1>1, <1>7, FinPlaced DEF ExitGpu
    <2>. QED  BY <1>7, <2>1 DEF ExitGpu, Types
  <1>8. CASE ExitProcfs \/ ExitChr
    BY <1>8 DEF ExitProcfs, ExitChr, LoadRest, Types
  <1>9. CASE Reload  BY <1>9 DEF Reload, Types
  <1>10. CASE CoresRemove
    <2>1. fin' \in [Finalizer -> FinStates]  BY <1>1, <1>10, FinPlaced DEF CoresRemove
    <2>. QED  BY <1>10, <2>1 DEF CoresRemove, Types
  <1>11. CASE CoresRemoved
    <2>1. fin' \in [Finalizer -> FinStates]  BY <1>1, <1>11, FinPlaced DEF CoresRemoved
    <2>. QED  BY <1>11, <2>1 DEF CoresRemoved, Types
  <1>12. CASE CoresAdd
    <2>1. CASE \E D \in DeviceSets : GpuMade(D) /\ cores' = "nodes"
      BY <1>2, <1>12, <2>1 DEF CoresAdd, Types
    <2>2. CASE GpuNotMade /\ UNCHANGED cores
      BY <1>12, <1>14, <2>2 DEF CoresAdd, Types
    <2>. QED  BY <1>12, <2>1, <2>2 DEF CoresAdd
  <1>13. CASE CoresNodes  BY <1>13 DEF CoresNodes, Types
  <1>15. ASSUME NEW new \in Policy, SetPolicy(new)  PROVE Types'
    BY <1>15 DEF SetPolicy, GroupRest, Types
  <1>16. ASSUME NEW new \in MaxInsts, SetMaxInst(new)  PROVE Types'
    BY <1>16 DEF SetMaxInst, GroupRest, Types
  <1>. QED  BY <1>15, <1>16, <1>3, <1>4, <1>5, <1>6, <1>7, <1>8, <1>9, <1>10, <1>11, <1>12, <1>13,
               ZenonT(30) DEF ModNext

LEMMA TypesInductive == Types /\ [Next]_vars => Types'
  <1>. SUFFICES ASSUME Types, [Next]_vars PROVE Types'  OBVIOUS
  <1>. USE DEF vars, modVars, gpuVars, openVars, threadVars, histVars
  <1>1. trouble \subseteq {"orphan", "overlap", "start", "failed", "left", "leaving", "freed"}  BY DEF Types
  <1>2. ASSUME ThreadRest, kt' \in [Kthread -> ThreadStates], shouldStop' \subseteq Kthread,
               taskStruct' \in {taskStruct, NULL},
               trouble' \subseteq {"orphan", "overlap", "start", "failed", "left", "leaving", "freed"}
        PROVE  Types'
    BY <1>2 DEF ThreadRest, Types
  <1>3. shouldStop \subseteq Kthread  BY DEF Types
  <1>4. fin \in [Finalizer -> FinStates]  BY DEF Types
  <1>5. ASSUME NEW t \in Kthread, ThreadNext(t)  PROVE Types'
    <2>1. kt' \in [Kthread -> ThreadStates]  BY <1>5, ThreadEffect
    <2>2. LeavingNotes(t) \subseteq {"start", "left"}  BY DEF LeavingNotes
    <2>3. CASE Wake(t) \/ Look(t)
      <3>1. UNCHANGED <<taskStruct, shouldStop, trouble>> /\ ThreadRest
        BY <2>3 DEF Wake, Look
      <3>. QED  BY <1>1, <1>2, <1>3, <2>1, <3>1
    <2>4. CASE Out(t)
      <3>1. /\ taskStruct' = NULL /\ UNCHANGED shouldStop /\ ThreadRest
            /\ trouble' \subseteq {"orphan", "overlap", "start", "failed", "left", "leaving", "freed"}
        BY <1>1, <2>2, <2>4 DEF Out
      <3>. QED  BY <1>2, <1>3, <2>1, <3>1
    <2>5. CASE Return(t)
      <3>1. /\ shouldStop' \subseteq Kthread /\ UNCHANGED <<taskStruct, trouble>>
            /\ ThreadRest
        BY <1>3, <2>5 DEF Return
      <3>. QED  BY <1>1, <1>2, <2>1, <3>1
    <2>6. Wake(t) \/ Look(t) \/ Out(t) \/ Return(t)  BY <1>5 DEF ThreadNext
    <2>. QED  BY <2>3, <2>4, <2>5, <2>6
  <1>6. CASE UNCHANGED vars
    <2>1. /\ UNCHANGED <<mod, chrdevs, nodes, cores, fin, gpu, policy, maxInst, devices>>
          /\ UNCHANGED <<opened, filled, tasks, file, stale, driverOpen, refs>>
          /\ UNCHANGED <<taskStruct, kt, shouldStop, badStop, trouble>>
      BY <1>6
    <2>. QED  BY <1>1, <1>4, <2>1, SameTypes
  <1>. QED  BY <1>5, <1>6, FileTypes, FinTypes, ModTypes DEF Next

-----------------------------------------------------------------------------
(* Where the steps of loading, unloading and removing find the GPU.        *)
AfterExit == {"exit", "deinit", "unregister", "gone"}
Stages ==
    /\ mod = "init" => gpu = "null"
    /\ Loading \/ mod = "dead" => cores = "idle"
    /\ cores = "removing" <=> fin["cores"].at # "off"
    /\ fin["mod"].at # "off" => mod \in {"undo", "exit"}
    /\ mod \in {"chr", "ctl", "procfs", "undo ctl", "undo chr"} => gpu = "live"
    /\ mod \in {"init", "chr", "undo", "gone", "dead"} => chrdevs = {}
    /\ mod \in {"ctl", "undo chr"} => chrdevs \subseteq {"sgpu-km"}
    /\ \A w \in Finalizer : fin[w].at = "done" => gpu \in {"null", "freed"}
    /\ mod = "deinit" => gpu \in {"null", "freed"}

(* One caller at a time finalises the GPU, unless rmmod overlaps a write.  *)
Orderly == Calm({"overlap"}) =>
    /\ mod \in AfterExit => cores = "idle"
    /\ nodes => mod \in {"live", "exit", "deinit"} /\ cores # "removing"
    /\ nodes /\ mod = "live" => gpu = "live"
    /\ mod \in {"deinit", "unregister", "gone"} => gpu \in {"null", "freed"}
    /\ cores = "nodes" => gpu = "live"
    /\ gpu = "unlocked" => \E w \in Finalizer : fin[w].at = "free"
    /\ gpu = "freed" =>
         \/ \E w \in Finalizer : fin[w].at = "done"
         \/ mod \in {"deinit", "unregister", "gone"}
    /\ \A w \in Finalizer :
         /\ fin[w].at = "check" => gpu \in {"null", "live"}
         /\ fin[w].at \in {"call", "wait", "locks"} => gpu = "live"
         /\ fin[w].at = "free" => gpu = "unlocked"
    /\ gpu \in {"null", "freed"} => devices \subseteq HeldBy("lost")

(* A first open in progress has filled the instances before its own.       *)
FillSound ==
    /\ \A f \in File : file[f].at = "fill" /\ f \notin stale =>
          gpu = "live" /\ 0 .. file[f].inst - 1 \subseteq filled
    /\ OpenedIsFilled

(* A GPU that is not finalised under a file has its files to itself.       *)
NoFiles == \A f \in File : ~InUse(f)
Past(f) == file[f].at \in {"find", "driver", "open", "start", "store"}
FilesOnLive == Calm({"orphan"}) =>
    /\ \A f \in File : InUse(f) => gpu = "live"
    /\ \A f \in File : Past(f) => opened
    /\ (\E w \in Finalizer : fin[w].at \notin {"off", "check"}) => NoFiles
    /\ mod \in AfterExit => NoFiles
    /\ driverOpen = {f \in File : Opened(f)}

(* The references, whatever happened: a file closed on a GPU that is gone  *)
(* leaves its second one behind.                                           *)
DriverFiles == \A f \in driverOpen : Opened(f) \/ (file[f].at = "closed" /\ trouble # {})
RefsBetween ==
    /\ Cardinality({f \in File : InUse(f)}) + Cardinality({f \in File : Opened(f)}) <= refs
    /\ refs <= Cardinality({f \in File : InUse(f)}) + Cardinality(driverOpen)

(* The one thread that runs is the GPU's, or about to become it.           *)
ThreadsKnown == Calm({"start", "failed", "orphan", "overlap"}) =>
    /\ \A t, u \in Kthread : Running(t) /\ Running(u) => t = u
    /\ \A t \in Kthread : Running(t) =>
          /\ gpu = "live"
          /\ taskStruct = t \/ \E f \in File : file[f].at = "store" /\ file[f].made = t
    /\ \A f \in File : file[f].at = "store" => file[f].made \in Kthread /\ Running(file[f].made)
    /\ taskStruct # NULL => taskStruct \in Kthread /\ Running(taskStruct)
    /\ \A w \in Finalizer :
          /\ fin[w].at \in {"locks", "free", "done"} => \A t \in Kthread : ~Running(t)
          /\ fin[w].at = "wait" => \A t \in Kthread : Running(t) => t = fin[w].thread
          /\ fin[w].at = "call" /\ Calm({"left"}) => taskStruct # NULL

(* And once its finalizer has passed it, every thread has returned, unless *)
(* one had cleared task_struct before and was still to return.             *)
AllGone == \A t \in Kthread : kt[t].at = "gone"
Settled == Calm({"start", "failed", "orphan", "overlap", "leaving"}) =>
    /\ mod \in {"deinit", "unregister", "gone"} => AllGone
    /\ \A w \in Finalizer :
         /\ fin[w].at \in {"locks", "free", "done"} => AllGone
         /\ fin[w].at = "wait" => \A t \in Kthread : kt[t].at # "gone" => t = fin[w].thread
         /\ fin[w].at = "call" => \A t \in Kthread : kt[t].at = "left" => taskStruct = NULL

LifecycleInv ==
    /\ Types /\ Stages /\ Orderly /\ FillSound /\ FilesOnLive
    /\ DriverFiles /\ RefsBetween /\ ThreadsKnown /\ StopsLive /\ Settled

-----------------------------------------------------------------------------
(* What the steps of files and threads leave alone, and those of the       *)
(* module and of finalizers.                                               *)
Grows == trouble \subseteq trouble'

LEMMA CalmBefore ==
    ASSUME NEW what, Grows, Calm(what)'
    PROVE  Calm(what)
  BY DEF Grows, Calm

LEMMA FileSteady ==
    ASSUME NEW f \in File, FileNext(f)
    PROVE  UNCHANGED <<mod, chrdevs, nodes, cores, fin, gpu, devices, badStop>> /\ Grows
  <1>. USE DEF modVars, gpuVars, threadVars, Grows, Note
  <1>1. CASE OpenBegin(f)  BY <1>1 DEF OpenBegin, OpenRest
  <1>2. CASE OpenFill(f)  BY <1>2 DEF OpenFill, OpenRest
  <1>3. CASE OpenFind(f)  BY <1>3 DEF OpenFind, OpenRest
  <1>4. CASE OpenDone(f) \/ OpenFail(f)  BY <1>4 DEF OpenDone, OpenFail, OpenRest
  <1>5. CASE Close(f)  BY <1>5 DEF Close, OpenRest
  <1>6. CASE KickCheck(f) \/ KickStore(f)  BY <1>6 DEF KickCheck, KickStore, KickRest
  <1>7. CASE KickRun(f)  BY <1>7 DEF KickRun, KickRest
  <1>. QED  BY <1>1, <1>2, <1>3, <1>4, <1>5, <1>6, <1>7 DEF FileNext

LEMMA ThreadSteady ==
    ASSUME NEW t \in Kthread, ThreadNext(t)
    PROVE  /\ UNCHANGED <<mod, chrdevs, nodes, cores, fin, gpu, devices, badStop>> /\ Grows
           /\ UNCHANGED <<opened, filled, file, stale, driverOpen, refs>>
  BY DEF modVars, gpuVars, openVars, ThreadNext, Wake, Look, Out, Return, ThreadRest, Grows

LEMMA ModSteady ==
    ASSUME ModNext
    PROVE  UNCHANGED <<file, stale, driverOpen, refs, kt, badStop>> /\ Grows
  <1>0. /\ \A D \in DeviceSets : GpuMade(D) => Grows
        /\ GpuNotMade => Grows
    BY DEF GpuMade, GpuNotMade, Note, Grows
  <1>. USE DEF gpuVars, openVars, threadVars, histVars, Grows, Note, LoadRest
  <1>1. CASE LoadGpu  BY <1>0, <1>1 DEF LoadGpu
  <1>2. CASE LoadChr \/ LoadCtl \/ LoadProcfs  BY <1>2 DEF LoadChr, LoadCtl, LoadProcfs
  <1>3. CASE UndoCtl \/ UndoChr \/ UndoGpu  BY <1>3 DEF UndoCtl, UndoChr, UndoGpu
  <1>4. CASE Unload  BY <1>4 DEF Unload
  <1>5. CASE ExitGpu \/ ExitProcfs \/ ExitChr  BY <1>5 DEF ExitGpu, ExitProcfs, ExitChr
  <1>6. CASE Reload \/ CoresRemove \/ CoresRemoved
    BY <1>6 DEF Reload, CoresRemove, CoresRemoved
  <1>7. CASE CoresAdd  BY <1>0, <1>7 DEF CoresAdd
  <1>8. CASE CoresNodes  BY <1>8 DEF CoresNodes
  <1>9. ASSUME NEW new, SetPolicy(new) \/ SetMaxInst(new)
        PROVE  UNCHANGED <<file, stale, driverOpen, refs, kt, badStop>> /\ Grows
    BY <1>9 DEF SetPolicy, SetMaxInst, GroupRest
  <1>. QED  BY <1>1, <1>2, <1>3, <1>4, <1>5, <1>6, <1>7, <1>8, <1>9 DEF ModNext

LEMMA GroupSteady ==
    ASSUME NEW new, SetPolicy(new) \/ SetMaxInst(new)
    PROVE  /\ UNCHANGED <<mod, chrdevs, nodes, cores, fin, gpu, devices, opened, filled>>
           /\ UNCHANGED <<file, stale, driverOpen, refs, taskStruct, kt>>
  BY DEF SetPolicy, SetMaxInst, GroupRest, modVars, openVars, threadVars

(* A finalizer moves from one place to the next.                           *)
LEMMA FinEffect ==
    ASSUME Types, NEW w \in Finalizer, FinNext(w)
    PROVE  /\ \A v \in Finalizer \ {w} : fin'[v] = fin[v]
           /\ UNCHANGED <<mod, chrdevs, nodes, cores, opened, filled, file, driverOpen, refs, kt>>
           /\ Grows
           /\ \/ /\ fin[w].at = "check" /\ trouble' = trouble \cup CheckNotes
                 /\ UNCHANGED <<gpu, devices, taskStruct, stale, badStop>>
                 /\ \/ gpu = "null" /\ fin'[w].at = "done"
                    \/ gpu = "live" /\ taskStruct # NULL /\ fin'[w].at = "call"
                    \/ gpu = "live" /\ taskStruct = NULL /\ fin'[w].at = "locks"
                    \/ gpu \notin {"null", "live"} /\ fin'[w].at = "stuck"
              \/ /\ fin[w].at = "call"
                 /\ UNCHANGED <<gpu, devices, taskStruct, stale, trouble>>
                 /\ \/ /\ fin'[w].at = "wait" /\ fin'[w].thread = taskStruct
                       /\ taskStruct \in Kthread /\ UNCHANGED badStop
                    \/ /\ fin'[w].at = "stuck"
                       /\ ~(taskStruct \in Kthread /\ kt[taskStruct].at # "gone")
              \/ /\ fin[w].at = "wait" /\ kt[fin[w].thread].at = "gone"
                 /\ fin'[w].at = "locks" /\ taskStruct' = NULL
                 /\ UNCHANGED <<gpu, devices, stale, badStop, trouble>>
              \/ /\ fin[w].at = "locks" /\ gpu = "live"
                 /\ fin'[w].at = "free" /\ gpu' = "unlocked"
                 /\ stale' = stale \cup {f \in File : file[f].at \notin {"closed", "open", "dead"}}
                 /\ UNCHANGED <<devices, taskStruct, badStop, trouble>>
              \/ /\ fin[w].at = "free" /\ gpu = "unlocked"
                 /\ fin'[w].at = "done" /\ gpu' = "freed"
                 /\ devices' = devices \ HeldBy("gpu")
                 /\ UNCHANGED <<taskStruct, stale, badStop, trouble>>
  <1>. USE DEF modVars, gpuVars, histVars, FinRest, Grows
  <1>1. CASE FinCheck(w)
    <2>1. Grows  BY <1>1 DEF FinCheck
    <2>. QED  BY <1>1, <2>1, FinPlaced DEF FinCheck
  <1>2. CASE FinCall(w)
    <2>1. CASE /\ taskStruct \in Kthread
               /\ fin' = [fin EXCEPT ![w] = [at |-> "wait", thread |-> taskStruct]]
               /\ UNCHANGED badStop
      <3>. DEFINE next == [at |-> "wait", thread |-> taskStruct]
      <3>1. next \in FinStates /\ next.at = "wait" /\ next.thread = taskStruct
        BY <2>1 DEF FinStates
      <3>2. fin' = [fin EXCEPT ![w] = next]  BY <2>1
      <3>. HIDE DEF next
      <3>. QED  BY <1>2, <2>1, <3>1, <3>2, FinSet DEF FinCall
    <2>2. CASE /\ ~(taskStruct \in Kthread /\ kt[taskStruct].at # "gone")
               /\ FinAt(w, "stuck")
      BY <1>2, <2>2, FinPlaced DEF FinCall
    <2>. QED  BY <1>2, <2>1, <2>2 DEF FinCall
  <1>3. CASE FinWait(w)  BY <1>3, FinPlaced DEF FinWait
  <1>4. CASE FinLocks(w)  BY <1>4, FinPlaced DEF FinLocks
  <1>5. CASE FinFree(w)  BY <1>5, FinPlaced DEF FinFree
  <1>. QED  BY <1>1, <1>2, <1>3, <1>4, <1>5 DEF FinNext

LEMMA ModFin ==
    ASSUME Types, ModNext
    PROVE  /\ UndoGpu =>
                /\ fin'["cores"] = fin["cores"]
                /\ \/ fin["mod"].at = "off" /\ fin'["mod"].at = "check" /\ mod' = "undo"
                   \/ fin["mod"].at = "done" /\ fin'["mod"].at = "off" /\ mod' = "gone"
           /\ Unload => fin'["mod"].at = "check" /\ fin'["cores"] = fin["cores"]
           /\ ExitGpu =>
                fin["mod"].at = "done" /\ fin'["mod"].at = "off" /\ fin'["cores"] = fin["cores"]
           /\ CoresRemove => fin'["cores"].at = "check" /\ fin'["mod"] = fin["mod"]
           /\ CoresRemoved =>
                fin["cores"].at = "done" /\ fin'["cores"].at = "off" /\ fin'["mod"] = fin["mod"]
  <1>1. "mod" \in Finalizer /\ "cores" \in Finalizer \ {"mod"} /\ "mod" \in Finalizer \ {"cores"}
    BY DEF Finalizer
  <1>2. ASSUME UndoGpu
        PROVE  /\ fin'["cores"] = fin["cores"]
               /\ \/ fin["mod"].at = "off" /\ fin'["mod"].at = "check" /\ mod' = "undo"
                  \/ fin["mod"].at = "done" /\ fin'["mod"].at = "off" /\ mod' = "gone"
    <2>1. CASE fin["mod"].at = "off" /\ FinAt("mod", "check") /\ UNCHANGED mod
      BY <1>1, <1>2, <2>1, FinPlaced DEF UndoGpu
    <2>2. CASE fin["mod"].at = "done" /\ FinAt("mod", "off") /\ mod' = "gone"
      BY <1>1, <2>2, FinPlaced
    <2>. QED  BY <1>2, <2>1, <2>2 DEF UndoGpu
  <1>3. Unload => fin'["mod"].at = "check" /\ fin'["cores"] = fin["cores"]
    BY <1>1, FinPlaced DEF Unload
  <1>4. ExitGpu =>
          fin["mod"].at = "done" /\ fin'["mod"].at = "off" /\ fin'["cores"] = fin["cores"]
    BY <1>1, FinPlaced DEF ExitGpu
  <1>5. CoresRemove => fin'["cores"].at = "check" /\ fin'["mod"] = fin["mod"]
    BY <1>1, FinPlaced DEF CoresRemove
  <1>6. CoresRemoved =>
          fin["cores"].at = "done" /\ fin'["cores"].at = "off" /\ fin'["mod"] = fin["mod"]
    BY <1>1, FinPlaced DEF CoresRemoved
  <1>. QED  BY <1>2, <1>3, <1>4, <1>5, <1>6

-----------------------------------------------------------------------------
LEMMA StagesKept ==
    ASSUME Types, Stages, Next
    PROVE  Stages'
  <1>. USE DEF Stages, Loading, modVars, gpuVars, LoadRest
  <1>1. CASE UNCHANGED <<mod, chrdevs, cores, fin, gpu>>  BY <1>1
  <1>2. ASSUME NEW w \in Finalizer, FinNext(w)  PROVE Stages'
    <2>1. w = "mod" \/ w = "cores"  BY DEF Finalizer
    <2>. QED  BY <1>2, <2>1, FinEffect DEF Finalizer
  <1>3. CASE ModNext
    <2>1. CASE LoadGpu
      BY <2>1 DEF LoadGpu, GpuMade, GpuNotMade, Finalizer
    <2>2. CASE LoadChr \/ LoadCtl \/ LoadProcfs
      BY <2>2 DEF LoadChr, LoadCtl, LoadProcfs
    <2>3. CASE UndoCtl \/ UndoChr  BY <2>3 DEF UndoCtl, UndoChr, Types
    <2>4. CASE UndoGpu  BY <1>3, <2>4, ModFin DEF UndoGpu, Finalizer
    <2>5. CASE Unload  BY <1>3, <2>5, ModFin DEF Unload, Finalizer
    <2>6. CASE ExitGpu  BY <1>3, <2>6, ModFin DEF ExitGpu, Finalizer
    <2>7. CASE ExitProcfs \/ ExitChr  BY <2>7 DEF ExitProcfs, ExitChr
    <2>8. CASE Reload  BY <2>8 DEF Reload
    <2>9. CASE CoresRemove  BY <1>3, <2>9, ModFin DEF CoresRemove, Finalizer
    <2>10. CASE CoresRemoved  BY <1>3, <2>10, ModFin DEF CoresRemoved, Finalizer
    <2>11. CASE CoresAdd  BY <2>11 DEF CoresAdd, GpuMade, GpuNotMade, Finalizer
    <2>12. CASE CoresNodes  BY <2>12 DEF CoresNodes
    <2>13. ASSUME NEW new, SetPolicy(new) \/ SetMaxInst(new)  PROVE Stages'
      BY <1>1, <2>13, GroupSteady
    <2>. QED  BY <1>3, <2>13, <2>1, <2>2, <2>3, <2>4, <2>5, <2>6, <2>7, <2>8, <2>9, <2>10, <2>11, <2>12
              DEF ModNext
  <1>. QED  BY <1>1, <1>2, <1>3, FileSteady, ThreadSteady DEF Next

(* Two finalizers never run at once, but for an rmmod during a write.      *)
LEMMA OneFinalizer ==
    ASSUME Stages, Orderly, Calm({"overlap"})
    PROVE  /\ fin["mod"].at = "off" \/ fin["cores"].at = "off"
           /\ mod = "live" => fin["mod"].at = "off"
           /\ cores = "idle" => fin["cores"].at = "off"
           /\ fin["mod"].at # "off" => cores = "idle"
  BY DEF Stages, Orderly, Loading, AfterExit

(* What a finalizer leaves open, or an initialisation that fails, is lost. *)
LEMMA FinLost ==
    ASSUME Types, NEW w \in Finalizer, FinNext(w), fin[w].at = "free"
    PROVE  devices' \subseteq HeldBy("lost")
  <1>1. devices' = devices \ HeldBy("gpu")  BY FinEffect
  <1>. QED  BY <1>1 DEF HeldBy, Types

LEMMA NotMadeLost ==
    ASSUME GpuNotMade, devices \subseteq HeldBy("lost")
    PROVE  devices' \subseteq HeldBy("lost")
  <1>1. PICK D \in DeviceSets \cup {{}} : devices' = devices \cup (D \X {"lost"})
    BY DEF GpuNotMade
  <1>2. D \subseteq Device  BY LifecycleAssumption
  <1>. QED  BY <1>1, <1>2 DEF HeldBy

LEMMA OrderlyKept ==
    ASSUME Types, Stages, Orderly, Stages', Next
    PROVE  Orderly'
  <1>. SUFFICES ASSUME Calm({"overlap"})'
                PROVE  Orderly'
    BY DEF Orderly
  <1>0. Grows  BY FileSteady, ThreadSteady, ModSteady, FinEffect DEF Next
  <1>1. Calm({"overlap"})  BY <1>0, CalmBefore
  <1>2. /\ fin["mod"].at = "off" \/ fin["cores"].at = "off"
        /\ mod = "live" => fin["mod"].at = "off"
        /\ cores = "idle" => fin["cores"].at = "off"
        /\ fin["mod"].at # "off" => cores = "idle"
    BY <1>1, OneFinalizer
  <1>. USE DEF Orderly, Stages, Loading, AfterExit, modVars, gpuVars, LoadRest
  <1>3. CASE UNCHANGED <<mod, nodes, cores, fin, gpu, devices>>  BY <1>1, <1>3
  <1>4. ASSUME NEW w \in Finalizer, FinNext(w)  PROVE Orderly'
    <2>1. w = "mod" \/ w = "cores"  BY DEF Finalizer
    <2>2. CASE fin[w].at = "free"
      <3>1. devices' \subseteq HeldBy("lost")  BY <1>4, <2>2, FinLost
      <3>. QED  BY <1>1, <1>2, <1>4, <2>1, <2>2, <3>1, FinEffect DEF Finalizer
    <2>3. CASE fin[w].at # "free"
      <3>1. UNCHANGED devices  BY <1>4, <2>3, FinEffect
      <3>. QED  BY <1>1, <1>2, <1>4, <2>1, <2>3, <3>1, FinEffect DEF Finalizer
    <2>. QED  BY <2>2, <2>3
  <1>5. CASE ModNext
    <2>1. CASE LoadGpu
      <3>1. CASE mod' = "chr"  BY <1>1, <1>2, <2>1, <3>1 DEF LoadGpu, GpuMade, Finalizer
      <3>2. CASE GpuNotMade /\ mod' = "undo"
        <4>1. devices' \subseteq HeldBy("lost")  BY <1>1, <2>1, <3>2, NotMadeLost DEF LoadGpu
        <4>. QED  BY <1>1, <1>2, <2>1, <3>2, <4>1 DEF LoadGpu, GpuNotMade, Finalizer
      <3>3. CASE mod' = "dead"  BY <1>1, <1>2, <2>1, <3>3 DEF LoadGpu, Finalizer
      <3>. QED  BY <2>1, <3>1, <3>2, <3>3 DEF LoadGpu
    <2>2. CASE LoadChr \/ LoadCtl \/ LoadProcfs
      BY <1>1, <1>2, <2>2 DEF LoadChr, LoadCtl, LoadProcfs
    <2>3. CASE UndoCtl \/ UndoChr  BY <1>1, <1>2, <2>3 DEF UndoCtl, UndoChr
    <2>4. CASE UndoGpu
      <3>1. mod = "undo" /\ cores = "idle" /\ fin["cores"].at = "off" /\ ~nodes
        BY <1>1, <1>2, <2>4 DEF UndoGpu
      <3>2. UNCHANGED <<nodes, cores, gpu, devices>>  BY <2>4 DEF UndoGpu
      <3>3. CASE fin["mod"].at = "off" /\ fin'["mod"].at = "check" /\ mod' = "undo"
        <4>1. gpu \in {"null", "live"}  BY <1>1, <3>1, <3>3 DEF Types, Finalizer
        <4>. QED  BY <1>1, <1>5, <2>4, <3>1, <3>2, <3>3, <4>1, ModFin DEF Finalizer
      <3>4. CASE fin["mod"].at = "done" /\ fin'["mod"].at = "off" /\ mod' = "gone"
        <4>1. gpu \in {"null", "freed"}  BY <3>4 DEF Finalizer
        <4>. QED  BY <1>1, <1>5, <2>4, <3>1, <3>2, <3>4, <4>1, ModFin DEF Finalizer
      <3>. QED  BY <1>5, <2>4, <3>3, <3>4, ModFin
    <2>5. CASE Unload
      <3>1. cores = "idle"  BY <2>5 DEF Unload, Calm, Note
      <3>2. /\ mod = "live" /\ mod' = "exit" /\ UNCHANGED <<nodes, cores, gpu, devices>>
            /\ fin["mod"].at = "off" /\ fin["cores"].at = "off"
        BY <1>2, <2>5, <3>1 DEF Unload
      <3>3. gpu \in {"null", "live"}  BY <1>1, <3>2 DEF Types, Finalizer
      <3>. QED  BY <1>1, <1>5, <2>5, <3>1, <3>2, <3>3, ModFin DEF Finalizer
    <2>6. CASE ExitGpu  BY <1>1, <1>2, <1>5, <2>6, ModFin DEF ExitGpu, Finalizer
    <2>7. CASE ExitProcfs \/ ExitChr  BY <1>1, <1>2, <2>7 DEF ExitProcfs, ExitChr
    <2>8. CASE Reload  BY <1>1, <1>2, <2>8 DEF Reload
    <2>9. CASE CoresRemove  BY <1>1, <1>2, <1>5, <2>9, ModFin DEF CoresRemove, Finalizer
    <2>10. CASE CoresRemoved
      BY <1>1, <1>2, <1>5, <2>10, ModFin DEF CoresRemoved, Finalizer
    <2>11. CASE CoresAdd
      <3>1. CASE cores' = "nodes"  BY <1>1, <1>2, <2>11, <3>1 DEF CoresAdd, GpuMade, Finalizer
      <3>2. CASE GpuNotMade /\ UNCHANGED cores
        <4>1. devices' \subseteq HeldBy("lost")  BY <1>1, <2>11, <3>2, NotMadeLost DEF CoresAdd
        <4>. QED  BY <1>1, <1>2, <2>11, <3>2, <4>1 DEF CoresAdd, GpuNotMade, Finalizer
      <3>. QED  BY <2>11, <3>1, <3>2 DEF CoresAdd
    <2>12. CASE CoresNodes
      <3>1. mod = "live"  BY <1>1, <2>12 DEF CoresNodes, Types
      <3>. QED  BY <1>1, <1>2, <2>12, <3>1 DEF CoresNodes
    <2>13. ASSUME NEW new, SetPolicy(new) \/ SetMaxInst(new)  PROVE Orderly'
      BY <1>3, <2>13, GroupSteady
    <2>. QED  BY <1>5, <2>13, <2>1, <2>2, <2>3, <2>4, <2>5, <2>6, <2>7, <2>8, <2>9, <2>10, <2>11, <2>12
              DEF ModNext
  <1>. QED  BY <1>3, <1>4, <1>5, FileSteady, ThreadSteady DEF Next

LEMMA FillSoundKept ==
    ASSUME Types, Stages, FillSound, Next
    PROVE  FillSound'
  <1>. USE DEF FillSound, OpenedIsFilled
  <1>0. NInst \in Nat /\ Inst = 0 .. NInst - 1  BY LifecycleAssumption DEF Inst
  <1>1. CASE UNCHANGED <<file, stale, gpu, filled, opened>>  BY <1>1
  <1>2. ASSUME NEW w \in Finalizer, FinNext(w)  PROVE FillSound'
    <2>1. CASE UNCHANGED <<gpu, stale>>  BY <1>1, <1>2, <2>1, FinEffect
    <2>2. CASE /\ gpu' = "unlocked"
               /\ stale' = stale \cup {f \in File : file[f].at \notin {"closed", "open", "dead"}}
      BY <1>2, <2>2, FinEffect
    <2>3. CASE gpu = "unlocked" /\ UNCHANGED stale
      BY <1>2, <2>3, FinEffect
    <2>. QED  BY <1>2, <2>1, <2>2, <2>3, FinEffect
  <1>3. CASE ModNext
    <2>. USE DEF gpuVars, openVars, LoadRest
    <2>0. UNCHANGED <<file, stale>>  BY <1>3, ModSteady
    <2>1. CASE LoadGpu
      BY <2>0, <2>1 DEF LoadGpu, GpuMade, GpuNotMade, Stages
    <2>2. CASE CoresAdd  BY <2>0, <2>2 DEF CoresAdd, GpuMade, GpuNotMade
    <2>3. CASE CoresRemoved
      <3>1. gpu # "live"  BY <2>3 DEF CoresRemoved, Stages, Finalizer
      <3>. QED  BY <2>0, <2>3, <3>1 DEF CoresRemoved
    <2>4. CASE Reload
      <3>1. \A f \in File : file[f].at = "closed"  BY <2>4 DEF Reload, InUse
      <3>. QED  BY <2>0, <2>4, <3>1 DEF Reload
    <2>5. CASE LoadChr \/ LoadCtl \/ LoadProcfs \/ UndoCtl \/ UndoChr \/ ExitProcfs \/ ExitChr
      BY <1>1, <2>0, <2>5 DEF LoadChr, LoadCtl, LoadProcfs, UndoCtl, UndoChr, ExitProcfs, ExitChr
    <2>6. CASE UndoGpu \/ Unload \/ ExitGpu \/ CoresRemove \/ CoresNodes
      BY <1>1, <2>0, <2>6 DEF UndoGpu, Unload, ExitGpu, CoresRemove, CoresNodes
    <2>7. ASSUME NEW new, SetPolicy(new) \/ SetMaxInst(new)  PROVE FillSound'
      BY <1>1, <2>7, GroupSteady
    <2>. QED  BY <1>3, <2>1, <2>2, <2>3, <2>4, <2>5, <2>6, <2>7 DEF ModNext
  <1>4. ASSUME NEW f \in File, FileNext(f)  PROVE FillSound'
    <2>0. gpu' = gpu  BY <1>4, FileSteady
    <2>1. CASE OpenFill(f)
      <3>1. gpu = "live" /\ 0 .. file[f].inst - 1 \subseteq filled  BY <2>1, FillEffect
      <3>2. stale' = stale  BY <2>1 DEF OpenFill
      <3>3. filled \subseteq Inst /\ filled \subseteq filled'  BY <2>1, FillEffect DEF Types
      <3>4. ASSUME NEW g \in File, file'[g].at = "fill", g \notin stale'
            PROVE  gpu' = "live" /\ 0 .. file'[g].inst - 1 \subseteq filled'
        <4>1. CASE g = f
          <5>1. /\ file'[f].inst = file[f].inst + 1 /\ file[f].inst \in 0 .. NInst - 1
                /\ filled' = filled \cup {file[f].inst}
            BY <1>0, <2>1, <3>4, <4>1, FillEffect
          <5>. QED  BY <1>0, <2>0, <3>1, <4>1, <5>1
        <4>2. CASE g # f  BY <2>0, <2>1, <3>2, <3>3, <3>4, <4>2, FillEffect
        <4>. QED  BY <4>1, <4>2
      <3>5. opened' => filled' = Inst
        <4>1. CASE UNCHANGED <<filled, opened>>  BY <4>1
        <4>2. CASE /\ filled' = filled \cup {file[f].inst}
                   /\ opened' = (opened \/ file[f].inst = NInst - 1)
          <5>1. file[f].inst \in 0 .. NInst - 1  BY <1>0, <2>1, FillEffect
          <5>2. CASE opened
            <6>1. filled = Inst  BY <5>2
            <6>. QED  BY <1>0, <4>2, <5>1, <6>1
          <5>3. CASE file[f].inst = NInst - 1
            <6>1. filled' = filled \cup {NInst - 1} /\ 0 .. NInst - 2 \subseteq filled
              BY <1>0, <3>1, <4>2, <5>3
            <6>2. \A i \in Inst : i = NInst - 1 \/ i \in 0 .. NInst - 2  BY <1>0
            <6>3. Inst \subseteq filled'  BY <6>1, <6>2
            <6>4. NInst - 1 \in Inst  BY <1>0, LifecycleAssumption
            <6>. QED  BY <3>3, <6>1, <6>3, <6>4
          <5>4. ~opened /\ file[f].inst # NInst - 1 => ~opened'
            BY <4>2 DEF Types
          <5>. QED  BY <5>2, <5>3, <5>4
        <4>. QED  BY <2>1, <4>1, <4>2, FillEffect
      <3>. QED  BY <3>4, <3>5
    <2>2. CASE OpenBegin(f)
      <3>1. UNCHANGED <<opened, filled>> /\ stale \subseteq stale'  BY <2>2 DEF OpenBegin
      <3>2. ASSUME NEW g \in File, file'[g].at = "fill", g \notin stale'
            PROVE  gpu' = "live" /\ 0 .. file'[g].inst - 1 \subseteq filled'
        <4>1. CASE g = f  BY <2>0, <2>2, <3>2, <4>1, BeginEffect
        <4>2. CASE g # f  BY <2>0, <2>2, <3>1, <3>2, <4>2, BeginEffect
        <4>. QED  BY <4>1, <4>2
      <3>. QED  BY <3>1, <3>2
    <2>3. ASSUME file'[f].at # "fill", \A g \in File \ {f} : file'[g] = file[g],
                 UNCHANGED <<filled, opened>>, stale \subseteq stale'
          PROVE  FillSound'
      BY <2>0, <2>3
    <2>4. CASE OpenFind(f)  BY <2>3, <2>4, FilePlaced DEF OpenFind
    <2>5. CASE OpenDone(f)  BY <2>3, <2>5, FilePlaced DEF OpenDone
    <2>6. CASE OpenFail(f)  BY <2>3, <2>6, FilePlaced DEF OpenFail
    <2>7. CASE Close(f)
      <3>1. CASE FileAt(f, "closed") /\ UNCHANGED stale
        BY <2>3, <2>7, <3>1, FilePlaced DEF Close
      <3>2. CASE UNCHANGED file /\ stale \subseteq stale'
        BY <2>3, <2>7, <3>2 DEF Close
      <3>. QED  BY <2>7, <3>1, <3>2 DEF Close
    <2>8. CASE KickCheck(f)  BY <2>3, <2>8, FilePlaced DEF KickCheck, KickRest
    <2>9. CASE KickRun(f)  BY <2>3, <2>9, RunEffect DEF KickRun, KickRest
    <2>10. CASE KickStore(f)  BY <2>3, <2>10, FilePlaced DEF KickStore, KickRest
    <2>. QED  BY <1>4, <2>1, <2>2, <2>4, <2>5, <2>6, <2>7, <2>8, <2>9, <2>10 DEF FileNext
  <1>. QED  BY <1>1, <1>2, <1>3, <1>4, ThreadSteady DEF Next

(* A step of a file moves that file only.                                  *)
LEMMA FileEffect ==
    ASSUME Types, NEW f \in File, FileNext(f)
    PROVE  /\ \A g \in File \ {f} : file'[g] = file[g]
           /\ file' \in [File -> FileStates]
           /\ \/ OpenBegin(f) /\ file[f].at = "closed" /\ file'[f].at \in {"fill", "find"}
              \/ OpenFill(f) /\ file[f].at = "fill" /\ file'[f].at \in {"fill", "dead", "find"}
              \/ OpenFind(f) /\ file[f].at = "find" /\ file'[f].at \in {"driver", "closed"}
              \/ OpenDone(f) /\ file[f].at = "driver" /\ file'[f].at = "open"
              \/ OpenFail(f) /\ file[f].at = "driver" /\ file'[f].at = "closed"
              \/ Close(f) /\ file[f].at = "open" /\ gpu \in {"live", "null"} /\ file'[f].at = "closed"
              \/ Close(f) /\ file[f].at = "open" /\ gpu \notin {"live", "null"} /\ file' = file
              \/ KickCheck(f) /\ file[f].at = "open" /\ file'[f].at = "start"
              \/ KickRun(f) /\ file[f].at = "start" /\ file'[f].at = "store"
              \/ KickStore(f) /\ file[f].at = "store" /\ file'[f].at = "open"
  <1>1. CASE OpenBegin(f)  BY <1>1, BeginEffect
  <1>2. CASE OpenFill(f)  BY <1>2, FillEffect
  <1>3. CASE OpenFind(f)  BY <1>3, FilePlaced DEF OpenFind
  <1>4. CASE OpenDone(f)  BY <1>4, FilePlaced DEF OpenDone
  <1>5. CASE OpenFail(f)  BY <1>5, FilePlaced DEF OpenFail
  <1>6. CASE Close(f)
    <2>1. CASE gpu \in {"live", "null"}  BY <1>6, <2>1, FilePlaced DEF Close
    <2>2. CASE gpu \notin {"live", "null"}  BY <1>6, <2>2 DEF Close, Types
    <2>. QED  BY <2>1, <2>2
  <1>7. CASE KickCheck(f)  BY <1>7, FilePlaced DEF KickCheck
  <1>8. CASE KickRun(f)  BY <1>8, RunEffect
  <1>9. CASE KickStore(f)  BY <1>9, FilePlaced DEF KickStore
  <1>. QED  BY <1>1, <1>2, <1>3, <1>4, <1>5, <1>6, <1>7, <1>8, <1>9 DEF FileNext

(* rmmod finds no file: each has a reference to the module.                *)
LEMMA NoFilesAtZero ==
    ASSUME Types, RefsBetween, refs = 0
    PROVE  NoFiles
  <1>. DEFINE I == {f \in File : InUse(f)}
              O == {f \in File : Opened(f)}
  <1>1. IsFiniteSet(I) /\ IsFiniteSet(O)  BY LifecycleAssumption, FS_Subset
  <1>2. Cardinality(I) \in Nat /\ Cardinality(O) \in Nat  BY <1>1, FS_CardinalityType
  <1>3. Cardinality(I) + Cardinality(O) <= refs  BY DEF RefsBetween
  <1>. HIDE DEF O
  <1>4. Cardinality(I) = 0  BY <1>2, <1>3
  <1>5. I = {}  BY <1>1, <1>4, FS_EmptySet
  <1>. QED  BY <1>5 DEF NoFiles

(* While nothing has gone wrong, a GPU that is not null can be used.       *)
LEMMA OpensFindLive ==
    ASSUME Types, Stages, Orderly, FilesOnLive, NEW f \in File, OpenBegin(f),
           Calm({"orphan"})'
    PROVE  gpu = "live" /\ mod \notin AfterExit /\ \A w \in Finalizer : fin[w].at = "off"
  <1>1. Calm({"overlap"})  BY DEF OpenBegin, Calm
  <1>2. \A w \in Finalizer : fin[w].at = "off"  BY DEF OpenBegin, Note, Calm
  <1>3. mod \notin AfterExit /\ mod \notin {"deinit", "unregister", "gone"}
    BY DEF OpenBegin, Loading, AfterExit
  <1>4. gpu \in {"null", "live", "unlocked", "freed"} /\ gpu # "null"  BY DEF OpenBegin, Types
  <1>. QED  BY <1>1, <1>2, <1>3, <1>4 DEF Orderly

LEMMA FilesOnLiveKept ==
    ASSUME Types, Types', Stages, Orderly, FillSound, FilesOnLive, RefsBetween, Next
    PROVE  FilesOnLive'
  <1>. SUFFICES ASSUME Calm({"orphan"})'
                PROVE  FilesOnLive'
    BY DEF FilesOnLive
  <1>0. Grows  BY FileSteady, ThreadSteady, ModSteady, FinEffect DEF Next
  <1>1. Calm({"orphan"})  BY <1>0, CalmBefore
  <1>. USE DEF FilesOnLive, NoFiles, InUse, Past, Opened
  <1>2. CASE UNCHANGED <<file, gpu, opened, fin, mod, driverOpen>>  BY <1>1, <1>2
  <1>3. ASSUME NEW w \in Finalizer, FinNext(w)  PROVE FilesOnLive'
    <2>1. UNCHANGED <<file, opened, mod, driverOpen>> /\ \A v \in Finalizer \ {w} : fin'[v] = fin[v]
      BY <1>3, FinEffect
    <2>2. CASE fin[w].at = "check" /\ trouble' = trouble \cup CheckNotes /\ UNCHANGED gpu
      <3>1. NoFiles  BY <2>2 DEF CheckNotes, Calm
      <3>. QED  BY <1>1, <2>1, <2>2, <3>1
    <2>3. CASE fin[w].at \in {"call", "wait", "locks", "free"}
      <3>1. NoFiles  BY <1>1, <2>3
      <3>. QED  BY <1>1, <2>1, <3>1
    <2>. QED  BY <1>3, <2>2, <2>3, FinEffect
  <1>4. CASE ModNext
    <2>. USE DEF gpuVars, openVars, LoadRest
    <2>0. UNCHANGED <<file, driverOpen>>  BY <1>4, ModSteady
    <2>1. CASE LoadGpu \/ CoresAdd
      <3>1. gpu = "null"  BY <2>1 DEF LoadGpu, CoresAdd, Stages
      <3>2. NoFiles  BY <1>1, <3>1
      <3>3. fin' = fin /\ mod' \notin AfterExit
        BY <2>1 DEF LoadGpu, CoresAdd, AfterExit
      <3>. QED  BY <1>1, <2>0, <3>2, <3>3
    <2>2. CASE CoresRemoved \/ Reload
      <3>1. NoFiles
        <4>1. CASE Reload  BY <4>1 DEF Reload
        <4>2. CASE CoresRemoved
          <5>1. fin["cores"].at = "done" /\ "cores" \in Finalizer
            BY <4>2 DEF CoresRemoved, Finalizer
          <5>. QED  BY <1>1, <5>1
        <4>. QED  BY <2>2, <4>1, <4>2
      <3>. QED  BY <1>1, <2>0, <3>1
    <2>3. CASE LoadChr \/ LoadCtl \/ LoadProcfs \/ UndoCtl \/ UndoChr
      <3>1. UNCHANGED <<gpu, opened, fin>> /\ mod' \notin AfterExit
        BY <2>3 DEF LoadChr, LoadCtl, LoadProcfs, UndoCtl, UndoChr, AfterExit
      <3>. QED  BY <1>1, <2>0, <3>1
    <2>4. CASE ExitProcfs \/ ExitChr
      <3>1. UNCHANGED <<gpu, opened, fin>> /\ mod \in AfterExit
        BY <2>4 DEF ExitProcfs, ExitChr, AfterExit
      <3>. QED  BY <1>1, <2>0, <3>1
    <2>5. CASE ExitGpu \/ UndoGpu
      <3>1. UNCHANGED <<gpu, opened>>  BY <2>5 DEF ExitGpu, UndoGpu
      <3>2. fin'["cores"] = fin["cores"] /\ fin'["mod"].at \in {"off", "check"}
        BY <1>4, <2>5, ModFin
      <3>3. mod' \in AfterExit => NoFiles
        <4>1. mod' \in AfterExit => fin["mod"].at = "done"
          BY <1>4, <2>5, ModFin DEF AfterExit
        <4>. QED  BY <1>1, <4>1 DEF Finalizer
      <3>. QED  BY <1>1, <2>0, <3>1, <3>2, <3>3 DEF Finalizer
    <2>6. CASE Unload
      <3>1. NoFiles  BY <2>6, NoFilesAtZero DEF Unload
      <3>2. UNCHANGED <<gpu, opened>>  BY <2>6 DEF Unload
      <3>. QED  BY <1>1, <2>0, <3>1, <3>2
    <2>7. CASE CoresRemove
      <3>1. UNCHANGED <<gpu, opened, mod>>  BY <2>7 DEF CoresRemove
      <3>2. fin'["mod"] = fin["mod"] /\ fin'["cores"].at = "check"  BY <1>4, <2>7, ModFin
      <3>. QED  BY <1>1, <2>0, <3>1, <3>2 DEF Finalizer
    <2>8. CASE CoresNodes  BY <1>2, <2>0, <2>8 DEF CoresNodes
    <2>9. ASSUME NEW new, SetPolicy(new) \/ SetMaxInst(new)  PROVE FilesOnLive'
      BY <1>2, <2>9, GroupSteady
    <2>. QED  BY <1>4, <2>1, <2>2, <2>3, <2>4, <2>5, <2>6, <2>7, <2>8, <2>9 DEF ModNext
  <1>5. ASSUME NEW f \in File, FileNext(f)  PROVE FilesOnLive'
    <2>0. UNCHANGED <<gpu, fin, mod>>  BY <1>5, FileSteady
    <2>1. \A g \in File \ {f} : file'[g] = file[g]  BY <1>5, FileEffect
    <2>2. CASE OpenBegin(f)
      <3>1. gpu = "live" /\ mod \notin AfterExit /\ \A w \in Finalizer : fin[w].at = "off"
        BY <2>2, OpensFindLive
      <3>2. file'[f].at = "find" => opened  BY <2>2, <3>1, BeginEffect
      <3>3. UNCHANGED <<opened, driverOpen>>  BY <2>2 DEF OpenBegin
      <3>4. ~Opened(f) /\ ~Opened(f)'  BY <1>5, <2>2, BeginEffect
      <3>5. file'[f].at \in {"find", "fill"}  BY <2>2, BeginEffect
      <3>. QED  BY <1>1, <2>0, <2>1, <3>1, <3>2, <3>3, <3>4, <3>5
    <2>3. ASSUME InUse(f), file'[f].at \in {"fill", "dead", "find", "driver", "open", "start",
                                            "store", "closed"},
                 opened => opened', Past(f)' => opened',
                 driverOpen' = {g \in File : Opened(g)'}
          PROVE  FilesOnLive'
      <3>1. \A g \in File : InUse(g)' => InUse(g)  BY <2>1, <2>3
      <3>2. \A g \in File : Past(g)' => opened'  BY <1>1, <2>1, <2>3
      <3>. QED  BY <1>1, <2>0, <2>3, <3>1, <3>2
    <2>4. CASE OpenFill(f)
      <3>1. InUse(f) /\ ~Opened(f) /\ ~Opened(f)' /\ UNCHANGED driverOpen
        BY <2>4, FillEffect DEF OpenFill
      <3>2. /\ opened => opened'
            /\ Past(f)' => opened'
            /\ file'[f].at \in {"fill", "dead", "find"}
        BY <2>4, FillEffect
      <3>3. driverOpen' = {g \in File : Opened(g)'}  BY <1>1, <2>1, <3>1
      <3>. QED  BY <2>3, <3>1, <3>2, <3>3
    <2>5. CASE OpenFind(f) \/ OpenFail(f)
      <3>1. /\ InUse(f) /\ Past(f) /\ ~Opened(f) /\ ~Opened(f)' /\ UNCHANGED <<driverOpen, opened>>
            /\ file'[f].at \in {"driver", "closed"}
        BY <2>5, FilePlaced DEF OpenFind, OpenFail
      <3>2. driverOpen' = {g \in File : Opened(g)'}  BY <1>1, <2>1, <3>1
      <3>. QED  BY <1>1, <2>3, <3>1, <3>2
    <2>6. CASE OpenDone(f)
      <3>1. /\ InUse(f) /\ Past(f) /\ Opened(f)' /\ UNCHANGED opened
            /\ driverOpen' = driverOpen \cup {f} /\ file'[f].at = "open"
        BY <2>6, FilePlaced DEF OpenDone
      <3>2. driverOpen' = {g \in File : Opened(g)'}  BY <1>1, <2>1, <3>1
      <3>. QED  BY <1>1, <2>3, <3>1, <3>2
    <2>7. CASE Close(f)
      <3>1. InUse(f) /\ Past(f) /\ Opened(f) /\ UNCHANGED opened  BY <2>7 DEF Close
      <3>2. gpu = "live"  BY <1>1, <3>1
      <3>3. InstOf[f] \in filled
        BY <1>1, <3>1, LifecycleAssumption DEF FillSound, OpenedIsFilled
      <3>4. driverOpen' = driverOpen \ {f} /\ file'[f].at = "closed"
        BY <2>7, <3>2, <3>3, FilePlaced DEF Close
      <3>5. driverOpen' = {g \in File : Opened(g)'}  BY <1>1, <2>1, <3>4
      <3>. QED  BY <2>3, <3>1, <3>4, <3>5
    <2>8. CASE KickCheck(f) \/ KickRun(f) \/ KickStore(f)
      <3>1. /\ InUse(f) /\ Past(f) /\ Opened(f) /\ Opened(f)'
            /\ file'[f].at \in {"start", "store", "open"}
        BY <2>8, FilePlaced, RunEffect DEF KickCheck, KickStore
      <3>2. UNCHANGED <<opened, driverOpen>>
        BY <2>8 DEF KickCheck, KickRun, KickStore, KickRest
      <3>3. driverOpen' = {g \in File : Opened(g)'}  BY <1>1, <2>1, <3>1, <3>2
      <3>. QED  BY <1>1, <2>3, <3>1, <3>2, <3>3
    <2>. QED  BY <1>5, <2>2, <2>4, <2>5, <2>6, <2>7, <2>8 DEF FileNext
  <1>. QED  BY <1>2, <1>3, <1>4, <1>5, ThreadSteady DEF Next

LEMMA DriverFilesKept ==
    ASSUME Types, FilesOnLive, FillSound, DriverFiles, Next
    PROVE  DriverFiles'
  <1>. USE DEF DriverFiles, Opened
  <1>0. Grows /\ (trouble # {} => trouble' # {})
    BY FileSteady, ThreadSteady, ModSteady, FinEffect DEF Next, Grows
  <1>1. CASE UNCHANGED <<file, driverOpen>>  BY <1>0, <1>1
  <1>2. ASSUME NEW f \in File, FileNext(f)  PROVE DriverFiles'
    <2>1. \A g \in File \ {f} : file'[g] = file[g]  BY <1>2, FileEffect
    <2>2. driverOpen \subseteq File  BY DEF Types
    <2>3. CASE OpenBegin(f)
      <3>1. f \notin driverOpen /\ driverOpen' = driverOpen
        BY <2>3, BeginEffect DEF OpenBegin
      <3>. QED  BY <1>0, <2>1, <2>2, <3>1
    <2>4. CASE OpenFill(f) \/ OpenFind(f) \/ OpenFail(f)
      <3>1. f \notin driverOpen /\ driverOpen' = driverOpen
        BY <2>4 DEF OpenFill, OpenFind, OpenFail
      <3>. QED  BY <1>0, <2>1, <2>2, <3>1
    <2>5. CASE OpenDone(f)
      <3>1. file'[f].at = "open" /\ driverOpen' = driverOpen \cup {f}
        BY <2>5, FilePlaced DEF OpenDone
      <3>. QED  BY <1>0, <2>1, <2>2, <3>1
    <2>6. CASE Close(f)
      <3>1. file[f].at = "open"  BY <2>6 DEF Close
      <3>2. CASE file' = file  BY <1>0, <2>2, <2>6, <3>2 DEF Close
      <3>3. CASE file'[f].at = "closed"
        <4>1. f \notin driverOpen' \/ trouble # {}
          <5>. SUFFICES ASSUME trouble = {}  PROVE f \notin driverOpen'  OBVIOUS
          <5>1. gpu = "live" /\ opened  BY <3>1 DEF FilesOnLive, Calm, InUse, Past
          <5>2. InstOf[f] \in filled  BY <5>1, LifecycleAssumption DEF FillSound, OpenedIsFilled
          <5>. QED  BY <2>6, <5>1, <5>2 DEF Close
        <4>2. driverOpen' \subseteq driverOpen  BY <2>6 DEF Close
        <4>. QED  BY <1>0, <2>1, <2>2, <3>3, <4>1, <4>2
      <3>. QED  BY <1>2, <2>6, <3>2, <3>3, FilePlaced DEF Close
    <2>7. CASE KickCheck(f) \/ KickRun(f) \/ KickStore(f)
      <3>1. file'[f].at \in {"start", "store", "open"}
        BY <2>7, FilePlaced, RunEffect DEF KickCheck, KickStore
      <3>2. driverOpen' = driverOpen  BY <2>7 DEF KickCheck, KickRun, KickStore, KickRest
      <3>. QED  BY <1>0, <2>1, <2>2, <3>1, <3>2
    <2>. QED  BY <1>2, <2>3, <2>4, <2>5, <2>6, <2>7 DEF FileNext
  <1>. QED  BY <1>1, <1>2, ModSteady, FinEffect, ThreadSteady DEF Next

(* The sizes of the three sets the references are counted by.              *)
LEMMA Sizes ==
    ASSUME Types
    PROVE  /\ IsFiniteSet({f \in File : InUse(f)}) /\ IsFiniteSet({f \in File : Opened(f)})
           /\ IsFiniteSet(driverOpen) /\ IsFiniteSet(File)
           /\ Cardinality({f \in File : InUse(f)}) \in Nat
           /\ Cardinality({f \in File : Opened(f)}) \in Nat
           /\ Cardinality(driverOpen) \in Nat /\ Cardinality(File) \in Nat
  <1>1. IsFiniteSet(File)  BY LifecycleAssumption
  <1>2. /\ IsFiniteSet({f \in File : InUse(f)}) /\ IsFiniteSet({f \in File : Opened(f)})
        /\ IsFiniteSet(driverOpen)
    BY <1>1, FS_Subset DEF Types
  <1>. QED  BY <1>1, <1>2, FS_CardinalityType

LEMMA OneMoreOrLess ==
    ASSUME NEW S, IsFiniteSet(S), NEW x
    PROVE  /\ x \in S => Cardinality(S \ {x}) = Cardinality(S) - 1
           /\ x \notin S => Cardinality(S \cup {x}) = Cardinality(S) + 1
  BY FS_AddElement, FS_RemoveElement

LEMMA RefsBetweenKept ==
    ASSUME Types, DriverFiles, RefsBetween, Next
    PROVE  RefsBetween'
  <1>. DEFINE I == {f \in File : InUse(f)}
              O == {f \in File : Opened(f)}
              D == driverOpen
              i == Cardinality(I)
              o == Cardinality(O)
              d == Cardinality(D)
  <1>1. IsFiniteSet(I) /\ IsFiniteSet(O) /\ IsFiniteSet(D) /\ i \in Nat /\ o \in Nat /\ d \in Nat
    BY Sizes
  <1>2. refs \in Int  BY DEF Types
  <1>3. i + o <= refs /\ refs <= i + d  BY DEF RefsBetween
  <1>4. SUFFICES i' + o' <= refs' /\ refs' <= i' + d'
    BY DEF RefsBetween
  <1>5. CASE UNCHANGED <<file, driverOpen, refs>>
    <2>1. i' = i /\ o' = o /\ d' = d  BY <1>5 DEF InUse, Opened
    <2>. QED  BY <1>3, <1>5, <2>1
  <1>6. ASSUME NEW f \in File, FileNext(f)
        PROVE  i' + o' <= refs' /\ refs' <= i' + d'
    <2>1. \A g \in File \ {f} : file'[g] = file[g]  BY <1>6, FileEffect
    <2>2. CASE OpenBegin(f)
      <3>1. f \notin I /\ I' = I \cup {f} /\ O' = O /\ D' = D /\ refs' = refs + 1
        BY <2>1, <2>2, BeginEffect DEF InUse, Opened, OpenBegin
      <3>2. i' = i + 1 /\ o' = o /\ d' = d  BY <1>1, <3>1, OneMoreOrLess
      <3>. HIDE DEF i, o, d
      <3>. QED  BY <1>1, <1>2, <1>3, <3>1, <3>2
    <2>3. ASSUME f \in I, file'[f].at # "closed", f \in O <=> Opened(f)', D' = D, refs' = refs
          PROVE  i' + o' <= refs' /\ refs' <= i' + d'
      <3>1. I' = I /\ O' = O  BY <2>1, <2>3 DEF InUse, Opened
      <3>2. i' = i /\ o' = o /\ d' = d  BY <2>3, <3>1
      <3>. HIDE DEF i, o, d
      <3>. QED  BY <1>3, <2>3, <3>2
    <2>4. ASSUME f \in I, f \notin O, file'[f].at = "closed", D' = D, refs' = refs - 1
          PROVE  i' + o' <= refs' /\ refs' <= i' + d'
      <3>1. I' = I \ {f} /\ O' = O  BY <2>1, <2>4 DEF InUse, Opened
      <3>2. i' = i - 1 /\ o' = o /\ d' = d  BY <1>1, <2>4, <3>1, OneMoreOrLess
      <3>. HIDE DEF i, o, d
      <3>. QED  BY <1>1, <1>2, <1>3, <2>4, <3>2
    <2>5. CASE OpenFill(f)
      <3>1. f \in I /\ f \notin O /\ ~Opened(f)' /\ file'[f].at # "closed"
        BY <2>5, FillEffect DEF InUse, Opened
      <3>. QED  BY <2>3, <2>5, <3>1 DEF OpenFill
    <2>6. CASE OpenFind(f)
      <3>1. f \in I /\ f \notin O /\ D' = D  BY <2>6 DEF InUse, Opened, OpenFind
      <3>2. CASE file'[f].at = "driver" /\ refs' = refs  BY <2>3, <3>1, <3>2 DEF Opened
      <3>3. CASE file'[f].at = "closed" /\ refs' = refs - 1  BY <2>4, <3>1, <3>3
      <3>. QED  BY <2>6, <3>2, <3>3, FilePlaced DEF OpenFind
    <2>7. CASE OpenDone(f)
      <3>1. f \in I /\ f \notin O /\ f \notin D /\ refs' = refs + 1
        BY <2>7 DEF InUse, Opened, OpenDone, DriverFiles
      <3>2. I' = I /\ O' = O \cup {f} /\ D' = D \cup {f}
        BY <2>1, <2>7, FilePlaced DEF InUse, Opened, OpenDone
      <3>3. i' = i /\ o' = o + 1 /\ d' = d + 1  BY <1>1, <3>1, <3>2, OneMoreOrLess
      <3>. HIDE DEF i, o, d
      <3>. QED  BY <1>1, <1>2, <1>3, <3>1, <3>3
    <2>8. CASE OpenFail(f)
      <3>1. f \in I /\ f \notin O /\ D' = D /\ refs' = refs - 1 /\ file'[f].at = "closed"
        BY <2>8, FilePlaced DEF InUse, Opened, OpenFail
      <3>. QED  BY <2>4, <3>1
    <2>9. CASE Close(f)
      <3>1. f \in I /\ f \in O  BY <2>9 DEF Close, InUse, Opened
      <3>2. CASE UNCHANGED <<file, refs, driverOpen>>  BY <1>5, <3>2
      <3>3. CASE /\ FileAt(f, "closed") /\ D' \in {D, D \ {f}}
                 /\ refs' = refs - 2 \/ (refs' = refs - 1 /\ D' = D)
        <4>1. I' = I \ {f} /\ O' = O \ {f}
          BY <2>1, <3>3, FilePlaced DEF InUse, Opened
        <4>2. i' = i - 1 /\ o' = o - 1  BY <1>1, <3>1, <4>1, OneMoreOrLess
        <4>3. d' \in {d - 1, d} /\ (D' = D => d' = d)
          <5>1. CASE f \in D  BY <1>1, <3>3, <5>1, OneMoreOrLess
          <5>2. CASE f \notin D
            <6>1. D \ {f} = D  BY <5>2
            <6>. QED  BY <3>3, <6>1
          <5>. QED  BY <5>1, <5>2
        <4>. HIDE DEF i, o, d
        <4>. QED  BY <1>1, <1>2, <1>3, <3>3, <4>2, <4>3
      <3>. QED  BY <2>9, <3>2, <3>3 DEF Close
    <2>10. CASE KickCheck(f) \/ KickRun(f) \/ KickStore(f)
      <3>1. f \in I /\ f \in O /\ Opened(f)' /\ file'[f].at # "closed"
        BY <2>10, FilePlaced, RunEffect DEF KickCheck, KickStore, InUse, Opened
      <3>2. D' = D /\ refs' = refs  BY <2>10 DEF KickCheck, KickRun, KickStore, KickRest
      <3>. QED  BY <2>3, <3>1, <3>2
    <2>. QED  BY <1>6, <2>2, <2>5, <2>6, <2>7, <2>8, <2>9, <2>10 DEF FileNext
  <1>. QED  BY <1>5, <1>6, ModSteady, FinEffect, ThreadSteady DEF Next

LEMMA ThreadsKnownKept ==
    ASSUME Types, Types', Stages, Orderly, FilesOnLive, FilesOnLive', ThreadsKnown, Next
    PROVE  ThreadsKnown'
  <1>. SUFFICES ASSUME Calm({"start", "failed", "orphan", "overlap"})'
                PROVE  ThreadsKnown'
    BY DEF ThreadsKnown
  <1>0. Grows  BY FileSteady, ThreadSteady, ModSteady, FinEffect DEF Next
  <1>1. /\ Calm({"start", "failed", "orphan", "overlap"})
        /\ Calm({"orphan"}) /\ Calm({"overlap"}) /\ Calm({"orphan"})'
        /\ Calm({"left"})' => Calm({"left"})
    BY <1>0 DEF Grows, Calm
  <1>3. NULL \notin Kthread /\ ErrPtr \notin Kthread  BY LifecycleAssumption
  <1>. USE DEF ThreadsKnown, Running
  <1>4. CASE UNCHANGED <<file, gpu, fin, kt, taskStruct>>  BY <1>1, <1>4
  <1>5. ASSUME NEW w \in Finalizer, FinNext(w)  PROVE ThreadsKnown'
    <2>1. /\ UNCHANGED <<file, kt>> /\ \A v \in Finalizer \ {w} : fin'[v] = fin[v]
      BY <1>5, FinEffect
    <2>2. (\E v \in Finalizer : fin'[v].at \notin {"off", "check"}) =>
             \A f \in File : file[f].at # "store"
      BY <1>1, <2>1 DEF FilesOnLive, NoFiles, InUse
    <2>3. fin[w].at # "off" => \A v \in Finalizer \ {w} : fin[v].at = "off"
      BY <1>1, OneFinalizer DEF Finalizer
    <2>4. CASE /\ fin[w].at = "check" /\ UNCHANGED <<gpu, taskStruct>>
               /\ \/ gpu = "null" /\ fin'[w].at = "done"
                  \/ gpu = "live" /\ taskStruct # NULL /\ fin'[w].at = "call"
                  \/ gpu = "live" /\ taskStruct = NULL /\ fin'[w].at = "locks"
                  \/ gpu \notin {"null", "live"} /\ fin'[w].at = "stuck"
      <3>1. fin'[w].at = "locks" \/ fin'[w].at = "done" => \A t \in Kthread : ~Running(t)
        BY <1>1, <1>3, <2>2, <2>4
      <3>. QED  BY <1>1, <2>1, <2>3, <2>4, <3>1
    <2>5. CASE /\ fin[w].at = "call" /\ UNCHANGED <<gpu, taskStruct>>
               /\ \/ /\ fin'[w].at = "wait" /\ fin'[w].thread = taskStruct
                  \/ /\ fin'[w].at = "stuck"
      <3>1. fin'[w].at = "wait" => \A t \in Kthread : Running(t) => t = fin'[w].thread
        BY <1>1, <2>2, <2>5
      <3>. QED  BY <1>1, <2>1, <2>3, <2>5, <3>1
    <2>6. CASE /\ fin[w].at = "wait" /\ kt[fin[w].thread].at = "gone"
               /\ fin'[w].at = "locks" /\ taskStruct' = NULL /\ UNCHANGED gpu
      <3>1. \A t \in Kthread : ~Running(t)  BY <1>1, <2>6
      <3>. QED  BY <1>1, <2>1, <2>2, <2>3, <2>6, <3>1
    <2>7. CASE fin[w].at \in {"locks", "free"} /\ fin'[w].at \in {"free", "done"} /\ UNCHANGED taskStruct
      <3>1. \A t \in Kthread : ~Running(t)  BY <1>1, <2>7
      <3>. QED  BY <1>1, <2>1, <2>2, <2>3, <2>7, <3>1
    <2>. QED  BY <1>5, <2>4, <2>5, <2>6, <2>7, FinEffect
  <1>6. CASE ModNext
    <2>. USE DEF gpuVars, openVars, threadVars, LoadRest
    <2>0. UNCHANGED <<file, kt>>  BY <1>6, ModSteady
    <2>1. CASE LoadGpu \/ CoresAdd
      <3>1. gpu = "null" /\ fin' = fin  BY <2>1 DEF LoadGpu, CoresAdd, Stages
      <3>2. \A f \in File : file[f].at # "store"  BY <1>1, <3>1 DEF FilesOnLive, InUse
      <3>3. \A t \in Kthread : ~Running(t)  BY <1>1, <3>1
      <3>4. cores = "idle" /\ mod \in {"init", "live"}
        BY <2>1 DEF LoadGpu, CoresAdd, Stages, Loading
      <3>5. \A w \in Finalizer : fin[w].at = "off"  BY <3>4 DEF Stages, Finalizer
      <3>6. taskStruct' \in {taskStruct, NULL}
        BY <2>1 DEF LoadGpu, CoresAdd, GpuMade, GpuNotMade
      <3>. QED  BY <1>1, <2>0, <3>1, <3>2, <3>3, <3>5, <3>6
    <2>2. CASE CoresRemoved
      <3>1. fin["cores"].at = "done" /\ "cores" \in Finalizer
        BY <2>2 DEF CoresRemoved, Finalizer
      <3>2. \A t \in Kthread : ~Running(t)  BY <1>1, <3>1
      <3>3. fin'["cores"].at = "off" /\ fin'["mod"] = fin["mod"] /\ taskStruct' = taskStruct
        BY <1>6, <2>2, ModFin DEF CoresRemoved
      <3>. QED  BY <1>1, <2>0, <3>2, <3>3 DEF Finalizer
    <2>3. CASE Reload
      <3>1. gpu # "live"  BY <1>1, <2>3 DEF Reload, Orderly
      <3>2. \A t \in Kthread : ~Running(t)  BY <1>1, <3>1
      <3>. QED  BY <1>1, <2>0, <2>3, <3>2 DEF Reload
    <2>4. CASE LoadChr \/ LoadCtl \/ LoadProcfs \/ UndoCtl \/ UndoChr \/ ExitProcfs \/ ExitChr
      BY <1>4, <2>0, <2>4 DEF LoadChr, LoadCtl, LoadProcfs, UndoCtl, UndoChr, ExitProcfs, ExitChr
    <2>5. CASE UndoGpu \/ Unload \/ ExitGpu \/ CoresRemove
      <3>1. UNCHANGED <<gpu, taskStruct>>  BY <2>5 DEF UndoGpu, Unload, ExitGpu, CoresRemove
      <3>2. /\ fin'["mod"] = fin["mod"] \/ fin'["mod"].at \in {"off", "check"}
            /\ fin'["cores"] = fin["cores"] \/ fin'["cores"].at \in {"off", "check"}
        BY <1>6, <2>5, ModFin
      <3>. QED  BY <1>1, <2>0, <3>1, <3>2 DEF Finalizer
    <2>6. CASE CoresNodes  BY <1>4, <2>0, <2>6 DEF CoresNodes
    <2>7. ASSUME NEW new, SetPolicy(new) \/ SetMaxInst(new)  PROVE ThreadsKnown'
      BY <1>4, <2>7, GroupSteady
    <2>. QED  BY <1>6, <2>1, <2>2, <2>3, <2>4, <2>5, <2>6, <2>7 DEF ModNext
  <1>7. ASSUME NEW f \in File, FileNext(f)  PROVE ThreadsKnown'
    <2>0. UNCHANGED <<gpu, fin>>  BY <1>7, FileSteady
    <2>1. \A g \in File \ {f} : file'[g] = file[g]  BY <1>7, FileEffect
    <2>2. ASSUME file[f].at # "store", file'[f].at # "store", UNCHANGED <<taskStruct, kt>>
          PROVE  ThreadsKnown'
      <3>1. \A g \in File : file'[g].at = "store" <=> file[g].at = "store"  BY <2>1, <2>2
      <3>2. \A g \in File : file[g].at = "store" => file'[g] = file[g]  BY <2>1, <2>2
      <3>. QED  BY <1>1, <2>0, <2>2, <3>1, <3>2
    <2>3. CASE KickRun(f)
      <3>1. taskStruct' = taskStruct  BY <2>3 DEF KickRun, KickRest
      <3>2. ~Note("failed")  BY <1>1 DEF Note, Calm
      <3>3. ~Note("start")  BY <1>1 DEF Note, Calm
      <3>4. /\ \A u \in Kthread : ~Running(u) /\ \A g \in File : file[g].at # "store"
            /\ file'[f].at = "store" /\ file'[f].made \in Kthread
            /\ kt'[file'[f].made].at = "sleep"
            /\ \A u \in Kthread \ {file'[f].made} : kt'[u] = kt[u]
        BY <2>3, <3>2, <3>3, RunEffect
      <3>5. gpu = "live"  BY <2>3 DEF KickRun
      <3>6. \A w \in Finalizer : fin[w].at \in {"off", "check"}
        BY <1>1, <2>3 DEF KickRun, FilesOnLive, NoFiles, InUse
      <3>7. \A u \in Kthread : Running(u)' <=> u = file'[f].made  BY <3>4
      <3>8. taskStruct = NULL  BY <1>1, <3>4
      <3>. HIDE DEF Running
      <3>. QED  BY <1>1, <2>0, <2>1, <3>1, <3>4, <3>5, <3>6, <3>7, <3>8
    <2>4. CASE KickStore(f)
      <3>1. taskStruct' = file[f].made /\ kt' = kt  BY <2>4 DEF KickStore, KickRest
      <3>2. file[f].at = "store" /\ file'[f].at = "open"  BY <2>4, FilePlaced DEF KickStore
      <3>3. file[f].made \in Kthread /\ Running(file[f].made)  BY <1>1, <3>2
      <3>4. \A w \in Finalizer : fin[w].at \in {"off", "check"}
        BY <1>1, <3>2 DEF FilesOnLive, NoFiles, InUse
      <3>5. \A u \in Kthread : Running(u) => u = file[f].made  BY <1>1, <3>3
      <3>6. \A g \in File : file'[g].at = "store" => file'[g] = file[g] /\ file[g].at = "store"
        BY <2>1, <3>2
      <3>. QED  BY <1>1, <2>0, <3>1, <3>3, <3>4, <3>5, <3>6
    <2>5. CASE OpenBegin(f) \/ OpenFill(f) \/ OpenFind(f) \/ OpenDone(f) \/ OpenFail(f) \/ Close(f)
      <3>1. UNCHANGED <<taskStruct, kt>>
        BY <2>5 DEF OpenBegin, OpenFill, OpenFind, OpenDone, OpenFail, Close, OpenRest, threadVars
      <3>2. file[f].at # "store" /\ file'[f].at # "store"
        <4>1. CASE OpenBegin(f)  BY <4>1, BeginEffect
        <4>2. CASE OpenFill(f)  BY <4>2, FillEffect
        <4>3. CASE OpenFind(f) \/ OpenDone(f) \/ OpenFail(f)
          BY <4>3, FilePlaced DEF OpenFind, OpenDone, OpenFail
        <4>4. CASE Close(f)  BY <4>4, FilePlaced DEF Close
        <4>. QED  BY <2>5, <4>1, <4>2, <4>3, <4>4
      <3>. QED  BY <2>2, <3>1, <3>2
    <2>6. CASE KickCheck(f)
      <3>1. file[f].at # "store" /\ file'[f].at # "store" /\ UNCHANGED <<taskStruct, kt>>
        BY <2>6, FilePlaced DEF KickCheck
      <3>. QED  BY <2>2, <3>1
    <2>. QED  BY <1>7, <2>3, <2>4, <2>5, <2>6 DEF FileNext
  <1>8. ASSUME NEW t \in Kthread, ThreadNext(t)  PROVE ThreadsKnown'
    <2>0. UNCHANGED <<gpu, fin, file>>  BY <1>8, ThreadSteady
    <2>1. \A u \in Kthread \ {t} : kt'[u] = kt[u]  BY <1>8, ThreadEffect
    <2>2. CASE Wake(t) \/ Look(t)
      <3>1. \A u \in Kthread : Running(u)' <=> Running(u)  BY <1>8, <2>1, <2>2, ThreadEffect DEF Wake, Look
      <3>2. taskStruct' = taskStruct  BY <2>2 DEF Wake, Look
      <3>. HIDE DEF Running
      <3>. QED  BY <1>1, <2>0, <3>1, <3>2
    <2>3. CASE Out(t)
      <3>1. Running(t) /\ kt'[t].at = "left" /\ taskStruct' = NULL
        BY <1>8, <2>3, ThreadEffect DEF Out
      <3>2. trouble' = trouble \cup LeavingNotes(t)  BY <2>3 DEF Out
      <3>3. \A g \in File : file[g].at = "store" => file[g].made # t
        BY <1>1, <3>2 DEF LeavingNotes, Calm
      <3>4. Calm({"left"})' => \A w \in Finalizer : fin[w].at # "call"
        BY <3>2 DEF LeavingNotes, Calm
      <3>5. \A u \in Kthread : Running(u) => u = t  BY <1>1, <3>1
      <3>6. \A u \in Kthread : ~Running(u)'  BY <2>1, <3>1, <3>5
      <3>7. \A g \in File : file[g].at # "store"  BY <1>1, <3>3, <3>5
      <3>. HIDE DEF Running
      <3>. QED  BY <1>1, <2>0, <3>1, <3>4, <3>6, <3>7
    <2>4. CASE Return(t)
      <3>1. \A u \in Kthread : Running(u)' <=> Running(u)  BY <1>8, <2>1, <2>4, ThreadEffect DEF Return
      <3>2. taskStruct' = taskStruct  BY <2>4 DEF Return
      <3>. HIDE DEF Running
      <3>. QED  BY <1>1, <2>0, <3>1, <3>2
    <2>. QED  BY <1>8, <2>2, <2>3, <2>4 DEF ThreadNext
  <1>. QED  BY <1>5, <1>6, <1>7, <1>8 DEF Next

LEMMA SettledKept ==
    ASSUME Types, Stages, FilesOnLive, ThreadsKnown, Settled, Next
    PROVE  Settled'
  <1>. SUFFICES ASSUME Calm({"start", "failed", "orphan", "overlap", "leaving"})'
                PROVE  Settled'
    BY DEF Settled
  <1>0. Grows  BY FileSteady, ThreadSteady, ModSteady, FinEffect DEF Next
  <1>1. /\ Calm({"start", "failed", "orphan", "overlap", "leaving"}) /\ Calm({"orphan"})
        /\ Calm({"start", "failed", "orphan", "overlap"})
    BY <1>0 DEF Grows, Calm
  <1>2. \A t \in Kthread : kt[t].at # "gone" => Running(t) \/ kt[t].at = "left"
    BY DEF Types, ThreadStates, Running
  <1>3. NULL \notin Kthread  BY LifecycleAssumption
  <1>. USE DEF Settled, AllGone
  <1>4. CASE UNCHANGED <<mod, fin, kt>> /\ taskStruct' \in {taskStruct, NULL}  BY <1>1, <1>4
  <1>5. ASSUME NEW w \in Finalizer, FinNext(w)  PROVE Settled'
    <2>1. /\ UNCHANGED <<mod, kt>> /\ \A v \in Finalizer \ {w} : fin'[v] = fin[v]
          /\ taskStruct' \in {taskStruct, NULL}
      BY <1>5, FinEffect
    <2>2. CASE fin[w].at = "check" /\ trouble' = trouble \cup CheckNotes /\ taskStruct' = taskStruct
      <3>1. NoFiles /\ \A t \in Kthread : kt[t].at # "left"
        BY <2>2 DEF CheckNotes, Calm, NoFiles
      <3>2. \A t \in Kthread : Running(t) => gpu = "live" /\ taskStruct = t
        BY <1>1, <3>1 DEF ThreadsKnown, NoFiles, InUse
      <3>3. \/ gpu = "null" /\ fin'[w].at = "done"
            \/ gpu = "live" /\ taskStruct # NULL /\ fin'[w].at = "call"
            \/ gpu = "live" /\ taskStruct = NULL /\ fin'[w].at = "locks"
            \/ fin'[w].at = "stuck"
        BY <1>5, <2>2, FinEffect
      <3>4. fin'[w].at \in {"done", "locks"} => AllGone  BY <1>2, <1>3, <3>1, <3>2, <3>3
      <3>. QED  BY <1>1, <2>1, <3>1, <3>3, <3>4
    <2>3. CASE /\ fin[w].at = "call" /\ UNCHANGED taskStruct
               /\ \/ fin'[w].at = "wait" /\ fin'[w].thread = taskStruct /\ taskStruct \in Kthread
                  \/ fin'[w].at = "stuck"
      <3>1. ASSUME fin'[w].at = "wait", NEW t \in Kthread, kt[t].at # "gone"
            PROVE  t = fin'[w].thread
        <4>1. taskStruct \in Kthread /\ fin'[w].thread = taskStruct  BY <2>3, <3>1
        <4>2. kt[t].at # "left" /\ Running(taskStruct)
          BY <1>1, <1>3, <2>3, <4>1 DEF ThreadsKnown
        <4>. QED  BY <1>1, <1>2, <3>1, <4>1, <4>2 DEF ThreadsKnown
      <3>. QED  BY <1>1, <2>1, <2>3, <3>1
    <2>4. CASE fin[w].at = "wait" /\ kt[fin[w].thread].at = "gone" /\ fin'[w].at = "locks"
      <3>1. AllGone  BY <1>1, <2>4
      <3>. QED  BY <1>1, <2>1, <2>4, <3>1
    <2>5. CASE fin[w].at \in {"locks", "free"} /\ fin'[w].at \in {"free", "done"}
      BY <1>1, <2>1, <2>5
    <2>. QED  BY <1>5, <2>2, <2>3, <2>4, <2>5, FinEffect
  <1>6. CASE ModNext
    <2>. USE DEF gpuVars, threadVars, LoadRest
    <2>0. kt' = kt  BY <1>6, ModSteady
    <2>1. CASE LoadGpu \/ CoresAdd
      BY <1>1, <2>0, <2>1 DEF LoadGpu, CoresAdd, GpuMade, GpuNotMade
    <2>2. CASE CoresRemoved
      <3>1. fin'["cores"].at = "off" /\ fin'["mod"] = fin["mod"] /\ UNCHANGED <<mod, taskStruct>>
        BY <1>6, <2>2, ModFin DEF CoresRemoved
      <3>. QED  BY <1>1, <2>0, <3>1 DEF Finalizer
    <2>3. CASE LoadChr \/ LoadCtl \/ LoadProcfs \/ UndoCtl \/ UndoChr \/ ExitProcfs \/ ExitChr
      BY <1>1, <2>0, <2>3 DEF LoadChr, LoadCtl, LoadProcfs, UndoCtl, UndoChr, ExitProcfs, ExitChr
    <2>4. CASE UndoGpu \/ ExitGpu
      <3>1. /\ fin'["cores"] = fin["cores"] /\ fin'["mod"].at \in {"off", "check"}
            /\ mod' \in {"deinit", "unregister", "gone"} => fin["mod"].at = "done"
        BY <1>6, <2>4, ModFin DEF UndoGpu
      <3>2. taskStruct' = taskStruct /\ "mod" \in Finalizer
        BY <2>4 DEF UndoGpu, ExitGpu, Finalizer
      <3>. QED  BY <1>1, <2>0, <3>1, <3>2 DEF Finalizer
    <2>5. CASE Unload \/ CoresRemove
      <3>1. /\ fin'["mod"] = fin["mod"] \/ fin'["mod"].at = "check"
            /\ fin'["cores"] = fin["cores"] \/ fin'["cores"].at = "check"
        BY <1>6, <2>5, ModFin
      <3>2. taskStruct' = taskStruct /\ mod' \in {"exit", "live"}
        BY <2>5 DEF Unload, CoresRemove
      <3>. QED  BY <1>1, <2>0, <3>1, <3>2 DEF Finalizer
    <2>6. CASE Reload \/ CoresNodes  BY <1>1, <2>0, <2>6 DEF Reload, CoresNodes
    <2>7. ASSUME NEW new, SetPolicy(new) \/ SetMaxInst(new)  PROVE Settled'
      BY <1>4, <2>7, GroupSteady
    <2>. QED  BY <1>6, <2>1, <2>2, <2>3, <2>4, <2>5, <2>6, <2>7 DEF ModNext
  <1>7. ASSUME NEW f \in File, FileNext(f)  PROVE Settled'
    <2>0. UNCHANGED <<mod, fin>>  BY <1>7, FileSteady
    <2>1. CASE KickRun(f) \/ KickStore(f)
      <3>1. ~NoFiles  BY <2>1 DEF KickRun, KickStore, NoFiles, InUse
      <3>2. mod \notin AfterExit /\ \A w \in Finalizer : fin[w].at \in {"off", "check"}
        BY <1>1, <3>1 DEF FilesOnLive
      <3>. QED  BY <1>1, <2>0, <3>2 DEF AfterExit
    <2>2. CASE KickCheck(f)  BY <1>4, <2>0, <2>2 DEF KickCheck
    <2>3. CASE OpenBegin(f) \/ OpenFill(f) \/ OpenFind(f) \/ OpenDone(f) \/ OpenFail(f) \/ Close(f)
      <3>1. UNCHANGED <<taskStruct, kt>>
        BY <2>3 DEF OpenBegin, OpenFill, OpenFind, OpenDone, OpenFail, Close, OpenRest, threadVars
      <3>. QED  BY <1>4, <2>0, <3>1
    <2>. QED  BY <1>7, <2>1, <2>2, <2>3 DEF FileNext
  <1>8. ASSUME NEW t \in Kthread, ThreadNext(t)  PROVE Settled'
    <2>0. UNCHANGED <<mod, fin>> /\ \A u \in Kthread \ {t} : kt'[u] = kt[u]
      BY <1>8, ThreadSteady, ThreadEffect
    <2>1. kt[t].at # "gone"  BY <1>8, ThreadEffect
    <2>2. taskStruct' \in {taskStruct, NULL}
      BY <1>8 DEF ThreadNext, Wake, Look, Out, Return
    <2>3. kt'[t].at = "left" => taskStruct' = NULL  BY <1>8, ThreadEffect DEF Out
    <2>. QED  BY <1>1, <2>0, <2>1, <2>2, <2>3
  <1>. QED  BY <1>5, <1>6, <1>7, <1>8 DEF Next

LEMMA StopsLiveKept ==
    ASSUME Types, ThreadsKnown, StopsLive, Next
    PROVE  StopsLive'
  <1>. DEFINE all == {"left", "start", "failed", "orphan", "overlap"}
  <1>1. Grows  BY FileSteady, ThreadSteady, ModSteady, FinEffect DEF Next
  <1>2. CASE badStop' = badStop  BY <1>1, <1>2 DEF StopsLive, Grows, Calm
  <1>3. ASSUME NEW w \in Finalizer, FinNext(w)  PROVE StopsLive'
    <2>1. CASE /\ fin[w].at = "call" /\ UNCHANGED trouble
               /\ ~(taskStruct \in Kthread /\ kt[taskStruct].at # "gone")
      <3>1. ~Calm(all)  BY <2>1 DEF ThreadsKnown, Calm, Running
      <3>. QED  BY <2>1, <3>1 DEF StopsLive, Calm
    <2>. QED  BY <1>2, <1>3, <2>1, FinEffect
  <1>. QED  BY <1>2, <1>3, FileSteady, ThreadSteady, ModSteady DEF Next

LEMMA InitInv == Init => LifecycleInv
  <1>. SUFFICES ASSUME Init  PROVE LifecycleInv  OBVIOUS
  <1>1. Types
    <2>1. fin \in [Finalizer -> FinStates]  BY DEF Init, FinStates
    <2>2. file \in [File -> FileStates]  BY DEF Init, Closed, FileStates
    <2>3. kt \in [Kthread -> ThreadStates]  BY DEF Init, NoThread, ThreadStates
    <2>4. tasks \in [Inst -> SUBSET File]  BY DEF Init
    <2>5. nodes \in BOOLEAN /\ opened \in BOOLEAN /\ badStop \in BOOLEAN  BY DEF Init
    <2>6. /\ mod \in {"init", "chr", "ctl", "procfs", "undo ctl", "undo chr", "undo",
                      "live", "exit", "deinit", "unregister", "gone", "dead"}
          /\ cores \in {"idle", "removing", "nodes"} /\ refs \in Int
          /\ gpu \in {"null", "live", "unlocked", "freed"} /\ maxInst \in MaxInsts
          /\ policy \in Policy
      BY LifecycleAssumption DEF Init, Policy
    <2>7. chrdevs = {} /\ stale = {} /\ driverOpen = {} /\ filled = {} /\ shouldStop = {}
      BY DEF Init
    <2>8. trouble = {} /\ devices = {} /\ taskStruct \in Kthread \cup {NULL, ErrPtr}
      BY DEF Init
    <2>. QED  BY <2>1, <2>2, <2>3, <2>4, <2>6, <2>7, <2>8, <2>5 DEF Types
  <1>2. /\ \A f \in File : ~InUse(f) /\ ~Opened(f) /\ file[f].at = "closed"
        /\ \A w \in Finalizer : fin[w].at = "off"
        /\ \A t \in Kthread : ~Running(t)
    BY DEF Init, InUse, Opened, Running, Closed, NoThread
  <1>3. "cores" \in Finalizer /\ "mod" \in Finalizer  BY DEF Finalizer
  <1>4. Stages /\ Orderly
    BY <1>2, <1>3 DEF Init, Stages, Orderly, Loading, AfterExit
  <1>5. FillSound /\ FilesOnLive /\ DriverFiles
    BY <1>2 DEF Init, FillSound, OpenedIsFilled, FilesOnLive, DriverFiles, NoFiles, Past
  <1>6. RefsBetween
    <2>1. {f \in File : InUse(f)} = {} /\ {f \in File : Opened(f)} = {}  BY <1>2
    <2>2. Cardinality({}) = 0  BY FS_EmptySet
    <2>3. refs = 0 /\ driverOpen = {}  BY DEF Init
    <2>. QED  BY <2>1, <2>2, <2>3 DEF RefsBetween
  <1>7. ThreadsKnown /\ StopsLive /\ Settled
    BY <1>2 DEF Init, ThreadsKnown, StopsLive, Settled, AllGone, NoThread
  <1>. QED  BY <1>1, <1>4, <1>5, <1>6, <1>7 DEF LifecycleInv

LEMMA NextInv == LifecycleInv /\ [Next]_vars => LifecycleInv'
  <1>. SUFFICES ASSUME LifecycleInv, [Next]_vars  PROVE LifecycleInv'  OBVIOUS
  <1>. USE DEF LifecycleInv
  <1>1. Types'  BY TypesInductive
  <1>2. CASE Next
    <2>1. Stages' /\ FillSound'  BY <1>2, StagesKept, FillSoundKept
    <2>2. Orderly' /\ FilesOnLive'  BY <1>1, <1>2, <2>1, OrderlyKept, FilesOnLiveKept
    <2>3. DriverFiles' /\ RefsBetween'  BY <1>2, DriverFilesKept, RefsBetweenKept
    <2>4. ThreadsKnown' /\ StopsLive'
      BY <1>1, <1>2, <2>2, ThreadsKnownKept, StopsLiveKept
    <2>5. Settled'  BY <1>2, SettledKept
    <2>. QED  BY <1>1, <2>1, <2>2, <2>3, <2>4, <2>5
  <1>3. CASE UNCHANGED vars
    <2>1. /\ UNCHANGED <<mod, chrdevs, nodes, cores, fin, gpu, devices, opened, filled>>
          /\ UNCHANGED <<file, stale, driverOpen, refs, taskStruct, kt, badStop, trouble>>
      BY <1>3 DEF vars, modVars, gpuVars, openVars, threadVars, histVars
    <2>2. Stages' /\ Orderly'  BY <2>1 DEF Stages, Orderly, Loading, Calm
    <2>3. FillSound' /\ FilesOnLive' /\ DriverFiles'
      BY <2>1 DEF FillSound, OpenedIsFilled, FilesOnLive, DriverFiles, NoFiles, Past, InUse,
                  Opened, Calm
    <2>4. RefsBetween'
      <3>1. /\ {f \in File : InUse(f)'} = {f \in File : InUse(f)}
            /\ {f \in File : Opened(f)'} = {f \in File : Opened(f)}
        BY <2>1 DEF InUse, Opened
      <3>. QED  BY <2>1, <3>1 DEF RefsBetween
    <2>5. ThreadsKnown' /\ StopsLive' /\ Settled'
      BY <2>1 DEF ThreadsKnown, StopsLive, Settled, AllGone, Running, Calm
    <2>. QED  BY <1>1, <2>2, <2>3, <2>4, <2>5
  <1>. QED  BY <1>2, <1>3

-----------------------------------------------------------------------------
(* Whatever the order of load, unload, opens, kicks, removals and the      *)
(* threads' own leaving, the stages, the files, the references and the     *)
(* threads stay in step.                                                   *)
THEOREM Invariance == Spec => []LifecycleInv
  BY InitInv, NextInv, PTL DEF Spec

(* Every variable stays in its set, and the references the module counts   *)
(* (try_module_get, module_put) between none and two for each file.        *)
THEOREM TypeCorrect == Spec => []TypeOK
  <1>1. LifecycleInv => TypeOK
    <2>. SUFFICES ASSUME LifecycleInv  PROVE TypeOK  OBVIOUS
    <2>. DEFINE i == Cardinality({f \in File : InUse(f)})
                o == Cardinality({f \in File : Opened(f)})
                d == Cardinality(driverOpen)
                n == Cardinality(File)
    <2>1. Types  BY DEF LifecycleInv
    <2>2. i \in Nat /\ o \in Nat /\ d \in Nat /\ n \in Nat  BY <2>1, Sizes
    <2>3. i <= n /\ d <= n  BY <2>1, LifecycleAssumption, FS_Subset DEF Types
    <2>4. i + o <= refs /\ refs <= i + d  BY DEF LifecycleInv, RefsBetween
    <2>5. refs \in Int  BY <2>1 DEF Types
    <2>. HIDE DEF i, o, d, n
    <2>6. refs \in 0 .. 2 * n  BY <2>2, <2>3, <2>4, <2>5
    <2>. QED  BY <2>1, <2>6 DEF TypeOK, n
  <1>. QED  BY <1>1, Invariance, PTL

(* sgpu_finalize_gpu frees no GPU whose scheduler thread still runs.       *)
THEOREM ThreadsHaveGpu == Spec => []ThreadOnLiveGpu
  <1>1. LifecycleInv => ThreadOnLiveGpu  BY DEF LifecycleInv, ThreadsKnown, ThreadOnLiveGpu
  <1>. QED  BY <1>1, Invariance, PTL

(* kthread_stop is called for threads that have not returned.              *)
THEOREM StopsAreLive == Spec => []StopsLive
  <1>1. LifecycleInv => StopsLive  BY DEF LifecycleInv
  <1>. QED  BY <1>1, Invariance, PTL

(* Opens and closes of sgpu_km_open and sgpu_km_close balance.             *)
THEOREM OpensBalance == Spec => []OpensBalanced
  <1>1. LifecycleInv => OpensBalanced
    <2>. SUFFICES ASSUME LifecycleInv, Calm({"orphan"})
                  PROVE  /\ refs = Cardinality({f \in File : InUse(f)})
                                   + Cardinality({f \in File : Opened(f)})
                         /\ driverOpen = {f \in File : Opened(f)}
      BY DEF OpensBalanced
    <2>1. driverOpen = {f \in File : Opened(f)}  BY DEF LifecycleInv, FilesOnLive
    <2>2. /\ Cardinality({f \in File : InUse(f)}) \in Nat
          /\ Cardinality({f \in File : Opened(f)}) \in Nat /\ refs \in Int
      BY Sizes DEF LifecycleInv, Types
    <2>3. /\ Cardinality({f \in File : InUse(f)}) + Cardinality({f \in File : Opened(f)}) <= refs
          /\ refs <= Cardinality({f \in File : InUse(f)}) + Cardinality({f \in File : Opened(f)})
      BY <2>1 DEF LifecycleInv, RefsBetween
    <2>. QED  BY <2>1, <2>2, <2>3
  <1>. QED  BY <1>1, Invariance, PTL

(* However many first opens race, a GPU marked opened is filled.           *)
THEOREM FilledWhenOpened == Spec => []OpenedIsFilled
  <1>1. LifecycleInv => OpenedIsFilled  BY DEF LifecycleInv, FillSound
  <1>. QED  BY <1>1, Invariance, PTL

(* The procfs nodes never outlive the GPU, but inside sgpu_km_exit.        *)
THEOREM NodesHaveGpu == Spec => []NodesReachLive
  <1>1. LifecycleInv => NodesReachLive
    BY DEF LifecycleInv, Orderly, NodesReachLive
  <1>. QED  BY <1>1, Invariance, PTL

(* After a load that failed and after an unload no device, node, GPU or    *)
(* file is left and no thread runs, and of the driver's files only those   *)
(* are open that a failed sgpu_initialize_gpu had opened.  No thread is    *)
(* left to return either, unless one was while its GPU was finalised.      *)
THEOREM NothingLeft == Spec => []Undone
  <1>1. LifecycleInv => Undone
    <2>. SUFFICES ASSUME LifecycleInv, mod = "gone",
                         Calm({"orphan", "overlap", "start", "failed"})
                  PROVE  /\ chrdevs = {} /\ ~nodes /\ gpu \notin {"live", "unlocked"}
                         /\ devices \subseteq HeldBy("lost")
                         /\ \A f \in File : ~InUse(f)
                         /\ \A t \in Kthread : ~Running(t)
                         /\ Calm({"leaving"}) => \A t \in Kthread : kt[t].at = "gone"
      BY DEF Undone
    <2>1. /\ Calm({"orphan"}) /\ Calm({"overlap"})
          /\ Calm({"start", "failed", "orphan", "overlap"})
      BY DEF Calm
    <2>2. chrdevs = {} /\ ~nodes /\ gpu \in {"null", "freed"} /\ devices \subseteq HeldBy("lost")
      BY <2>1 DEF LifecycleInv, Stages, Orderly
    <2>3. \A f \in File : ~InUse(f)
      BY <2>1 DEF LifecycleInv, FilesOnLive, AfterExit, NoFiles
    <2>4. \A t \in Kthread : ~Running(t)  BY <2>1, <2>2 DEF LifecycleInv, ThreadsKnown
    <2>5. Calm({"leaving"}) => \A t \in Kthread : kt[t].at = "gone"
      <3>1. Calm({"leaving"}) => Calm({"start", "failed", "orphan", "overlap", "leaving"})
        BY DEF Calm
      <3>. QED  BY <3>1 DEF LifecycleInv, Settled, AllGone
    <2>. QED  BY <2>2, <2>3, <2>4, <2>5
  <1>. QED  BY <1>1, Invariance, PTL
=============================================================================
