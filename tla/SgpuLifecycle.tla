--------------------------- MODULE SgpuLifecycle ---------------------------
(***************************************************************************)
(* The life of the module and of one GPU: load, first open, the start and  *)
(* the stop of the scheduler thread, removal and return of the GPU through *)
(* the cores node, unload.  The steps of a load or an unload, of a writer  *)
(* of the cores node, of the processes that open the device nodes and of   *)
(* the threads interleave; no lock is held across two of them.             *)
(*                                                                         *)
(* What a process does with a GPU that was freed under it is undefined:    *)
(* the model stops that process there (stale) and records it ("orphan").   *)
(***************************************************************************)
EXTENDS Integers, FiniteSets

CONSTANTS
    File,           \* opens of the GPU's device nodes, by a process each
    InstOf,         \* the instance each of them goes to
    NInst,          \* instances of the GPU (MAX_SGPU)
    MaxInsts,       \* values of mt_gpu_i->max_inst
    DeviceSets,     \* the driver's devices a GPU may find when initialised
    Kthread,        \* threads kthread_run creates
    NULL,           \* the null task_struct
    ErrPtr          \* what kthread_run returns when it fails

Inst == 0 .. NInst - 1
Device == {"ctl", "card", "render"}
Finalizer == {"mod", "cores"}
Policy == {"best_effort", "fair_preemption", "fair_fixed"}

ASSUME LifecycleAssumption ==
    /\ NInst \in Nat \ {0}
    /\ InstOf \in [File -> Inst]
    /\ MaxInsts \subseteq 1 .. NInst /\ NInst \in MaxInsts
    /\ DeviceSets \subseteq SUBSET Device
    /\ NULL # ErrPtr /\ {NULL, ErrPtr} \cap Kthread = {}
    /\ IsFiniteSet(File)

VARIABLES
    mod,            \* where sgpu_km_init or sgpu_km_exit is
    chrdevs,        \* registered character devices
    nodes,          \* whether the GPU's procfs nodes exist
    cores,          \* where the writer of the cores node is
    fin,            \* where each caller of sgpu_finalize_gpu is
    gpu,            \* what mt_global->gpus[] points at
    policy,         \* mt_gpu_i->policy
    maxInst,        \* mt_gpu_i->max_inst
    devices,        \* driver devices that are open, each with its holder:
                    \* the GPU, or nobody (lost by a failed initialisation)
    opened,         \* mt_gpu_i->opened
    filled,         \* instances whose fops and inodes are set
    tasks,          \* processes on the tasks list of each instance
    file,           \* where each file is
    stale,          \* files in a call on a GPU that was freed
    driverOpen,     \* files the GPU driver has open
    refs,           \* references to the module
    taskStruct,     \* mt_gpu_i->task_struct
    kt,             \* the scheduler threads
    shouldStop,     \* threads kthread_stop was called for
    badStop,        \* history: kthread_stop was given no live thread
    trouble         \* history: what happened that the properties exclude

modVars == <<mod, chrdevs, nodes, cores>>
gpuVars == <<gpu, policy, maxInst, devices>>
openVars == <<opened, filled, tasks, file, stale, driverOpen, refs>>
threadVars == <<taskStruct, kt, shouldStop>>
histVars == <<badStop, trouble>>
vars == <<modVars, fin, gpuVars, openVars, threadVars, histVars>>

-----------------------------------------------------------------------------
Closed == [at |-> "closed"]
FileStates ==
    [at : {"closed", "dead", "find", "driver", "open", "start"}]
    \cup [at : {"fill"}, inst : Inst]
    \cup [at : {"store"}, made : Kthread \cup {ErrPtr}]

NoThread == [at |-> "gone"]
ThreadStates ==
    [at : {"gone"}]
    \cup [at : {"sleep", "turn", "look", "out", "left"}, turn : Inst]

FinStates ==
    [at : {"off", "check", "call", "locks", "free", "done", "stuck"}]
    \cup [at : {"wait"}, thread : Kthread]

Loading == mod \in {"init", "chr", "ctl", "procfs", "undo ctl", "undo chr", "undo"}
Exiting == mod \in {"exit", "deinit", "unregister"}

Used == {i \in Inst : tasks[i] # {}}
InUse(f) == file[f].at # "closed"
Running(t) == kt[t].at \in {"sleep", "turn", "look", "out"}
HeldBy(who) == Device \X {who}

FileAt(f, place) == file' = [file EXCEPT ![f] = [at |-> place]]
FinAt(w, place) == fin' = [fin EXCEPT ![w] = [at |-> place]]
Note(what) == trouble' = trouble \cup {what}

Init ==
    /\ mod = "init" /\ chrdevs = {} /\ nodes = FALSE /\ cores = "idle"
    /\ fin = [w \in Finalizer |-> [at |-> "off"]]
    /\ gpu = "null" /\ devices = {}
    /\ policy = "best_effort" /\ maxInst = NInst
    /\ opened = FALSE /\ filled = {} /\ tasks = [i \in Inst |-> {}]
    /\ file = [f \in File |-> Closed] /\ stale = {} /\ driverOpen = {}
    /\ refs = 0
    /\ taskStruct = NULL /\ kt = [t \in Kthread |-> NoThread] /\ shouldStop = {}
    /\ badStop = FALSE /\ trouble = {}

-----------------------------------------------------------------------------
(* sgpu_initialize_gpu finds D of the driver's devices: a new object, with *)
(* the default policy and every instance in turn (max_inst 16).            *)
GpuMade(D) ==
    /\ D # {}
    /\ gpu' = "live" /\ devices' = devices \cup (D \X {"gpu"})
    /\ policy' = "best_effort" /\ maxInst' = NInst
    /\ opened' = FALSE /\ filled' = {} /\ tasks' = [i \in Inst |-> {}]
    /\ taskStruct' = NULL
    /\ UNCHANGED trouble

(* It fails without devices, or with some of them open for want of memory, *)
(* a lock, a PCI device or a known architecture.  What it had opened stays *)
(* open, and a pci_dev it had found is freed under the kernel.             *)
GpuNotMade ==
    /\ \E D \in DeviceSets \cup {{}} :
         /\ devices' = devices \cup (D \X {"lost"})
         /\ UNCHANGED trouble \/ (D # {} /\ Note("freed"))
    /\ UNCHANGED <<gpu, policy, maxInst, opened, filled, tasks, taskStruct>>

(* sgpu_initialize.  Without memory for mt_global the error path reads     *)
(* through the null pointer.                                               *)
LoadGpu ==
    /\ mod = "init"
    /\ \/ \E D \in DeviceSets : GpuMade(D) /\ mod' = "chr"
       \/ GpuNotMade /\ mod' = "undo"
       \/ /\ mod' = "dead"
          /\ UNCHANGED <<gpuVars, opened, filled, tasks, taskStruct, trouble>>
    /\ UNCHANGED <<chrdevs, nodes, cores, fin, file, stale, driverOpen, refs, kt, shouldStop, badStop>>

LoadRest == UNCHANGED <<cores, fin, gpuVars, openVars, threadVars, histVars>>

LoadChr ==
    /\ mod = "chr"
    /\ \/ chrdevs' = {"sgpu-km"} /\ mod' = "ctl"
       \/ UNCHANGED chrdevs /\ mod' = "undo"
    /\ UNCHANGED nodes /\ LoadRest

LoadCtl ==
    /\ mod = "ctl"
    /\ \/ chrdevs' = chrdevs \cup {"sgpu-km-ctl"} /\ mod' = "procfs"
       \/ UNCHANGED chrdevs /\ mod' = "undo chr"
    /\ UNCHANGED nodes /\ LoadRest

(* sgpu_km_procfs_init; when it fails it removes what it made.             *)
LoadProcfs ==
    /\ mod = "procfs"
    /\ \/ nodes' = TRUE /\ mod' = "live"
       \/ UNCHANGED nodes /\ mod' = "undo ctl"
    /\ UNCHANGED chrdevs /\ LoadRest

(* init_err_ret3, init_err_ret2, init_err_ret1.                            *)
UndoCtl_Skipped ==
    /\ mod = "undo ctl"
    /\ mod' = "undo chr"
    /\ UNCHANGED <<chrdevs, nodes>> /\ LoadRest

UndoCtl ==
    /\ mod = "undo ctl"
    /\ chrdevs' = chrdevs \ {"sgpu-km-ctl"} /\ mod' = "undo chr"
    /\ UNCHANGED nodes /\ LoadRest

UndoChr ==
    /\ mod = "undo chr"
    /\ chrdevs' = chrdevs \ {"sgpu-km"} /\ mod' = "undo"
    /\ UNCHANGED nodes /\ LoadRest

UndoGpu ==
    /\ mod = "undo"
    /\ \/ /\ fin["mod"].at = "off"
          /\ FinAt("mod", "check") /\ UNCHANGED mod
       \/ /\ fin["mod"].at = "done"
          /\ FinAt("mod", "off") /\ mod' = "gone"
    /\ UNCHANGED <<chrdevs, nodes, cores, gpuVars, openVars, threadVars, histVars>>

(* rmmod calls sgpu_km_exit when nothing refers to the module: first the   *)
(* GPUs go, then the nodes, then the devices.                              *)
Unload ==
    /\ mod = "live" /\ refs = 0
    /\ mod' = "exit"
    /\ FinAt("mod", "check")
    /\ IF cores = "idle" THEN UNCHANGED trouble ELSE Note("overlap")
    /\ UNCHANGED <<chrdevs, nodes, cores, gpuVars, openVars, threadVars, badStop>>

ExitGpu ==
    /\ mod = "exit" /\ fin["mod"].at = "done"
    /\ FinAt("mod", "off") /\ mod' = "deinit"
    /\ UNCHANGED <<chrdevs, nodes, cores, gpuVars, openVars, threadVars, histVars>>

ExitProcfs ==
    /\ mod = "deinit"
    /\ nodes' = FALSE /\ mod' = "unregister"
    /\ UNCHANGED chrdevs /\ LoadRest

ExitChr ==
    /\ mod = "unregister"
    /\ chrdevs' = {} /\ mod' = "gone"
    /\ UNCHANGED nodes /\ LoadRest

(* The module is loaded again.  Bound: not after something went wrong.     *)
Reload ==
    /\ mod = "gone" /\ cores = "idle" /\ trouble = {}
    /\ \A f \in File : ~InUse(f)
    /\ mod' = "init" /\ gpu' = "null"
    /\ UNCHANGED <<chrdevs, nodes, cores, fin, policy, maxInst, devices, openVars, threadVars, histVars>>

-----------------------------------------------------------------------------
(* sgpu_finalize_gpu, for each caller w.  task_struct is read to test it   *)
(* and read again as the argument of kthread_stop.  Nobody waits for a     *)
(* thread that has cleared task_struct and has yet to return.              *)
CheckNotes ==
    {n \in {"orphan", "leaving"} :
        \/ n = "orphan" /\ \E f \in File : InUse(f)
        \/ n = "leaving" /\ \E t \in Kthread : kt[t].at = "left"}
FinRest == UNCHANGED <<modVars, refs, kt>>

FinCheck(w) ==
    /\ fin[w].at = "check"
    /\ \/ gpu = "null" /\ FinAt(w, "done")
       \/ gpu = "live" /\ taskStruct # NULL /\ FinAt(w, "call")
       \/ gpu = "live" /\ taskStruct = NULL /\ FinAt(w, "locks")
       \/ gpu \notin {"null", "live"} /\ FinAt(w, "stuck")
    /\ trouble' = trouble \cup CheckNotes
    /\ UNCHANGED <<gpuVars, opened, filled, tasks, file, stale, driverOpen, taskStruct, shouldStop, badStop>>
    /\ FinRest

FinCall_NoWait(w) ==
    /\ fin[w].at = "call"
    /\ shouldStop' = shouldStop \cup ({taskStruct} \cap Kthread)
    /\ FinAt(w, "locks")
    /\ UNCHANGED <<gpuVars, opened, filled, tasks, file, stale, driverOpen, taskStruct, histVars>>
    /\ FinRest

FinCall(w) ==
    /\ fin[w].at = "call"
    /\ LET t == taskStruct IN
       \/ /\ t \in Kthread /\ kt[t].at # "gone"
          /\ shouldStop' = shouldStop \cup {t}
          /\ fin' = [fin EXCEPT ![w] = [at |-> "wait", thread |-> t]]
          /\ UNCHANGED badStop
       \/ /\ ~(t \in Kthread /\ kt[t].at # "gone")
          /\ badStop' = TRUE
          /\ FinAt(w, "stuck")
          /\ UNCHANGED shouldStop
    /\ UNCHANGED <<gpuVars, opened, filled, tasks, file, stale, driverOpen, taskStruct, trouble>>
    /\ FinRest

FinWait(w) ==
    /\ fin[w].at = "wait" /\ kt[fin[w].thread].at = "gone"
    /\ taskStruct' = NULL
    /\ FinAt(w, "locks")
    /\ UNCHANGED <<gpuVars, opened, filled, tasks, file, stale, driverOpen, shouldStop, histVars>>
    /\ FinRest

(* The locks of the instances go, and then their tasks.                    *)
FinLocks(w) ==
    /\ fin[w].at = "locks" /\ gpu = "live"
    /\ gpu' = "unlocked" /\ tasks' = [i \in Inst |-> {}]
    /\ FinAt(w, "free")
    /\ stale' = stale \cup {f \in File : file[f].at \notin {"closed", "open", "dead"}}
    /\ UNCHANGED <<policy, maxInst, devices, opened, filled, file, driverOpen, taskStruct, shouldStop, histVars>>
    /\ FinRest

(* The files of the driver are closed and the object is freed, its         *)
(* settings with it (until the next one they have their default here).     *)
FinFree(w) ==
    /\ fin[w].at = "free" /\ gpu = "unlocked"
    /\ gpu' = "freed" /\ devices' = devices \ HeldBy("gpu")
    /\ policy' = "best_effort" /\ maxInst' = NInst
    /\ FinAt(w, "done")
    /\ UNCHANGED <<opened, filled, tasks, file, stale, driverOpen, taskStruct, shouldStop, histVars>>
    /\ FinRest

-----------------------------------------------------------------------------
(* sgpu_km_set_cores removes the GPU, which no container uses, or brings   *)
(* it back, in up to two steps each.  Bounds: no writer starts once the    *)
(* module is leaving, nor removes a GPU once something went wrong, nor     *)
(* looks for PCI devices once one was freed under the kernel.              *)
CoresRemove_NodesLast ==
    /\ mod = "live" /\ cores = "idle" /\ gpu = "live" /\ trouble = {}
    /\ cores' = "removing"
    /\ FinAt("cores", "check")
    /\ UNCHANGED <<mod, nodes, chrdevs, gpuVars, openVars, threadVars, histVars>>

CoresRemove ==
    /\ mod = "live" /\ cores = "idle" /\ gpu = "live" /\ trouble = {}
    /\ nodes' = FALSE /\ cores' = "removing"
    /\ FinAt("cores", "check")
    /\ UNCHANGED <<mod, chrdevs, gpuVars, openVars, threadVars, histVars>>

CoresRemoved ==
    /\ cores = "removing" /\ fin["cores"].at = "done"
    /\ gpu' = "null" /\ cores' = "idle"
    /\ FinAt("cores", "off")
    /\ UNCHANGED <<mod, chrdevs, nodes, policy, maxInst, devices, openVars, threadVars, histVars>>

CoresAdd ==
    /\ mod = "live" /\ cores = "idle" /\ gpu = "null" /\ "freed" \notin trouble
    /\ \/ \E D \in DeviceSets : GpuMade(D) /\ cores' = "nodes"
       \/ GpuNotMade /\ UNCHANGED cores
    /\ UNCHANGED <<mod, chrdevs, nodes, fin, file, stale, driverOpen, refs, kt, shouldStop, badStop>>

CoresNodes ==
    /\ cores = "nodes"
    /\ nodes' \in BOOLEAN /\ cores' = "idle"
    /\ UNCHANGED <<mod, chrdevs, fin, gpuVars, openVars, threadVars, histVars>>

(* The writes of the policy and max_inst nodes that group_set_policy and   *)
(* group_set_max_inst accept: no instance has a container, but files of    *)
(* the GPU may be open and its thread may run.  Bound: as for opens.       *)
GroupRest ==
    UNCHANGED <<modVars, fin, gpu, devices, openVars, threadVars, histVars>>

SetPolicy(new) ==
    /\ nodes /\ gpu = "live" /\ trouble = {}
    /\ policy' = new
    /\ UNCHANGED maxInst /\ GroupRest

SetMaxInst(new) ==
    /\ nodes /\ gpu = "live" /\ trouble = {}
    /\ maxInst' = new
    /\ UNCHANGED policy /\ GroupRest

-----------------------------------------------------------------------------
(* sgpu_km_open of card and render nodes.  The kernel takes a reference to *)
(* the module for the file, which it cannot once the module is leaving.    *)
(* The open is refused, and nothing changes, when the GPU is null.  Bound: *)
(* no file is opened once something the properties exclude has happened.   *)
OpenRest == UNCHANGED <<modVars, fin, gpuVars, threadVars, badStop>>

OpenBegin(f) ==
    /\ file[f] = Closed
    /\ chrdevs # {} /\ (Loading \/ mod = "live") /\ trouble = {}
    /\ gpu # "null"
    /\ refs' = refs + 1
    /\ IF gpu = "live"
       THEN /\ file' = [file EXCEPT ![f] = IF opened THEN [at |-> "find"]
                                                     ELSE [at |-> "fill", inst |-> 0]]
            /\ UNCHANGED stale
       ELSE /\ FileAt(f, "find")
            /\ stale' = stale \cup {f}
    /\ IF \E w \in Finalizer : fin[w].at # "off" THEN Note("orphan") ELSE UNCHANGED trouble
    /\ UNCHANGED <<opened, filled, tasks, driverOpen>> /\ OpenRest

(* One instance, under its lock.  A device that is missing has no struct   *)
(* file to read: the process dies and keeps the lock of instance 0.        *)
OpenFill_Early(f) ==
    /\ file[f].at = "fill" /\ f \notin stale
    /\ \A g \in File : file[g].at # "dead"
    /\ IF HeldBy("gpu") \subseteq devices
       THEN /\ filled' = filled \cup {file[f].inst}
            /\ opened' = TRUE
            /\ IF file[f].inst = NInst - 1 THEN FileAt(f, "find")
               ELSE file' = [file EXCEPT ![f].inst = @ + 1]
       ELSE /\ FileAt(f, "dead")
            /\ UNCHANGED <<filled, opened>>
    /\ UNCHANGED <<tasks, stale, driverOpen, refs, trouble>> /\ OpenRest

OpenFill(f) ==
    /\ file[f].at = "fill" /\ f \notin stale
    /\ \A g \in File : file[g].at # "dead"
    /\ IF HeldBy("gpu") \subseteq devices
       THEN /\ filled' = filled \cup {file[f].inst}
            /\ opened' = (opened \/ file[f].inst = NInst - 1)
            /\ IF file[f].inst = NInst - 1 THEN FileAt(f, "find")
               ELSE file' = [file EXCEPT ![f].inst = @ + 1]
       ELSE /\ FileAt(f, "dead")
            /\ UNCHANGED <<filled, opened>>
    /\ UNCHANGED <<tasks, stale, driverOpen, refs, trouble>> /\ OpenRest

(* The task of the process, allocated when there is none.                  *)
OpenFind(f) ==
    /\ file[f].at = "find" /\ f \notin stale
    /\ \/ /\ tasks' = [tasks EXCEPT ![InstOf[f]] = @ \cup {f}]
          /\ FileAt(f, "driver") /\ UNCHANGED refs
       \/ /\ f \notin tasks[InstOf[f]]
          /\ FileAt(f, "closed") /\ refs' = refs - 1
          /\ UNCHANGED tasks
    /\ UNCHANGED <<opened, filled, stale, driverOpen, trouble>> /\ OpenRest

(* The driver's open; when it succeeds, a second reference to the module.  *)
OpenDone_NoRef(f) ==
    /\ file[f].at = "driver" /\ f \notin stale
    /\ FileAt(f, "open")
    /\ driverOpen' = driverOpen \cup {f}
    /\ UNCHANGED <<refs, opened, filled, tasks, stale, trouble>> /\ OpenRest

OpenDone(f) ==
    /\ file[f].at = "driver" /\ f \notin stale
    /\ FileAt(f, "open")
    /\ driverOpen' = driverOpen \cup {f}
    /\ refs' = refs + 1
    /\ UNCHANGED <<opened, filled, tasks, stale, trouble>> /\ OpenRest

(* When it fails, the task stays with nothing open.                        *)
OpenFail(f) ==
    /\ file[f].at = "driver" /\ f \notin stale
    /\ FileAt(f, "closed")
    /\ refs' = refs - 1
    /\ UNCHANGED <<opened, filled, tasks, stale, driverOpen, trouble>> /\ OpenRest

(* sgpu_km_close.  On a GPU that is null it returns at once: only the      *)
(* reference the kernel took is dropped and the driver's file stays open.  *)
(* The driver's release is reached through the fops of the instance.       *)
Close(f) ==
    /\ file[f].at = "open" /\ f \notin stale /\ mod # "gone"
    /\ \/ /\ gpu = "live"
          /\ FileAt(f, "closed") /\ refs' = refs - 2
          /\ tasks' = [tasks EXCEPT ![InstOf[f]] = @ \ {f}]
          /\ driverOpen' = IF InstOf[f] \in filled THEN driverOpen \ {f} ELSE driverOpen
          /\ UNCHANGED stale
       \/ /\ gpu = "null"
          /\ FileAt(f, "closed") /\ refs' = refs - 1
          /\ UNCHANGED <<tasks, driverOpen, stale>>
       \/ /\ gpu \in {"unlocked", "freed"}
          /\ stale' = stale \cup {f}
          /\ UNCHANGED <<file, refs, tasks, driverOpen>>
    /\ UNCHANGED <<opened, filled, trouble>> /\ OpenRest

-----------------------------------------------------------------------------
(* A kick that finds no scheduler starts one, unless the policy it has     *)
(* read is best_effort: the test, kthread_run and the assignment are three *)
(* steps of its process.  Bound: none starts a thread once something the   *)
(* properties exclude has happened.                                        *)
KickRest == UNCHANGED <<modVars, fin, gpuVars, opened, filled, tasks, stale, driverOpen, refs, shouldStop, badStop>>

KickCheck(f) ==
    /\ file[f].at = "open" /\ f \notin stale /\ gpu = "live"
    /\ f \in tasks[InstOf[f]]
    /\ policy # "best_effort" /\ taskStruct = NULL /\ trouble = {}
    /\ FileAt(f, "start")
    /\ UNCHANGED <<taskStruct, kt, trouble>> /\ KickRest

KickRun(f) ==
    /\ file[f].at = "start" /\ f \notin stale /\ gpu = "live" /\ trouble = {}
    /\ \/ \E t \in Kthread :
            /\ kt[t] = NoThread
            /\ \A w \in Finalizer : fin[w].at = "wait" => fin[w].thread # t
            /\ kt' = [kt EXCEPT ![t] = [at |-> "sleep", turn |-> 0]]
            /\ file' = [file EXCEPT ![f] = [at |-> "store", made |-> t]]
            /\ IF \/ \E u \in Kthread : Running(u)
                  \/ \E g \in File : file[g].at = "store"
               THEN Note("start") ELSE UNCHANGED trouble
       \/ /\ file' = [file EXCEPT ![f] = [at |-> "store", made |-> ErrPtr]]
          /\ Note("failed")
          /\ UNCHANGED kt
    /\ UNCHANGED taskStruct /\ KickRest

KickStore(f) ==
    /\ file[f].at = "store" /\ f \notin stale /\ gpu = "live"
    /\ taskStruct' = file[f].made
    /\ FileAt(f, "open")
    /\ UNCHANGED <<kt, trouble>> /\ KickRest

-----------------------------------------------------------------------------
(* core_rgxcmp_sched, the parts that decide when it leaves.  It tests      *)
(* kthread_should_stop only after its sleep; then it takes the next        *)
(* instance ("turn"), or looks again at the one it has served while weight *)
(* is left ("look").  How much is left is SgpuSched's.                     *)
ThreadRest == UNCHANGED <<modVars, fin, gpuVars, openVars, badStop>>

Wake_Ignoring(t) ==
    /\ kt[t].at = "sleep"
    /\ \E place \in {"turn", "look"} : kt' = [kt EXCEPT ![t].at = place]
    /\ UNCHANGED <<taskStruct, shouldStop, trouble>> /\ ThreadRest

Wake(t) ==
    /\ kt[t].at = "sleep"
    /\ \E place \in (IF t \in shouldStop THEN {"out"} ELSE {"turn", "look"}) :
         kt' = [kt EXCEPT ![t].at = place]
    /\ UNCHANGED <<taskStruct, shouldStop, trouble>> /\ ThreadRest

(* One turn of the loop that looks for an instance to serve: one not used  *)
(* is served all the same under fair_fixed, passed over under              *)
(* fair_preemption, and looked at again, without a sleep and so for as     *)
(* long as it is not used and another one is, under best_effort.           *)
NextInstance(t) ==
    IF kt[t].at = "turn" THEN (kt[t].turn + 1) % maxInst ELSE kt[t].turn

PlaceAfter(i) ==
    CASE Used = {} -> "out"
      [] Used # {} /\ (i \in Used \/ policy = "fair_fixed") -> "sleep"
      [] Used # {} /\ i \notin Used /\ policy = "fair_preemption" -> "turn"
      [] Used # {} /\ i \notin Used /\ policy = "best_effort" -> "look"

Look(t) ==
    /\ kt[t].at \in {"turn", "look"}
    /\ LET i == NextInstance(t) IN
       kt' = [kt EXCEPT ![t] = [at |-> PlaceAfter(i), turn |-> i]]
    /\ UNCHANGED <<taskStruct, shouldStop, trouble>> /\ ThreadRest

(* The store a late creator undoes, or that a finalizer misses.            *)
LeavingNotes(t) ==
    {n \in {"start", "left"} :
        \/ n = "start" /\ \E f \in File : file[f].at = "store" /\ file[f].made = t
        \/ n = "left" /\ \E w \in Finalizer : fin[w].at = "call"}

Out_Kept(t) ==
    /\ kt[t].at = "out"
    /\ kt' = [kt EXCEPT ![t].at = "left"]
    /\ trouble' = trouble \cup LeavingNotes(t)
    /\ UNCHANGED <<taskStruct, shouldStop>> /\ ThreadRest

Out(t) ==
    /\ kt[t].at = "out"
    /\ taskStruct' = NULL
    /\ kt' = [kt EXCEPT ![t].at = "left"]
    /\ trouble' = trouble \cup LeavingNotes(t)
    /\ UNCHANGED shouldStop /\ ThreadRest

Return(t) ==
    /\ kt[t].at = "left"
    /\ kt' = [kt EXCEPT ![t] = NoThread]
    /\ shouldStop' = shouldStop \ {t}
    /\ UNCHANGED <<taskStruct, trouble>> /\ ThreadRest

-----------------------------------------------------------------------------
ModNext ==
    \/ LoadGpu \/ LoadChr \/ LoadCtl \/ LoadProcfs \/ UndoCtl \/ UndoChr \/ UndoGpu
    \/ Unload \/ ExitGpu \/ ExitProcfs \/ ExitChr \/ Reload
    \/ CoresRemove \/ CoresRemoved \/ CoresAdd \/ CoresNodes
    \/ \E new \in Policy : SetPolicy(new)
    \/ \E new \in MaxInsts : SetMaxInst(new)
FinNext(w) == FinCheck(w) \/ FinCall(w) \/ FinWait(w) \/ FinLocks(w) \/ FinFree(w)
FileNext(f) ==
    \/ OpenBegin(f) \/ OpenFill(f) \/ OpenFind(f) \/ OpenDone(f) \/ OpenFail(f) \/ Close(f)
    \/ KickCheck(f) \/ KickRun(f) \/ KickStore(f)
ThreadNext(t) == Wake(t) \/ Look(t) \/ Out(t) \/ Return(t)

Next ==
    \/ ModNext
    \/ \E w \in Finalizer : FinNext(w)
    \/ \E f \in File : FileNext(f)
    \/ \E t \in Kthread : ThreadNext(t)

(* The kernel runs the threads, whose sleeps end, and the finalizers.      *)
Fairness ==
    /\ \A t \in Kthread : WF_vars(ThreadNext(t))
    /\ \A w \in Finalizer : WF_vars(FinNext(w))

Spec == Init /\ [][Next]_vars /\ Fairness

-----------------------------------------------------------------------------
Types ==
    /\ mod \in {"init", "chr", "ctl", "procfs", "undo ctl", "undo chr", "undo",
               "live", "exit", "deinit", "unregister", "gone", "dead"}
    /\ chrdevs \subseteq {"sgpu-km", "sgpu-km-ctl"}
    /\ nodes \in BOOLEAN /\ cores \in {"idle", "removing", "nodes"}
    /\ fin \in [Finalizer -> FinStates]
    /\ gpu \in {"null", "live", "unlocked", "freed"}
    /\ policy \in Policy /\ maxInst \in MaxInsts
    /\ devices \subseteq Device \X {"gpu", "lost"}
    /\ opened \in BOOLEAN /\ filled \subseteq Inst
    /\ tasks \in [Inst -> SUBSET File]
    /\ file \in [File -> FileStates]
    /\ stale \subseteq File /\ driverOpen \subseteq File
    /\ refs \in Int
    /\ taskStruct \in Kthread \cup {NULL, ErrPtr}
    /\ kt \in [Kthread -> ThreadStates]
    /\ shouldStop \subseteq Kthread
    /\ badStop \in BOOLEAN
    /\ trouble \subseteq {"orphan", "overlap", "start", "failed", "left", "leaving", "freed"}

(* Every variable stays in its set; the module's references are never      *)
(* below none nor above two for each file.                                 *)
TypeOK == Types /\ refs \in 0 .. 2 * Cardinality(File)

Calm(what) == trouble \cap what = {}

(* A scheduler thread runs only while its GPU exists: sgpu_finalize_gpu    *)
(* stops it first.  Excluded: two kicks that start a thread each or lose   *)
(* the pointer of one (sgpu_ioctl.c:398), a GPU finalised while a file of  *)
(* it is open, and rmmod during a write of the cores node.                 *)
ThreadOnLiveGpu ==
    Calm({"start", "failed", "orphan", "overlap"}) =>
        \A t \in Kthread : Running(t) => gpu = "live"

(* kthread_stop is called for a thread that has not returned.  Excluded,   *)
(* besides the above: a thread that leaves by itself between the two reads *)
(* of task_struct (sgpu.c:290-292) and a kthread_run that failed.          *)
StopsLive == badStop => ~Calm({"left", "start", "failed", "orphan", "overlap"})

(* Every file has its references, one while it is being opened and two     *)
(* once it is open, and the driver has open exactly the files that are,    *)
(* as long as no GPU was finalised under a file.                           *)
Opened(f) == file[f].at \in {"open", "start", "store"}
OpensBalanced ==
    Calm({"orphan"}) =>
        /\ refs = Cardinality({f \in File : InUse(f)}) + Cardinality({f \in File : Opened(f)})
        /\ driverOpen = {f \in File : Opened(f)}

(* A GPU marked opened has the fops and inodes of every instance, however  *)
(* many first opens filled them in at once.                                *)
OpenedIsFilled == opened => filled = Inst

(* The procfs nodes of a GPU exist only with the GPU, but for the time     *)
(* sgpu_km_exit takes between freeing the one and removing the others.     *)
NodesReachLive ==
    nodes => gpu = "live" \/ mod \in {"exit", "deinit"} \/ ~Calm({"overlap"})

(* After a load that failed, or an unload, nothing of the module is left:  *)
(* no device, no node, no GPU, no open file and no thread.  Excluded: the  *)
(* driver's files that an initialisation which failed had opened, which    *)
(* stay open for good (sgpu.c:61-80, 222-227), and a thread that had       *)
(* cleared task_struct, and not yet returned, when sgpu_finalize_gpu read  *)
(* it (sgpu_sched.c:103, sgpu.c:291): it may run on in the module's text.  *)
Undone ==
    mod = "gone" /\ Calm({"orphan", "overlap", "start", "failed"}) =>
        /\ chrdevs = {} /\ ~nodes /\ gpu \notin {"live", "unlocked"}
        /\ devices \subseteq HeldBy("lost")
        /\ \A f \in File : ~InUse(f)
        /\ \A t \in Kthread : ~Running(t)
        /\ Calm({"leaving"}) => \A t \in Kthread : kt[t].at = "gone"

(* kthread_stop returns: a finalizer waits for a thread for ever only if   *)
(* again and again that thread is in the loop that neither sleeps nor      *)
(* tests kthread_should_stop (sgpu_sched.c:46): under fair_preemption when *)
(* no instance below max_inst is used while another is, and under          *)
(* best_effort when the one it looks at is not used while another is.      *)
Spinning(t) ==
    /\ Used # {}
    /\ \/ /\ policy = "fair_preemption" /\ kt[t].at \in {"turn", "look"}
          /\ \A i \in Used : i >= maxInst
       \/ /\ policy = "best_effort" /\ kt[t].at = "look"
          /\ kt[t].turn \notin Used
WaitsOnSpin(w) == fin[w].at = "wait" /\ Spinning(fin[w].thread)
StopReturns ==
    \A w \in Finalizer : <>[](fin[w].at = "wait") => []<>WaitsOnSpin(w)

(* sgpu.c:77 and 84: a GPU may be driven without some of the driver's      *)
(* devices.  The first open of such a GPU reads through a null struct file *)
(* and dies under a lock.                                                  *)
StandaloneOpens == \A f \in File : file[f].at # "dead"
=============================================================================
