# sGPU kernel module: formal models

This directory holds TLA+ models of `kernel/src`, the sGPU kernel module that
splits a Moore Threads GPU into up to sixteen instances for containers. It says
what each model covers, what TLC checks on small instances, what TLAPS proves
for every instance, and what is left out.

## 1. The system

The module (`sgpu_km`) sits between container processes and the GPU driver
(`mtgpu`). A container gets its own card and render device nodes. Opens, closes
and ioctls on these reach the module first, which does its accounting and
passes them on to the driver. Administrators configure it through procfs.

| Part | State | Operations | Source |
|---|---|---|---|
| Instance memory and tasks | per instance: limit, free figure, task list; per task: `open_count`, `alloc_memory`, handlers | open, close, the allocation and free ioctls around the driver's, `memsize`, cleaning on removal of the container | `sgpu.c`, `sgpu_ioctl.c` |
| Core scheduler and kicks | per GPU: policy, `task_struct`, `curr_sgpu_id`; per instance: weight; per command: fence, `submitted` | kick before and after the driver, the kernel thread's loop, its start and exit | `sgpu_sched.c`, `sgpu_fence.c`, `sgpu_ioctl.c` |
| Container nodes and settings | per instance: `container_id`; per GPU: `max_inst`, policy, time slice, overcommit ratio; the procfs directories | writes of `inst_ctl` and of the group nodes | `sgpu_procfs.c` |
| GPU set and minor numbers | the table of GPUs, `gpu_ids`, the directory of each GPU | writes of the `cores` node; decoding of a device node's minor number | `sgpu_procfs.c`, `sgpu.c`, `sgpu_linux.c`, `utils.c` |
| Ioctl dispatch | `f_op` of a timeline file during a driver call | pre-ioctl, driver, post-ioctl | `sgpu_ioctl.c` |
| Load, unload, first open | everything above, `opened` | `sgpu_km_init`, `sgpu_km_exit`, the first open of a GPU | `sgpu.c` |
| Parameter and information nodes | the time slice, `mem_total_size`; on one architecture the device's own answer buffer | `memsize`, `weight`, `time_slice`, `meminfo`, `id`, heap and device information | `sgpu_procfs.c`, `sgpu_ioctl.c` |
| Stub driver | eight character-device places, the node and the card of each device | load, PCI probe and remove, opens of its nodes, unload | `mtgpu_stub.c` |
| Scripts, tests, packages, firmware, documents | files on disk | install, uninstall, set up, build | `*.sh`, `packaging`, `tools`, `docs` |

The parts share memory and call each other directly. Process context (system
calls), procfs writers and one kernel thread per GPU run concurrently; each
instance has a spinlock, and nothing else is locked: `task_struct`,
`curr_sgpu_id`, `policy`, `max_inst`, the table of GPUs and the claim on a
`container_id` are not.

What makes it hard:

* the lock of an instance is released between finding a task and using it, in
  open and in the kick;
* a request is admitted before the driver runs and charged after it;
* a file can be inherited, so that another process closes it;
* a container can be removed while its processes have files open and commands
  queued;
* the scheduler thread decides by itself to leave, while kicks decide by
  looking at `task_struct` whether to start one;
* procfs writers check and then act, without a lock;
* a timeline file loses its `f_op` for the length of a driver call, while the
  other threads of the process close, open and call;
* `sgpu_finalize_gpu` stops a thread that may be leaving by itself, and takes
  away an object that opens, kicks and procfs nodes still reach;
* every allocation, driver call and directory can fail half way.

What makes each part correct: the books of an instance balance and its limit is
kept; there is one scheduler, it reaches every instance, signals every fence
once and does not leave with work; a container has an instance of its own and
can be removed again; the table, the list and the directories of the GPUs
agree, and a device node reaches its own GPU; what is loaded is unloaded again
and a thread runs only while its GPU exists; a redirected file is put back; an
answer about an instance adds up.

## 2. Modules and plan

| Module | Models | Proofs |
|---|---|---|
| `MemLedger` | abstract: a limit, charges, a free figure equal to limit minus charges | |
| `SgpuMemory` | memory and tasks of one instance; implements `MemLedger` | `SgpuMemory_proofs` |
| `FenceBook` | abstract: the fence of each command, what waits on each instance, what is marked | |
| `SgpuSched` | one GPU's kicks and scheduler; implements `FenceBook` | `SgpuSched_proofs` |
| `ContainerHomes` | abstract: which container has its home on which instance, and whose processes are there | |
| `SgpuNodes` | one GPU's containers, their tasks, `max_inst`; implements `ContainerHomes` | `SgpuNodes_proofs` |
| `SgpuDevices` | the set of GPUs, the minor numbers | `SgpuDevices_proofs` |
| `SgpuLifecycle` | load, first open, removal and return of a GPU, stop of its scheduler, unload | `SgpuLifecycle_proofs` |
| `SgpuIoctl` | the way of an ioctl through the module and the redirection of timelines | `SgpuIoctl_proofs` |
| `SgpuParams` | sizes and time slices, the answers about an instance | `SgpuParams_proofs` |
| `MtgpuStub` | the stub driver's places, nodes, references and cards | `MtgpuStub_proofs` |

Each `MC*` module gives constants and symmetry to the module of its name.

Every module has one subject, and where two touch the same state each keeps the
part its own properties need. `SgpuMemory`, `SgpuSched` and `SgpuLifecycle` have
the task list: the first with addresses, counts and charges, the second with the
commands a task holds, the third only with who has a task. `SgpuNodes`,
`SgpuDevices` and `SgpuParams` have `container_id`: the claim itself, whether a
GPU has any, and whether an instance has one. `SgpuSched` has the whole of the
thread's loop, `SgpuLifecycle` the part that decides when the thread leaves.

Every safety property that a run checks, and all three refinements, are also proved
for every value of the constants (section 5). Only the two liveness properties
are not. What could still be added is more to say, rather than more to prove of
what is said: one task list that `SgpuMemory`, `SgpuSched` and `SgpuLifecycle`
are each shown to implement, and a set of GPUs as an abstract specification of
`SgpuDevices`.

## 3. How the models correspond to the code

A step is a critical section of an instance's lock, or one access to
unprotected state. A call that releases the lock is several actions, and what
it remembers in between is in `call[thread]` (`file[f]` and `fin[w]` in
`SgpuLifecycle`). Fields keep their C names. History variables, which no guard
but a named bound reads, say so in their comments.

Several properties hold only while something has not happened that the code does
not prevent. Each of these situations has a name in a history variable
(`disturbed`, `stale`, `clash`, `trouble`), the property names what it excludes,
and the comment gives the line of the code. They are what this project has to
say about the code's limits beyond the three violated properties of section 4.

### SgpuMemory

`OpenFind` is `sgpu_km_open` under the lock, `OpenDone` and `OpenFail` the rest
of it after the driver's open. `AllocPre` is the check in pre-ioctl,
`AllocPost` and `AllocUncharged` the end of post-ioctl. `Free`, `Close`,
`SetTotalMem` and `DestroyNode` are one critical section each. Task addresses
are reused after `clean_sgpu_task` frees them (`TaskObj`), so an open that
holds a stale pointer increments whatever lives there. `free_memory` and
`alloc_memory` are words (`WordSize`). `Inherits` says which process can use
and close the files another one opened. A handler's bytes are counted as a set
of pairs so that sums are cardinalities, which both tools can reason about.
Bounds: `MaxCount` on `open_count`, and the sets of addresses.

`disturbed` holds the processes whose `open_count` lost its meaning: their
container was removed while they had files open, a file crossed processes, or
an open finished on a freed task. `stale` says that an admission decision was
overtaken, or that a charge was larger than what it was admitted with:
`memory_alloc_ioctl` copies the size from user memory again after the driver's
call (`sgpu_ioctl.c:825`), so `AllocPost` charges any size.

### SgpuSched

`KickFind`, `KickAdd`, `KickCheck`, `KickStart`, `KickAssign`, then
`DriverAccepts` or `DriverFails`, then `KickMark`: the kick ioctl, split where
the lock is released and around the two unprotected accesses to `task_struct`.
The thread's loop is `Wake` (after its sleep), `Scan` (`is_gpu_used`, one
instance per step), `Pick` (whose turn), `Service` (signal the marked commands)
and `Exit`. `submitted` is what `kmalloc` left there until it is set, so
`KickAdd` chooses its value. Post-ioctl copies the fence number from user memory
again (`sgpu_ioctl.c:551`), so `KickMark` marks any command of the process's
task, or none. `kthread_run` may fail, and then stores an error
pointer. A command added to a task that was cleaned meanwhile is lost or lands
on a task that lives at that address now. `since` counts slices given to others
and stops one above `Bound`. Sleep is a state, without a duration. `FenceBook`
is what a user of a kick may rely on; in its terms (`Pending`) a command waits
on the instance whose processes' lists hold it.

### SgpuNodes

`CreateFind` to `CreateClear` are the steps of `create_new_node`, with every
failure; `DestroyFind`, `DestroyUnname`, `DestroyClean` and `DestroyRmdir` those
of `destroy_node`; `MaxInstCheck` and `MaxInstSet` the two halves of
`group_set_max_inst`. `TaskOpen` and `TaskClose` are the processes of a
container, which know their instance from the directory. `trouble` records that
a claim was written over or removed half built (`clash`), that `max_inst` moved
under a claim (`maxInst`), that an instance was claimed between the loss of its
name and the cleaning of its tasks (`handed`), that a process opened a device of
a container under removal (`late`), and that a removal cleaned another
container's tasks (`wiped`, which `TenantsApart` forbids). Bounds: after a
clash, calls are made one at a time (`Begins`), and no task is opened once
`TenantsApart` excludes the state (`TaskBound`). In terms of `ContainerHomes` a
directory is the home of its container until a removal begins (`Settled`),
tasks are guests, and the promise is upset by what `TenantsApart` excludes.

### SgpuDevices

`CoresBegin` computes the difference and makes the in-use check; `CoresInit`,
`CoresDelete` and `CoresAdd` are the three loops of `sgpu_km_set_cores`, one GPU
per step. An initialisation may fail before or after its object is allocated, a
directory may fail to be made or filled. `gpus` holds addresses; `board` is the
GPU an object was initialised for. An initialisation that fails after it found
the PCI device loses its object and frees the kernel's `pci_dev`
(`sgpu.c:222-224`, `Lost`); what a later walk over the PCI devices then does is
undefined, and the properties leave it out (`freed`). `OpenedBy` is what an open of a device node
reaches. The loops walk `add` as a sequence and `del` as a set, of which
the least goes first; the GPUs found at load are listed in
ascending order (`Ordered`). `mt_global` is allocated without being cleared (`sgpu.c:238`); the
model assumes that the memory was zero, so that GPUs not driven are NULL.

### SgpuLifecycle

Five kinds of actors share one GPU.

* The module: `LoadGpu`, `LoadChr`, `LoadCtl`, `LoadProcfs` are the stages of
  `sgpu_km_init`, `UndoCtl`, `UndoChr`, `UndoGpu` its error labels, `Unload`,
  `ExitGpu`, `ExitProcfs`, `ExitChr` are `sgpu_km_exit` in its order. A load
  without memory for `mt_global` dies in its own error path (`mod = "dead"`).
* The `cores` node: `CoresRemove`, `CoresRemoved`, `CoresAdd`, `CoresNodes`.
* `sgpu_finalize_gpu`, called by either of the two: `FinCheck` and `FinCall` are
  its two reads of `task_struct`, `FinWait` the return of `kthread_stop`,
  `FinLocks` the instances, `FinFree` the object.
* The processes: `OpenBegin`, `OpenFill` (the first open, one instance under its
  lock per step), `OpenFind`, `OpenDone` or `OpenFail`, `Close`; `KickCheck`,
  `KickRun`, `KickStore` start the scheduler. The references the kernel and the
  module take are counted in `refs`.
* The writers of the `policy` and `max_inst` nodes: `SetPolicy` and
  `SetMaxInst`, at any time the GPU has its nodes, also while its thread runs
  or is being stopped. They are refused while an instance has a container;
  here none has one, which is also what lets the `cores` node remove the GPU.
* The threads: `Wake`, `Look`, `Out`, `Return`. After its sleep a thread takes
  the next instance (`turn`) or, with weight left, looks again at the one it
  has served (`look`); how much is left is `SgpuSched`'s. `PlaceAfter` is one
  round of the loop that looks for a used instance: `fair_fixed` serves one
  that is not used, `fair_preemption` passes it over, and `best_effort`, the
  default of a new GPU, looks at it again without a sleep.

What a process does with memory that was freed under it is undefined; the model
stops it there (`stale`). `trouble` records: a GPU finalised under an open file
(`orphan`), `rmmod` during a write of the `cores` node (`overlap`), two kicks
that start the thread at once (`start`), a `kthread_run` that failed
(`failed`), a thread that left between the two reads of `task_struct` (`left`),
a GPU finalised while a thread that had left by itself was still to return
(`leaving`), and a failed initialisation that freed the kernel's `pci_dev`
(`freed`). Bounds: once one of these happened, no file is opened, no kick starts
a thread, the policy and `max_inst` are not written, no GPU is removed and the
module is not loaded again; after `freed` no GPU is added, since that walks over
the PCI devices. When the object is freed its settings go back to their
defaults, which spares TLC states that differ in nothing that can be read.
A GPU of unknown architecture is refused like one without devices. `devices`
holds the driver's files that are open, each with its holder: those that a
failed initialisation had opened are never closed by the code and stay there as
`lost`. The memory it had allocated is lost too and not part of the state.

### SgpuIoctl

`Enter` is the call reaching the module, `PreUnread` and `PreSwap` the two ways
out of `sgpu_km_pre_ioctl`, `DriverAccepts` and `DriverFails` the driver's
handler, `PostRestore` and `PostUnread` those of `sgpu_km_post_ioctl`. `Open`,
`Close` and the rule that release goes through the `f_op` of the file are the
kernel's and external. `f_op` is `"sgpu"` or `NULL`:
`mt_global->mtgpu_drm_driver_fops`, which replaces it, is never set. A
process that meets the NULL dies there (`oops`) and the model ends. `trouble`
records: a call that failed after its swap (`failed`), a timeline's descriptor
closed or opened anew during the call (`moved`), a call through a file that is
itself redirected (`own`), two calls on one timeline (`shared`), any overlap
of calls (`overlap`), and a call that had swapped a file and whose command or
timeline was another when post-ioctl copied it from user memory again
(`rewritten`; `sgpu_ioctl.c:517, 551, 610, 636`). `PostRestore` therefore chooses
the command and the descriptor it works on, whatever pre-ioctl read. No bound is
needed.

### SgpuParams

Sizes are counted in units of which `Half` make 512 MB. `Charged` is the number
of units charged to the tasks of an instance, all of which `inst_get_meminfo`
adds up. `RoundUp` is the ladder of
`sgpu_memsize_node_write`, `DdrCode` the code of a size in the device
information. `MemsizeWrite` and `MemsizeDone` are the two stores of
`inst_set_total_mem` under the lock. `MeminfoFree` and `MeminfoTasks` are the
two reads of `inst_get_meminfo`, the second under the lock; when its entries
cannot be allocated the answer is given without them (`short`). `HeapInfo` is one
step under it. `DeviceInfo` is the driver's answer, `PostInfo` its change in
post-ioctl, `Take` the caller's reading of it. On QUYUAN the answer lies in one
buffer of the device, which the driver is assumed to fill anew at each call. `SliceCheck`, `SliceMaximum`, `SliceMinimum` are
`group_set_time_slice`, whose second store the compiler may base on the argument
or on the field just stored; `SchedReadOne` and `SchedReadOther` are the
scheduler's reads, in either order. `trouble` records two device information
calls at once (`mixed`) and two setters between each other's stores (`torn`);
`moved` and `crossed` mark an answer or a slice between whose reads something
was written. An instance starts with 2 MB (`InitTotal`), whose code is 129 like that of
512 MB. Bounds: after two calls met, calls are made one at a time (`Begins`) and
no container is added; `MaxCharge` on the memory of a task.

### MtgpuStub

`Load`, `Unload` and `ExitDone` are the module's, `ProbePick`, `ProbeFail`,
`ProbeRegister` and `ProbeCdev` the steps of `mtgpu_pci_probe`, `RemoveNode` and
`RemoveCard` those of `mtgpu_pci_remove`, `OpenNode` and `CloseNode` what a
process, or `sgpu_km`, does to the node. DRM's choice of a card, and `CloseCard`,
are external. `trouble` records probes or removes that met (`race`), a cdev
initialised while a file of its last device was open (`reused`), and a card that
outlives its device (`held`). Bounds: no probe after `race` or `reused`, one
file on a node, one card that lingers.

### Faulty variants

An operator named like another one with a suffix (`TaskOf_Missed`,
`Emptied_Kept`) is a faulty variant of it: a plausible slip in that code. No
specification uses it; `PROJECT.json` says which property it breaks when it
takes the place of the original.

## 4. What is checked

| Run | Instance | Shows |
|---|---|---|
| `memory` | 2 processes, one with 2 threads and one its child; 2 files; 2 addresses of each object; sizes 1 and 2; limits 1 to 3; words of 8 values | `TaskAccountExact`, `TaskListSound`, `QuotaUnlessOvertaken`, `CountMatchesFiles`, `ChargedWhileOpen` and that `MemLedger` is implemented |
| `memory_free` | the same | violated: `free_memory` can exceed `total_memory` |
| `sched_kick` | 2 processes on 2 instances, 2 commands, 2 threads, `fair_fixed`, failing `kthread_run` | `SingleScheduler`, `PendingArmed`, `StaysAttended` and that `FenceBook` is implemented |
| `sched_fair` | 3 policies, weights 1 and 2, `max_inst` 1 and 2, 1 command, 1 thread | `BoundedWaiting`, and `MarkedIsServed` under fairness |
| `sched_early` | 1 command, 1 thread | violated: a fence can be signalled before its job is submitted |
| `nodes` | 3 writers, 2 containers, 2 instances | `SeparateInstances`, `DirectoryIsFound`, `NoLostInstance`, `TenantsApart`, and that `ContainerHomes` is implemented |
| `devices` | 2 writers, 2 GPUs, 2 addresses, instances 0 and 15 | types, `OwnBoard`, `NothingForgotten`, `ListedIsPresent`, `OpensOwnGpu` |
| `lifecycle` | 2 processes on 2 instances, `max_inst` 1 and 2, 2 threads, 3 policies, a GPU with all its devices or without its render node | types, `ThreadOnLiveGpu`, `StopsLive`, `OpensBalanced`, `OpenedIsFilled`, `NodesReachLive`, `Undone`, and `StopReturns` under fairness |
| `lifecycle_standalone` | the same | violated: a GPU driven without one of its devices cannot be opened |
| `ioctl` | 2 threads, 3 descriptors, 3 files | `RedirectedByCall`, `RedirectedInDriver`, `Survives` |
| `stub` | 3 devices, 2 places, another driver's card 0 or none | `SlotsMatchDevices`, `CdevReferences`, `SameDevice` |
| `params` | 2 callers, 2 instances, 1 task, both architectures; sizes 5 and 65 with 2 units in 512 MB; slices 1, 3 and 100; a board of 4 GB | types, `RepliesAgree`, `DeviceInfoRight`, `SliceOrdered` |

The type invariants of `SgpuMemory`, `SgpuSched`, `SgpuNodes`, `SgpuIoctl` and
`MtgpuStub` are proved (section 5) and not run.

Why the bounds are enough to be interesting. The races are between two calls,
or two calls and a removal; two threads of one process and a third of another
give all of them. Two addresses allow a freed one to be reused, three sizes
around the limit allow an admission to fit alone and not together, and eight
values of a word allow it to wrap. Two instances with weights up to 2 make
turns of different lengths; two threads allow a second scheduler. In `nodes`
two writers can clash and a third looks on. In `devices` the list `<<1, 0>>`
adds two GPUs to an empty table and `<<1>>` swaps one for the other. In
`lifecycle` `max_inst` can be below the second instance, so that a used instance
may lie out of the thread's reach, the one instance can be used without the
other, so that a thread under `best_effort` may look at the wrong one for ever,
and two processes can be in the first open
together. In `ioctl` a third descriptor lets one thread close and reopen a
timeline that both others name or call through. In `stub` there is one device
more than places. In `params` size 5 is rounded up and 65 is refused, slice 100
is out of range, and 1 and 3 are far enough apart to cross.

Fairness is stated in two runs. `sched_fair`: a scheduler thread that can step
eventually does, since the kernel schedules it and its sleep is bounded, and an
ioctl that is under way goes on to its end. `lifecycle`: weak fairness of every
scheduler thread and of every caller of `sgpu_finalize_gpu`, for the same
reason. Processes and writers are free never to call again.

Deadlock is checked except where the system really stops for good: `lifecycle`
(a failed load, `kthread_stop` of a thread that is gone, a process that died
under a lock), `ioctl` (the process died) and `stub` (the module is gone).

### What the violations say

* `memory_free`: `sgpu_ioctl.c:282` reads `free_memory` without the lock and the
  charge follows the driver call; two requests that fit one at a time are both
  charged, the unsigned figure wraps, and everything is admitted from then on.
* `sched_early`: `submitted` is not initialised (`sgpu_ioctl.c:374`).
* `lifecycle_standalone`: `sgpu.c:84` calls the DRM devices optional, but the
  first open reads the inode of each through its struct file
  (`sgpu.c:482`), with the lock of an instance held.

One more behaviour of the code is proved rather than run: `DEV_GPU_ID` subtracts
`0x7f`, not `0x80`, from the minor number of a render node, so that the render
node of instance 15 reaches the next GPU (`RenderFifteenIsNextGpu`).

## 5. What is proved

All theorems hold for every value of the constants that satisfies the named
assumption of the module: any number of processes, threads, files, instances,
containers and GPUs. The assumptions say that the constants are of their kind
(numbers, sets without the null value, a word wider than a size). Two ask for
finite sets, `File` in `LifecycleAssumption` and `Task` in `ParamsAssumption`,
because references and charges are counted. Each invariant is strengthened
until it is inductive; TLC checked the strengthened invariant on the run's
instance before it was proved. One lemma for each group of actions says what a
step does field by field (the `...Effect` lemmas), one for each part of the
invariant that every action keeps it, and `[]` follows by propositional temporal
logic.

`SgpuMemory_proofs` (`MemoryAssumption`):

* `TypeCorrect`: `Spec => []TypeOK`;
* `TaskListAlwaysSound`: one task per thread group, no handler without its task;
* `Refinement`: `Spec` implements `MemLedger`;
* `QuotaHeld`: the limit holds until an admission is overtaken or a charge is
  larger than its admission;
* `AccountsExact`: `alloc_memory` of a task is the sum of its handlers;
* `CountsMatchFiles` and `ChargesEndWithFiles`: `open_count` is the number of
  files a process has, and nothing stays charged to a process without a file.

`LedgerInv` adds to the types that the sum of the charges is
finite, that `free` is the balance `(total - charges) % WordSize`, and that
every handler's task is listed. The last is needed because `SetTotalMem` may
replace the limit as soon as the task list is empty: without it, charges could
survive a new limit. The lemma `MemoryEffect` first shows that each action leaves
the ledger alone or is a charge, a refund or a resize, so that `BalanceKept`
has three cases instead of ten; the modulus is pushed through sums by `ModAdd`,
which rests on `OneRemainder`.
`ListInv` adds that a task's `tgid` is that of a process, which makes the walk
over the list find the one task there is. `IInv` is both. `QuotaInv` strengthens
the limit with the requests in flight: while nothing was overtaken, at most one
is, and the charges plus the bytes it was admitted with fit. `CountInv` adds to the counts that the
file of an open under way has no owner yet and belongs to that open alone, so
that its end adds one file to one process.

`SgpuSched_proofs` (`SchedAssumption`): `TypeCorrect`, `OneScheduler`,
`PendingStaysArmed`, `WorkStaysAttended`, `WaitingIsBounded`, and
`FencesFollowBook`, that `Spec` implements `FenceBook`. `SchedInv` has a part
for each:

* `SingleInv`: without a race of two starts, one kick at most is between its test
  of `task_struct` and its assignment, none is while a thread is known, and a
  thread that lives is known or about to be;
* `PendingInv`: a call that found a task which still lives is that of a listed
  process, so that what it adds goes to a listed task;
* `StaysAttended` is inductive with these, and holds also when two kicks
  started a thread each: it only excludes a kick that relied on a thread past
  its last look;
* `WaitingInv`: a thread is where `curr_sgpu_id` says, and the slices an
  instance has waited, plus those that other instances have before its turn
  comes (`Ahead`), are at most `Bound`. `AheadAdvance` and `AheadSpent` say that
  each slice lowers the second figure by the one it adds to the first.

For `FencesFollowBook`, a kick's `KickAdd` is `Arm`, its `KickMark` is `Mark` or
nothing, a thread's `Service` is `Slice`, the last close and the removal of a
container are `Drop`, and every other step leaves the book alone. `Slice` and
`Drop` need `PendingArmed`: a command on two lists would be signalled, or
dropped, on one of them only.

`SgpuNodes_proofs` (`NodesAssumption`): `TypeCorrect`, `InstancesSeparate`,
`DirectoriesFound`, `NoInstanceLost`, `TenantsStayApart`, and `HomesKept`, that
`Spec` implements `ContainerHomes`. `ClaimParts` holds until
a clash: a creation holds the claim it made, a directory is that of the instance
with its name until a removal has taken the name, a removal past that point has
its directory still and alone, and what a creation finds in place of its
directory is going. None of these is inductive alone: two creations of one
container may race with its removal. `NamesBelow` and `TenantInv` strengthen
`DirectoryIsFound` and `TenantsApart`. `HomesKept` follows from all of them: a new
directory is on an instance whose other directory, if there is one, is past its
removal's cleaning (`ClaimParts`) and whose tasks are gone (`TenantInv`), which is
`Settle`; a removal's search is `Expel`, its cleaning `Sweep`.

`SgpuDevices_proofs` (`DevicesAssumption`; the decoding is for all eight GPUs
and sixteen instances):

* `MinorDecodes`, the decoders give back type, instance and GPU of every node
  but the render node of instance 15; `RenderFifteenIsNextGpu`, that one is
  always decoded to the GPU after its own;
* `TypeCorrect`, `TableSound` (`OwnBoard`), `NoneForgotten`, `ListsAgree`,
  `NodesReachOwnGpu`.

`Owned`: without overlapping writes, and with one GPU to add at most, there is
one write; its GPU is not in the table before its entry is stored, and the object
initialised for it waits in `last`, allocated and in no entry. `Accounted`: what
is allocated is in an entry or waits. `Listing`: the directories are those of
the table, which is what `gpu_ids` lists until a write has made its objects, and
what the write wants afterwards, but for what it has yet to remove and to add.

`SgpuLifecycle_proofs` (`LifecycleAssumption`): `TypeCorrect`, `ThreadsHaveGpu`,
`StopsAreLive`, `OpensBalance`, `FilledWhenOpened`, `NodesHaveGpu`, `NothingLeft`.
The parts of `LifecycleInv`: `Stages` and `Orderly` say at which stage of load,
removal and unload the GPU is there, and that one caller finalises it;
`FillSound`, that a first open has filled the instances before its own;
`FilesOnLive`, that a GPU not finalised under a file has its files to itself;
`RefsBetween`, that the references lie between those of the files in use and
those the driver still has, also after a GPU went away under a file, which is why
`refs` never drops below what is open; `ThreadsKnown`, that the one thread that
runs is the GPU's or about to become it, and that a caller past `kthread_stop`
left none running; `Settled`, that it left none to return either, unless one was
leaving by itself when `sgpu_finalize_gpu` read `task_struct`. `NothingLeft` says
of the driver's files only that those still open are `lost`: `Orderly` carries
that no other is open once the GPU is null or freed.

`SgpuParams_proofs` (`ParamsAssumption`): `RoundUpLeast`, a size within the limit
is rounded to the least allowed one that holds it; `DdrCodeExact`, the code of
an allowed size tells it; `SliceAlwaysOrdered`, for which `SliceInv` says that the stored
bounds are in order except while a setter is between its stores; `TypeCorrect`,
`RepliesAlwaysAgree`, `DeviceInfoAlwaysRight`. `Accounts`: outside its lock the
figures of an instance add up, modulo the width of a word; inside it is the one
caller that writes `memsize`, and no task is listed; a reader whose figures have
not moved holds what is free still. `Infos`: on a board with one buffer, and
until two calls met, one device information call is under way, and the buffer
has the board's figures before its answer and the instance's after. `Floor`, the
stored maximum of a slice is never below a millisecond, keeps the types.

`SgpuIoctl_proofs` (`IoctlAssumption`): `TypeCorrect`, and
`AlwaysRedirectedByCall`, `AlwaysRedirectedInDriver`, `AlwaysSurvives` for the
three properties of the run. The strengthening of the first two is `Paired`:
what a call has swapped is still what its descriptor names, unless a descriptor
moved; without it `PostRestore`, which looks the descriptor up again, could put
back another file. It could also do so when the user's buffer was rewritten
meanwhile, which the first and the third property leave out by name; the second
holds all the same, since a call that puts back another call's file is `shared`. `AlwaysSurvives` rests on `Solo`: while no calls met and none
failed, at most one is in flight, it came through an open file, and only its
timeline is redirected.

`MtgpuStub_proofs` (`StubAssumption`): `TypeCorrect`, and `SlotsAlwaysMatch`,
`ReferencesAlwaysBalance`, `AlwaysSameDevice`. `OneMidway` says that, without
a race, one device at most is in a probe or a remove and the place it picked is
still free and the lowest; `Numbered` that the cards given out are the numbers
of the places. That DRM then gives the card with the number of the place is
`CardIsFree` and `LowestIsLeast`: a free number exists by counting and the least
one is well defined.

## 6. Only checked, and not modelled

Only model-checked: `MarkedIsServed` and `StopReturns`. They are liveness
properties under fairness, which the prover does not do. The three violated
properties have their counterexamples from TLC.

Known limits of the models:

* When a used instance lies at or above `max_inst`, or under `best_effort` when
  the instance whose turn it is has no task while another one has, the thread
  goes round its loop without sleeping and without testing
  `kthread_should_stop`. `SgpuSched` and `SgpuLifecycle` have these behaviours,
  under every policy and with the policy and `max_inst` changed at will; the
  liveness properties exclude them by name (`Spinning` in `SgpuLifecycle`), and
  `StopReturns` says that nothing else makes a stop hang.
* Post-ioctl copies the command and its arguments from user memory a second
  time. A thread that rewrites the buffer during the driver's call is charged
  another size than it was admitted with, or has another file restored than was
  redirected; the models have this, and `QuotaUnlessOvertaken`,
  `RedirectedByCall` and `Survives` leave it out by name.
* A failed `sgpu_initialize_gpu` leaves the driver's files it had opened open
  (`lost` in `SgpuLifecycle`) and frees a `pci_dev` of the kernel's (`freed`). The
  models end their walks over PCI devices there, or leave the rest out.
* A thread clears `task_struct` before it returns, and nobody waits for it from
  then on: `rmmod` may end while it is still in the module's text. `Undone` says
  so only of threads that had not got that far (`leaving`).
* A `meminfo` answer made without memory for its entries shows the free figure
  and no task: it does not add up, and `RepliesAgree` leaves it out (`short`).
* The start of a thread and its first read of `curr_sgpu_id` are one step.
* The search of a command by fence number and the marking of it are one step
  with the lookup of the task before it; a task cleaned in between holds no
  command.
* A handler list is a set: of two handlers with one handle either may be found,
  where the code takes the newest.
* `SgpuDevices` checks its invariants for writes of the `cores` node that come
  one at a time and add one GPU each. Beyond that the code goes wrong: two added
  GPUs share the object initialised last, overlapping writes may initialise or
  free twice, and after a directory could not be made a retry finds nothing to
  add and lists a GPU without one. Lists longer than eight entries overrun an
  array and are not modelled.
* `SgpuLifecycle` has one GPU; its run has two instances of it.

Not modelled, and why:

* poll, mmap and page faults: they pass the call on and change no state of the
  module;
* the parsing of what is written to a procfs node, and the ranges of policy,
  weight and overcommit ratio: one check each, and the overcommit ratio is used
  nowhere;
* the hwmon and sysfs files of the stub driver, which return constants;
* layouts of ioctl arguments, error numbers, versions: no state and no control;
* the scripts, packages and tests: sequential input and output;
* firmware and documents.
