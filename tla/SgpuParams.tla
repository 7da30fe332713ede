----------------------------- MODULE SgpuParams -----------------------------
(***************************************************************************)
(* The parameters of one GPU and its instances, and the answers made from  *)
(* them.  Callers write the memsize nodes and the time slice of the group, *)
(* and read what an instance has: the meminfo node, the heap figures of    *)
(* memory_info_ioctl and memory_info_pkd_ioctl, and the size of the board  *)
(* that mtml_memory_ioctl puts into the driver's device info.  Meanwhile   *)
(* the processes of the containers allocate and free (SgpuMemory has the   *)
(* whole of that), and the scheduler thread reads the slice (SgpuSched).   *)
(*                                                                         *)
(* Memory is counted in units of which Half make 512 MB.                   *)
(***************************************************************************)
EXTENDS Integers, FiniteSets

CONSTANTS
    Caller,         \* threads that write or read the parameters
    Inst,           \* instances of the GPU
    Task,           \* processes that have files of an instance open
    Half,           \* units in 512 MB
    InitTotal,      \* the size an instance starts with
    SizeInputs,     \* sizes written to memsize
    SliceInputs,    \* numbers written to time_slice
    Archs,          \* architectures of the GPU
    Board,          \* GB of memory on the board
    MaxCharge,      \* bound on the memory of a task
    WordSize,       \* number of values of a uint64_t
    None            \* no caller

ASSUME ParamsAssumption ==
    /\ Half \in Nat \ {0} /\ WordSize \in Nat /\ WordSize > 32 * Half
    /\ InitTotal \in 0 .. Half
    /\ SizeInputs \subseteq Nat /\ SliceInputs \subseteq Int
    /\ Archs \subseteq {"SUDI", "QUYUAN"}
    /\ Board \in 1 .. 255 /\ MaxCharge \in Nat
    /\ None \notin Caller /\ IsFiniteSet(Task)

VARIABLES
    arch,           \* mt_gpu_i->arch
    memTotal,       \* mt_gpu_i->mem_total_size, in GB; 0 while never set
    slice,          \* time_slice_minimum and _maximum, in us
    named,          \* instances that have a container
    total,          \* total_memory of each instance
    free,           \* free_memory of each instance
    alloc,          \* alloc_memory of the tasks listed for each instance
    lock,           \* the caller inside the lock of each instance
    ddr,            \* ddrSize_ in the device's own buffer (QUYUAN)
    sched,          \* where the scheduler thread is, and the slice it read
    call,           \* where each caller is
    trouble         \* history: what happened that the properties exclude

gpuVars == <<arch, memTotal, slice, ddr, sched>>
instVars == <<named, total, free, alloc, lock>>
vars == <<gpuVars, instVars, call, trouble>>

-----------------------------------------------------------------------------
GB == 2 * Half

(* The sizes sgpu_memsize_node_write rounds to: 512 MB, and 1 to 16 GB in  *)
(* powers of two.  Larger requests are refused.                            *)
Allowed == {Half, GB, 2 * GB, 4 * GB, 8 * GB, 16 * GB}
Limit == 16 * GB

RoundUp_Multiple(size) == ((size + Half - 1) \div Half) * Half
RoundUp(size) ==
    IF size > 8 * GB THEN 16 * GB
    ELSE IF size > 4 * GB THEN 8 * GB
    ELSE IF size > 2 * GB THEN 4 * GB
    ELSE IF size > GB THEN 2 * GB
    ELSE IF size > Half THEN GB
    ELSE Half

(* mtml_memory_ioctl: the code of a size in ddrSize_, and the sizes whose  *)
(* code it understands itself.                                             *)
DdrCode(size) == IF size >= GB THEN size \div GB ELSE 129
Understood == {1, 2, 4, 8, 16}

(* The units charged to the tasks listed for an instance, all of them.     *)
Units(f) == {u \in (DOMAIN f) \X (1 .. MaxCharge) : u[2] <= f[u[1]]}
Charged(f) == Cardinality(Units(f))
NoTask == [t \in {} |-> 0]

Idle == [at |-> "idle"]
Out == [at |-> "out"]
Bounds == {"min", "max"}

Words == 0 .. WordSize - 1
Codes == 0 .. 255
Allocs == UNION {[S -> 0 .. MaxCharge] : S \in SUBSET Task}
CallStates ==
    {Idle}
    \cup [at : {"resize"}, inst : Inst]
    \cup [at : {"meminfo"}, inst : Inst, free : Words, moved : BOOLEAN]
    \cup [at : {"told"}, total : Words, free : Words, charged : Nat,
           moved : BOOLEAN, short : BOOLEAN]
    \cup [at : {"post"}, inst : Inst]
    \cup [at : {"answer"}, code : Codes, size : Words]
    \cup [at : {"set", "setmin"}, value : 1 .. 99]

(* Bound: after two calls that must not meet did, calls are made one at a  *)
(* time and no container is added.                                         *)
Begins(c) == call[c] = Idle /\ (trouble = {} \/ \A d \in Caller : call[d] = Idle)

At(c, places) == call[c].at \in places
Goto(c, state) == call' = [call EXCEPT ![c] = state]
Note(what, condition) == trouble' = IF condition THEN trouble \cup {what} ELSE trouble

(* Every caller that has read free_memory of i for the meminfo node learns *)
(* that the figures of i moved.                                            *)
Moved(i) ==
    [c \in Caller |->
        IF At(c, {"meminfo"}) /\ call[c].inst = i
        THEN [at |-> "meminfo", inst |-> i, free |-> call[c].free, moved |-> TRUE]
        ELSE call[c]]

Init ==
    /\ arch \in Archs /\ memTotal = 0
    /\ slice = [min |-> 500, max |-> 1000]
    /\ named = {}
    /\ total = [i \in Inst |-> InitTotal] /\ free = total
    /\ alloc = [i \in Inst |-> NoTask]
    /\ lock = [i \in Inst |-> None]
    /\ ddr = Board
    /\ sched = Out
    /\ call = [c \in Caller |-> Idle]
    /\ trouble = {}

-----------------------------------------------------------------------------
(* Containers come and go (SgpuNodes); a removal cleans the tasks.         *)
Create(i) ==
    /\ i \notin named /\ trouble = {}
    /\ named' = named \cup {i}
    /\ UNCHANGED <<gpuVars, total, free, alloc, lock, call, trouble>>

Destroy(i) ==
    /\ i \in named /\ lock[i] = None
    /\ named' = named \ {i}
    /\ alloc' = [alloc EXCEPT ![i] = NoTask]
    /\ free' = [free EXCEPT ![i] = (@ + Charged(alloc[i])) % WordSize]
    /\ call' = Moved(i)
    /\ UNCHANGED <<gpuVars, total, lock, trouble>>

(* A process opens a device of the instance, is charged, given back a part *)
(* or the whole.                                                           *)
TaskOpen(i, t) ==
    /\ i \in named /\ lock[i] = None
    /\ t \notin DOMAIN alloc[i]
    /\ alloc' = [alloc EXCEPT ![i] = [u \in DOMAIN @ \cup {t} |-> IF u = t THEN 0 ELSE @[u]]]
    /\ UNCHANGED <<gpuVars, named, total, free, lock, call, trouble>>

Charge(i, t) ==
    /\ lock[i] = None
    /\ t \in DOMAIN alloc[i] /\ alloc[i][t] < MaxCharge
    /\ alloc' = [alloc EXCEPT ![i][t] = @ + 1]
    /\ free' = [free EXCEPT ![i] = (@ - 1) % WordSize]
    /\ call' = Moved(i)
    /\ UNCHANGED <<gpuVars, named, total, lock, trouble>>

Refund(i, t) ==
    /\ lock[i] = None
    /\ t \in DOMAIN alloc[i] /\ alloc[i][t] > 0
    /\ alloc' = [alloc EXCEPT ![i][t] = @ - 1]
    /\ free' = [free EXCEPT ![i] = (@ + 1) % WordSize]
    /\ call' = Moved(i)
    /\ UNCHANGED <<gpuVars, named, total, lock, trouble>>

TaskClose(i, t) ==
    /\ lock[i] = None
    /\ t \in DOMAIN alloc[i]
    /\ alloc' = [alloc EXCEPT ![i] = [u \in DOMAIN @ \ {t} |-> @[u]]]
    /\ free' = [free EXCEPT ![i] = (@ + alloc[i][t]) % WordSize]
    /\ call' = Moved(i)
    /\ UNCHANGED <<gpuVars, named, total, lock, trouble>>

-----------------------------------------------------------------------------
(* sgpu_memsize_node_write and inst_set_total_mem: the size is rounded and *)
(* both figures are stored under the lock, unless a task is listed.        *)
MemsizeWrite(c, i, size) ==
    /\ Begins(c)
    /\ i \in named /\ size <= Limit
    /\ lock[i] = None /\ alloc[i] = NoTask
    /\ total' = [total EXCEPT ![i] = RoundUp(size)]
    /\ lock' = [lock EXCEPT ![i] = c]
    /\ call' = [Moved(i) EXCEPT ![c] = [at |-> "resize", inst |-> i]]
    /\ UNCHANGED <<gpuVars, named, free, alloc, trouble>>

MemsizeDone(c) ==
    /\ At(c, {"resize"})
    /\ LET i == call[c].inst IN
       /\ free' = [free EXCEPT ![i] = total[i]]
       /\ lock' = [lock EXCEPT ![i] = None]
       /\ call' = [Moved(i) EXCEPT ![c] = Idle]
    /\ UNCHANGED <<gpuVars, named, total, alloc, trouble>>

(* inst_get_meminfo: free_memory is copied first, the tasks are added up   *)
(* under the lock after that.  When there is no memory for their entries   *)
(* the answer is given all the same, short of them.  (Without memory for   *)
(* the answer itself the read fails.)                                      *)
MeminfoFree(c, i) ==
    /\ Begins(c)
    /\ i \in named
    /\ Goto(c, [at |-> "meminfo", inst |-> i, free |-> free[i], moved |-> FALSE])
    /\ UNCHANGED <<gpuVars, instVars, trouble>>

MeminfoTasks(c) ==
    /\ At(c, {"meminfo"})
    /\ LET i == call[c].inst IN
       /\ lock[i] = None
       /\ \E short \in BOOLEAN :
             /\ short => alloc[i] # NoTask
             /\ Goto(c, [at |-> "told", total |-> total[i], free |-> call[c].free,
                         charged |-> IF short THEN 0 ELSE Charged(alloc[i]),
                         moved |-> call[c].moved, short |-> short])
    /\ UNCHANGED <<gpuVars, instVars, trouble>>

(* memory_info_ioctl, memory_info_pkd_ioctl: total and free are copied     *)
(* under one lock, if the driver's own answer was PVRSRV_OK.               *)
HeapInfo_Unlocked(c, i) ==
    /\ Begins(c)
    /\ i \in named
    /\ Goto(c, [at |-> "told", total |-> total[i], free |-> free[i],
                charged |-> Charged(alloc[i]), moved |-> FALSE, short |-> FALSE])
    /\ UNCHANGED <<gpuVars, instVars, trouble>>

HeapInfo(c, i) ==
    /\ Begins(c)
    /\ i \in named /\ lock[i] = None
    /\ Goto(c, [at |-> "told", total |-> total[i], free |-> free[i],
                charged |-> Charged(alloc[i]), moved |-> FALSE, short |-> FALSE])
    /\ UNCHANGED <<gpuVars, instVars, trouble>>

(* The caller takes its answer.                                            *)
Take(c) ==
    /\ At(c, {"told", "answer"})
    /\ Goto(c, Idle)
    /\ UNCHANGED <<gpuVars, instVars, trouble>>

-----------------------------------------------------------------------------
(* IPC_EVENT_GET_DEVICE_INFO on /dev/mtgpu.N.  The driver answers with the *)
(* board's figures: on SUDI in the message, on QUYUAN in a buffer of the   *)
(* device whose address is in the message.                                 *)
DeviceInfo(c, i) ==
    /\ Begins(c)
    /\ i \in named
    /\ ddr' = Board
    /\ Goto(c, [at |-> "post", inst |-> i])
    /\ Note("mixed", \E d \in Caller : At(d, {"post", "answer"}))
    /\ UNCHANGED <<arch, memTotal, slice, sched, instVars>>

(* mtml_memory_ioctl, in post-ioctl: the board's size is taken from the    *)
(* answer and the instance's is put there instead.                         *)
Found_Own(i) == DdrCode(total[i])
Found(i) == IF arch = "QUYUAN" THEN ddr ELSE Board

PostInfo(c) ==
    /\ At(c, {"post"})
    /\ LET i == call[c].inst
           index == Found(i)
       IN  /\ memTotal' = IF index \in Understood THEN index ELSE memTotal
           /\ ddr' = IF arch = "QUYUAN" THEN DdrCode(total[i]) ELSE ddr
           /\ Goto(c, [at |-> "answer", code |-> DdrCode(total[i]), size |-> total[i]])
    /\ UNCHANGED <<arch, slice, sched, instVars, trouble>>

(* What the caller finds: its message, or the buffer its message names.    *)
Answer(c) == IF arch = "QUYUAN" THEN ddr ELSE call[c].code

-----------------------------------------------------------------------------
(* The upper bound of a slice is stored and its lower bound is not.        *)
HalfStored == \E c \in Caller : At(c, {"setmin"})

(* group_set_time_slice: the number has its range, no instance may be      *)
(* named (is_gpu_opened), and then the bounds are stored, the upper first. *)
(* group_set_policy, group_set_max_inst and group_set_overcommit_ratio do  *)
(* the same with one store (SgpuNodes has max_inst).                       *)
SliceCheck(c, v) ==
    /\ Begins(c)
    /\ v \in 1 .. 99
    /\ named = {}
    /\ Goto(c, [at |-> "set", value |-> v])
    /\ UNCHANGED <<gpuVars, instVars, trouble>>

(* A bound was stored: the scheduler may be between its two reads.         *)
Crossed == sched' = IF sched.at = "half" THEN [sched EXCEPT !.crossed = TRUE] ELSE sched

SliceMaximum_Ms(c) ==
    /\ At(c, {"set"})
    /\ slice' = [slice EXCEPT !.max = call[c].value]
    /\ Crossed
    /\ Goto(c, [at |-> "setmin", value |-> call[c].value])
    /\ Note("torn", HalfStored)
    /\ UNCHANGED <<arch, memTotal, ddr, instVars>>

SliceMaximum(c) ==
    /\ At(c, {"set"})
    /\ slice' = [slice EXCEPT !.max = call[c].value * 1000]
    /\ Crossed
    /\ Goto(c, [at |-> "setmin", value |-> call[c].value])
    /\ Note("torn", HalfStored)
    /\ UNCHANGED <<arch, memTotal, ddr, instVars>>

(* The compiler may compute the lower bound from the argument or read the  *)
(* upper one again.                                                        *)
SliceMinimum(c) ==
    /\ At(c, {"setmin"})
    /\ \E upper \in {call[c].value * 1000, slice.max} :
          slice' = [slice EXCEPT !.min = upper - 500]
    /\ Crossed
    /\ Goto(c, Idle)
    /\ UNCHANGED <<arch, memTotal, ddr, instVars, trouble>>

(* is_gpu_used *)
Used == \E i \in Inst : alloc[i] # NoTask

(* core_rgxcmp_sched: a kick of some task starts the thread, which goes on *)
(* until it wakes up and no instance is used.  Before it sleeps it reads   *)
(* the two bounds of the slice, in either order.                           *)
SchedWake ==
    /\ sched.at \in {"out", "sleep"}
    /\ Used
    /\ sched' = [at |-> "awake"]
    /\ UNCHANGED <<arch, memTotal, slice, ddr, instVars, call, trouble>>

SchedReadOne(b) ==
    /\ sched.at = "awake"
    /\ sched' = [at |-> "half", read |-> b, value |-> slice[b], crossed |-> HalfStored]
    /\ UNCHANGED <<arch, memTotal, slice, ddr, instVars, call, trouble>>

SchedReadOther ==
    /\ sched.at = "half"
    /\ LET both == [slice EXCEPT ![sched.read] = sched.value] IN
       sched' = [at |-> "sleep", min |-> both.min, max |-> both.max,
                 crossed |-> sched.crossed]
    /\ UNCHANGED <<arch, memTotal, slice, ddr, instVars, call, trouble>>

SchedLeave ==
    /\ sched.at = "sleep"
    /\ ~Used
    /\ sched' = Out
    /\ UNCHANGED <<arch, memTotal, slice, ddr, instVars, call, trouble>>

-----------------------------------------------------------------------------
Next ==
    \/ \E i \in Inst :
        \/ Create(i) \/ Destroy(i)
        \/ \E t \in Task : TaskOpen(i, t) \/ Charge(i, t) \/ Refund(i, t) \/ TaskClose(i, t)
    \/ \E c \in Caller :
        \/ \E i \in Inst :
            \/ \E size \in SizeInputs : MemsizeWrite(c, i, size)
            \/ MeminfoFree(c, i) \/ HeapInfo(c, i) \/ DeviceInfo(c, i)
        \/ MemsizeDone(c) \/ MeminfoTasks(c) \/ Take(c) \/ PostInfo(c)
        \/ \E v \in SliceInputs : SliceCheck(c, v)
        \/ SliceMaximum(c) \/ SliceMinimum(c)
    \/ SchedWake \/ SchedReadOther \/ SchedLeave
    \/ \E b \in Bounds : SchedReadOne(b)

Spec == Init /\ [][Next]_vars

-----------------------------------------------------------------------------
(* Every variable has its type: whatever is written to memsize, an         *)
(* instance has the size it started with or one of the allowed ones.       *)
TypeOK ==
    /\ arch \in Archs
    /\ memTotal \in Understood \cup {0}
    /\ slice \in [Bounds -> Nat]
    /\ named \subseteq Inst
    /\ total \in [Inst -> Allowed \cup {InitTotal}]
    /\ free \in [Inst -> Words]
    /\ alloc \in [Inst -> Allocs]
    /\ lock \in [Inst -> Caller \cup {None}]
    /\ ddr \in Codes
    /\ sched \in {Out, [at |-> "awake"]}
          \cup [at : {"half"}, read : Bounds, value : Nat, crossed : BOOLEAN]
          \cup [at : {"sleep"}, min : Nat, max : Nat, crossed : BOOLEAN]
    /\ call \in [Caller -> CallStates]
    /\ trouble \subseteq {"mixed", "torn"}

(* An answer about an instance adds up: what is free and what the tasks    *)
(* hold make the whole, while sizes are written and processes allocate.    *)
(* Excluded: a meminfo answer between whose two reads something moved, and *)
(* one that is short of its entries because none could be allocated, which *)
(* shows the free figure and no task (sgpu_procfs.c:1469-1475).            *)
RepliesAgree ==
    \A c \in Caller : At(c, {"told"}) /\ ~call[c].moved /\ ~call[c].short =>
        (call[c].free + call[c].charged) % WordSize = call[c].total

(* A container is told the size its instance had when the driver's answer  *)
(* was changed, and mem_total_size is the size of the board.  Excluded:    *)
(* two device info calls at once on a board with one buffer for all.       *)
DeviceInfoRight ==
    arch = "SUDI" \/ "mixed" \notin trouble =>
        /\ memTotal \in {0, Board}
        /\ \A c \in Caller : At(c, {"answer"}) => Answer(c) = DdrCode(call[c].size)

(* The slice the scheduler sleeps for has its lower bound below the upper  *)
(* one, as usleep_range wants it.  Excluded: a bound is stored between its *)
(* two reads, or two setters met.                                          *)
SliceOrdered ==
    sched.at = "sleep" /\ ~sched.crossed /\ "torn" \notin trouble => sched.min <= sched.max
=============================================================================
