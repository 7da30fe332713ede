----------------------------- MODULE SgpuMemory -----------------------------
(***************************************************************************)
(* One sGPU instance (struct mt_sgpu_s): its list of tasks, the PMR        *)
(* handlers each task owns and the total/free memory figures, under        *)
(* open, close, the allocation and free ioctls, the memsize node and the   *)
(* removal of the container node.                                          *)
(*                                                                         *)
(* A critical section of mt_sgpu_i->lock is one action.  What the code     *)
(* does outside the lock with state it read earlier is an action of its    *)
(* own: the admission check of an allocation (AllocPre) is apart from its  *)
(* accounting (AllocPost), which reads the request from user memory again, *)
(* and the increment of open_count (OpenDone) is apart from the lookup     *)
(* that found the task (OpenFind).                                         *)
(***************************************************************************)
EXTENDS Integers, FiniteSets

CONSTANTS
    Proc,           \* thread groups (tgid)
    Thread,         \* threads that enter the driver
    TgidOf,         \* the thread group of each thread
    Inherits,       \* <<p, q>>: q was forked from p and shares p's files
    File,           \* open file descriptions of the instance's device nodes
    TaskObj,        \* addresses kmalloc returns for sgpu_task_s
    HandlerObj,     \* addresses kmalloc returns for sgpu_task_handle_s
    Handle,         \* PMR handles the GPU driver returns
    Sizes,          \* uiSize of an allocation request
    InitTotal,      \* the size an instance starts with
    Totals,         \* sizes a write to the memsize node can round to
    WordSize,       \* number of values of a uint64_t
    MaxCount,       \* bound on open_count
    None            \* no process, no task

ASSUME MemoryAssumption ==
    /\ TgidOf \in [Thread -> Proc]
    /\ Inherits \subseteq Proc \X Proc
    /\ WordSize \in Nat \ {0}
    /\ Totals \subseteq 0 .. WordSize - 1
    /\ InitTotal \in 0 .. WordSize - 1
    /\ Sizes \subseteq 0 .. WordSize - 1
    /\ MaxCount \in Nat
    /\ None \notin Proc \cup TaskObj

VARIABLES
    total,          \* mt_sgpu_i->total_memory
    free,           \* mt_sgpu_i->free_memory
    tasks,          \* mt_sgpu_i->tasks
    tgid,           \* task->tgid, by address
    count,          \* task->open_count, by address
    alloc,          \* task->alloc_memory, by address
    handlers,       \* task->items of every task
    owner,          \* the process that opened each file, None when not open
    call,           \* what each thread is doing inside the driver
    disturbed,      \* history: processes whose open_count lost its meaning
    stale           \* history: an admission decision was overtaken, or a
                    \* request grew between its admission and its charge

objVars == <<tgid, count, alloc>>
memVars == <<total, free, handlers>>
vars == <<total, free, tasks, tgid, count, alloc, handlers, owner, call,
          disturbed, stale>>

-----------------------------------------------------------------------------
Idle == [op |-> "idle"]

Calls ==
    {Idle}
    \cup [op : {"open"}, file : File, task : TaskObj]
    \cup [op : {"alloc"}, file : File, bytes : Sizes \cup {0}]

HandlerRec == [obj : HandlerObj, task : TaskObj, handle : Handle, bytes : Sizes]

(* The bytes of a set of handlers, as a set of (handler, byte index)       *)
(* pairs: its cardinality is their sum, and unions and differences of      *)
(* handlers carry over to it.                                              *)
Bytes(H) == UNION {{h} \X (1 .. h.bytes) : h \in H}

Charged(H) == Cardinality(Bytes(H))

Ledger == INSTANCE MemLedger WITH charges <- handlers

HandlersOf(A) == {h \in handlers : h.task \in A}

Opening(p) == {t \in Thread : call[t].op = "open" /\ TgidOf[t] = p}
Allocating == {t \in Thread : call[t].op = "alloc" /\ call[t].bytes > 0}
FilesOf(p) == {f \in File : owner[f] = p}
BusyFiles == {call[t].file : t \in {u \in Thread : call[u].op # "idle"}}

(* A thread reaches a file through a descriptor its process opened, or     *)
(* inherited from the process that did.                                    *)
CanUse(t, f) ==
    /\ owner[f] # None
    /\ \/ owner[f] = TgidOf[t]
       \/ <<owner[f], TgidOf[t]>> \in Inherits

-----------------------------------------------------------------------------
(* The walk over mt_sgpu_i->tasks that open, close and the ioctls share.   *)
TaskOf_Missed(p) == {a \in tasks : tgid[a] = p /\ count[a] > 0}
TaskOf(p) == {a \in tasks : tgid[a] = p}

(* Memory handed back when the tasks of A are cleaned: clean_sgpu_task     *)
(* adds every handler of the task to free_memory, one by one.              *)
FreeAfterClean_Kept(A) == free
FreeAfterClean(A) == (free + Charged(HandlersOf(A))) % WordSize

(* clean_sgpu_task for the tasks of A: their handlers leave with them.     *)
CleanTasks(A) ==
    /\ tasks' = tasks \ A
    /\ handlers' = handlers \ HandlersOf(A)
    /\ free' = FreeAfterClean(A)

Init ==
    /\ total = InitTotal
    /\ free = InitTotal
    /\ tasks = {}
    /\ tgid \in [TaskObj -> {None}]
    /\ count = [a \in TaskObj |-> 0]
    /\ alloc = [a \in TaskObj |-> 0]
    /\ handlers = {}
    /\ owner = [f \in File |-> None]
    /\ call = [t \in Thread |-> Idle]
    /\ disturbed = {}
    /\ stale = FALSE

-----------------------------------------------------------------------------
(* sgpu_km_open under the lock: the caller's task is found, or created     *)
(* with open_count 0.  An address freed by clean_sgpu_task may come back   *)
(* while another open still holds it.  (-ENOMEM changes nothing.)          *)
OpenFind(t, f) ==
    /\ call[t] = Idle
    /\ owner[f] = None
    /\ f \notin BusyFiles
    /\ LET p == TgidOf[t] IN
       \/ \E a \in TaskOf(p) :
            /\ call' = [call EXCEPT ![t] = [op |-> "open", file |-> f, task |-> a]]
            /\ UNCHANGED <<tasks, objVars>>
       \/ /\ TaskOf(p) = {}
          /\ \E a \in TaskObj \ tasks :
               /\ call' = [call EXCEPT ![t] = [op |-> "open", file |-> f, task |-> a]]
               /\ tasks' = tasks \cup {a}
               /\ tgid' = [tgid EXCEPT ![a] = p]
               /\ count' = [count EXCEPT ![a] = 0]
               /\ alloc' = [alloc EXCEPT ![a] = 0]
    /\ UNCHANGED <<memVars, owner, disturbed, stale>>

(* atomic_inc(&new_task->open_count), on a task looked up before the lock  *)
(* was released.  On a freed task the write reaches nothing that is read   *)
(* again; on a reused address it reaches the task that lives there now.    *)
IncOpenCount_Lost(a) == count
IncOpenCount(a) == IF a \in tasks THEN [count EXCEPT ![a] = @ + 1] ELSE count

(* sgpu_km_open after the lock: fops_open of the GPU driver succeeded.     *)
OpenDone(t) ==
    /\ call[t].op = "open"
    /\ LET p == TgidOf[t]
           a == call[t].task
       IN  /\ count[a] < MaxCount
           /\ count' = IncOpenCount(a)
           /\ owner' = [owner EXCEPT ![call[t].file] = p]
           /\ disturbed' = IF a \in TaskOf(p) THEN disturbed
                           ELSE disturbed \cup {p} \cup {tgid[b] : b \in {a} \cap tasks}
    /\ call' = [call EXCEPT ![t] = Idle]
    /\ UNCHANGED <<memVars, tasks, tgid, alloc, stale>>

(* fops_open failed: the error is returned and the task stays as it is,    *)
(* listed with open_count 0 when this open created it.                     *)
OpenFail(t) ==
    /\ call[t].op = "open"
    /\ call' = [call EXCEPT ![t] = Idle]
    /\ UNCHANGED <<memVars, objVars, tasks, owner, disturbed, stale>>

LastClose_Late(a) == count[a] - 1 < 0
LastClose(a) == count[a] - 1 <= 0

(* sgpu_km_close, run by whichever process drops the last reference to the *)
(* file: the task is looked up by the tgid of that process.                *)
Close(t, f) ==
    /\ call[t] = Idle
    /\ CanUse(t, f)
    /\ f \notin BusyFiles
    /\ owner' = [owner EXCEPT ![f] = None]
    /\ LET p == TgidOf[t] IN
       /\ \/ /\ TaskOf(p) = {}
             /\ UNCHANGED <<free, handlers, tasks, count>>
          \/ \E a \in TaskOf(p) :
               IF LastClose(a)
                 THEN CleanTasks({a}) /\ UNCHANGED count
                 ELSE /\ count' = [count EXCEPT ![a] = @ - 1]
                      /\ UNCHANGED <<free, handlers, tasks>>
       /\ disturbed' = IF owner[f] = p THEN disturbed
                       ELSE disturbed \cup {p, owner[f]}
    /\ UNCHANGED <<total, tgid, alloc, call, stale>>

(* The admission check of sgpu_km_pre_ioctl: free_memory is read without   *)
(* the lock.  A refused request returns PVRSRV_ERROR_OUT_OF_MEMORY.  A     *)
(* call whose command is another one here, and an allocation when it is    *)
(* read again, counts as one of 0 bytes.                                   *)
Admits_Always(b) == TRUE
Admits(b) == b <= free

AllocPre(t, f, b) ==
    /\ call[t] = Idle
    /\ CanUse(t, f)
    /\ Admits(b)
    /\ call' = [call EXCEPT ![t] = [op |-> "alloc", file |-> f, bytes |-> b]]
    /\ stale' = (stale \/ (b > 0 /\ Allocating # {}))
    /\ UNCHANGED <<memVars, objVars, tasks, owner, disturbed>>

FreeAfterCharge(b) == (free - b) % WordSize

AllocAfterCharge_Skipped(a, b) == alloc
AllocAfterCharge(a, b) == [alloc EXCEPT ![a] = (@ + b) % WordSize]

(* memory_alloc_ioctl in sgpu_km_post_ioctl, the driver having returned a  *)
(* PMR.  The size is copied from user memory a second time, where another  *)
(* thread may have changed it, and that copy is charged.  The driver may   *)
(* reuse the handle of a PMR it has freed while the handler of that PMR is *)
(* still listed.                                                           *)
AllocPost(t) ==
    /\ call[t].op = "alloc"
    /\ \E b \in Sizes : LET p == TgidOf[t] IN
           /\ \E a \in TaskOf(p), h \in Handle,
                 o \in HandlerObj \ {x.obj : x \in handlers} :
                /\ handlers' = handlers \cup
                      {[obj |-> o, task |-> a, handle |-> h, bytes |-> b]}
                /\ alloc' = AllocAfterCharge(a, b)
           /\ free' = FreeAfterCharge(b)
           /\ stale' = (stale \/ b > call[t].bytes)
           /\ disturbed' = IF owner[call[t].file] = p THEN disturbed
                           ELSE disturbed \cup {p}
    /\ call' = [call EXCEPT ![t] = Idle]
    /\ UNCHANGED <<total, tasks, tgid, count, owner>>

(* The allocation ends without a charge: the driver failed (by its return  *)
(* value or by eError), no task has the caller's tgid any more, no handler *)
(* could be allocated, or the command read again is another one.           *)
AllocUncharged(t) ==
    /\ call[t].op = "alloc"
    /\ call' = [call EXCEPT ![t] = Idle]
    /\ UNCHANGED <<memVars, objVars, tasks, owner, disturbed, stale>>

(* memory_free_ioctl: the handler is looked up by handle in the caller's   *)
(* task.  items is a list with the newest handler first; it is kept as a   *)
(* set here, so of two handlers with one handle either may be found.       *)
Free(t, f, h) ==
    /\ call[t] = Idle
    /\ CanUse(t, f)
    /\ \E r \in HandlersOf(TaskOf(TgidOf[t])) :
         /\ r.handle = h
         /\ handlers' = handlers \ {r}
         /\ alloc' = [alloc EXCEPT ![r.task] = (@ - r.bytes) % WordSize]
         /\ free' = (free + r.bytes) % WordSize
    /\ UNCHANGED <<total, tasks, tgid, count, owner, call, disturbed, stale>>

(* inst_set_total_mem, after the write to the memsize node was rounded.    *)
Resizable == tasks = {}

SetTotalMem(m) ==
    /\ Resizable
    /\ total' = m
    /\ free' = m
    /\ stale' = (stale \/ Allocating # {})
    /\ UNCHANGED <<handlers, objVars, tasks, owner, call, disturbed>>

(* destroy_node: every task is cleaned, whatever it still has open.        *)
DestroyNode ==
    /\ CleanTasks(tasks)
    /\ disturbed' = disturbed \cup {p \in Proc : FilesOf(p) # {}}
    /\ UNCHANGED <<total, objVars, owner, call, stale>>

Next ==
    \/ \E t \in Thread, f \in File : OpenFind(t, f)
    \/ \E t \in Thread : OpenDone(t)
    \/ \E t \in Thread : OpenFail(t)
    \/ \E t \in Thread, f \in File : Close(t, f)
    \/ \E t \in Thread, f \in File, b \in Sizes \cup {0} : AllocPre(t, f, b)
    \/ \E t \in Thread : AllocPost(t)
    \/ \E t \in Thread : AllocUncharged(t)
    \/ \E t \in Thread, f \in File, h \in Handle : Free(t, f, h)
    \/ \E m \in Totals : SetTotalMem(m)
    \/ DestroyNode

Spec == Init /\ [][Next]_vars

-----------------------------------------------------------------------------
(* Every variable has its type; free_memory stays a word.                  *)
TypeOK ==
    /\ total \in Totals \cup {InitTotal}
    /\ free \in 0 .. WordSize - 1
    /\ tasks \subseteq TaskObj
    /\ tgid \in [TaskObj -> Proc \cup {None}]
    /\ count \in [TaskObj -> 0 .. MaxCount]
    /\ alloc \in [TaskObj -> 0 .. WordSize - 1]
    /\ handlers \subseteq HandlerRec
    /\ owner \in [File -> Proc \cup {None}]
    /\ call \in [Thread -> Calls]
    /\ disturbed \subseteq Proc
    /\ stale \in BOOLEAN

(* The instance implements the ledger: free_memory is always total_memory  *)
(* minus the live handlers, through every charge, free, close and node     *)
(* removal, and the total is only replaced while no handler is charged.    *)
LedgerRefined == Ledger!LedgerSpec

(* alloc_memory, which the meminfo node shows per pid, is the sum of the   *)
(* handlers the task holds.                                                *)
TaskAccountExact ==
    \A a \in tasks : alloc[a] = Charged(HandlersOf({a})) % WordSize

(* open never lists a second task for a thread group, and a handler never  *)
(* outlives the task it is charged to.                                     *)
TaskListSound ==
    /\ \A a, b \in tasks : tgid[a] = tgid[b] => a = b
    /\ \A h \in handlers : h.task \in tasks

(* The limit holds as long as no admission was overtaken between the       *)
(* unlocked check in pre-ioctl and the charge in post-ioctl, by another    *)
(* allocation or by a new limit, and no request was made larger in user    *)
(* memory in between (sgpu_ioctl.c:825): the charge is for at most what    *)
(* the check admitted.                                                     *)
QuotaUnlessOvertaken == ~stale => Charged(handlers) <= total

(* open_count counts the open files of the process, and a process with an  *)
(* open file has a task its memory is charged to, unless the node was      *)
(* removed under it, a file crossed processes, or an open finished on a    *)
(* task that had been freed meanwhile.                                     *)
CountMatchesFiles ==
    \A p \in Proc \ disturbed :
        /\ FilesOf(p) # {} => TaskOf(p) # {}
        /\ \A a \in TaskOf(p) : count[a] = Cardinality(FilesOf(p))

(* No leak of quota: what is charged to a process is charged while it has  *)
(* a file open; its last close gives everything back.                      *)
ChargedWhileOpen ==
    \A h \in handlers :
        tgid[h.task] \notin disturbed => FilesOf(tgid[h.task]) # {}

(* struct mt_sgpu_s documents free_memory as "free memory, Byte": it never *)
(* exceeds total_memory.                                                   *)
FreeWithinTotal == free <= total

=============================================================================
