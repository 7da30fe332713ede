----------------------------- MODULE SgpuSched -----------------------------
(***************************************************************************)
(* The core scheduler of one GPU (struct mt_gpu_s): the compute commands   *)
(* processes kick through the ioctl path, the fence each of them waits on, *)
(* and the kernel thread that gives the instances their time slices and    *)
(* signals the fences.  The thread is started by the first kick and leaves *)
(* when no instance is used.                                               *)
(*                                                                         *)
(* A step is a critical section, or one access to state no lock protects:  *)
(* mt_gpu_i->task_struct, curr_sgpu_id, policy, max_inst and the weights.  *)
(***************************************************************************)
EXTENDS Integers, FiniteSets

CONSTANTS
    Proc,           \* thread groups, each with one thread that kicks
    InstOf,         \* the instance each process works on
    NInst,          \* number of instances of the GPU (MAX_SGPU)
    MaxWeight,      \* the largest weight that is set
    Policies,       \* the policies that are set
    MaxInsts,       \* the values of max_inst that are set
    Cmd,            \* addresses kmalloc returns for sgpu_task_rgxcmp_cmd_s
    Kthread,        \* threads kthread_run creates
    NULL,           \* the null task_struct
    ErrPtr,         \* what kthread_run returns when it fails
    StartMayFail    \* whether kthread_run may fail

Inst == 0 .. NInst - 1
Policy == {"best_effort", "fair_preemption", "fair_fixed"}

ASSUME SchedAssumption ==
    /\ NInst \in Nat \ {0}
    /\ MaxWeight \in Nat \ {0}
    /\ InstOf \in [Proc -> Inst]
    /\ Policies \subseteq Policy
    /\ MaxInsts \subseteq 1 .. NInst
    /\ NULL # ErrPtr
    /\ StartMayFail \in BOOLEAN
    /\ {NULL, ErrPtr} \cap Kthread = {}

VARIABLES
    policy,         \* mt_gpu_i->policy
    maxInst,        \* mt_gpu_i->max_inst
    weight,         \* mt_sgpu_i->weight, by instance
    named,          \* instances with a container_id
    listed,         \* processes with a task on their instance's list
    queue,          \* task->rgxcmp_cmds, by process
    submitted,      \* commands whose submitted flag reads true
    fence,          \* the fake fence of each command
    call,           \* where each process is in a kick ioctl
    taskStruct,     \* mt_gpu_i->task_struct
    curr,           \* mt_gpu_i->curr_sgpu_id
    kt,             \* the scheduler threads: where they are and their locals
    since,          \* history: slices given to others, by instance
    startRace,      \* history: two kicks were starting a thread at once
    missed          \* history: a kick relied on a thread that was leaving

groupVars == <<policy, maxInst, weight, named>>
cmdVars == <<listed, queue, submitted, fence>>
threadVars == <<taskStruct, curr, kt>>
histVars == <<since, startRace, missed>>
vars == <<groupVars, cmdVars, call, threadVars, histVars>>

-----------------------------------------------------------------------------
Dead == [st |-> "dead", idx |-> 0, weight |-> 0, next |-> 0, at |-> 0]
Idle == [at |-> "idle"]

ThreadStates ==
    [st : {"dead", "sleep", "scan", "pick", "service", "exit"}, idx : Inst,
     weight : 0 .. MaxWeight, next : Inst, at : Inst]

CallStates ==
    {Idle} \cup [at : {"found"}, live : BOOLEAN]
    \cup [at : {"check", "start", "driver", "mark"}, cmd : Cmd]
    \cup [at : {"assign"}, cmd : Cmd, thread : Kthread \cup {ErrPtr}]

Live == {k \in Kthread : kt[k].st # "dead"}

(* is_inst_used, under the instance's lock *)
Used(i) == \E p \in listed : InstOf[p] = i

(* The thread k will find instance i used before it decides to leave.      *)
WillSee(k, i) ==
    \/ kt[k].st \in {"sleep", "pick", "service"}
    \/ kt[k].st = "scan" /\ kt[k].idx <= i

(* Some task holds the command c and no thread will see that task.         *)
Unattended(c) ==
    \E q \in listed : c \in queue[q] /\ ~\E k \in Kthread : WillSee(k, InstOf[q])

Init ==
    /\ policy = "best_effort"
    /\ maxInst = NInst
    /\ weight = [i \in Inst |-> 1]
    /\ named = {}
    /\ listed = {}
    /\ queue = [p \in Proc |-> {}]
    /\ submitted = {}
    /\ fence = [c \in Cmd |-> "none"]
    /\ call = [p \in Proc |-> Idle]
    /\ taskStruct = NULL
    /\ curr = 0
    /\ kt = [k \in Kthread |-> Dead]
    /\ since = [i \in Inst |-> 0]
    /\ startRace = FALSE
    /\ missed = FALSE

-----------------------------------------------------------------------------
(* The group nodes: refused while an instance has a container_id.  The     *)
(* count of slices starts afresh with a new setting.                       *)
SetPolicy(new) ==
    /\ named = {}
    /\ policy' = new
    /\ since' = [i \in Inst |-> 0]
    /\ UNCHANGED <<maxInst, weight, named, cmdVars, call, threadVars,
                   startRace, missed>>

SetMaxInst(n) ==
    /\ named = {}
    /\ maxInst' = n
    /\ since' = [i \in Inst |-> 0]
    /\ UNCHANGED <<policy, weight, named, cmdVars, call, threadVars,
                   startRace, missed>>

(* inst_set_weight: the weight node exists while the instance is named.    *)
SetWeight(i, w) ==
    /\ i \in named
    /\ ~Used(i)
    /\ weight' = [weight EXCEPT ![i] = w]
    /\ UNCHANGED <<policy, maxInst, named, cmdVars, call, threadVars, histVars>>

CreateNode(i) ==
    /\ i \notin named
    /\ named' = named \cup {i}
    /\ UNCHANGED <<policy, maxInst, weight, cmdVars, call, threadVars, histVars>>

(* The first open of a process lists its task.                             *)
Open(p) ==
    /\ p \notin listed
    /\ listed' = listed \cup {p}
    /\ since' = IF Used(InstOf[p]) THEN since ELSE [since EXCEPT ![InstOf[p]] = 0]
    /\ UNCHANGED <<groupVars, queue, submitted, fence, call,
                   threadVars, startRace, missed>>

(* clean_sgpu_task for the tasks of P: pending commands are freed and      *)
(* their fences stay as they are.                                          *)
Clean(P) ==
    /\ listed' = listed \ P
    /\ queue' = [p \in Proc |-> IF p \in P THEN {} ELSE queue[p]]
    /\ submitted' = submitted \ UNION {queue[p] : p \in P}
    /\ call' = [p \in Proc |-> IF p \in P /\ call[p].at = "found"
                               THEN [call[p] EXCEPT !.live = FALSE] ELSE call[p]]
    /\ UNCHANGED fence

(* The last close; an ioctl holds its file open.                           *)
Close(p) ==
    /\ p \in listed
    /\ call[p] = Idle
    /\ Clean({p})
    /\ UNCHANGED <<groupVars, threadVars, histVars>>

(* destroy_node *)
Destroy(i) ==
    /\ i \in named
    /\ named' = named \ {i}
    /\ Clean({p \in listed : InstOf[p] = i})
    /\ UNCHANGED <<policy, maxInst, weight, threadVars, histVars>>

-----------------------------------------------------------------------------
(* The kick in sgpu_km_pre_ioctl: the caller's task is looked up.  Under   *)
(* best_effort, and without a task, the ioctl goes straight to the driver. *)
KickFind(p) ==
    /\ call[p] = Idle
    /\ policy # "best_effort"
    /\ p \in listed
    /\ call' = [call EXCEPT ![p] = [at |-> "found", live |-> TRUE]]
    /\ UNCHANGED <<groupVars, cmdVars, threadVars, histVars>>

(* The command is allocated, its fence created and armed and, under the    *)
(* lock again, it is added to the task found before.  submitted is left as *)
(* kmalloc returned it.  If the task has been cleaned since, the command   *)
(* goes to freed memory: it is lost, or joins a task that lives there now. *)
KickAdd(p) ==
    /\ call[p].at = "found"
    /\ \E c \in Cmd, garbage \in BOOLEAN :
         /\ fence[c] = "none"
         /\ fence' = [fence EXCEPT ![c] = "armed"]
         /\ call' = [call EXCEPT ![p] = [at |-> "check", cmd |-> c]]
         /\ \E q \in IF call[p].live THEN {p} ELSE listed \cup {p} :
              IF call[p].live \/ q \in listed
                THEN /\ queue' = [queue EXCEPT ![q] = @ \cup {c}]
                     /\ submitted' = IF garbage THEN submitted \cup {c} ELSE submitted
                ELSE UNCHANGED <<queue, submitted>>
    /\ UNCHANGED <<groupVars, listed, threadVars, histVars>>

(* "Kick the schedule": task_struct is tested, without a lock.             *)
Starting(p) == call[p].at \in {"start", "assign"}

KickCheck_Always(p) ==
    /\ call[p].at = "check"
    /\ call' = [call EXCEPT ![p].at = "start"]
    /\ startRace' = (startRace \/ \E q \in Proc \ {p} : Starting(q))
    /\ UNCHANGED <<groupVars, cmdVars, threadVars, since, missed>>

KickCheck(p) ==
    /\ call[p].at = "check"
    /\ \/ /\ taskStruct = NULL
          /\ call' = [call EXCEPT ![p].at = "start"]
          /\ startRace' = (startRace \/ \E q \in Proc \ {p} : Starting(q))
          /\ UNCHANGED missed
       \/ /\ taskStruct # NULL
          /\ call' = [call EXCEPT ![p].at = "driver"]
          /\ missed' = (missed \/ Unattended(call[p].cmd))
          /\ UNCHANGED startRace
    /\ UNCHANGED <<groupVars, cmdVars, threadVars, since>>

(* kthread_run: the thread is runnable before its address is stored.       *)
KickStart(p) ==
    /\ call[p].at = "start"
    /\ \/ \E k \in Kthread \ Live :
            /\ kt' = [kt EXCEPT ![k] = [Dead EXCEPT !.st = "sleep", !.at = curr]]
            /\ call' = [call EXCEPT ![p] =
                   [at |-> "assign", cmd |-> call[p].cmd, thread |-> k]]
       \/ /\ StartMayFail
          /\ call' = [call EXCEPT ![p] =
                   [at |-> "assign", cmd |-> call[p].cmd, thread |-> ErrPtr]]
          /\ UNCHANGED kt
    /\ UNCHANGED <<groupVars, cmdVars, taskStruct, curr, histVars>>

KickAssign(p) ==
    /\ call[p].at = "assign"
    /\ taskStruct' = call[p].thread
    /\ call' = [call EXCEPT ![p] = [at |-> "driver", cmd |-> call[p].cmd]]
    /\ missed' = (missed \/ Unattended(call[p].cmd))
    /\ UNCHANGED <<groupVars, cmdVars, curr, kt, since, startRace>>

(* The GPU driver's ioctl.  When it fails, or the reply cannot be copied   *)
(* out before it, sgpu_km_post_ioctl is not run.                           *)
DriverAccepts(p) ==
    /\ call[p].at = "driver"
    /\ call' = [call EXCEPT ![p].at = "mark"]
    /\ UNCHANGED <<groupVars, cmdVars, threadVars, histVars>>

DriverFails(p) ==
    /\ call[p].at = "driver"
    /\ call' = [call EXCEPT ![p] = Idle]
    /\ UNCHANGED <<groupVars, cmdVars, threadVars, histVars>>

(* sgpu_km_post_ioctl: the fence is read from user memory again, where     *)
(* pre-ioctl has left the one it created unless it could not, or another   *)
(* thread has written there; the command of the caller's task with that    *)
(* fence, if there is one, is marked, unless the policy is best_effort by  *)
(* now.  (The task is looked up in a critical section of its own; if it is *)
(* cleaned before the next one it holds no command.)                       *)
KickMark(p) ==
    /\ call[p].at = "mark"
    /\ \/ /\ policy # "best_effort" /\ p \in listed
          /\ \E c \in queue[p] : submitted' = submitted \cup {c}
       \/ UNCHANGED submitted
    /\ call' = [call EXCEPT ![p] = Idle]
    /\ UNCHANGED <<groupVars, listed, queue, fence, threadVars, histVars>>

-----------------------------------------------------------------------------
(* core_rgxcmp_sched sleeps a time slice and takes up its loop.            *)
Wake(k) ==
    /\ kt[k].st = "sleep"
    /\ kt' = [kt EXCEPT ![k] = [@ EXCEPT !.st = "scan", !.next = curr, !.idx = 0]]
    /\ UNCHANGED <<groupVars, cmdVars, call, taskStruct, curr, histVars>>

(* is_gpu_used: the instances are looked at one by one.                    *)
LastScanned_Short == NInst - 2
LastScanned == NInst - 1

Scan(k) ==
    /\ kt[k].st = "scan"
    /\ \/ /\ Used(kt[k].idx)
          /\ kt' = [kt EXCEPT ![k] = [@ EXCEPT !.st = "pick", !.idx = 0]]
       \/ /\ ~Used(kt[k].idx)
          /\ kt[k].idx < LastScanned
          /\ kt' = [kt EXCEPT ![k].idx = @ + 1]
       \/ /\ ~Used(kt[k].idx)
          /\ kt[k].idx >= LastScanned
          /\ kt' = [kt EXCEPT ![k] = [@ EXCEPT !.st = "exit", !.idx = 0]]
    /\ UNCHANGED <<groupVars, cmdVars, call, taskStruct, curr, histVars>>

(* The next instance in turn once the weight of the last one is spent.     *)
Advance_Kept(t) == t
Advance_Late(t) ==
    IF t.weight < 0
    THEN LET n == (t.next + 1) % maxInst
         IN  [t EXCEPT !.next = n, !.at = n, !.weight = weight[n]]
    ELSE t
Advance_Unwrapped(t) ==
    IF t.weight <= 0
    THEN [t EXCEPT !.next = @ + 1, !.at = t.next + 1, !.weight = 1]
    ELSE t
Advance(t) ==
    IF t.weight <= 0
    THEN LET n == (t.next + 1) % maxInst
         IN  [t EXCEPT !.next = n, !.at = n, !.weight = weight[n]]
    ELSE t

(* An instance that is not used keeps its slice under fair_fixed, loses    *)
(* the rest of its weight under fair_preemption, and is looked at again    *)
(* under best_effort.                                                      *)
Pick(k) ==
    /\ kt[k].st = "pick"
    /\ LET t == Advance(kt[k]) IN
       kt' = [kt EXCEPT ![k] =
          IF Used(t.next) \/ policy = "fair_fixed" THEN [t EXCEPT !.st = "service"]
          ELSE [t EXCEPT !.st = "scan",
                         !.weight = IF policy = "fair_preemption" THEN 0 ELSE @]]
    /\ UNCHANGED <<groupVars, cmdVars, call, taskStruct, curr, histVars>>

(* The commands a slice of instance i signals: every one that is marked.   *)
Served_Any(i) == UNION {queue[p] : p \in {q \in listed : InstOf[q] = i}}
Served(i) ==
    submitted \cap UNION {queue[p] : p \in {q \in listed : InstOf[q] = i}}

QueueAfter_Kept(i) == queue
QueueAfter(i) == [p \in Proc |-> queue[p] \ Served(i)]

Bound == (NInst - 1) * MaxWeight

(* curr_sgpu_id moves on and, under the lock of the instance, the marked   *)
(* commands are signalled, unlinked and freed.                             *)
Service(k) ==
    /\ kt[k].st = "service"
    /\ LET t == kt[k]
           i == IF curr # t.next THEN t.next ELSE t.at
       IN  /\ curr' = t.next
           /\ kt' = [kt EXCEPT ![k] =
                 [t EXCEPT !.st = "sleep", !.at = i, !.weight = @ - 1]]
           /\ fence' = [c \in Cmd |-> IF c \in Served(i) THEN "signalled" ELSE fence[c]]
           /\ queue' = QueueAfter(i)
           /\ submitted' = submitted \ Served(i)
           /\ since' = [j \in Inst |->
                 IF j = i \/ ~Used(j) THEN 0
                 ELSE IF since[j] > Bound THEN since[j] ELSE since[j] + 1]
    /\ UNCHANGED <<groupVars, listed, call, taskStruct, startRace, missed>>

Exit(k) ==
    /\ kt[k].st = "exit"
    /\ taskStruct' = NULL
    /\ kt' = [kt EXCEPT ![k] = Dead]
    /\ UNCHANGED <<groupVars, cmdVars, call, curr, histVars>>

-----------------------------------------------------------------------------
KickStep(p) ==
    \/ KickAdd(p)
    \/ KickCheck(p)
    \/ KickStart(p)
    \/ KickAssign(p)
    \/ DriverAccepts(p)
    \/ DriverFails(p)
    \/ KickMark(p)

ThreadStep(k) ==
    \/ Wake(k)
    \/ Scan(k)
    \/ Pick(k)
    \/ Service(k)
    \/ Exit(k)

Next ==
    \/ \E new \in Policies : SetPolicy(new)
    \/ \E n \in MaxInsts : SetMaxInst(n)
    \/ \E i \in Inst, w \in 1 .. MaxWeight : SetWeight(i, w)
    \/ \E i \in Inst : CreateNode(i) \/ Destroy(i)
    \/ \E p \in Proc : Open(p) \/ Close(p) \/ KickFind(p) \/ KickStep(p)
    \/ \E k \in Kthread : ThreadStep(k)

Spec == Init /\ [][Next]_vars

(* The kernel keeps running the scheduler threads, and an ioctl in         *)
(* progress goes on to its end.                                            *)
Fairness ==
    /\ \A k \in Kthread : WF_vars(ThreadStep(k))
    /\ \A p \in Proc : WF_vars(KickStep(p))

FairSpec == Spec /\ Fairness

-----------------------------------------------------------------------------
(* Every variable has its type.                                            *)
TypeOK ==
    /\ policy \in Policy
    /\ maxInst \in 1 .. NInst
    /\ weight \in [Inst -> 1 .. MaxWeight]
    /\ named \subseteq Inst
    /\ listed \subseteq Proc
    /\ queue \in [Proc -> SUBSET Cmd]
    /\ submitted \subseteq Cmd
    /\ fence \in [Cmd -> {"none", "armed", "signalled"}]
    /\ call \in [Proc -> CallStates]
    /\ taskStruct \in Kthread \cup {NULL, ErrPtr}
    /\ curr \in Inst
    /\ kt \in [Kthread -> ThreadStates]
    /\ since \in [Inst -> 0 .. Bound + 1]
    /\ startRace \in BOOLEAN
    /\ missed \in BOOLEAN

(* One GPU, one scheduler: two threads only ever run when two kicks tested *)
(* task_struct before either stored the thread it started.                 *)
SingleScheduler ==
    ~startRace => \A j, k \in Live : j = k

(* A used instance inside max_inst waits for at most one turn of every     *)
(* other instance, whatever the others do and however often the thread     *)
(* leaves and is started again.                                            *)
BoundedWaiting ==
    ~startRace => \A i \in Inst : i < maxInst /\ Used(i) => since[i] <= Bound

(* A command is on one list at most, with its fence still armed: a fence   *)
(* is signalled once and its command is then gone.                         *)
PendingArmed ==
    \A p \in Proc : \A c \in queue[p] :
        /\ p \in listed
        /\ fence[c] = "armed"
        /\ \A q \in Proc : c \in queue[q] => q = p

(* Once a kick has passed its start of the scheduler, a thread will see    *)
(* the task of its command: the thread never leaves with work it was       *)
(* relied on to do.                                                        *)
StaysAttended ==
    ~missed =>
        \A p \in listed : \A c \in queue[p] :
            \/ \E q \in Proc : call[q].at \in {"check", "start", "assign"} /\ call[q].cmd = c
            \/ \E k \in Kthread : WillSee(k, InstOf[p])

(* No starvation: under the fair policies a marked command of an instance  *)
(* inside max_inst is signalled, or dropped with its task, unless a kick   *)
(* was missed or two kicks started a thread each.                          *)
MarkedIsServed ==
    \A c \in Cmd : c \in submitted ~>
        \/ c \notin submitted
        \/ policy = "best_effort"
        \/ \E p \in Proc : c \in queue[p] /\ InstOf[p] >= maxInst
        \/ missed \/ startRace

(* Every fence follows the book: armed once, signalled once, by a slice of *)
(* the instance it waits on that signals all the marked ones there, and    *)
(* never after its command was freed with its task.                        *)
Pending == [i \in Inst |-> UNION {queue[p] : p \in {q \in Proc : InstOf[q] = i}}]
Fences == INSTANCE FenceBook WITH pending <- Pending, marked <- submitted
FencesRefined == Fences!BookSpec

(* sgpu.h says of submitted "whether to submit to kernel": the scheduler   *)
(* signals no command the driver has yet to be given.                      *)
SignalledAfterSubmit ==
    \A p \in Proc : call[p].at = "driver" => fence[call[p].cmd] # "signalled"

=============================================================================
