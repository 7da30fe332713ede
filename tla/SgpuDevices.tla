---------------------------- MODULE SgpuDevices ----------------------------
(***************************************************************************)
(* The GPUs the module drives: the table mt_global->gpus, the write to the *)
(* cores node that adds and removes GPUs, the procfs directory of each,    *)
(* and the device nodes, whose minor number names a GPU and an instance.   *)
(* The cores node takes no lock: a write is a series of steps.             *)
(***************************************************************************)
EXTENDS Integers, Sequences, FiniteSets, Functions

CONSTANTS
    Gpu,            \* GPU ids, a subset of 0 .. 7
    InitGpus,       \* the GPUs the module is loaded with (total_gpu_num)
    Obj,            \* addresses kmalloc returns for mt_gpu_s
    Writer,         \* threads that write the cores node
    Lists,          \* lists of GPU ids that are written to it
    Slots,          \* instance ids device nodes are made for
    NULL

Max_GPU == 8
Max_SGPU == 16
CARD == 0
RENDER == 1

ASSUME DevicesAssumption ==
    /\ Gpu \subseteq 0 .. Max_GPU - 1
    /\ InitGpus \subseteq Gpu
    /\ Lists \subseteq Seq(Gpu)
    /\ Slots \subseteq 0 .. Max_SGPU - 1
    /\ NULL \notin Obj

VARIABLES
    gpus,           \* mt_global->gpus
    live,           \* allocated mt_gpu_s
    board,          \* the GPU each of them was initialised for
    named,          \* those with an instance that has a container_id
    proc,           \* GPUs with a procfs directory (proc_insts)
    ids,            \* gpu_ids, total_gpu_num of them
    call,           \* where each writer of the cores node is
    trouble         \* history: what has happened to these writes: "overlap",
                    \* two at once; "crowd", one that adds two GPUs, or one
                    \* GPU twice; "leak", an object lost by a failed
                    \* initialisation; "freed", the kernel's pci_dev of a
                    \* GPU freed by one; "cut", one that ended at a directory

objVars == <<live, board, named>>
vars == <<gpus, objVars, proc, ids, call, trouble>>

-----------------------------------------------------------------------------
(* The minor number of a device node: the id node gives gpu * 16 + slot,   *)
(* and a render node has the TYPE bit, 0x80, on top of it.                 *)
MinorOf(type, g, s) == type * 128 + g * Max_SGPU + s

(* DEV_TYPE, for the major number of the card and render nodes             *)
DEV_TYPE(minor) == IF minor > 127 THEN RENDER ELSE CARD

DEV_GPU_ID_NoType(minor) == minor \div 16
DEV_GPU_ID(minor) ==
    (IF minor > 127 THEN minor - 127 ELSE minor) \div 16

DEV_SGPU_ID(minor) == minor % 16

(* The members of a set of numbers in ascending order: one such sequence.  *)
Ordered(set) ==
    {s \in [1 .. Cardinality(set) -> set] :
        Range(s) = set /\ \A i, j \in DOMAIN s : i < j => s[i] < s[j]}

(* find_diff: what of a list is not in another one, in order               *)
Missing_Positions(list, other) == Ordered({i \in DOMAIN list : list[i] \notin other})
Missing(list, other) ==
    {[k \in DOMAIN at |-> list[at[k]]] :
        at \in Ordered({i \in DOMAIN list : list[i] \notin other})}

Present == {g \in Gpu : gpus[g] # NULL}

(* What sgpu_km_open makes of the device node (type, g, s): the GPU object *)
(* it finds in the table, NULL for -EFAULT, and the instance in it.        *)
OpenedBy(type, g, s) ==
    LET m == MinorOf(type, g, s) IN
    [type |-> DEV_TYPE(m), slot |-> DEV_SGPU_ID(m),
     gpu |-> IF DEV_GPU_ID(m) \in Present THEN gpus[DEV_GPU_ID(m)] ELSE NULL]

Idle == [at |-> "idle"]

CallStates ==
    {Idle} \cup [at : {"init", "del", "add"}, want : Lists, del : SUBSET Gpu,
                 add : Seq(Gpu), k : Nat \ {0}, last : Obj \cup {NULL}]

Init ==
    /\ \E o \in [InitGpus -> Obj] :
         /\ IsInjective(o)
         /\ gpus = [g \in Gpu |-> IF g \in InitGpus THEN o[g] ELSE NULL]
         /\ live = {o[g] : g \in InitGpus}
         /\ board = [x \in Obj |-> IF \E g \in InitGpus : o[g] = x
                                   THEN CHOOSE g \in InitGpus : o[g] = x ELSE NULL]
    /\ named = {}
    /\ proc = InitGpus
    /\ ids \in Ordered(InitGpus)
    /\ call = [w \in Writer |-> Idle]
    /\ trouble = {}

Return(w) == call' = [call EXCEPT ![w] = Idle]
Goto(w, place) == call' = [call EXCEPT ![w] = [@ EXCEPT !.at = place, !.k = 1]]
Again(w) == call' = [call EXCEPT ![w].k = @ + 1]

-----------------------------------------------------------------------------
(* sgpu_km_set_cores, the list parsed: the GPUs to remove and to add are   *)
(* found; one to remove that has a container refuses the write.            *)
CoresBegin(w, want) ==
    /\ call[w] = Idle
    /\ LET del == Present \ Range(want) IN
       \E add \in Missing(want, Present) :
           /\ {gpus[g] : g \in del} \cap named = {}
           /\ call' = [call EXCEPT ![w] = [at |-> "init", want |-> want, del |-> del,
                                           add |-> add, k |-> 1, last |-> NULL]]
           /\ trouble' = trouble
                \cup (IF Len(add) > 1 THEN {"crowd"} ELSE {})
                \cup (IF \E v \in Writer : call[v] # Idle THEN {"overlap"} ELSE {})
    /\ UNCHANGED <<gpus, objVars, proc, ids>>

(* sgpu_kfree of some objects, with others allocated and then lost         *)
Free(objects, lost) ==
    /\ live' = (live \ objects) \cup lost
    /\ board' = [o \in Obj |-> IF o \in objects THEN NULL ELSE board[o]]
    /\ named' = named \ objects

(* What a failed initialisation loses: its objects and, once it had found  *)
(* the kernel's pci_dev, that one too, which it frees (err_ret).           *)
Lost == {{"leak"}, {"leak", "freed"}}

(* sgpu_initialize_gpu for each GPU to add.  When it fails, what its table *)
(* entry holds is finalized and the write ends.                            *)
CoresInit(w) ==
    /\ call[w].at = "init"
    /\ LET c == call[w] IN
       \/ /\ c.k > Len(c.add)
          /\ Goto(w, "del")
          /\ UNCHANGED <<objVars, trouble>>
       \/ /\ c.k <= Len(c.add)
          /\ \E o \in Obj \ live :
               /\ live' = live \cup {o}
               /\ board' = [board EXCEPT ![o] = c.add[c.k]]
               /\ call' = [call EXCEPT ![w] = [c EXCEPT !.k = @ + 1, !.last = o]]
               /\ UNCHANGED <<named, trouble>>
       \/ /\ c.k <= Len(c.add)
          /\ Return(w)
          /\ \/ Free({gpus[c.add[c.k]]}, {}) /\ UNCHANGED trouble
             \/ \E o \in Obj \ live :
                  /\ Free({gpus[c.add[c.k]]}, {o})
                  /\ \E lost \in Lost : trouble' = trouble \cup lost
    /\ UNCHANGED <<gpus, proc, ids>>

(* proc_remove and sgpu_finalize_gpu for each GPU to remove                *)
Freed_None(g) == {}
Freed(g) == {gpus[g]}

Emptied_Kept(g) == gpus[g]
Emptied(g) == NULL

CoresDelete(w) ==
    /\ call[w].at = "del"
    /\ LET c == call[w] IN
       \/ /\ c.del = {}
          /\ Goto(w, "add")
          /\ UNCHANGED <<gpus, objVars, proc>>
       \/ \E g \in c.del :
            /\ \A h \in c.del : g <= h
            /\ proc' = proc \ {g}
            /\ Free(Freed(g), {})
            /\ gpus' = [gpus EXCEPT ![g] = Emptied(g)]
            /\ call' = [call EXCEPT ![w].del = @ \ {g}]
    /\ UNCHANGED <<ids, trouble>>

(* Every added GPU gets the object initialised last, and its directory.    *)
(* One that cannot be made, or filled, ends the write; gpu_ids is replaced *)
(* at the end.                                                             *)
Listed_AddedOnly(c) == c.add
Listed(c) == c.want

CoresAdd(w) ==
    /\ call[w].at = "add"
    /\ LET c == call[w] IN
       \/ /\ c.k > Len(c.add)
          /\ ids' = Listed(c)
          /\ Return(w)
          /\ UNCHANGED <<gpus, proc, trouble>>
       \/ /\ c.k <= Len(c.add)
          /\ LET g == c.add[c.k] IN
             /\ gpus' = [gpus EXCEPT ![g] = c.last]
             /\ \/ proc' = proc \cup {g} /\ Again(w) /\ UNCHANGED trouble
                \/ /\ proc' \in {proc \ {g}, proc \cup {g}}
                   /\ Return(w)
                   /\ trouble' = trouble \cup {"cut"}
          /\ UNCHANGED ids
    /\ UNCHANGED objVars

-----------------------------------------------------------------------------
(* create_new_node on GPU g, up to the claim of an instance                *)
Admissible(g) == g \in Range(ids) /\ g \in proc

NodeCreate(g) ==
    /\ Admissible(g)
    /\ gpus[g] \in live
    /\ named' = named \cup {gpus[g]}
    /\ UNCHANGED <<gpus, live, board, proc, ids, call, trouble>>

(* destroy_node of the last container of GPU g                             *)
NodeDestroy(g) ==
    /\ g \in Range(ids)
    /\ gpus[g] \in named
    /\ named' = named \ {gpus[g]}
    /\ UNCHANGED <<gpus, live, board, proc, ids, call, trouble>>

Next ==
    \/ \E w \in Writer :
         \/ \E want \in Lists : CoresBegin(w, want)
         \/ CoresInit(w) \/ CoresDelete(w) \/ CoresAdd(w)
    \/ \E g \in Gpu : NodeCreate(g) \/ NodeDestroy(g)

Spec == Init /\ [][Next]_vars

-----------------------------------------------------------------------------
(* The types of the table, the lists and the calls.                        *)
TypeOK ==
    /\ gpus \in [Gpu -> Obj \cup {NULL}]
    /\ live \subseteq Obj /\ named \subseteq Obj
    /\ board \in [Obj -> Gpu \cup {NULL}]
    /\ proc \subseteq Gpu
    /\ ids \in Lists \cup Ordered(InitGpus)
    /\ call \in [Writer -> CallStates]
    /\ trouble \subseteq {"overlap", "crowd", "leak", "freed", "cut"}

(* As long as writes of the cores node come one at a time and add at most  *)
(* one GPU each, the table holds for every GPU an object that is allocated *)
(* and was initialised for that GPU, whatever failed on the way, but for   *)
(* an initialisation that freed a pci_dev (sgpu.c:223): what the next walk *)
(* over the PCI devices does then is undefined.                            *)
OwnBoard ==
    trouble \cap {"overlap", "crowd", "freed"} = {} =>
        \A g \in Present : gpus[g] \in live /\ board[gpus[g]] = g

(* Then, and if no failed initialisation lost one, between two writes the  *)
(* objects allocated are those of the table: none is forgotten when a GPU  *)
(* is removed.                                                             *)
NothingForgotten ==
    trouble \subseteq {"cut"} /\ (\A w \in Writer : call[w] = Idle) =>
        live = {gpus[g] : g \in Present}

(* With no such trouble, between two writes the GPUs listed in gpu_ids, on *)
(* which containers are created and found, those of the table and those    *)
(* with a directory are the same, refused writes included.                 *)
ListedIsPresent ==
    trouble \subseteq {"leak"} /\ (\A w \in Writer : call[w] = Idle) =>
        /\ Range(ids) = Present
        /\ proc = Present

(* Opening a device node reaches the node type, the GPU and the instance   *)
(* it was made for, or nothing while that GPU is removed, but for the      *)
(* render node of instance 15 and with the exceptions of OwnBoard.         *)
Reached(type, g, s) ==
    LET o == OpenedBy(type, g, s) IN
    /\ o.type = type /\ o.slot = s
    /\ IF o.gpu = NULL THEN g \notin Present ELSE o.gpu \in live /\ board[o.gpu] = g

OpensOwnGpu ==
    trouble \cap {"overlap", "crowd", "freed"} = {} =>
        \A type \in {CARD, RENDER}, g \in Gpu, s \in Slots :
            Reached(type, g, s) \/ (type = RENDER /\ s = 15)

=============================================================================
