----------------------------- MODULE SgpuNodes -----------------------------
(***************************************************************************)
(* The container nodes of one GPU in procfs: writers of the inst_ctl node  *)
(* claim an instance for a container and build its directory, or take one  *)
(* away and clean its tasks, while others write max_inst.  No lock is held *)
(* across a call; container_id is read and written without one.            *)
(***************************************************************************)
EXTENDS Integers, FiniteSets, FiniteSetsExt

CONSTANTS
    Writer,         \* threads that write the nodes
    Name,           \* container ids
    NInst,          \* instances of the GPU (MAX_SGPU)
    None            \* the empty container_id

Inst == 0 .. NInst - 1

ASSUME NodesAssumption ==
    /\ NInst \in Nat \ {0}
    /\ None \notin Name

VARIABLES
    name,           \* container_id of each instance
    dir,            \* the container directories: <<container id, instance>>
    maxInst,        \* mt_gpu_i->max_inst
    tasks,          \* containers whose processes have a task, by instance
    call,           \* where each writer is
    trouble         \* history: what happened that the properties exclude

vars == <<name, dir, tasks, maxInst, call, trouble>>

-----------------------------------------------------------------------------
Idle == [at |-> "idle"]

CallStates ==
    {Idle}
    \cup [at : {"name", "mkdir", "files", "clear", "unname", "clean", "rmdir"},
          id : Name, inst : Inst]
    \cup [at : {"setmax"}, value : 1 .. NInst]

DirNames == {d[1] : d \in dir}
At(w, places) == call[w].at \in places

(* inst_get_node: the first instance below max_inst with this container_id *)
Matches(n) == {i \in Inst : i < maxInst /\ name[i] = n}
Lookup(n) == Min(Matches(n))

Building(i) ==
    \E w \in Writer : At(w, {"mkdir", "files", "clear"}) /\ call[w].inst = i

(* A writer has taken the name from i, but has not cleaned its tasks yet.  *)
Releasing(i) == \E w \in Writer : At(w, {"clean"}) /\ call[w].inst = i

(* A writer is removing the container n.                                   *)
Leaving(n) == \E w \in Writer : At(w, {"unname", "clean", "rmdir"}) /\ call[w].id = n

(* is_gpu_opened                                                           *)
Opened == \E i \in Inst : name[i] # None

Note(what) == trouble' = trouble \cup what
If(what, condition) == IF condition THEN {what} ELSE {}

Init ==
    /\ name = [i \in Inst |-> None]
    /\ dir = {}
    /\ maxInst = NInst
    /\ tasks = [i \in Inst |-> {}]
    /\ call = [w \in Writer |-> Idle]
    /\ trouble = {}

Without(what) == trouble \cap what = {}

(* Bounds: after a clash calls are made one at a time, and no task is      *)
(* opened once one of the things TenantsApart excludes has happened.       *)
Begins(w) == call[w] = Idle /\ (Without({"clash"}) \/ \A v \in Writer : call[v] = Idle)
TaskBound == Without({"clash", "handed", "late"})

Goto(w, place) == call' = [call EXCEPT ![w].at = place]
Return(w) == call' = [call EXCEPT ![w] = Idle]

-----------------------------------------------------------------------------
(* create_new_node finds a free instance; -ENOSPC without one.             *)
CreateFind(w, n) ==
    /\ Begins(w)
    /\ Matches(None) # {}
    /\ call' = [call EXCEPT ![w] = [at |-> "name", id |-> n, inst |-> Lookup(None)]]
    /\ UNCHANGED <<name, dir, tasks, maxInst, trouble>>

(* inst_set_name claims it; -ENOMEM before that leaves it alone.           *)
CreateName(w) ==
    /\ At(w, {"name"})
    /\ LET c == call[w] IN
       \/ /\ name' = [name EXCEPT ![c.inst] = c.id]
          /\ Goto(w, "mkdir")
          /\ Note(If("clash", name[c.inst] # None)
                  \cup If("maxInst", c.inst >= maxInst)
                  \cup If("handed", Releasing(c.inst)))
       \/ Return(w) /\ UNCHANGED <<name, trouble>>
    /\ UNCHANGED <<dir, tasks, maxInst>>

(* proc_mkdir refuses a name that is taken, and may fail.                  *)
CreateMkdir(w) ==
    /\ At(w, {"mkdir"})
    /\ LET c == call[w] IN
       \/ /\ c.id \notin DirNames
          /\ dir' = dir \cup {<<c.id, c.inst>>}
          /\ Goto(w, "files")
       \/ UNCHANGED dir /\ Goto(w, "clear")
    /\ UNCHANGED <<name, tasks, maxInst, trouble>>

(* id, meminfo, memsize and weight are created, or one of them fails and   *)
(* proc_remove takes the directory back.                                   *)
CreateFiles_Leftover(w) ==
    /\ At(w, {"files"})
    /\ UNCHANGED dir /\ (Return(w) \/ Goto(w, "clear"))
    /\ UNCHANGED <<name, tasks, maxInst, trouble>>

CreateFiles(w) ==
    /\ At(w, {"files"})
    /\ \/ UNCHANGED dir /\ Return(w)
       \/ dir' = dir \ {<<call[w].id, call[w].inst>>} /\ Goto(w, "clear")
    /\ UNCHANGED <<name, tasks, maxInst, trouble>>

(* err_free: the claim is given up.                                        *)
CreateClear_Kept(w) ==
    /\ At(w, {"clear"})
    /\ Return(w)
    /\ UNCHANGED <<name, dir, tasks, maxInst, trouble>>

CreateClear(w) ==
    /\ At(w, {"clear"})
    /\ name' = [name EXCEPT ![call[w].inst] = None]
    /\ Return(w)
    /\ UNCHANGED <<dir, tasks, maxInst, trouble>>

-----------------------------------------------------------------------------
(* destroy_node: the instance is found by name, loses it, has its tasks   *)
(* cleaned under the lock, and the directory of that name goes.            *)
DestroyFind(w, n) ==
    /\ Begins(w)
    /\ Matches(n) # {}
    /\ call' = [call EXCEPT ![w] = [at |-> "unname", id |-> n, inst |-> Lookup(n)]]
    /\ UNCHANGED <<name, dir, tasks, maxInst, trouble>>

DestroyUnname(w) ==
    /\ At(w, {"unname"})
    /\ name' = [name EXCEPT ![call[w].inst] = None]
    /\ Goto(w, "clean")
    /\ Note(If("clash", name[call[w].inst] # call[w].id \/ Building(call[w].inst)))
    /\ UNCHANGED <<dir, tasks, maxInst>>

DestroyClean_Skipped(w) ==
    /\ At(w, {"clean"})
    /\ Goto(w, "rmdir")
    /\ UNCHANGED <<name, dir, tasks, maxInst, trouble>>

DestroyClean_Everywhere(w) ==
    /\ At(w, {"clean"})
    /\ tasks' = [i \in Inst |-> {}]
    /\ Goto(w, "rmdir")
    /\ Note(If("wiped", ~(tasks[call[w].inst] \subseteq {call[w].id})))
    /\ UNCHANGED <<name, dir, maxInst>>

DestroyClean(w) ==
    /\ At(w, {"clean"})
    /\ tasks' = [tasks EXCEPT ![call[w].inst] = {}]
    /\ Goto(w, "rmdir")
    /\ Note(If("wiped", ~(tasks[call[w].inst] \subseteq {call[w].id})))
    /\ UNCHANGED <<name, dir, maxInst>>

Removed_None(n) == {}
Removed(n) == {d \in dir : d[1] = n}

DestroyRmdir(w) ==
    /\ At(w, {"rmdir"})
    /\ dir' = dir \ Removed(call[w].id)
    /\ Return(w)
    /\ UNCHANGED <<name, tasks, maxInst, trouble>>

(* A process of container n, which is started once its creation has been   *)
(* answered, opens a device node of the instance its directory names; or   *)
(* the last file of the last process is closed (SgpuMemory).               *)
TaskOpen(n, i) ==
    /\ TaskBound
    /\ <<n, i>> \in dir
    /\ ~\E w \in Writer : At(w, {"files"}) /\ call[w].id = n
    /\ tasks' = [tasks EXCEPT ![i] = @ \cup {n}]
    /\ Note(If("late", Leaving(n)))
    /\ UNCHANGED <<name, dir, maxInst, call>>

TaskClose(n, i) ==
    /\ n \in tasks[i]
    /\ tasks' = [tasks EXCEPT ![i] = @ \ {n}]
    /\ UNCHANGED <<name, dir, maxInst, call, trouble>>

-----------------------------------------------------------------------------
(* group_set_max_inst checks that no instance is named, and then sets.     *)
MaxInstCheck(w, n) ==
    /\ Begins(w)
    /\ ~Opened
    /\ call' = [call EXCEPT ![w] = [at |-> "setmax", value |-> n]]
    /\ UNCHANGED <<name, dir, tasks, maxInst, trouble>>

MaxInstSet(w) ==
    /\ At(w, {"setmax"})
    /\ maxInst' = call[w].value
    /\ Return(w)
    /\ Note(If("maxInst", Opened))
    /\ UNCHANGED <<name, dir, tasks>>

-----------------------------------------------------------------------------
Next ==
    \/ \E w \in Writer :
        \/ \E n \in Name : CreateFind(w, n) \/ DestroyFind(w, n)
        \/ CreateName(w) \/ CreateMkdir(w) \/ CreateFiles(w) \/ CreateClear(w)
        \/ DestroyUnname(w) \/ DestroyClean(w) \/ DestroyRmdir(w)
        \/ \E n \in 1 .. NInst : MaxInstCheck(w, n)
        \/ MaxInstSet(w)
    \/ \E n \in Name, i \in Inst : TaskOpen(n, i) \/ TaskClose(n, i)

Spec == Init /\ [][Next]_vars

-----------------------------------------------------------------------------
(* Every variable has its type.                                            *)
TypeOK ==
    /\ name \in [Inst -> Name \cup {None}]
    /\ dir \subseteq Name \X Inst
    /\ maxInst \in 1 .. NInst
    /\ tasks \in [Inst -> SUBSET Name]
    /\ call \in [Writer -> CallStates]
    /\ trouble \subseteq {"clash", "maxInst", "handed", "late", "wiped"}

(* Two containers never share an instance, but for a directory whose       *)
(* removal is under way, unless one claim was written over another or      *)
(* removed half built.                                                     *)
SeparateInstances ==
    Without({"clash"}) => \A d, e \in dir :
        d # e /\ d[2] = e[2] => Leaving(d[1]) \/ Leaving(e[1])

(* Every directory is that of the instance its container_id leads to, so   *)
(* the container can be removed again, unless there was a clash or         *)
(* max_inst moved under it.                                                *)
DirectoryIsFound ==
    Without({"clash", "maxInst"}) => \A d \in dir :
        \/ Leaving(d[1])
        \/ d[2] \in Matches(d[1])

(* No instance is lost: one that is named has its directory, or a writer   *)
(* is at work on it, also after a creation failed half way.                *)
NoLostInstance ==
    Without({"clash"}) => \A i \in Inst :
        \/ name[i] = None
        \/ <<name[i], i>> \in dir
        \/ \E w \in Writer : At(w, {"mkdir", "files", "clear", "unname"}) /\ call[w].inst = i

(* The tasks of an instance are those of the container whose directory is  *)
(* there, and a removal cleans the tasks of its own container only.        *)
(* Excluded: an instance claimed between the loss of its name and the      *)
(* cleaning of its tasks, and a process that opens a device of a container *)
(* which is being removed.                                                 *)
TenantsApart ==
    TaskBound =>
        /\ Without({"wiped"})
        /\ \A i \in Inst : \A n \in tasks[i] : <<n, i>> \in dir

(* Every step keeps what ContainerHomes promises, until one of the things  *)
(* TenantsApart excludes: a directory is the home of its container unless  *)
(* it is being removed, and tasks are guests.  So a container is settled   *)
(* on an empty instance only, and cleaning takes the tasks of the one that *)
(* leaves and of no other.                                                 *)
Settled == {d \in dir : ~Leaving(d[1])}
Tenancy == INSTANCE ContainerHomes WITH home <- Settled, guests <- tasks, upset <- ~TaskBound
HomesRefined == Tenancy!HomesSpec
=============================================================================
