----------------------------- MODULE SgpuIoctl -----------------------------
(***************************************************************************)
(* The way of an ioctl on a DRM node of sgpu-km: what the module does      *)
(* before the driver, the driver's own handler, what the module does after *)
(* it.  A compute kick or a transfer names a timeline by its descriptor,   *)
(* and for the driver's call the f_op of that file is replaced by          *)
(* mt_global->mtgpu_drm_driver_fops, which sgpu_initialize leaves NULL.    *)
(*                                                                         *)
(* The threads of one process share its descriptors, and open, close and   *)
(* call at will.  The module looks a descriptor up in the table without a  *)
(* reference to the file, before the driver's call and again after it, and *)
(* each time it copies the command and the descriptor from the memory of   *)
(* the caller, which other threads may write in between.                   *)
(* The GPU stays; what the commands do to memory and to the scheduler is   *)
(* in SgpuMemory and SgpuSched.                                            *)
(***************************************************************************)
EXTENDS Naturals, FiniteSets

CONSTANTS
    Thread,         \* threads of the process
    Fd,             \* its descriptors
    File,           \* struct files of the DRM nodes
    NULL            \* an empty place of the table; the NULL f_op

ASSUME IoctlAssumption == NULL \notin File /\ NULL # "sgpu"

Kind == {"kick", "transfer", "other"}   \* RGXKICKCDM2; DMA and TQ2; the rest
NamesTimeline == {"kick", "transfer"}

VARIABLES
    table,          \* files->fdt->fd
    fop,            \* f_op of each file: the module's, or NULL
    call,           \* where each thread is
    oops,           \* a thread died on a NULL f_op; the model stops there
    trouble         \* history: what happened that the properties exclude

vars == <<table, fop, call, oops, trouble>>

-----------------------------------------------------------------------------
Idle == [at |-> "idle"]
CallStates ==
    {Idle} \cup [at : {"pre", "driver", "post"}, kind : Kind, via : File,
                 line : Fd, swapped : SUBSET File]

InFlight == {t \in Thread : call[t] # Idle}
Held == {call[t].via : t \in InFlight}
Tabled == {table[d] : d \in Fd} \ {NULL}

(* The file, if any, that the timeline descriptor of a command names now.  *)
Named(kind, line) ==
    IF kind \in NamesTimeline THEN {table[line]} \ {NULL} ELSE {}
Timeline(t) == Named(call[t].kind, call[t].line)

(* A call that has swapped a file reads another timeline after the driver. *)
Rewritten(t, kind, line) ==
    /\ call[t].swapped # {}
    /\ kind \notin NamesTimeline \/ line # call[t].line

(* The calls other than t's between their swap and their restore.          *)
Swapping(t) == {u \in InFlight \ {t} : call[u].swapped # {}}

Note(what) == trouble' = trouble \cup what
If(what, condition) == IF condition THEN {what} ELSE {}

Init ==
    /\ table = [d \in Fd |-> NULL]
    /\ fop = [f \in File |-> "sgpu"]
    /\ call = [t \in Thread |-> Idle]
    /\ oops = FALSE /\ trouble = {}

-----------------------------------------------------------------------------
(* The kernel's side: a new file has the module's f_op; close and ioctl    *)
(* read the f_op of the file; a call holds a reference to the file it came *)
(* through, and release, too, goes through the f_op, at the last of them.  *)
Open(d) ==
    /\ ~oops /\ table[d] = NULL
    /\ \E f \in File \ (Tabled \cup Held) :
          /\ table' = [table EXCEPT ![d] = f]
          /\ fop' = [fop EXCEPT ![f] = "sgpu"]
    /\ Note(If("moved", \E u \in InFlight : call[u].line = d))
    /\ UNCHANGED <<call, oops>>

Close(d) ==
    /\ ~oops /\ table[d] # NULL
    /\ table' = [table EXCEPT ![d] = NULL]
    /\ oops' = (fop[table[d]] = NULL)
    /\ Note(If("moved", \E u \in InFlight : call[u].line = d) \cup If("overlap", InFlight # {}))
    /\ UNCHANGED <<fop, call>>

Enter(t, d) ==
    /\ ~oops /\ call[t] = Idle /\ table[d] # NULL
    /\ oops' = (fop[table[d]] = NULL)
    /\ \E kind \in Kind, line \in Fd :
          call' = [call EXCEPT ![t] = [at |-> "pre", kind |-> kind, via |-> table[d],
                                       line |-> line, swapped |-> {}]]
    /\ Note(If("overlap", InFlight # {}))
    /\ UNCHANGED <<table, fop>>

(* The call of t returns.                                                  *)
Return(t) ==
    /\ call' = [call EXCEPT ![t] = Idle]
    /\ oops' = /\ call[t].via \notin Tabled
               /\ \A u \in InFlight \ {t} : call[u].via # call[t].via
               /\ fop'[call[t].via] = NULL

-----------------------------------------------------------------------------
(* sgpu_km_pre_ioctl.  A command that cannot be read or allocated for      *)
(* returns; a kick whose own arguments cannot goes on to the driver as it  *)
(* is.                                                                     *)
PreUnread(t) ==
    /\ ~oops /\ call[t].at = "pre"
    /\ \/ /\ call[t].kind = "kick"
          /\ call' = [call EXCEPT ![t].at = "driver"]
          /\ UNCHANGED oops
       \/ UNCHANGED fop /\ Return(t)
    /\ UNCHANGED <<table, fop, trouble>>

(* The swap.  If the command cannot be copied back the call returns.       *)
PreSwap(t) ==
    /\ ~oops /\ call[t].at = "pre"
    /\ LET files == Timeline(t) IN
       /\ fop' = [f \in File |-> IF f \in files THEN NULL ELSE fop[f]]
       /\ \/ /\ call' = [call EXCEPT ![t] = [@ EXCEPT !.at = "driver", !.swapped = files]]
             /\ UNCHANGED <<oops, trouble>>
          \/ Return(t) /\ Note(If("failed", files # {}))
    /\ UNCHANGED table

(* The driver's handler, which the kernel module only sees accept or fail. *)
(* When it fails, or when the GPU is gone, nothing is put back.            *)
DriverAccepts(t) ==
    /\ ~oops /\ call[t].at = "driver"
    /\ call' = [call EXCEPT ![t].at = "post"]
    /\ UNCHANGED <<table, fop, oops, trouble>>

DriverFails(t) ==
    /\ ~oops /\ call[t].at = "driver"
    /\ UNCHANGED fop /\ Return(t)
    /\ Note(If("failed", call[t].swapped # {}))
    /\ UNCHANGED table

(* sgpu_km_post_ioctl reads the command and its timeline again, looks the  *)
(* timeline up again and gives it the f_op of the file the call came       *)
(* through.                                                                *)
PostRestore_Swapped(t) ==
    /\ ~oops /\ call[t].at = "post"
    /\ fop' = [f \in File |-> IF f = call[t].via THEN "sgpu" ELSE fop[f]]
    /\ Return(t)
    /\ UNCHANGED <<table, trouble>>

PostRestore_OnlyKicks(t) ==
    /\ ~oops /\ call[t].at = "post"
    /\ LET files == IF call[t].kind = "kick" THEN Timeline(t) ELSE {} IN
       fop' = [f \in File |-> IF f \in files THEN fop[call[t].via] ELSE fop[f]]
    /\ Return(t)
    /\ UNCHANGED <<table, trouble>>

PostRestore(t) ==
    /\ ~oops /\ call[t].at = "post"
    /\ \E kind \in Kind, line \in Fd : LET files == Named(kind, line) IN
       /\ fop' = [f \in File |-> IF f \in files THEN fop[call[t].via] ELSE fop[f]]
       /\ Note(If("own", files # {} /\ fop[call[t].via] = NULL)
               \cup If("shared", \E u \in Swapping(t) : call[u].swapped \cap files # {})
               \cup If("rewritten", Rewritten(t, kind, line)))
    /\ Return(t)
    /\ UNCHANGED table

(* The command cannot be read or allocated for after the driver's call.    *)
PostUnread(t) ==
    /\ ~oops /\ call[t].at = "post"
    /\ UNCHANGED fop /\ Return(t)
    /\ Note(If("failed", call[t].swapped # {}))
    /\ UNCHANGED table

Next ==
    \/ \E d \in Fd : Open(d) \/ Close(d)
    \/ \E t \in Thread :
          \/ \E d \in Fd : Enter(t, d)
          \/ PreUnread(t) \/ PreSwap(t) \/ DriverAccepts(t) \/ DriverFails(t)
          \/ PostRestore(t) \/ PostUnread(t)

Spec == Init /\ [][Next]_vars

-----------------------------------------------------------------------------
(* Every variable stays in its set, and a file has at most one descriptor. *)
TypeOK ==
    /\ table \in [Fd -> File \cup {NULL}]
    /\ \A d, e \in Fd : table[d] = table[e] /\ table[d] # NULL => d = e
    /\ fop \in [File -> {"sgpu", NULL}]
    /\ call \in [Thread -> CallStates]
    /\ oops \in BOOLEAN
    /\ trouble \subseteq {"failed", "moved", "own", "shared", "overlap", "rewritten"}

(* An open file is redirected only for a call in flight that swapped it:   *)
(* however calls and closes overlap, every file has the module's f_op      *)
(* again once its calls are over.  Excluded: a call that failed after its  *)
(* swap (sgpu_ioctl.c:71, 419, 545), a timeline closed or opened anew      *)
(* during the call, a call through a file that is itself redirected, which *)
(* puts NULL back (sgpu_ioctl.c:565), and a call whose command or timeline *)
(* was rewritten in user memory before post-ioctl read it a second time    *)
(* (sgpu_ioctl.c:517, 551, 610, 636), which restores another file or none. *)
RedirectedByCall ==
    trouble \cap {"failed", "moved", "own", "rewritten"} = {} =>
        \A f \in Tabled : fop[f] = NULL => \E t \in InFlight : f \in call[t].swapped

(* While the driver works for a call, the timeline of that call is         *)
(* redirected, unless another call has come back to the same timeline, its *)
(* own or one read anew in post-ioctl.                                     *)
RedirectedInDriver ==
    trouble \cap {"moved", "shared"} = {} =>
        \A t \in InFlight : \A f \in call[t].swapped : fop[f] = NULL

(* A process that makes one call at a time, none of which fails, names as  *)
(* its timeline no file it calls through, and leaves its commands alone    *)
(* until they have returned, does not meet a NULL f_op.                    *)
Survives == oops => trouble \cap {"failed", "own", "overlap", "rewritten"} # {}
=============================================================================
