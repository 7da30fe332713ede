------------------------------ MODULE FenceBook ------------------------------
(***************************************************************************)
(* What the compute scheduler of one GPU promises for the fence of each    *)
(* command: it is armed once, waits on one instance at most, and is        *)
(* signalled once, by a slice of that instance which signals all that are  *)
(* marked there and no other.  A command that is dropped with its task is  *)
(* never signalled, and no command comes back.                             *)
(***************************************************************************)
CONSTANTS
    Cmd,            \* commands
    Inst            \* instances of the GPU
VARIABLES
    fence,          \* "none", "armed" or "signalled", by command
    pending,        \* commands that wait, by instance
    marked          \* commands that may be signalled

bookVars == <<fence, pending, marked>>

BookInit ==
    /\ fence = [c \in Cmd |-> "none"]
    /\ pending = [i \in Inst |-> {}]
    /\ marked = {}

(* A new command waits on an instance, marked or not, or on none.          *)
Arm ==
    \E c \in Cmd :
        /\ fence[c] = "none"
        /\ fence' = [fence EXCEPT ![c] = "armed"]
        /\ \/ /\ \E i \in Inst : pending' = [pending EXCEPT ![i] = @ \cup {c}]
              /\ marked' \in {marked, marked \cup {c}}
           \/ UNCHANGED <<pending, marked>>

Mark ==
    /\ \E i \in Inst : \E c \in pending[i] : marked' = marked \cup {c}
    /\ UNCHANGED <<fence, pending>>

Slice ==
    \E i \in Inst : LET due == pending[i] \cap marked IN
        /\ fence' = [c \in Cmd |-> IF c \in due THEN "signalled" ELSE fence[c]]
        /\ pending' = [pending EXCEPT ![i] = @ \ due]
        /\ marked' = marked \ due

Drop ==
    /\ \E i \in Inst : LET dropped == pending[i] \ pending'[i] IN
        /\ pending' = [pending EXCEPT ![i] = @ \ dropped]
        /\ marked' = marked \ dropped
    /\ UNCHANGED fence

BookNext == Arm \/ Mark \/ Slice \/ Drop

BookSpec == BookInit /\ [][BookNext]_bookVars
=============================================================================
