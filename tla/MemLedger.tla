------------------------------ MODULE MemLedger ------------------------------
(***************************************************************************)
(* What the memory accounting of one sGPU instance promises: a total, a    *)
(* set of charges made against it, and a free figure that is always the    *)
(* total minus the charges, in the machine's word arithmetic.  The limit   *)
(* is replaced only while nothing is charged.                              *)
(***************************************************************************)
EXTENDS Integers

CONSTANTS
    WordSize,       \* number of values of a uint64_t
    Charged(_)      \* bytes of a set of charges
VARIABLES total, free, charges

ledgerVars == <<total, free, charges>>

Balance(t, C) == (t - Charged(C)) % WordSize

LedgerInit ==
    /\ total \in 0 .. WordSize - 1
    /\ charges = {}
    /\ free = total

Charge ==
    /\ \E c \in charges' \ charges : charges' = charges \cup {c}
    /\ free' = Balance(total, charges')
    /\ UNCHANGED total

Refund ==
    /\ charges' \subseteq charges
    /\ charges' # charges
    /\ free' = Balance(total, charges')
    /\ UNCHANGED total

Resize ==
    /\ charges = {}
    /\ total' \in 0 .. WordSize - 1
    /\ free' = total'
    /\ UNCHANGED charges

LedgerNext == Charge \/ Refund \/ Resize

LedgerSpec == LedgerInit /\ [][LedgerNext]_ledgerVars
=============================================================================
