--------------------------- MODULE ContainerHomes ---------------------------
(***************************************************************************)
(* What the container nodes of one GPU promise: a container is given a     *)
(* home, an instance that has neither a home nor a guest; its processes    *)
(* become guests there and nowhere else; it loses its home before its      *)
(* guests are swept, and a sweep spares the guests of others.  Once the    *)
(* promise was upset it says no more.                                      *)
(***************************************************************************)
CONSTANTS
    Name,           \* containers
    Inst            \* instances of the GPU
VARIABLES
    home,           \* pairs of a container and its instance
    guests,         \* containers with processes on each instance
    upset           \* whether something happened that nobody answers for

homeVars == <<home, guests, upset>>

HomesInit ==
    /\ home = {}
    /\ guests = [i \in Inst |-> {}]
    /\ upset = FALSE

Settle ==
    /\ \E n \in Name, i \in Inst :
        /\ \A d \in home : d[1] # n /\ d[2] # i
        /\ guests[i] = {}
        /\ home' = home \cup {<<n, i>>}
    /\ UNCHANGED guests

Expel ==
    /\ \E n \in Name : home' = {d \in home : d[1] # n}
    /\ UNCHANGED guests

Enter ==
    /\ \E n \in Name, i \in Inst :
        /\ <<n, i>> \in home
        /\ guests' = [guests EXCEPT ![i] = @ \cup {n}]
    /\ UNCHANGED home

Exit ==
    /\ \E i \in Inst, n \in Name : guests' = [guests EXCEPT ![i] = @ \ {n}]
    /\ UNCHANGED home

Sweep ==
    /\ \E i \in Inst : guests' = [guests EXCEPT ![i] = {n \in @ : <<n, i>> \in home}]
    /\ UNCHANGED home

HomesNext ==
    \/ upset'
    \/ UNCHANGED upset /\ (Settle \/ Expel \/ Enter \/ Exit \/ Sweep)

HomesSpec == HomesInit /\ [][HomesNext]_homeVars
=============================================================================
