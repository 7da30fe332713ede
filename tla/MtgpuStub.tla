----------------------------- MODULE MtgpuStub -----------------------------
(***************************************************************************)
(* mtgpu_stub.ko: a PCI driver that registers a DRM device for every GPU   *)
(* it is bound to and gives it one of the places of mtgpu_cdev, with the   *)
(* node /dev/mtgpu.N.  A place is chosen at the start of a probe and taken *)
(* at its end, given back at the start of a remove.  Devices are bound and *)
(* unbound while the nodes are in use; sgpu_km keeps open those of the     *)
(* GPUs it drives and expects card N beside mtgpu.N.                       *)
(*                                                                         *)
(* The numbers of the cards are given out by DRM, the lowest first, and    *)
(* kept until the last file of the device is closed.                       *)
(***************************************************************************)
EXTENDS Integers, FiniteSets

CONSTANTS
    Pdev,           \* the PCI devices of the table
    NSlots,         \* MAX_GPU_DEVS
    OtherCards,     \* sets of cards that other drivers may have
    None            \* no device

Slot == 0 .. NSlots - 1
Lowest(S) == CHOOSE n \in S : \A m \in S : n <= m

ASSUME StubAssumption ==
    /\ NSlots \in Nat \ {0}
    /\ IsFiniteSet(Pdev) /\ None \notin Pdev
    /\ \A cards \in OtherCards : cards \subseteq Nat /\ IsFiniteSet(cards)

VARIABLES
    mod,            \* where the module is
    at,             \* where probe or remove of each device is
    gpuId,          \* mdev->gpu_id
    card,           \* the card of each device, -1 for none
    others,         \* the cards of other drivers
    lingering,      \* cards of removed devices that are still open
    taken,          \* places whose cdev has a dev
    node,           \* the device /dev/mtgpu.N was made for
    refs,           \* references to the kobject of each cdev
    users,          \* files open on each cdev
    trouble         \* history: what happened that the properties exclude

cardVars == <<card, others, lingering>>
cdevVars == <<taken, node, refs, users>>
vars == <<mod, at, gpuId, cardVars, cdevVars, trouble>>

Places == {"out", "pick", "drm", "bound", "leaving"}
Bound == {d \in Pdev : at[d] = "bound"}
Midway == {d \in Pdev : at[d] \notin {"out", "bound"}}
Cards == others \cup lingering \cup {card[d] : d \in Pdev}

Note(what, condition) ==
    trouble' = IF condition THEN trouble \cup {what} ELSE trouble

Init ==
    /\ mod = "init"
    /\ at = [d \in Pdev |-> "out"] /\ gpuId = [d \in Pdev |-> -1]
    /\ card = [d \in Pdev |-> -1] /\ others \in OtherCards /\ lingering = {}
    /\ taken = {} /\ node = [n \in Slot |-> None]
    /\ refs = [n \in Slot |-> 0] /\ users = [n \in Slot |-> 0]
    /\ trouble = {}

-----------------------------------------------------------------------------
(* The region of device numbers, the class and the PCI driver; each may    *)
(* fail, and what was made before is unmade.                               *)
Load ==
    /\ mod = "init" /\ mod' \in {"live", "gone"}
    /\ UNCHANGED <<at, gpuId, cardVars, cdevVars, trouble>>

(* rmmod waits for every file; pci_unregister_driver removes the devices.  *)
Unload ==
    /\ mod = "live" /\ lingering = {} /\ \A n \in Slot : users[n] = 0
    /\ mod' = "exit"
    /\ UNCHANGED <<at, gpuId, cardVars, cdevVars, trouble>>

ExitDone ==
    /\ mod = "exit" /\ \A d \in Pdev : at[d] = "out"
    /\ mod' = "gone"
    /\ taken' = {} /\ refs' = [n \in Slot |-> IF n \in taken THEN refs[n] - 1 ELSE refs[n]]
    /\ UNCHANGED <<at, gpuId, cardVars, node, users, trouble>>

-----------------------------------------------------------------------------
(* mtgpu_pci_probe: the first free place; without one it fails.  Bound: no *)
(* probe begins once probes met or a cdev was initialised while open.      *)
ProbePick_Last(d) ==
    /\ mod = "live" /\ trouble \subseteq {"held"} /\ at[d] = "out" /\ taken # Slot
    /\ at' = [at EXCEPT ![d] = "pick"]
    /\ gpuId' = [gpuId EXCEPT ![d] = CHOOSE n \in Slot \ taken : \A m \in Slot \ taken : m <= n]
    /\ Note("race", Midway # {})
    /\ UNCHANGED <<mod, cardVars, cdevVars>>

ProbePick(d) ==
    /\ mod = "live" /\ trouble \subseteq {"held"} /\ at[d] = "out" /\ taken # Slot
    /\ at' = [at EXCEPT ![d] = "pick"]
    /\ gpuId' = [gpuId EXCEPT ![d] = Lowest(Slot \ taken)]
    /\ Note("race", Midway # {})
    /\ UNCHANGED <<mod, cardVars, cdevVars>>

(* pcim_enable_device, devm_drm_dev_alloc or drm_dev_register fails.       *)
ProbeFail(d) ==
    /\ at[d] = "pick"
    /\ at' = [at EXCEPT ![d] = "out"]
    /\ gpuId' = [gpuId EXCEPT ![d] = -1]
    /\ UNCHANGED <<mod, cardVars, cdevVars, trouble>>

(* The DRM device gets its card; hwmon and sysfs may fail unheeded.        *)
ProbeRegister(d) ==
    /\ at[d] = "pick"
    /\ at' = [at EXCEPT ![d] = "drm"]
    /\ card' = [card EXCEPT ![d] = Lowest((0 .. Cardinality(Cards)) \ Cards)]
    /\ UNCHANGED <<mod, gpuId, others, lingering, cdevVars, trouble>>

(* cdev_init clears the cdev, cdev_add takes the place even if it fails,   *)
(* and then, or when the name exists, there is no node.                    *)
ProbeCdev(d) ==
    /\ at[d] = "drm"
    /\ at' = [at EXCEPT ![d] = "bound"]
    /\ LET n == gpuId[d] IN
       /\ taken' = taken \cup {n}
       /\ refs' = [refs EXCEPT ![n] = 1]
       /\ \/ node[n] = None /\ node' = [node EXCEPT ![n] = d]
          \/ UNCHANGED node
       /\ Note("reused", users[n] # 0)
    /\ UNCHANGED <<mod, gpuId, cardVars, users>>

(* mtgpu_pci_remove: the place and its node go first, then the card, which *)
(* DRM keeps while a file of it is open.  Bound: one such card.            *)
RemoveNode_CdevKept(d) ==
    /\ at[d] = "bound"
    /\ at' = [at EXCEPT ![d] = "leaving"]
    /\ LET n == gpuId[d] IN
       IF n \in taken
       THEN taken' = taken \ {n} /\ node' = [node EXCEPT ![n] = None]
       ELSE UNCHANGED <<taken, node>>
    /\ Note("race", Midway # {})
    /\ UNCHANGED <<mod, gpuId, cardVars, refs, users>>

RemoveNode_NodeKept(d) ==
    /\ at[d] = "bound"
    /\ at' = [at EXCEPT ![d] = "leaving"]
    /\ taken' = taken \ {gpuId[d]}
    /\ refs' = [refs EXCEPT ![gpuId[d]] = @ - 1]
    /\ Note("race", Midway # {})
    /\ UNCHANGED <<mod, gpuId, cardVars, node, users>>

RemoveNode(d) ==
    /\ at[d] = "bound"
    /\ at' = [at EXCEPT ![d] = "leaving"]
    /\ LET n == gpuId[d] IN
       IF n \in taken
       THEN /\ taken' = taken \ {n}
            /\ node' = [node EXCEPT ![n] = None]
            /\ refs' = [refs EXCEPT ![n] = @ - 1]
       ELSE UNCHANGED <<taken, node, refs>>
    /\ Note("race", Midway # {})
    /\ UNCHANGED <<mod, gpuId, cardVars, users>>

RemoveCard(d) ==
    /\ at[d] = "leaving"
    /\ at' = [at EXCEPT ![d] = "out"]
    /\ gpuId' = [gpuId EXCEPT ![d] = -1]
    /\ card' = [card EXCEPT ![d] = -1]
    /\ \/ UNCHANGED <<lingering, trouble>>
       \/ /\ mod = "live" /\ lingering = {}
          /\ lingering' = lingering \cup {card[d]} /\ Note("held", TRUE)
    /\ UNCHANGED <<mod, others, cdevVars>>

-----------------------------------------------------------------------------
(* Processes open and close the nodes; the last file of a removed card     *)
(* goes.  Bound: one file on a node.                                       *)
OpenNode(n) ==
    /\ mod = "live" /\ node[n] # None /\ users[n] = 0
    /\ users' = [users EXCEPT ![n] = @ + 1]
    /\ refs' = [refs EXCEPT ![n] = @ + 1]
    /\ UNCHANGED <<mod, at, gpuId, cardVars, taken, node, trouble>>

CloseNode(n) ==
    /\ users[n] > 0
    /\ users' = [users EXCEPT ![n] = @ - 1]
    /\ refs' = [refs EXCEPT ![n] = @ - 1]
    /\ UNCHANGED <<mod, at, gpuId, cardVars, taken, node, trouble>>

CloseCard(c) ==
    /\ lingering' = lingering \ {c}
    /\ UNCHANGED <<mod, at, gpuId, card, others, cdevVars, trouble>>

Next ==
    \/ Load \/ Unload \/ ExitDone
    \/ \E d \in Pdev :
          \/ ProbePick(d) \/ ProbeFail(d) \/ ProbeRegister(d) \/ ProbeCdev(d)
          \/ RemoveNode(d) \/ RemoveCard(d)
    \/ \E n \in Slot : OpenNode(n) \/ CloseNode(n)
    \/ \E c \in lingering : CloseCard(c)

Spec == Init /\ [][Next]_vars

-----------------------------------------------------------------------------
(* Every variable stays in its set: the id of a device is a place.         *)
TypeOK ==
    /\ mod \in {"init", "live", "exit", "gone"}
    /\ at \in [Pdev -> Places]
    /\ gpuId \in [Pdev -> Slot \cup {-1}]
    /\ card \in [Pdev -> Nat \cup {-1}]
    /\ others \subseteq Nat /\ lingering \subseteq Nat
    /\ taken \subseteq Slot
    /\ node \in [Slot -> Pdev \cup {None}]
    /\ refs \in [Slot -> Int] /\ users \in [Slot -> Nat]
    /\ trouble \subseteq {"race", "reused", "held"}

Calm(what) == trouble \cap what = {}

(* The places taken are those of the bound devices, one each, and a node   *)
(* leads to a device that is bound: no failed probe keeps a place and no   *)
(* remove leaves one, unless a probe met another probe or a remove.        *)
SlotsMatchDevices ==
    Calm({"race"}) =>
        /\ taken = {gpuId[d] : d \in Bound}
        /\ \A d, e \in Bound : gpuId[d] = gpuId[e] => d = e
        /\ \A n \in Slot : node[n] # None => node[n] \in Bound /\ gpuId[node[n]] = n

(* The kobject of a cdev has a reference for the driver while its place is *)
(* taken and one for every open file.  Excluded, besides the above: a cdev *)
(* that is initialised while a file of its last device is open.            *)
CdevReferences ==
    Calm({"race", "reused"}) =>
        \A n \in Slot : refs[n] = users[n] + (IF n \in taken THEN 1 ELSE 0)

(* sgpu_km (sgpu.c:63-80) drives GPU N through mtgpu.N and card N: they    *)
(* are of one device if no other driver has a card, no card was still open *)
(* after its device was removed, and probes and removes do not meet.       *)
SameDevice ==
    Calm({"race", "held"}) /\ others = {} => \A d \in Bound : card[d] = gpuId[d]
=============================================================================
