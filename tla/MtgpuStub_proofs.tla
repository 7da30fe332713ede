--------------------------- MODULE MtgpuStub_proofs ---------------------------
(***************************************************************************)
(* The places of mtgpu_stub, for any number of devices and places.         *)
(***************************************************************************)
EXTENDS MtgpuStub, FiniteSetTheorems, WellFoundedInduction, TLAPS

(* Every set of numbers that has a member has a lowest one.                *)
LEMMA LowestIsLeast ==
    ASSUME NEW S \in SUBSET Nat, S # {}
    PROVE  Lowest(S) \in S /\ \A n \in S : Lowest(S) <= n
  <1>. DEFINE Less == {p \in Nat \X Nat : p[1] < p[2]}
  <1>1. IsWellFoundedOn(Less, Nat)  BY NatLessThanWellFounded DEF OpToRel
  <1>2. PICK n \in S : \A m \in S : ~(<<m, n>> \in Less)
    <2>. HIDE DEF Less
    <2>. QED  BY <1>1, WFMin
  <1>3. ASSUME NEW m \in S  PROVE n <= m
    <2>1. <<m, n>> \in Nat \X Nat /\ <<m, n>> \notin Less  BY <1>2
    <2>2. ~(m < n)  BY <2>1
    <2>3. m \in Nat /\ n \in Nat  OBVIOUS
    <2>. QED  BY <2>2, <2>3
  <1>. QED  BY <1>3 DEF Lowest

(* DRM has a card to give: the numbers from 0 to the number of cards given *)
(* out are one more than those.                                            *)
LEMMA CardIsFree ==
    ASSUME IsFiniteSet(Cards)
    PROVE  (0 .. Cardinality(Cards)) \ Cards # {}
  <1>. DEFINE c == Cardinality(Cards)
  <1>. SUFFICES ASSUME 0 .. c \subseteq Cards PROVE FALSE  OBVIOUS
  <1>1. c \in Nat  BY FS_CardinalityType
  <1>2. Cardinality(0 .. c) = c + 1  BY <1>1, FS_Interval
  <1>3. Cardinality(0 .. c) <= c  BY FS_Subset
  <1>. QED  BY <1>1, <1>2, <1>3

(* A device that is not out has a place, and a card once registered.       *)
Placed == \A d \in Pdev :
    /\ at[d] # "out" => gpuId[d] \in Slot
    /\ at[d] \notin {"out", "pick"} => card[d] \in Nat
TypeInv == TypeOK /\ Placed /\ IsFiniteSet(others) /\ IsFiniteSet(lingering)

(* Only so many cards are given out at any time.                           *)
LEMMA CardsFinite == ASSUME TypeInv PROVE IsFiniteSet(Cards)
  <1>. DEFINE given == {card[d] : d \in Pdev}
  <1>1. card \in Surjection(Pdev, given)  BY DEF TypeInv, TypeOK, Surjection
  <1>2. IsFiniteSet(given)  BY <1>1, StubAssumption, FS_Surjection
  <1>. HIDE DEF given
  <1>3. IsFiniteSet(others \cup lingering)  BY FS_Union DEF TypeInv
  <1>4. IsFiniteSet(others \cup lingering \cup given)  BY <1>2, <1>3, FS_Union
  <1>. QED  BY <1>4 DEF Cards, given

(* The variables stay in their sets.                                       *)
LEMMA TypeInductive == TypeInv /\ [Next]_vars => TypeInv'
  <1>. SUFFICES ASSUME TypeInv, [Next]_vars PROVE TypeInv'  OBVIOUS
  <1>. USE StubAssumption DEF TypeInv, TypeOK, Placed, cardVars, cdevVars, Places, Note
  <1>1. CASE Load \/ Unload  BY <1>1 DEF Load, Unload
  <1>2. CASE ExitDone  BY <1>2 DEF ExitDone
  <1>3. ASSUME NEW d \in Pdev, ProbePick(d)  PROVE TypeInv'
    <2>1. Slot \ taken \in SUBSET Nat /\ Slot \ taken # {}
      <3>1. Slot \in SUBSET Nat  BY DEF Slot
      <3>. QED  BY <1>3, <3>1 DEF ProbePick
    <2>2. Lowest(Slot \ taken) \in Slot \ taken  BY <2>1, LowestIsLeast
    <2>3. gpuId' = [gpuId EXCEPT ![d] = Lowest(Slot \ taken)]
      BY <1>3 DEF ProbePick
    <2>. QED  BY <1>3, <2>2, <2>3 DEF ProbePick
  <1>4. ASSUME NEW d \in Pdev, ProbeFail(d)  PROVE TypeInv'
    BY <1>4 DEF ProbeFail
  <1>5. ASSUME NEW d \in Pdev, ProbeRegister(d)  PROVE TypeInv'
    <2>. DEFINE free == (0 .. Cardinality(Cards)) \ Cards
    <2>1. free \in SUBSET Nat /\ free # {}
      BY CardsFinite, CardIsFree, FS_CardinalityType
    <2>2. Lowest(free) \in Nat
      <3>. HIDE DEF free
      <3>. QED  BY <2>1, LowestIsLeast
    <2>. QED  BY <1>5, <2>2 DEF ProbeRegister
  <1>6. ASSUME NEW d \in Pdev, ProbeCdev(d)  PROVE TypeInv'
    <2>1. gpuId[d] \in Slot  BY <1>6 DEF ProbeCdev
    <2>2. node' \in [Slot -> Pdev \cup {None}]  BY <1>6, <2>1 DEF ProbeCdev
    <2>3. refs' \in [Slot -> Int]  BY <1>6, <2>1 DEF ProbeCdev
    <2>. QED  BY <1>6, <2>1, <2>2, <2>3 DEF ProbeCdev
  <1>7. ASSUME NEW d \in Pdev, RemoveNode(d)  PROVE TypeInv'
    <2>1. gpuId[d] \in Slot  BY <1>7 DEF RemoveNode
    <2>. QED  BY <1>7, <2>1 DEF RemoveNode
  <1>8. ASSUME NEW d \in Pdev, RemoveCard(d)  PROVE TypeInv'
    <2>1. lingering' \subseteq Nat /\ IsFiniteSet(lingering')
      <3>1. CASE lingering' = lingering  BY <3>1
      <3>2. CASE lingering = {} /\ lingering' = lingering \cup {card[d]}
        <4>1. card[d] \in Nat  BY <1>8 DEF RemoveCard
        <4>. QED  BY <3>2, <4>1, FS_AddElement
      <3>. QED  BY <1>8, <3>1, <3>2 DEF RemoveCard
    <2>. QED  BY <1>8, <2>1 DEF RemoveCard
  <1>9. ASSUME NEW n \in Slot, OpenNode(n) \/ CloseNode(n)  PROVE TypeInv'
    <2>1. users[n] \in Nat /\ refs[n] \in Int  OBVIOUS
    <2>2. CASE OpenNode(n)  BY <2>1, <2>2 DEF OpenNode
    <2>3. CASE CloseNode(n)  BY <2>1, <2>3 DEF CloseNode
    <2>. QED  BY <1>9, <2>2, <2>3
  <1>10. ASSUME NEW c \in lingering, CloseCard(c)  PROVE TypeInv'
    BY <1>10, FS_RemoveElement DEF CloseCard
  <1>11. CASE UNCHANGED vars  BY <1>11 DEF vars
  <1>. QED  BY <1>1, <1>2, <1>3, <1>4, <1>5, <1>6, <1>7, <1>8, <1>9, <1>10, <1>11 DEF Next

-----------------------------------------------------------------------------
(* While probes and removes do not meet there is one at most, and the      *)
(* place it chose is still free, and still the lowest free one.            *)
OneMidway ==
    Calm({"race"}) =>
        /\ \A d, e \in Midway : d = e
        /\ \A d \in Pdev : at[d] \in {"pick", "drm"} => gpuId[d] \notin taken
        /\ \A d \in Pdev : at[d] = "pick" => gpuId[d] = Lowest(Slot \ taken)

(* Cards given out while no other driver has one and none lingers.         *)
Numbered ==
    Calm({"race", "held"}) /\ others = {} =>
        /\ lingering = {}
        /\ \A d \in Pdev : at[d] \in {"drm", "bound", "leaving"} => card[d] = gpuId[d]
        /\ \A d \in Pdev : at[d] \in {"out", "pick"} => card[d] = -1

SlotsInv == TypeInv /\ OneMidway /\ SlotsMatchDevices /\ CdevReferences
StubInv == SlotsInv /\ Numbered

(* A step that moves no bound device, place or node.                       *)
LEMMA SlotsFramed ==
    ASSUME SlotsMatchDevices, UNCHANGED <<gpuId, taken, node>>, Bound' = Bound,
           trouble \subseteq trouble'
    PROVE  SlotsMatchDevices'
  <1>1. {gpuId[d] : d \in Bound}' = {gpuId[d] : d \in Bound}  BY Zenon
  <1>. QED  BY <1>1 DEF SlotsMatchDevices, Calm

(* Places, nodes and references move together in every step.               *)
LEMMA SlotsInductive == SlotsInv /\ [Next]_vars => SlotsInv'
  <1>. SUFFICES ASSUME SlotsInv, [Next]_vars
                PROVE  OneMidway' /\ SlotsMatchDevices' /\ CdevReferences'
    BY TypeInductive DEF SlotsInv
  <1>. USE StubAssumption DEF SlotsInv, TypeInv, TypeOK, Placed, OneMidway, SlotsMatchDevices,
           CdevReferences, Calm, Midway, Bound, cardVars, cdevVars, Note
  <1>0. ASSUME UNCHANGED <<at, gpuId, taken, node, trouble>>
        PROVE  OneMidway' /\ SlotsMatchDevices'
    <2>1. OneMidway'  BY <1>0
    <2>2. SlotsMatchDevices'
      <3>1. Bound' = Bound  BY <1>0
      <3>. HIDE DEF SlotsInv, Bound, SlotsMatchDevices
      <3>. QED  BY <1>0, <3>1, SlotsFramed DEF SlotsInv
    <2>. QED  BY <2>1, <2>2
  <1>10. ASSUME UNCHANGED <<at, gpuId, cdevVars, trouble>>
         PROVE  OneMidway' /\ SlotsMatchDevices' /\ CdevReferences'
    BY <1>0, <1>10
  <1>1. CASE Load \/ Unload  BY <1>1, <1>10 DEF Load, Unload
  <1>2. CASE ExitDone
    <2>1. OneMidway' /\ SlotsMatchDevices'  BY <1>2 DEF ExitDone
    <2>2. ASSUME NEW n \in Slot  PROVE refs'[n] = IF n \in taken THEN refs[n] - 1 ELSE refs[n]
      BY <1>2 DEF ExitDone
    <2>3. taken' = {} /\ users' = users /\ trouble' = trouble  BY <1>2 DEF ExitDone
    <2>4. \A n \in Slot : users[n] \in Nat /\ refs[n] \in Int  OBVIOUS
    <2>5. CdevReferences'  BY <2>2, <2>3, <2>4
    <2>. QED  BY <2>1, <2>5
  <1>3. ASSUME NEW d \in Pdev, ProbePick(d)
        PROVE  OneMidway' /\ SlotsMatchDevices' /\ CdevReferences'
    <2>1. Slot \ taken \in SUBSET Nat /\ Slot \ taken # {}
      <3>1. Slot \in SUBSET Nat  BY DEF Slot
      <3>. QED  BY <1>3, <3>1 DEF ProbePick
    <2>2. Lowest(Slot \ taken) \in Slot \ taken  BY <2>1, LowestIsLeast
    <2>3. gpuId' = [gpuId EXCEPT ![d] = Lowest(Slot \ taken)]  BY <1>3 DEF ProbePick
    <2>. QED  BY <1>3, <2>2, <2>3 DEF ProbePick
  <1>4. ASSUME NEW d \in Pdev, ProbeFail(d)
        PROVE  OneMidway' /\ SlotsMatchDevices' /\ CdevReferences'
    BY <1>4 DEF ProbeFail
  <1>5. ASSUME NEW d \in Pdev, ProbeRegister(d)
        PROVE  OneMidway' /\ SlotsMatchDevices' /\ CdevReferences'
    BY <1>5 DEF ProbeRegister
  <1>6. ASSUME NEW d \in Pdev, ProbeCdev(d)
        PROVE  OneMidway' /\ SlotsMatchDevices' /\ CdevReferences'
    <2>1. OneMidway'  BY <1>6 DEF ProbeCdev
    <2>2. SlotsMatchDevices'
      <3>. SUFFICES ASSUME "race" \notin trouble PROVE SlotsMatchDevices'
        BY <1>6 DEF ProbeCdev
      <3>1. Bound' = Bound \cup {d} /\ d \notin Bound  BY <1>6 DEF ProbeCdev
      <3>2. gpuId' = gpuId /\ taken' = taken \cup {gpuId[d]}  BY <1>6 DEF ProbeCdev
      <3>3. gpuId[d] \in Slot \ taken  BY <1>6 DEF ProbeCdev
      <3>4. taken = {gpuId[e] : e \in Bound}  OBVIOUS
      <3>5. taken' = {gpuId'[e] : e \in Bound'}
        <4>. HIDE DEF Bound
        <4>. QED  BY <3>1, <3>2, <3>4
      <3>6. \A e, f \in Bound' : gpuId'[e] = gpuId'[f] => e = f
        BY <3>1, <3>2, <3>3
      <3>7. ASSUME NEW n \in Slot, node'[n] # None
            PROVE  node'[n] \in Bound' /\ gpuId'[node'[n]] = n
        <4>1. node'[n] = node[n] \/ (n = gpuId[d] /\ node'[n] = d)
          BY <1>6 DEF ProbeCdev
        <4>. QED  BY <3>1, <3>2, <3>7, <4>1
      <3>. QED  BY <3>5, <3>6, <3>7
    <2>3. CdevReferences'
      <3>. SUFFICES ASSUME "race" \notin trouble, users[gpuId[d]] = 0, "reused" \notin trouble,
                           NEW n \in Slot
                    PROVE  refs'[n] = users'[n] + (IF n \in taken' THEN 1 ELSE 0)
        BY <1>6 DEF ProbeCdev
      <3>1. gpuId[d] \in Slot  BY <1>6 DEF ProbeCdev
      <3>2. refs'[n] = IF n = gpuId[d] THEN 1 ELSE refs[n]  BY <1>6, <3>1 DEF ProbeCdev
      <3>3. users' = users /\ taken' = taken \cup {gpuId[d]}  BY <1>6 DEF ProbeCdev
      <3>. QED  BY <3>1, <3>2, <3>3
    <2>. QED  BY <2>1, <2>2, <2>3
  <1>7. ASSUME NEW d \in Pdev, RemoveNode(d)
        PROVE  OneMidway' /\ SlotsMatchDevices' /\ CdevReferences'
    <2>1. OneMidway'  BY <1>7 DEF RemoveNode
    <2>2. SlotsMatchDevices'  BY <1>7 DEF RemoveNode
    <2>3. CdevReferences'  BY <1>7 DEF RemoveNode
    <2>. QED  BY <2>1, <2>2, <2>3
  <1>8. ASSUME NEW d \in Pdev, RemoveCard(d)
        PROVE  OneMidway' /\ SlotsMatchDevices' /\ CdevReferences'
    BY <1>8 DEF RemoveCard
  <1>9. ASSUME NEW n \in Slot, OpenNode(n) \/ CloseNode(n)
        PROVE  OneMidway' /\ SlotsMatchDevices' /\ CdevReferences'
    <2>1. UNCHANGED <<at, gpuId, taken, node, trouble>>
      BY <1>9 DEF OpenNode, CloseNode
    <2>2. OneMidway' /\ SlotsMatchDevices'  BY <1>0, <2>1
    <2>3. \A k \in Slot : users[k] \in Nat /\ refs[k] \in Int  OBVIOUS
    <2>4. \A k \in Slot : /\ refs'[k] - users'[k] = refs[k] - users[k]
                         /\ users'[k] \in Nat /\ refs'[k] \in Int
      <3>1. CASE OpenNode(n)  BY <2>3, <3>1 DEF OpenNode
      <3>2. CASE CloseNode(n)
        <4>1. /\ users[n] > 0 /\ users' = [users EXCEPT ![n] = @ - 1]
              /\ refs' = [refs EXCEPT ![n] = @ - 1]
          BY <3>2 DEF CloseNode
        <4>2. users[n] - 1 \in Nat /\ refs[n] - 1 \in Int  BY <2>3, <4>1
        <4>3. ASSUME NEW k \in Slot  PROVE /\ users'[k] = IF k = n THEN users[n] - 1 ELSE users[k]
                                         /\ refs'[k] = IF k = n THEN refs[n] - 1 ELSE refs[k]
          BY <4>1
        <4>. QED  BY <2>3, <4>2, <4>3
      <3>. QED  BY <1>9, <3>1, <3>2
    <2>5. CdevReferences'
      <3>. SUFFICES ASSUME Calm({"race", "reused"}), NEW k \in Slot
                    PROVE  refs'[k] = users'[k] + (IF k \in taken THEN 1 ELSE 0)
        BY <2>1
      <3>1. refs[k] = users[k] + (IF k \in taken THEN 1 ELSE 0)  OBVIOUS
      <3>2. refs[k] \in Int /\ users[k] \in Int  BY <2>3
      <3>3. refs'[k] - users'[k] = refs[k] - users[k] /\ users'[k] \in Int /\ refs'[k] \in Int
        BY <2>4
      <3>4. ASSUME NEW r \in Int, NEW u \in Int, NEW a \in Int, NEW b \in Int, NEW x \in Int,
                   a = b + x, r - u = a - b
            PROVE  r = u + x
        BY <3>4
      <3>. QED  BY <3>1, <3>2, <3>3, <3>4
    <2>. QED  BY <2>2, <2>5
  <1>11. CASE \E c \in lingering : CloseCard(c)  BY <1>10, <1>11 DEF CloseCard
  <1>12. CASE UNCHANGED vars  BY <1>10, <1>12 DEF vars
  <1>. QED  BY <1>1, <1>2, <1>3, <1>4, <1>5, <1>6, <1>7, <1>8, <1>9, <1>11, <1>12 DEF Next

(* The first free place and the first free card are one number when the    *)
(* cards given out are those of the places taken.                          *)
LEMMA SameNumber ==
    ASSUME SlotsInv, Numbered, Calm({"race", "held"}), others = {},
           NEW d \in Pdev, at[d] = "pick"
    PROVE  Lowest((0 .. Cardinality(Cards)) \ Cards) = gpuId[d]
  <1>. DEFINE top == Cardinality(Cards)
              free == (0 .. top) \ Cards
              places == Slot \ taken
  <1>1. top \in Nat  BY CardsFinite, FS_CardinalityType DEF SlotsInv
  <1>2. free # {}  BY CardsFinite, CardIsFree DEF SlotsInv
  <1>3. Cards \cap Nat = taken
    <2>1. d \in Midway  BY DEF Midway
    <2>2. \A e \in Pdev : at[e] \in {"bound", "out"} \/ e = d
      BY <2>1 DEF SlotsInv, OneMidway, Calm, Midway
    <2>3. \A e \in Pdev : IF at[e] = "bound" THEN card[e] = gpuId[e] ELSE card[e] = -1
      BY <2>2 DEF Numbered
    <2>4. \A e \in Bound : gpuId[e] \in Nat
      BY DEF Bound, SlotsInv, TypeInv, Placed, Slot
    <2>5. taken = {gpuId[e] : e \in Bound}
      BY DEF SlotsInv, SlotsMatchDevices, Calm
    <2>6. Cards = {card[e] : e \in Pdev}  BY DEF Cards, Numbered
    <2>. QED  BY <2>3, <2>4, <2>5, <2>6 DEF Bound
  <1>4. gpuId[d] = Lowest(places) /\ gpuId[d] \in places
    BY DEF SlotsInv, OneMidway, Calm, TypeInv, Placed
  <1>5. places \in SUBSET Nat /\ free \in SUBSET Nat  BY <1>1 DEF Slot
  <1>. DEFINE place == Lowest(places)
              number == Lowest(free)
  <1>6. place \in places /\ \A n \in places : place <= n
    <2>. HIDE DEF places
    <2>. QED  BY <1>4, <1>5, LowestIsLeast
  <1>7. number \in free /\ \A n \in free : number <= n
    <2>. HIDE DEF free
    <2>. QED  BY <1>2, <1>5, LowestIsLeast
  <1>8. place \in Nat /\ number \in Nat  BY <1>5, <1>6, <1>7
  <1>. HIDE DEF place, number, top
  <1>9. number <= place
    <2>1. CASE place <= top
      <3>1. place \in free  BY <1>1, <1>3, <1>6, <1>8, <2>1
      <3>. QED  BY <1>7, <3>1
    <2>2. CASE place > top  BY <1>1, <1>7, <1>8, <2>2
    <2>. QED  BY <1>1, <1>8, <2>1, <2>2
  <1>10. place <= number
    <2>1. number \in Slot  BY <1>6, <1>8, <1>9, StubAssumption DEF Slot
    <2>2. number \in places  BY <1>3, <1>7, <1>8, <2>1
    <2>. QED  BY <1>6, <2>2
  <1>11. place = number  BY <1>8, <1>9, <1>10
  <1>. QED  BY <1>4, <1>11 DEF place, number, top

(* Cards keep the numbers of their places.                                 *)
LEMMA NumberedInductive == StubInv /\ [Next]_vars => Numbered'
  <1>. SUFFICES ASSUME StubInv, [Next]_vars PROVE Numbered'  OBVIOUS
  <1>. USE DEF StubInv, SlotsInv, TypeInv, TypeOK, Numbered, Calm, cardVars, cdevVars, Note
  <1>1. ASSUME NEW d \in Pdev, ProbeRegister(d)  PROVE Numbered'
    <2>. SUFFICES ASSUME trouble \cap {"race", "held"} = {}, others = {} PROVE Numbered'
      BY <1>1 DEF ProbeRegister
    <2>1. card' = [card EXCEPT ![d] = gpuId[d]]
      BY <1>1, SameNumber DEF ProbeRegister
    <2>. QED  BY <1>1, <2>1 DEF ProbeRegister
  <1>2. CASE Load \/ Unload \/ ExitDone  BY <1>2 DEF Load, Unload, ExitDone
  <1>3. ASSUME NEW d \in Pdev, ProbePick(d)  PROVE Numbered'
    BY <1>3 DEF ProbePick
  <1>4. ASSUME NEW d \in Pdev, ProbeFail(d)  PROVE Numbered'
    BY <1>4 DEF ProbeFail
  <1>5. ASSUME NEW d \in Pdev, ProbeCdev(d) \/ RemoveNode(d)  PROVE Numbered'
    BY <1>5 DEF ProbeCdev, RemoveNode
  <1>6. ASSUME NEW d \in Pdev, RemoveCard(d)  PROVE Numbered'
    BY <1>6 DEF RemoveCard
  <1>7. ASSUME NEW n \in Slot, OpenNode(n) \/ CloseNode(n)  PROVE Numbered'
    BY <1>7 DEF OpenNode, CloseNode
  <1>8. CASE \E c \in lingering : CloseCard(c)  BY <1>8 DEF CloseCard
  <1>9. CASE UNCHANGED vars  BY <1>9 DEF vars
  <1>. QED  BY <1>1, <1>2, <1>3, <1>4, <1>5, <1>6, <1>7, <1>8, <1>9 DEF Next

(* All of it holds always.                                                 *)
LEMMA StubInvariant == Spec => []StubInv
  <1>1. Init => StubInv
    <2>. SUFFICES ASSUME Init PROVE StubInv  OBVIOUS
    <2>1. TypeInv
      BY StubAssumption, FS_EmptySet DEF Init, TypeInv, TypeOK, Placed, Places
    <2>2. OneMidway /\ Numbered
      BY DEF Init, OneMidway, Numbered, Midway
    <2>3. SlotsMatchDevices /\ CdevReferences
      BY DEF Init, SlotsMatchDevices, CdevReferences, Bound
    <2>. QED  BY <2>1, <2>2, <2>3 DEF StubInv, SlotsInv
  <1>2. StubInv /\ [Next]_vars => StubInv'
    BY SlotsInductive, NumberedInductive DEF StubInv
  <1>. QED  BY <1>1, <1>2, PTL DEF Spec

(* Every variable stays in its set; a device that is bound has a place.    *)
THEOREM TypeCorrect == Spec => []TypeOK
  BY StubInvariant, PTL DEF StubInv, SlotsInv, TypeInv

(* mtgpu_pci_probe and mtgpu_pci_remove keep one place for each bound      *)
(* device and none for another, unless a probe meets a probe or a remove.  *)
THEOREM SlotsAlwaysMatch == Spec => []SlotsMatchDevices
  BY StubInvariant, PTL DEF StubInv, SlotsInv

(* The references to a cdev's kobject balance, unless besides a cdev is    *)
(* initialised while a file of its last device is open.                    *)
THEOREM ReferencesAlwaysBalance == Spec => []CdevReferences
  BY StubInvariant, PTL DEF StubInv, SlotsInv

(* mtgpu.N and card N are of one device, which sgpu_initialize_gpu takes   *)
(* for granted, unless another driver has a card or one lingers.           *)
THEOREM AlwaysSameDevice == Spec => []SameDevice
  <1>1. StubInv => SameDevice
    BY DEF StubInv, Numbered, SameDevice, Bound, Calm
  <1>. QED  BY <1>1, StubInvariant, PTL
=============================================================================
