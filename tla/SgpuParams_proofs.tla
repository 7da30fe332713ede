-------------------------- MODULE SgpuParams_proofs --------------------------
(***************************************************************************)
(* What SgpuParams computes for every size and for every value of its      *)
(* constants.                                                              *)
(***************************************************************************)
EXTENDS SgpuParams, FiniteSetTheorems, TLAPS

(* sgpu_memsize_node_write: a request of up to 16 GB is rounded to one of  *)
(* the sizes a board can have, to none below the request, and to the least *)
(* of those.                                                               *)
THEOREM RoundUpLeast ==
    ASSUME NEW size \in Nat, size <= Limit
    PROVE  /\ RoundUp(size) \in Allowed
           /\ size <= RoundUp(size)
           /\ \A s \in Allowed : size <= s => RoundUp(size) <= s
  BY ParamsAssumption DEF RoundUp, Allowed, Limit, GB

(* mtml_memory_ioctl: the code told for a size that memsize can set stands *)
(* for that size and for no other, and fits the byte of ddrSize_.          *)
THEOREM DdrCodeExact ==
    ASSUME NEW size \in Allowed
    PROVE  /\ DdrCode(size) \in Codes
           /\ size = IF DdrCode(size) = 129 THEN Half ELSE DdrCode(size) * GB
  <1>. Half \in Nat /\ Half > 0  BY ParamsAssumption
  <1>1. CASE size = Half  BY <1>1 DEF DdrCode, Codes, GB
  <1>2. ASSUME NEW k \in {1, 2, 4, 8, 16}, size = k * GB
        PROVE  DdrCode(size) = k
    <2>1. size \div GB = k  BY <1>2 DEF GB
    <2>2. size >= GB  BY <1>2 DEF GB
    <2>. QED  BY <2>1, <2>2 DEF DdrCode
  <1>3. ASSUME NEW k \in {1, 2, 4, 8, 16}, size = k * GB
        PROVE  /\ DdrCode(size) \in Codes
               /\ size = IF DdrCode(size) = 129 THEN Half ELSE DdrCode(size) * GB
    BY <1>2, <1>3 DEF Codes
  <1>4. size \in {Half, 1 * GB, 2 * GB, 4 * GB, 8 * GB, 16 * GB}
    BY DEF Allowed, GB
  <1>. QED  BY <1>1, <1>3, <1>4

-----------------------------------------------------------------------------
SchedStates ==
    {Out, [at |-> "awake"]}
    \cup [at : {"half"}, read : Bounds, value : Int, crossed : BOOLEAN]
    \cup [at : {"sleep"}, min : Int, max : Int, crossed : BOOLEAN]

SliceTypes ==
    /\ slice \in [Bounds -> Int]
    /\ sched \in SchedStates
    /\ call = [c \in Caller |-> call[c]]
    /\ \A c \in Caller : At(c, {"set", "setmin"}) => call[c].value \in Int

(* While no two setters have met: the bounds are 500 apart but between the *)
(* two stores of the one setter there is, which are made of its argument,  *)
(* and a scheduler that no store has crossed has read one of them.         *)
SliceStored ==
    "torn" \notin trouble =>
        /\ ~HalfStored => slice.min = slice.max - 500
        /\ \A c \in Caller : At(c, {"setmin"}) => slice.max = call[c].value * 1000
        /\ \A c, d \in Caller : At(c, {"setmin"}) /\ At(d, {"setmin"}) => c = d
        /\ sched.at = "half" /\ ~sched.crossed =>
              ~HalfStored /\ sched.value = slice[sched.read]
        /\ sched.at = "sleep" /\ ~sched.crossed => sched.min <= sched.max

SliceInv == SliceTypes /\ SliceStored

(* A step that has nothing to do with the slice.                           *)
Elsewhere ==
    /\ UNCHANGED <<slice, sched>>
    /\ "torn" \in trouble' <=> "torn" \in trouble
    /\ call' = [c \in Caller |-> call'[c]]
    /\ \A c \in Caller :
          /\ At(c, {"setmin"})' <=> At(c, {"setmin"})
          /\ At(c, {"setmin"}) => call'[c] = call[c]
          /\ At(c, {"set"})' => call'[c] = call[c] \/ call'[c].value \in Int

(* Such a step keeps what the proof says of the slice.                     *)
LEMMA ElsewhereKeeps == SliceInv /\ Elsewhere => SliceInv'
  <1>. SUFFICES ASSUME SliceInv, Elsewhere PROVE SliceInv'  OBVIOUS
  <1>1. HalfStored' <=> HalfStored  BY DEF HalfStored, Elsewhere
  <1>2. SliceTypes'  BY DEF SliceInv, SliceTypes, Elsewhere, At
  <1>3. SliceStored'  BY <1>1 DEF SliceInv, SliceStored, Elsewhere
  <1>. QED  BY <1>2, <1>3 DEF SliceInv

(* A call that stays away from "setmin" goes Elsewhere.                    *)
LEMMA GotoElsewhere ==
    ASSUME SliceInv, NEW c \in Caller, NEW state, Goto(c, state),
           ~At(c, {"setmin"}), state.at # "setmin",
           state.at = "set" => state.value \in Int,
           UNCHANGED <<slice, sched>>, "torn" \in trouble' <=> "torn" \in trouble
    PROVE  SliceInv'
  <1>1. call = [d \in Caller |-> call[d]]  BY DEF SliceInv, SliceTypes
  <1>2. DOMAIN call = Caller  BY <1>1
  <1>3. call' = [d \in Caller |-> IF d = c THEN state ELSE call[d]]
    BY <1>2 DEF Goto
  <1>4. call' = [d \in Caller |-> call'[d]]  BY <1>3
  <1>5. \A d \in Caller : call'[d] = IF d = c THEN state ELSE call[d]
    BY <1>3
  <1>6. Elsewhere  BY <1>4, <1>5 DEF Elsewhere, At
  <1>. QED  BY <1>6, ElsewhereKeeps

(* Every call but a slice's stores and memsize only moves itself.          *)
LEMMA OtherCalls ==
    ASSUME SliceInv, NEW c \in Caller,
           \/ \E i \in Inst : MeminfoFree(c, i) \/ HeapInfo(c, i) \/ DeviceInfo(c, i)
           \/ MeminfoTasks(c) \/ Take(c) \/ PostInfo(c)
           \/ \E v \in SliceInputs : SliceCheck(c, v)
    PROVE  SliceInv'
  <1>. USE DEF Begins, Idle, At, gpuVars
  <1>1. ASSUME NEW i \in Inst, MeminfoFree(c, i)  PROVE SliceInv'
    BY <1>1, GotoElsewhere DEF MeminfoFree
  <1>2. ASSUME NEW i \in Inst, HeapInfo(c, i)  PROVE SliceInv'
    BY <1>2, GotoElsewhere DEF HeapInfo
  <1>3. ASSUME NEW i \in Inst, DeviceInfo(c, i)  PROVE SliceInv'
    BY <1>3, GotoElsewhere DEF DeviceInfo, Note
  <1>4. CASE MeminfoTasks(c)  BY <1>4, GotoElsewhere DEF MeminfoTasks
  <1>5. CASE Take(c)  BY <1>5, GotoElsewhere DEF Take
  <1>6. CASE PostInfo(c)  BY <1>6, GotoElsewhere DEF PostInfo
  <1>7. ASSUME NEW v \in SliceInputs, SliceCheck(c, v)  PROVE SliceInv'
    BY <1>7, GotoElsewhere DEF SliceCheck
  <1>. QED  BY <1>1, <1>2, <1>3, <1>4, <1>5, <1>6, <1>7

(* The steps that move the figures of an instance go Elsewhere too.        *)
LEMMA LedgerSteps ==
    ASSUME SliceInv, NEW i \in Inst,
           \/ Create(i) \/ Destroy(i)
           \/ \E t \in Task : TaskOpen(i, t) \/ Charge(i, t) \/ Refund(i, t) \/ TaskClose(i, t)
    PROVE  SliceInv'
  <1>1. call' = call \/ call' = Moved(i)
    BY DEF Create, Destroy, TaskOpen, Charge, Refund, TaskClose
  <1>2. UNCHANGED <<slice, sched, trouble>>
    BY DEF Create, Destroy, TaskOpen, Charge, Refund, TaskClose, gpuVars
  <1>3. call' = [c \in Caller |-> call'[c]]
    BY <1>1 DEF SliceInv, SliceTypes, Moved
  <1>4. \A c \in Caller :
          At(c, {"set", "setmin"})' \/ At(c, {"set", "setmin"}) => call'[c] = call[c]
    BY <1>1 DEF Moved, At
  <1>5. Elsewhere  BY <1>2, <1>3, <1>4 DEF Elsewhere, At
  <1>. QED  BY <1>5, ElsewhereKeeps

(* memsize moves its own call and marks those that read the instance.      *)
LEMMA MemsizeSteps ==
    ASSUME SliceInv, NEW c \in Caller,
           \/ \E i \in Inst, size \in SizeInputs : MemsizeWrite(c, i, size)
           \/ MemsizeDone(c)
    PROVE  SliceInv'
  <1>1. PICK i, state : /\ call' = [Moved(i) EXCEPT ![c] = state]
                        /\ ~At(c, {"set", "setmin"}) /\ state.at \notin {"set", "setmin"}
    BY DEF MemsizeWrite, MemsizeDone, Begins, Idle, At
  <1>2. UNCHANGED <<slice, sched, trouble>>
    BY DEF MemsizeWrite, MemsizeDone, gpuVars
  <1>3. call' = [d \in Caller |-> IF d = c THEN state ELSE Moved(i)[d]]
    BY <1>1 DEF Moved
  <1>4. call' = [d \in Caller |-> call'[d]]  BY <1>3
  <1>5. \A d \in Caller :
          At(d, {"set", "setmin"})' \/ At(d, {"set", "setmin"}) => call'[d] = call[d]
    BY <1>1, <1>3 DEF Moved, At
  <1>6. Elsewhere  BY <1>2, <1>4, <1>5 DEF Elsewhere, At
  <1>. QED  BY <1>6, ElsewhereKeeps

(* A store crosses a scheduler that is between its reads, and no other.    *)
LEMMA CrossedTypes ==
    ASSUME sched \in SchedStates, Crossed
    PROVE  /\ sched' \in SchedStates
           /\ sched'.at = "half" => sched'.crossed
           /\ sched'.at = "sleep" => sched' = sched
  <1>1. CASE sched.at = "half"
    <2>1. sched \in [at : {"half"}, read : Bounds, value : Int, crossed : BOOLEAN]
      BY <1>1 DEF SchedStates, Out
    <2>2. sched' = [at |-> "half", read |-> sched.read, value |-> sched.value, crossed |-> TRUE]
      BY <1>1, <2>1 DEF Crossed
    <2>. QED  BY <2>1, <2>2 DEF SchedStates
  <1>2. CASE sched.at # "half"  BY <1>2 DEF Crossed
  <1>. QED  BY <1>1, <1>2

(* The first store of a setter: the bounds are apart by another amount     *)
(* now, but the setter is on its way to the second one; with another       *)
(* setter on its way the two have met.                                     *)
LEMMA MaximumStored ==
    ASSUME SliceInv, NEW c \in Caller, SliceMaximum(c)
    PROVE  SliceInv'
  <1>. DEFINE state == [at |-> "setmin", value |-> call[c].value]
  <1>1. call' = [d \in Caller |-> IF d = c THEN state ELSE call[d]]
    BY DEF SliceInv, SliceTypes, SliceMaximum, Goto
  <1>2. call' = [d \in Caller |-> call'[d]]  BY <1>1
  <1>3. call'[c] = state /\ \A d \in Caller : d # c => call'[d] = call[d]
    BY <1>1
  <1>4. At(c, {"set"}) /\ call[c].value \in Int
    BY DEF SliceMaximum, SliceInv, SliceTypes, At
  <1>5. slice' \in [Bounds -> Int] /\ slice'.max = call[c].value * 1000
    BY <1>4 DEF SliceMaximum, SliceInv, SliceTypes, Bounds
  <1>6. SliceTypes'
    <2>1. \A d \in Caller : At(d, {"set", "setmin"})' => call'[d].value \in Int
      BY <1>3, <1>4 DEF SliceInv, SliceTypes, At
    <2>2. sched' \in SchedStates  BY CrossedTypes DEF SliceMaximum, SliceInv, SliceTypes
    <2>. QED  BY <1>2, <1>5, <2>1, <2>2 DEF SliceTypes
  <1>7. ASSUME "torn" \notin trouble'  PROVE "torn" \notin trouble /\ ~HalfStored
    BY <1>7 DEF SliceMaximum, Note
  <1>8. sched'.at = "half" => sched'.crossed
    BY CrossedTypes DEF SliceMaximum, SliceInv, SliceTypes
  <1>9. sched'.at = "sleep" => sched' = sched
    BY CrossedTypes DEF SliceMaximum, SliceInv, SliceTypes
  <1>10. HalfStored'  BY <1>3 DEF HalfStored, At
  <1>11. ASSUME "torn" \notin trouble', NEW d \in Caller, At(d, {"setmin"})'
         PROVE  d = c
    BY <1>3, <1>7, <1>11 DEF HalfStored, At
  <1>12. SliceStored'
    BY <1>3, <1>5, <1>7, <1>8, <1>9, <1>10, <1>11 DEF SliceStored, SliceInv
  <1>. QED  BY <1>6, <1>12 DEF SliceInv

(* The second store: the only setter there is leaves the bounds 500 apart. *)
LEMMA MinimumStored ==
    ASSUME SliceInv, NEW c \in Caller, SliceMinimum(c)
    PROVE  SliceInv'
  <1>1. call' = [d \in Caller |-> IF d = c THEN Idle ELSE call[d]]
    BY DEF SliceInv, SliceTypes, SliceMinimum, Goto
  <1>2. call' = [d \in Caller |-> call'[d]]  BY <1>1
  <1>3. call'[c] = Idle /\ \A d \in Caller : d # c => call'[d] = call[d]
    BY <1>1
  <1>4. At(c, {"setmin"}) /\ call[c].value \in Int
    BY DEF SliceMinimum, SliceInv, SliceTypes, At
  <1>5. PICK upper \in {call[c].value * 1000, slice.max} :
          slice' = [slice EXCEPT !.min = upper - 500]
    BY DEF SliceMinimum
  <1>6. slice.max \in Int  BY DEF SliceInv, SliceTypes, Bounds
  <1>7. slice' \in [Bounds -> Int] /\ slice'.max = slice.max /\ slice'.min = upper - 500
    BY <1>4, <1>5, <1>6 DEF SliceInv, SliceTypes, Bounds
  <1>8. SliceTypes'
    <2>1. \A d \in Caller : At(d, {"set", "setmin"})' => call'[d].value \in Int
      BY <1>3 DEF SliceInv, SliceTypes, At, Idle
    <2>2. sched' \in SchedStates  BY CrossedTypes DEF SliceMinimum, SliceInv, SliceTypes
    <2>. QED  BY <1>2, <1>7, <2>1, <2>2 DEF SliceTypes
  <1>9. trouble' = trouble  BY DEF SliceMinimum
  <1>10. sched'.at = "half" => sched'.crossed
    BY CrossedTypes DEF SliceMinimum, SliceInv, SliceTypes
  <1>11. sched'.at = "sleep" => sched' = sched
    BY CrossedTypes DEF SliceMinimum, SliceInv, SliceTypes
  <1>12. ASSUME "torn" \notin trouble  PROVE slice'.min = slice'.max - 500
    BY <1>4, <1>5, <1>7, <1>12 DEF SliceInv, SliceStored
  <1>13. ASSUME "torn" \notin trouble, NEW d \in Caller  PROVE ~At(d, {"setmin"})'
    BY <1>3, <1>4, <1>13 DEF SliceInv, SliceStored, At, Idle
  <1>14. SliceStored'
    BY <1>9, <1>10, <1>11, <1>12, <1>13 DEF SliceStored, SliceInv
  <1>. QED  BY <1>8, <1>14 DEF SliceInv

(* The scheduler's own steps: two reads that no store has crossed give the *)
(* two bounds as they are.                                                 *)
LEMMA SchedSteps ==
    ASSUME SliceInv,
           SchedWake \/ SchedReadOther \/ SchedLeave \/ \E b \in Bounds : SchedReadOne(b)
    PROVE  SliceInv'
  <1>1. UNCHANGED <<slice, call, trouble>>
    BY DEF SchedWake, SchedReadOther, SchedLeave, SchedReadOne
  <1>2. HalfStored' <=> HalfStored  BY <1>1 DEF HalfStored, At
  <1>. SUFFICES
         /\ sched' \in SchedStates
         /\ "torn" \notin trouble =>
              /\ sched'.at = "half" /\ ~sched'.crossed =>
                    ~HalfStored /\ sched'.value = slice[sched'.read]
              /\ sched'.at = "sleep" /\ ~sched'.crossed => sched'.min <= sched'.max
    BY <1>1, <1>2 DEF SliceInv, SliceTypes, SliceStored, At
  <1>3. CASE SchedWake \/ SchedLeave
    BY <1>3 DEF SchedWake, SchedLeave, SchedStates, Out
  <1>4. ASSUME NEW b \in Bounds, SchedReadOne(b)
        PROVE  /\ sched' \in [at : {"half"}, read : Bounds, value : Int, crossed : BOOLEAN]
               /\ ~sched'.crossed => ~HalfStored /\ sched'.value = slice[sched'.read]
    BY <1>4 DEF SchedReadOne, SliceInv, SliceTypes, HalfStored
  <1>5. CASE SchedReadOther
    <2>1. sched \in [at : {"half"}, read : Bounds, value : Int, crossed : BOOLEAN]
      BY <1>5 DEF SchedReadOther, SliceInv, SliceTypes, SchedStates, Out
    <2>. DEFINE both == [slice EXCEPT ![sched.read] = sched.value]
    <2>2. both \in [Bounds -> Int]  BY <2>1 DEF SliceInv, SliceTypes
    <2>3. sched' = [at |-> "sleep", min |-> both.min, max |-> both.max, crossed |-> sched.crossed]
      BY <1>5 DEF SchedReadOther
    <2>4. both.min \in Int /\ both.max \in Int  BY <2>2 DEF Bounds
    <2>5. sched' \in [at : {"sleep"}, min : Int, max : Int, crossed : BOOLEAN]
      BY <2>1, <2>3, <2>4
    <2>6. ASSUME "torn" \notin trouble, ~sched.crossed  PROVE both.min <= both.max
      <3>1. sched.at = "half"  BY <2>1
      <3>2. ~HalfStored /\ sched.value = slice[sched.read]
        BY <2>6, <3>1 DEF SliceInv, SliceStored
      <3>3. slice.min = slice.max - 500  BY <2>6, <3>2 DEF SliceInv, SliceStored
      <3>4. slice.min \in Int /\ slice.max \in Int
        BY DEF SliceInv, SliceTypes, Bounds
      <3>5. both = slice  BY <3>2 DEF SliceInv, SliceTypes
      <3>. QED  BY <3>3, <3>4, <3>5
    <2>. QED  BY <2>3, <2>5, <2>6 DEF SchedStates
  <1>. QED  BY <1>3, <1>4, <1>5 DEF SchedStates

(* The slice the scheduler sleeps for is a proper range, for any number of *)
(* callers and any numbers written, while no setters meet and no store     *)
(* falls between its two reads.                                            *)
THEOREM SliceAlwaysOrdered == Spec => []SliceOrdered
  <1>1. Init => SliceInv
    BY DEF Init, SliceInv, SliceTypes, SliceStored, SchedStates, Bounds, Out, Idle, At, HalfStored
  <1>2. SliceInv /\ [Next]_vars => SliceInv'
    <2>. SUFFICES ASSUME SliceInv, [Next]_vars PROVE SliceInv'  OBVIOUS
    <2>1. CASE UNCHANGED vars
      BY <2>1 DEF vars, gpuVars, SliceInv, SliceTypes, SliceStored, HalfStored, At
    <2>2. CASE Next  BY <2>2, LedgerSteps, MemsizeSteps, OtherCalls, MaximumStored,
                        MinimumStored, SchedSteps DEF Next
    <2>. QED  BY <2>1, <2>2
  <1>3. SliceInv => SliceOrdered  BY DEF SliceInv, SliceStored, SliceOrdered
  <1>. QED  BY <1>1, <1>2, <1>3, PTL DEF Spec

-----------------------------------------------------------------------------
(* What is charged to the tasks of an instance, as they come, are charged, *)
(* are given back and go.                                                  *)
LEMMA UnitsFinite ==
    ASSUME NEW f \in Allocs
    PROVE  IsFiniteSet(Units(f)) /\ Charged(f) \in Nat
  <1>1. DOMAIN f \subseteq Task  BY DEF Allocs
  <1>2. IsFiniteSet(DOMAIN f)  BY <1>1, ParamsAssumption, FS_Subset
  <1>3. IsFiniteSet(1 .. MaxCharge)  BY ParamsAssumption, FS_Interval
  <1>4. IsFiniteSet((DOMAIN f) \X (1 .. MaxCharge))  BY <1>2, <1>3, FS_Product
  <1>5. IsFiniteSet(Units(f))  BY <1>4, FS_Subset DEF Units
  <1>. QED  BY <1>5, FS_CardinalityType DEF Charged

LEMMA NothingCharged == NoTask \in Allocs /\ Charged(NoTask) = 0
  <1>1. NoTask \in [{} -> 0 .. MaxCharge] /\ DOMAIN NoTask = {}  BY DEF NoTask
  <1>2. Units(NoTask) = {}  BY <1>1 DEF Units
  <1>. QED  BY <1>1, <1>2, FS_EmptySet DEF Allocs, Charged

LEMMA OpenCharged ==
    ASSUME NEW f \in Allocs, NEW t \in Task, t \notin DOMAIN f
    PROVE  LET g == [u \in DOMAIN f \cup {t} |-> IF u = t THEN 0 ELSE f[u]]
           IN  g \in Allocs /\ Charged(g) = Charged(f)
  <1>. DEFINE g == [u \in DOMAIN f \cup {t} |-> IF u = t THEN 0 ELSE f[u]]
  <1>1. f \in [DOMAIN f -> 0 .. MaxCharge] /\ DOMAIN f \subseteq Task  BY DEF Allocs
  <1>2. 0 \in 0 .. MaxCharge  BY ParamsAssumption
  <1>3. DOMAIN g = DOMAIN f \cup {t} /\ g \in [DOMAIN f \cup {t} -> 0 .. MaxCharge]
    BY <1>1, <1>2
  <1>4. g \in Allocs  BY <1>1, <1>3 DEF Allocs
  <1>5. g[t] = 0 /\ \A u \in DOMAIN f : g[u] = f[u]  OBVIOUS
  <1>. HIDE DEF g
  <1>6. Units(g) = Units(f)  BY <1>3, <1>5 DEF Units
  <1>. QED  BY <1>4, <1>6 DEF Charged, g

LEMMA ChargeCharged ==
    ASSUME NEW f \in Allocs, NEW t \in DOMAIN f, f[t] < MaxCharge
    PROVE  LET g == [f EXCEPT ![t] = @ + 1]
           IN  g \in Allocs /\ Charged(g) = Charged(f) + 1
  <1>. DEFINE g == [f EXCEPT ![t] = @ + 1]
  <1>1. f \in [DOMAIN f -> 0 .. MaxCharge] /\ DOMAIN f \subseteq Task  BY DEF Allocs
  <1>2. f[t] \in Nat /\ f[t] + 1 \in 1 .. MaxCharge  BY <1>1, ParamsAssumption
  <1>3. /\ DOMAIN g = DOMAIN f /\ g[t] = f[t] + 1
        /\ \A u \in DOMAIN f \ {t} : g[u] = f[u]
    OBVIOUS
  <1>4. g \in [DOMAIN f -> 0 .. MaxCharge]  BY <1>1, <1>2
  <1>5. g \in Allocs  BY <1>1, <1>4 DEF Allocs
  <1>. HIDE DEF g
  <1>6. Units(g) = Units(f) \cup {<<t, f[t] + 1>>}  BY <1>2, <1>3 DEF Units
  <1>7. <<t, f[t] + 1>> \notin Units(f)  BY <1>2 DEF Units
  <1>. QED  BY <1>5, <1>6, <1>7, UnitsFinite, FS_AddElement DEF Charged, g

LEMMA RefundCharged ==
    ASSUME NEW f \in Allocs, NEW t \in DOMAIN f, f[t] > 0
    PROVE  LET g == [f EXCEPT ![t] = @ - 1]
           IN  g \in Allocs /\ Charged(g) = Charged(f) - 1
  <1>. DEFINE g == [f EXCEPT ![t] = @ - 1]
  <1>1. f \in [DOMAIN f -> 0 .. MaxCharge] /\ DOMAIN f \subseteq Task  BY DEF Allocs
  <1>2. f[t] \in 1 .. MaxCharge /\ f[t] - 1 \in 0 .. MaxCharge  BY <1>1, ParamsAssumption
  <1>3. /\ DOMAIN g = DOMAIN f /\ g[t] = f[t] - 1
        /\ \A u \in DOMAIN f \ {t} : g[u] = f[u]
    OBVIOUS
  <1>4. g \in [DOMAIN f -> 0 .. MaxCharge]  BY <1>1, <1>2
  <1>5. g \in Allocs  BY <1>1, <1>4 DEF Allocs
  <1>. HIDE DEF g
  <1>6. Units(g) = Units(f) \ {<<t, f[t]>>}  BY <1>2, <1>3 DEF Units
  <1>7. <<t, f[t]>> \in Units(f)  BY <1>2 DEF Units
  <1>. QED  BY <1>5, <1>6, <1>7, UnitsFinite, FS_RemoveElement DEF Charged, g

LEMMA CloseCharged ==
    ASSUME NEW f \in Allocs, NEW t \in DOMAIN f
    PROVE  LET g == [u \in DOMAIN f \ {t} |-> f[u]]
           IN  g \in Allocs /\ f[t] \in Nat /\ Charged(g) + f[t] = Charged(f)
  <1>. DEFINE g == [u \in DOMAIN f \ {t} |-> f[u]]
              own == {t} \X (1 .. f[t])
  <1>1. f \in [DOMAIN f -> 0 .. MaxCharge] /\ DOMAIN f \subseteq Task  BY DEF Allocs
  <1>2. f[t] \in Nat /\ f[t] <= MaxCharge  BY <1>1, ParamsAssumption
  <1>3. DOMAIN g = DOMAIN f \ {t} /\ \A u \in DOMAIN f \ {t} : g[u] = f[u]  OBVIOUS
  <1>4. g \in [DOMAIN f \ {t} -> 0 .. MaxCharge]  BY <1>1
  <1>5. g \in Allocs  BY <1>1, <1>4 DEF Allocs
  <1>. HIDE DEF g
  <1>6. Units(g) = Units(f) \ own  BY <1>2, <1>3 DEF Units
  <1>7. own \subseteq Units(f)  BY <1>2, ParamsAssumption DEF Units
  <1>8. Cardinality(own) = f[t] /\ IsFiniteSet(own)
    <2>1. IsFiniteSet(1 .. f[t]) /\ Cardinality(1 .. f[t]) = f[t]  BY <1>2, FS_Interval
    <2>2. IsFiniteSet({t}) /\ Cardinality({t}) = 1  BY FS_Singleton
    <2>3. IsFiniteSet(own) /\ Cardinality(own) = 1 * Cardinality(1 .. f[t])
      BY <2>1, <2>2, FS_Product
    <2>. QED  BY <1>2, <2>1, <2>3
  <1>. HIDE DEF own
  <1>9. Units(f) \cap own = own  BY <1>7
  <1>10. Cardinality(Units(f) \ own) = Cardinality(Units(f)) - Cardinality(own)
    BY <1>9, UnitsFinite, FS_Difference
  <1>11. Charged(g) = Charged(f) - f[t]  BY <1>6, <1>8, <1>10 DEF Charged
  <1>12. Charged(f) \in Nat  BY UnitsFinite
  <1>. QED  BY <1>2, <1>5, <1>11, <1>12 DEF g

(* A number has one remainder modulo w, and reducing a summand first does  *)
(* not change a sum modulo w.                                              *)
LEMMA OneRemainder ==
    ASSUME NEW w \in Nat \ {0}, NEW e \in 0 .. w - 1, NEW i \in Int
    PROVE  (e + i * w) % w = e
  <1>. DEFINE q == (e + i * w) \div w
              r == (e + i * w) % w
              n == i - q
  <1>1. i * w \in Int /\ e + i * w \in Int  OBVIOUS
  <1>2. q \in Int /\ r \in 0 .. w - 1 /\ e + i * w = q * w + r  BY <1>1
  <1>3. n \in Int /\ i = q + n  BY <1>2
  <1>. HIDE DEF q, r, n
  <1>4. i * w = q * w + n * w /\ q * w \in Int /\ n * w \in Int  BY <1>2, <1>3
  <1>5. n * w = r - e  BY ONLY <1>2, <1>4, w \in Nat, e \in 0 .. w - 1
  <1>6. n >= 1 => n * w >= w  BY <1>3
  <1>7. n <= -1 => n * w <= -w  BY <1>3
  <1>8. n = 0  BY ONLY <1>2, <1>3, <1>4, <1>5, <1>6, <1>7, w \in Nat, e \in 0 .. w - 1
  <1>9. n * w = 0  BY <1>8
  <1>10. r = e  BY ONLY <1>2, <1>5, <1>9, e \in 0 .. w - 1, w \in Nat
  <1>. QED  BY <1>10 DEF r

LEMMA ModAdd ==
    ASSUME NEW x \in Int, NEW d \in Int, NEW w \in Nat \ {0}
    PROVE  ((x % w) + d) % w = (x + d) % w
  <1>. DEFINE k == x \div w
              j == ((x % w) + d) \div w
              r == ((x % w) + d) % w
              i == k + j
  <1>1. k \in Int /\ j \in Int /\ r \in 0 .. w - 1  OBVIOUS
  <1>2. x = k * w + (x % w) /\ (x % w) + d = j * w + r  OBVIOUS
  <1>3. i \in Int /\ x + d = r + i * w  BY <1>1, <1>2
  <1>. HIDE DEF k, j, r, i
  <1>4. (x + d) % w = r  BY <1>1, <1>3, OneRemainder
  <1>. QED  BY <1>4 DEF r

-----------------------------------------------------------------------------
(* The steps of the processes: the free memory of their instance moves     *)
(* against what its tasks are charged, and the lock keeps them away from   *)
(* a memsize that is being written.                                        *)
LedgerStep(i) ==
    \/ Destroy(i)
    \/ \E t \in Task : TaskOpen(i, t) \/ Charge(i, t) \/ Refund(i, t) \/ TaskClose(i, t)

LEMMA SizesAreWords ==
    /\ WordSize \in Nat \ {0}
    /\ \A s \in Allowed \cup {InitTotal} : s \in Nat /\ s \in Words /\ DdrCode(s) \in Codes
  <1>1. Half \in Nat \ {0} /\ WordSize \in Nat \ {0} /\ 32 * Half < WordSize /\ InitTotal \in 0 .. Half
    BY ParamsAssumption
  <1>2. \A s \in Allowed \cup {InitTotal} : s \in 0 .. 32 * Half
    BY <1>1 DEF Allowed, GB
  <1>3. DdrCode(InitTotal) \in Codes
    BY <1>1 DEF DdrCode, Codes, GB
  <1>4. \A s \in Allowed \cup {InitTotal} : DdrCode(s) \in Codes  BY <1>3, DdrCodeExact
  <1>. QED  BY <1>1, <1>2, <1>4 DEF Words

(* What is free and what the tasks hold stay the same together.            *)
Rebalanced(i) ==
    /\ free' \in [Inst -> Words] /\ alloc' \in [Inst -> Allocs]
    /\ \A j \in Inst \ {i} : free'[j] = free[j] /\ alloc'[j] = alloc[j]
    /\ (free'[i] + Charged(alloc'[i])) % WordSize = (free[i] + Charged(alloc[i])) % WordSize

LEMMA Given ==
    ASSUME TypeOK, NEW i \in Inst, NEW next \in Allocs, NEW d \in Int,
           Charged(next) = Charged(alloc[i]) - d,
           alloc' = [alloc EXCEPT ![i] = next],
           free' = [free EXCEPT ![i] = (free[i] + d) % WordSize]
    PROVE  Rebalanced(i)
  <1>1. /\ WordSize \in Nat \ {0} /\ free \in [Inst -> Words] /\ free[i] \in Int
        /\ alloc \in [Inst -> Allocs] /\ alloc[i] \in Allocs
    BY SizesAreWords DEF TypeOK, Words
  <1>2. Charged(alloc[i]) \in Nat  BY <1>1, UnitsFinite
  <1>. DEFINE x == free[i] + d
              y == Charged(alloc[i]) - d
              new == x % WordSize
  <1>3. x \in Int /\ y \in Int /\ x + y = free[i] + Charged(alloc[i])
    BY <1>1, <1>2
  <1>4. new \in Words  BY <1>1, <1>3 DEF Words
  <1>5. (new + y) % WordSize = (x + y) % WordSize  BY <1>1, <1>3, ModAdd
  <1>6. Charged(next) = y /\ free' = [free EXCEPT ![i] = new]  OBVIOUS
  <1>. HIDE DEF x, y, new
  <1>7. /\ free' \in [Inst -> Words] /\ free'[i] = new
        /\ \A j \in Inst \ {i} : free'[j] = free[j]
    BY <1>1, <1>4, <1>6
  <1>8. /\ alloc' \in [Inst -> Allocs] /\ alloc'[i] = next
        /\ \A j \in Inst \ {i} : alloc'[j] = alloc[j]
    BY <1>1
  <1>. QED  BY <1>3, <1>5, <1>6, <1>7, <1>8 DEF Rebalanced

LEMMA LedgerEffect ==
    ASSUME TypeOK, NEW i \in Inst, LedgerStep(i)
    PROVE  /\ named' \subseteq Inst /\ UNCHANGED <<gpuVars, total, lock, trouble>>
           /\ lock[i] = None /\ Rebalanced(i)
           /\ (call' = Moved(i) \/ (call' = call /\ free' = free))
  <1>1. /\ free \in [Inst -> Words] /\ free[i] \in Int
        /\ alloc \in [Inst -> Allocs] /\ alloc[i] \in Allocs /\ named \subseteq Inst
    BY DEF TypeOK, Words
  <1>2. Charged(alloc[i]) \in Nat  BY <1>1, UnitsFinite
  <1>3. CASE Destroy(i)
    <2>. DEFINE d == Charged(alloc[i])
    <2>1. d \in Int /\ NoTask \in Allocs /\ Charged(NoTask) = Charged(alloc[i]) - d
      BY <1>2, NothingCharged
    <2>2. /\ alloc' = [alloc EXCEPT ![i] = NoTask]
          /\ free' = [free EXCEPT ![i] = (free[i] + d) % WordSize]
      BY <1>3 DEF Destroy
    <2>. HIDE DEF d
    <2>3. Rebalanced(i)  BY <2>1, <2>2, Given
    <2>. QED  BY <1>1, <1>3, <2>3 DEF Destroy
  <1>4. ASSUME NEW t \in Task, TaskOpen(i, t)
        PROVE  Rebalanced(i)
    <2>. DEFINE next == [u \in DOMAIN alloc[i] \cup {t} |-> IF u = t THEN 0 ELSE alloc[i][u]]
    <2>1. next \in Allocs /\ Charged(next) = Charged(alloc[i])
      BY <1>1, <1>4, OpenCharged DEF TaskOpen
    <2>2. alloc' = [alloc EXCEPT ![i] = next] /\ free' = free  BY <1>4 DEF TaskOpen
    <2>. HIDE DEF next
    <2>. QED  BY <1>1, <2>1, <2>2 DEF Rebalanced
  <1>5. ASSUME NEW t \in Task, Charge(i, t)
        PROVE  Rebalanced(i)
    <2>. DEFINE next == [alloc[i] EXCEPT ![t] = @ + 1]
                d == -1
    <2>1. next \in Allocs /\ Charged(next) = Charged(alloc[i]) + 1
      BY <1>1, <1>5, ChargeCharged DEF Charge
    <2>2. alloc' = [alloc EXCEPT ![i] = next]  BY <1>5 DEF Charge
    <2>3. d \in Int /\ free[i] - 1 = free[i] + d /\ Charged(alloc[i]) + 1 = Charged(alloc[i]) - d
      BY <1>1, <1>2
    <2>4. free' = [free EXCEPT ![i] = (free[i] + d) % WordSize]
      BY <1>5, <2>3 DEF Charge
    <2>. HIDE DEF next, d
    <2>. QED  BY <2>1, <2>2, <2>3, <2>4, Given
  <1>6. ASSUME NEW t \in Task, Refund(i, t)
        PROVE  Rebalanced(i)
    <2>. DEFINE next == [alloc[i] EXCEPT ![t] = @ - 1]
                d == 1
    <2>0. next \in Allocs /\ Charged(next) = Charged(alloc[i]) - 1
      BY <1>1, <1>6, RefundCharged DEF Refund
    <2>1. d \in Int /\ next \in Allocs /\ Charged(next) = Charged(alloc[i]) - d
      BY <2>0
    <2>2. alloc' = [alloc EXCEPT ![i] = next]  BY <1>6 DEF Refund
    <2>3. free' = [free EXCEPT ![i] = (free[i] + d) % WordSize]
      BY <1>1, <1>6 DEF Refund
    <2>. HIDE DEF next, d
    <2>. QED  BY <2>1, <2>2, <2>3, Given
  <1>7. ASSUME NEW t \in Task, TaskClose(i, t)
        PROVE  Rebalanced(i)
    <2>. DEFINE next == [u \in DOMAIN alloc[i] \ {t} |-> alloc[i][u]]
                d == alloc[i][t]
    <2>1. next \in Allocs /\ d \in Nat /\ d \in Int /\ Charged(next) + d = Charged(alloc[i])
      BY <1>1, <1>7, CloseCharged DEF TaskClose
    <2>2. alloc' = [alloc EXCEPT ![i] = next]  BY <1>7 DEF TaskClose
    <2>3. free' = [free EXCEPT ![i] = (free[i] + d) % WordSize]
      BY <1>7 DEF TaskClose
    <2>. HIDE DEF next, d
    <2>4. Charged(next) \in Nat  BY <2>1, UnitsFinite
    <2>5. Charged(next) = Charged(alloc[i]) - d  BY <1>2, <2>1, <2>4
    <2>. QED  BY <2>1, <2>2, <2>3, <2>5, Given
  <1>8. CASE ~Destroy(i)
    <2>1. /\ named' = named /\ UNCHANGED <<gpuVars, total, lock, trouble>>
          /\ lock[i] = None /\ (call' = Moved(i) \/ (call' = call /\ free' = free))
      BY <1>8 DEF LedgerStep, TaskOpen, Charge, Refund, TaskClose
    <2>. QED  BY <1>1, <1>4, <1>5, <1>6, <1>7, <1>8, <2>1 DEF LedgerStep
  <1>. QED  BY <1>3, <1>8

-----------------------------------------------------------------------------
(* What a caller carries where it is.                                      *)
LEMMA CallFields ==
    ASSUME TypeOK, NEW c \in Caller
    PROVE  /\ call[c] \in CallStates
           /\ At(c, {"resize", "meminfo", "post"}) => call[c].inst \in Inst
           /\ At(c, {"meminfo"}) =>
                 /\ call[c] = [at |-> "meminfo", inst |-> call[c].inst,
                               free |-> call[c].free, moved |-> call[c].moved]
                 /\ call[c].free \in Words /\ call[c].moved \in BOOLEAN
           /\ At(c, {"set", "setmin"}) => call[c].value \in 1 .. 99
  <1>1. call[c] \in CallStates  BY DEF TypeOK
  <1>2. At(c, {"resize", "meminfo", "post"}) => call[c].inst \in Inst
    BY <1>1 DEF CallStates, At, Idle
  <1>3. At(c, {"meminfo"}) =>
           call[c] \in [at : {"meminfo"}, inst : Inst, free : Words, moved : BOOLEAN]
    BY <1>1 DEF CallStates, At, Idle
  <1>4. At(c, {"set", "setmin"}) => call[c].value \in 1 .. 99
    BY <1>1 DEF CallStates, At, Idle
  <1>. QED  BY <1>1, <1>2, <1>3, <1>4

LEMMA GotoTypes ==
    ASSUME TypeOK, NEW c \in Caller, NEW state \in CallStates, Goto(c, state)
    PROVE  /\ call' \in [Caller -> CallStates]
           /\ call'[c] = state /\ \A d \in Caller \ {c} : call'[d] = call[d]
  BY DEF TypeOK, Goto

(* A caller whose figures moved keeps its place, its instance and, unless  *)
(* it is the meminfo node of that instance, all else.                      *)
LEMMA MovedTypes ==
    ASSUME TypeOK, NEW i \in Inst
    PROVE  /\ Moved(i) \in [Caller -> CallStates]
           /\ \A c \in Caller :
                 \/ Moved(i)[c] = call[c] /\ ~(At(c, {"meminfo"}) /\ call[c].inst = i)
                 \/ /\ At(c, {"meminfo"}) /\ Moved(i)[c].at = "meminfo"
                    /\ Moved(i)[c].inst = call[c].inst /\ Moved(i)[c].moved
  <1>1. ASSUME NEW c \in Caller, At(c, {"meminfo"}), call[c].inst = i
        PROVE  [at |-> "meminfo", inst |-> i, free |-> call[c].free, moved |-> TRUE]
                  \in CallStates
    BY <1>1, CallFields DEF CallStates
  <1>2. \A c \in Caller : call[c] \in CallStates  BY CallFields
  <1>. QED  BY <1>1, <1>2 DEF Moved

(* A step of memsize: its caller goes on, the others' figures moved.       *)
LEMMA MovedGoto ==
    ASSUME TypeOK, NEW i \in Inst, NEW c \in Caller, NEW state \in CallStates,
           call' = [Moved(i) EXCEPT ![c] = state]
    PROVE  /\ call' \in [Caller -> CallStates] /\ call'[c] = state
           /\ \A d \in Caller \ {c} : call'[d] = Moved(i)[d]
  BY MovedTypes

-----------------------------------------------------------------------------
(* Every variable has its type.  The lower bound of a slice is a number    *)
(* because the upper one is at least a thousand, always.                   *)
Floor == slice.max >= 1000

LEMMA CrossedNat ==
    ASSUME TypeOK, Crossed
    PROVE  sched' \in {Out, [at |-> "awake"]}
              \cup [at : {"half"}, read : Bounds, value : Nat, crossed : BOOLEAN]
              \cup [at : {"sleep"}, min : Nat, max : Nat, crossed : BOOLEAN]
  <1>1. CASE sched.at = "half"
    <2>1. sched \in [at : {"half"}, read : Bounds, value : Nat, crossed : BOOLEAN]
      BY <1>1 DEF TypeOK, Out
    <2>2. sched' = [at |-> "half", read |-> sched.read, value |-> sched.value, crossed |-> TRUE]
      BY <1>1, <2>1 DEF Crossed
    <2>. QED  BY <2>1, <2>2
  <1>2. CASE sched.at # "half"  BY <1>2 DEF Crossed, TypeOK
  <1>. QED  BY <1>1, <1>2

(* The calls that leave the instances alone.                               *)
LEMMA CallTypes ==
    ASSUME TypeOK, NEW c \in Caller, NEW state \in CallStates, Goto(c, state),
           UNCHANGED instVars, UNCHANGED <<arch, slice, sched>>,
           memTotal' \in Understood \cup {0}, ddr' \in Codes,
           trouble' \subseteq {"mixed", "torn"}
    PROVE  TypeOK'
  <1>1. call' \in [Caller -> CallStates]  BY GotoTypes
  <1>. QED  BY <1>1 DEF TypeOK, instVars

LEMMA TypesKept == TypeOK /\ Floor /\ [Next]_vars => TypeOK' /\ Floor'
  <1>. SUFFICES ASSUME TypeOK, Floor, [Next]_vars PROVE TypeOK' /\ Floor'  OBVIOUS
  <1>1. CASE UNCHANGED vars
    BY <1>1 DEF vars, gpuVars, instVars, TypeOK, Floor
  <1>2. ASSUME NEW i \in Inst, Create(i)  PROVE TypeOK' /\ Floor'
    BY <1>2 DEF Create, TypeOK, Floor, gpuVars
  <1>3. ASSUME NEW i \in Inst, LedgerStep(i)  PROVE TypeOK' /\ Floor'
    <2>1. call' \in [Caller -> CallStates]
      BY <1>3, LedgerEffect, MovedTypes DEF TypeOK
    <2>2. /\ named' \subseteq Inst /\ UNCHANGED <<gpuVars, total, lock, trouble>>
          /\ free' \in [Inst -> Words] /\ alloc' \in [Inst -> Allocs]
      BY <1>3, LedgerEffect DEF Rebalanced
    <2>. QED  BY <2>1, <2>2 DEF TypeOK, Floor, gpuVars
  <1>4. ASSUME NEW c \in Caller, NEW i \in Inst, NEW size \in SizeInputs, MemsizeWrite(c, i, size)
        PROVE  TypeOK' /\ Floor'
    <2>1. [at |-> "resize", inst |-> i] \in CallStates  BY DEF CallStates
    <2>2. call' \in [Caller -> CallStates]  BY <1>4, <2>1, MovedGoto DEF MemsizeWrite
    <2>3. size \in Nat /\ size <= Limit  BY <1>4, ParamsAssumption DEF MemsizeWrite
    <2>4. RoundUp(size) \in Allowed  BY <2>3, RoundUpLeast
    <2>5. total' \in [Inst -> Allowed \cup {InitTotal}]  BY <1>4, <2>4 DEF MemsizeWrite, TypeOK
    <2>6. lock' \in [Inst -> Caller \cup {None}]  BY <1>4 DEF MemsizeWrite, TypeOK
    <2>. QED  BY <1>4, <2>2, <2>5, <2>6 DEF MemsizeWrite, TypeOK, Floor, gpuVars
  <1>5. ASSUME NEW c \in Caller, MemsizeDone(c)  PROVE TypeOK' /\ Floor'
    <2>. DEFINE i == call[c].inst
    <2>1. i \in Inst /\ Idle \in CallStates  BY <1>5, CallFields DEF MemsizeDone, At, CallStates
    <2>2. call' \in [Caller -> CallStates]  BY <1>5, <2>1, MovedGoto DEF MemsizeDone
    <2>3. total[i] \in Words  BY <2>1, SizesAreWords DEF TypeOK
    <2>4. free' \in [Inst -> Words] /\ lock' \in [Inst -> Caller \cup {None}]
      BY <1>5, <2>1, <2>3 DEF MemsizeDone, TypeOK
    <2>. QED  BY <1>5, <2>2, <2>4 DEF MemsizeDone, TypeOK, Floor, gpuVars
  <1>6. ASSUME NEW c \in Caller, NEW i \in Inst, MeminfoFree(c, i)  PROVE TypeOK' /\ Floor'
    <2>1. [at |-> "meminfo", inst |-> i, free |-> free[i], moved |-> FALSE] \in CallStates
      BY DEF CallStates, TypeOK
    <2>. QED  BY <1>6, <2>1, CallTypes DEF MeminfoFree, gpuVars, TypeOK, Floor
  <1>7. ASSUME NEW i \in Inst  PROVE total[i] \in Words /\ Charged(alloc[i]) \in Nat
    BY SizesAreWords, UnitsFinite DEF TypeOK
  <1>8. ASSUME NEW c \in Caller, MeminfoTasks(c)  PROVE TypeOK' /\ Floor'
    <2>. DEFINE i == call[c].inst
    <2>1. i \in Inst /\ call[c].free \in Words /\ call[c].moved \in BOOLEAN
      BY <1>8, CallFields DEF MeminfoTasks, At
    <2>2. PICK short \in BOOLEAN :
            Goto(c, [at |-> "told", total |-> total[i], free |-> call[c].free,
                     charged |-> IF short THEN 0 ELSE Charged(alloc[i]),
                     moved |-> call[c].moved, short |-> short])
      BY <1>8 DEF MeminfoTasks
    <2>3. [at |-> "told", total |-> total[i], free |-> call[c].free,
           charged |-> IF short THEN 0 ELSE Charged(alloc[i]),
           moved |-> call[c].moved, short |-> short] \in CallStates
      BY <1>7, <2>1 DEF CallStates
    <2>. QED  BY <1>8, <2>2, <2>3, CallTypes DEF MeminfoTasks, gpuVars, TypeOK, Floor
  <1>9. ASSUME NEW c \in Caller, NEW i \in Inst, HeapInfo(c, i)  PROVE TypeOK' /\ Floor'
    <2>1. [at |-> "told", total |-> total[i], free |-> free[i],
           charged |-> Charged(alloc[i]), moved |-> FALSE, short |-> FALSE] \in CallStates
      BY <1>7 DEF CallStates, TypeOK
    <2>. QED  BY <1>9, <2>1, CallTypes DEF HeapInfo, gpuVars, TypeOK, Floor
  <1>10. ASSUME NEW c \in Caller, Take(c)  PROVE TypeOK' /\ Floor'
    <2>1. Idle \in CallStates  BY DEF CallStates
    <2>. QED  BY <1>10, <2>1, CallTypes DEF Take, gpuVars, TypeOK, Floor
  <1>11. ASSUME NEW c \in Caller, NEW i \in Inst, DeviceInfo(c, i)  PROVE TypeOK' /\ Floor'
    <2>1. [at |-> "post", inst |-> i] \in CallStates  BY DEF CallStates
    <2>2. Board \in Codes  BY ParamsAssumption DEF Codes
    <2>3. trouble' \subseteq {"mixed", "torn"}  BY <1>11 DEF DeviceInfo, Note, TypeOK
    <2>. QED  BY <1>11, <2>1, <2>2, <2>3, CallTypes DEF DeviceInfo, TypeOK, Floor
  <1>12. ASSUME NEW c \in Caller, PostInfo(c)  PROVE TypeOK' /\ Floor'
    <2>. DEFINE i == call[c].inst
    <2>1. i \in Inst  BY <1>12, CallFields DEF PostInfo, At
    <2>2. total[i] \in Words /\ DdrCode(total[i]) \in Codes
      BY <2>1, SizesAreWords DEF TypeOK
    <2>3. [at |-> "answer", code |-> DdrCode(total[i]), size |-> total[i]] \in CallStates
      BY <2>2 DEF CallStates
    <2>4. ddr' \in Codes  BY <1>12, <2>2 DEF PostInfo, TypeOK
    <2>5. memTotal' \in Understood \cup {0}  BY <1>12 DEF PostInfo, TypeOK
    <2>. QED  BY <1>12, <2>3, <2>4, <2>5, CallTypes DEF PostInfo, TypeOK, Floor
  <1>13. ASSUME NEW c \in Caller, NEW v \in SliceInputs, SliceCheck(c, v)  PROVE TypeOK' /\ Floor'
    <2>1. [at |-> "set", value |-> v] \in CallStates  BY <1>13 DEF SliceCheck, CallStates
    <2>. QED  BY <1>13, <2>1, CallTypes DEF SliceCheck, gpuVars, TypeOK, Floor
  <1>14. ASSUME NEW c \in Caller, SliceMaximum(c)  PROVE TypeOK' /\ Floor'
    <2>1. call[c].value \in 1 .. 99  BY <1>14, CallFields DEF SliceMaximum, At
    <2>2. [at |-> "setmin", value |-> call[c].value] \in CallStates  BY <2>1 DEF CallStates
    <2>3. call' \in [Caller -> CallStates]  BY <1>14, <2>2, GotoTypes DEF SliceMaximum
    <2>4. call[c].value * 1000 \in Nat /\ call[c].value * 1000 >= 1000  BY <2>1
    <2>5. slice' \in [Bounds -> Nat] /\ slice'.max >= 1000
      BY <1>14, <2>4 DEF SliceMaximum, TypeOK, Bounds
    <2>6. trouble' \subseteq {"mixed", "torn"}  BY <1>14 DEF SliceMaximum, Note, TypeOK
    <2>. QED  BY <1>14, <2>3, <2>5, <2>6, CrossedNat DEF SliceMaximum, TypeOK, Floor, instVars
  <1>15. ASSUME NEW c \in Caller, SliceMinimum(c)  PROVE TypeOK' /\ Floor'
    <2>1. call[c].value \in 1 .. 99  BY <1>15, CallFields DEF SliceMinimum, At
    <2>2. Idle \in CallStates  BY DEF CallStates
    <2>3. call' \in [Caller -> CallStates]  BY <1>15, <2>2, GotoTypes DEF SliceMinimum
    <2>4. PICK upper \in {call[c].value * 1000, slice.max} :
             slice' = [slice EXCEPT !.min = upper - 500]
      BY <1>15 DEF SliceMinimum
    <2>5. slice \in [Bounds -> Nat] /\ slice.max \in Nat  BY DEF TypeOK, Bounds
    <2>6. upper - 500 \in Nat  BY <2>1, <2>4, <2>5 DEF Floor
    <2>7. slice' \in [Bounds -> Nat] /\ slice'.max = slice.max
      BY <2>4, <2>5, <2>6 DEF Bounds
    <2>. QED  BY <1>15, <2>3, <2>7, CrossedNat DEF SliceMinimum, TypeOK, Floor, instVars
  <1>16. CASE SchedWake \/ SchedLeave
    BY <1>16 DEF SchedWake, SchedLeave, instVars, TypeOK, Floor, Out
  <1>17. ASSUME NEW b \in Bounds, SchedReadOne(b)  PROVE TypeOK' /\ Floor'
    <2>1. sched' \in [at : {"half"}, read : Bounds, value : Nat, crossed : BOOLEAN]
      BY <1>17 DEF SchedReadOne, TypeOK, HalfStored
    <2>. QED  BY <1>17, <2>1 DEF SchedReadOne, instVars, TypeOK, Floor
  <1>18. CASE SchedReadOther
    <2>1. sched \in [at : {"half"}, read : Bounds, value : Nat, crossed : BOOLEAN]
      BY <1>18 DEF SchedReadOther, TypeOK, Out
    <2>. DEFINE both == [slice EXCEPT ![sched.read] = sched.value]
    <2>2. both \in [Bounds -> Nat]  BY <2>1 DEF TypeOK
    <2>3. both.min \in Nat /\ both.max \in Nat  BY <2>2 DEF Bounds
    <2>4. sched' \in [at : {"sleep"}, min : Nat, max : Nat, crossed : BOOLEAN]
      BY <1>18, <2>1, <2>3 DEF SchedReadOther
    <2>. QED  BY <1>18, <2>4 DEF SchedReadOther, instVars, TypeOK, Floor
  <1>. QED
    BY <1>1, <1>2, <1>3, <1>4, <1>5, <1>6, <1>8, <1>9, <1>10, <1>11, <1>12, <1>13, <1>14,
       <1>15, <1>16, <1>17, <1>18 DEF Next, LedgerStep

-----------------------------------------------------------------------------
(* The figures of an instance outside its lock add up to its size modulo   *)
(* the width of a word; inside it is the one caller that writes memsize,   *)
(* and no task is listed.  A meminfo node whose figures have not moved     *)
(* holds what is free still, so that what it adds up later fits.           *)
Accounts ==
    /\ \A i \in Inst : lock[i] = None => (free[i] + Charged(alloc[i])) % WordSize = total[i]
    /\ \A c \in Caller : At(c, {"resize"}) => lock[call[c].inst] = c
    /\ \A i \in Inst : lock[i] # None =>
          /\ lock[i] \in Caller /\ At(lock[i], {"resize"}) /\ call[lock[i]].inst = i
          /\ alloc[i] = NoTask
    /\ \A c \in Caller : At(c, {"meminfo"}) /\ ~call[c].moved => call[c].free = free[call[c].inst]
    /\ RepliesAgree

(* Any call but memsize, given that what it carries away fits.             *)
LEMMA GotoAccounts ==
    ASSUME TypeOK, Accounts, NEW c \in Caller, NEW state \in CallStates, Goto(c, state),
           ~At(c, {"resize"}), state.at # "resize",
           state.at = "meminfo" => state.free = free[state.inst],
           state.at = "told" /\ ~state.moved /\ ~state.short =>
              (state.free + state.charged) % WordSize = state.total,
           UNCHANGED <<total, free, alloc, lock>>
    PROVE  Accounts'
  <1>1. call'[c] = state /\ \A d \in Caller \ {c} : call'[d] = call[d]  BY GotoTypes
  <1>2. \A i \in Inst : lock'[i] = None =>
          (free'[i] + Charged(alloc'[i])) % WordSize = total'[i]
    BY DEF Accounts
  <1>3. \A d \in Caller : At(d, {"resize"})' => lock'[call'[d].inst] = d
    BY <1>1 DEF Accounts, At
  <1>4. ASSUME NEW i \in Inst, lock'[i] # None
        PROVE  /\ lock'[i] \in Caller /\ At(lock[i], {"resize"})' /\ call'[lock'[i]].inst = i
               /\ alloc'[i] = NoTask
    BY <1>1, <1>4 DEF Accounts, At
  <1>5. \A d \in Caller : At(d, {"meminfo"})' /\ ~call'[d].moved =>
          call'[d].free = free'[call'[d].inst]
    BY <1>1 DEF Accounts, At
  <1>6. RepliesAgree'  BY <1>1 DEF Accounts, RepliesAgree, At
  <1>. QED  BY <1>2, <1>3, <1>4, <1>5, <1>6 DEF Accounts, At

(* What the processes do keeps them together, and says so to the meminfo   *)
(* nodes that have read one of the figures.                                *)
LEMMA LedgerAccounts ==
    ASSUME TypeOK, Accounts, NEW i \in Inst, LedgerStep(i)
    PROVE  Accounts'
  <1>1. /\ UNCHANGED <<total, lock>> /\ lock[i] = None /\ Rebalanced(i)
        /\ call' = Moved(i) \/ (call' = call /\ free' = free)
    BY LedgerEffect
  <1>2. \A c \in Caller :
          \/ call'[c] = call[c]
             /\ (At(c, {"meminfo"}) => free'[call[c].inst] = free[call[c].inst])
          \/ /\ At(c, {"meminfo"}) /\ call'[c].at = "meminfo" /\ call'[c].moved
    <2>1. \A c \in Caller : At(c, {"meminfo"}) => call[c].inst \in Inst  BY CallFields DEF At
    <2>. QED  BY <1>1, <2>1, MovedTypes DEF Rebalanced
  <1>3. \A j \in Inst : lock'[j] = None =>
          (free'[j] + Charged(alloc'[j])) % WordSize = total'[j]
    BY <1>1 DEF Accounts, Rebalanced
  <1>4. \A c \in Caller : At(c, {"resize"})' => lock'[call'[c].inst] = c
    BY <1>1, <1>2 DEF Accounts, At
  <1>5. ASSUME NEW j \in Inst, lock'[j] # None
        PROVE  /\ lock'[j] \in Caller /\ At(lock[j], {"resize"})' /\ call'[lock'[j]].inst = j
               /\ alloc'[j] = NoTask
    BY <1>1, <1>2, <1>5 DEF Accounts, At, Rebalanced
  <1>6. \A c \in Caller : At(c, {"meminfo"})' /\ ~call'[c].moved =>
          call'[c].free = free'[call'[c].inst]
    BY <1>2 DEF Accounts, At
  <1>7. RepliesAgree'  BY <1>2 DEF Accounts, RepliesAgree, At
  <1>. QED  BY <1>1, <1>3, <1>4, <1>5, <1>6, <1>7 DEF Accounts, At

LEMMA WriteAccounts ==
    ASSUME TypeOK, Accounts, NEW c \in Caller, NEW i \in Inst, NEW size \in SizeInputs,
           MemsizeWrite(c, i, size)
    PROVE  Accounts'
  <1>. DEFINE state == [at |-> "resize", inst |-> i]
  <1>1. state \in CallStates /\ state.at = "resize" /\ state.inst = i  BY DEF CallStates
  <1>2. /\ call' = [Moved(i) EXCEPT ![c] = state] /\ lock[i] = None /\ alloc[i] = NoTask
        /\ call[c].at = "idle" /\ UNCHANGED <<free, alloc>> /\ c # None
    BY ParamsAssumption DEF MemsizeWrite, Begins, Idle
  <1>3. /\ lock'[i] = c /\ \A j \in Inst \ {i} : lock'[j] = lock[j] /\ total'[j] = total[j]
    BY DEF MemsizeWrite, TypeOK
  <1>. HIDE DEF state
  <1>4. call'[c] = state /\ \A d \in Caller \ {c} : call'[d] = Moved(i)[d]
    BY <1>1, <1>2, MovedGoto
  <1>5. \A d \in Caller \ {c} :
          \/ call'[d] = call[d]
          \/ /\ At(d, {"meminfo"}) /\ call'[d].at = "meminfo" /\ call'[d].moved
    BY <1>4, MovedTypes
  <1>6. \A d \in Caller : At(d, {"resize"}) => call[d].inst \in Inst \ {i}
    <2>1. ASSUME NEW d \in Caller, At(d, {"resize"})  PROVE call[d].inst \in Inst \ {i}
      <3>1. call[d].inst \in Inst /\ lock[call[d].inst] = d /\ d # None
        BY <2>1, CallFields, ParamsAssumption DEF Accounts, At
      <3>. QED  BY <1>2, <3>1
    <2>. QED  BY <2>1
  <1>7. \A j \in Inst : lock'[j] = None =>
          (free'[j] + Charged(alloc'[j])) % WordSize = total'[j]
    BY <1>2, <1>3 DEF Accounts
  <1>8. \A d \in Caller : At(d, {"resize"})' => lock'[call'[d].inst] = d
    BY <1>1, <1>3, <1>4, <1>5, <1>6 DEF Accounts, At
  <1>9. ASSUME NEW j \in Inst, lock'[j] # None
        PROVE  /\ lock'[j] \in Caller /\ call'[lock'[j]].at = "resize" /\ call'[lock'[j]].inst = j
               /\ alloc'[j] = NoTask
    <2>1. CASE j = i  BY <1>1, <1>2, <1>3, <1>4, <2>1
    <2>2. CASE j # i
      <3>1. lock[j] # None /\ lock'[j] = lock[j]  BY <1>3, <1>9, <2>2
      <3>2. /\ lock[j] \in Caller /\ call[lock[j]].at = "resize" /\ call[lock[j]].inst = j
            /\ alloc[j] = NoTask
        BY <3>1 DEF Accounts, At
      <3>3. lock[j] # c  BY <1>2, <3>2
      <3>4. call'[lock[j]] = call[lock[j]]  BY <1>5, <3>2, <3>3 DEF At
      <3>. QED  BY <1>2, <3>1, <3>2, <3>4
    <2>. QED  BY <2>1, <2>2
  <1>10. \A d \in Caller : At(d, {"meminfo"})' /\ ~call'[d].moved =>
          call'[d].free = free'[call'[d].inst]
    BY <1>1, <1>2, <1>4, <1>5 DEF Accounts, At
  <1>11. RepliesAgree'  BY <1>1, <1>4, <1>5 DEF Accounts, RepliesAgree, At
  <1>. QED  BY <1>7, <1>8, <1>9, <1>10, <1>11 DEF Accounts, At

LEMMA DoneAccounts ==
    ASSUME TypeOK, Accounts, NEW c \in Caller, MemsizeDone(c)
    PROVE  Accounts'
  <1>. DEFINE i == call[c].inst
  <1>1. i \in Inst /\ Idle \in CallStates /\ lock[i] = c /\ c # None
    BY CallFields, ParamsAssumption DEF MemsizeDone, At, CallStates, Accounts
  <1>2. call' = [Moved(i) EXCEPT ![c] = Idle] /\ UNCHANGED <<total, alloc>>
    BY DEF MemsizeDone
  <1>3. /\ free'[i] = total[i] /\ \A j \in Inst \ {i} : free'[j] = free[j]
        /\ lock'[i] = None /\ \A j \in Inst \ {i} : lock'[j] = lock[j]
    BY <1>1 DEF MemsizeDone, TypeOK
  <1>4. alloc[i] = NoTask  BY <1>1 DEF Accounts
  <1>. HIDE DEF i
  <1>5. call'[c] = Idle /\ \A d \in Caller \ {c} : call'[d] = Moved(i)[d]
    BY <1>1, <1>2, MovedGoto
  <1>6. \A d \in Caller \ {c} :
          \/ call'[d] = call[d] /\ ~(At(d, {"meminfo"}) /\ call[d].inst = i)
          \/ /\ At(d, {"meminfo"}) /\ call'[d].at = "meminfo" /\ call'[d].moved
    BY <1>1, <1>5, MovedTypes
  <1>7. (free'[i] + Charged(alloc'[i])) % WordSize = total'[i]
    <2>1. total[i] \in 0 .. WordSize - 1 /\ WordSize \in Nat \ {0}
      BY <1>1, SizesAreWords DEF TypeOK, Words
    <2>2. Charged(alloc[i]) = 0  BY <1>4, NothingCharged
    <2>. QED  BY <1>2, <1>3, <2>1, <2>2
  <1>8. \A j \in Inst : lock'[j] = None =>
          (free'[j] + Charged(alloc'[j])) % WordSize = total'[j]
    BY <1>2, <1>3, <1>7 DEF Accounts
  <1>9. ASSUME NEW d \in Caller, call'[d].at = "resize"  PROVE lock'[call'[d].inst] = d
    <2>1. d # c /\ call'[d] = call[d] /\ At(d, {"resize"})
      BY <1>5, <1>6, <1>9 DEF Idle, At
    <2>2. call[d].inst \in Inst /\ lock[call[d].inst] = d
      BY <2>1, CallFields DEF Accounts, At
    <2>. QED  BY <1>1, <1>3, <2>1, <2>2
  <1>10. ASSUME NEW j \in Inst, lock'[j] # None
        PROVE  /\ lock'[j] \in Caller /\ call'[lock'[j]].at = "resize" /\ call'[lock'[j]].inst = j
               /\ alloc'[j] = NoTask
    <2>1. j # i /\ lock'[j] = lock[j]  BY <1>3, <1>10
    <2>2. /\ lock[j] \in Caller /\ call[lock[j]].at = "resize" /\ call[lock[j]].inst = j
          /\ alloc[j] = NoTask
      BY <1>10, <2>1 DEF Accounts, At
    <2>3. lock[j] # c  BY <2>1, <2>2 DEF i
    <2>4. call'[lock[j]] = call[lock[j]]  BY <1>6, <2>2, <2>3 DEF At
    <2>. QED  BY <1>2, <2>1, <2>2, <2>4
  <1>11. ASSUME NEW d \in Caller, call'[d].at = "meminfo", ~call'[d].moved
         PROVE  call'[d].free = free'[call'[d].inst]
    <2>1. d # c /\ call'[d] = call[d] /\ At(d, {"meminfo"}) /\ call[d].inst # i
      BY <1>5, <1>6, <1>11 DEF Idle, At
    <2>2. call[d].inst \in Inst /\ call[d].free = free[call[d].inst]
      BY <1>11, <2>1, CallFields DEF Accounts, At
    <2>. QED  BY <1>3, <2>1, <2>2
  <1>12. RepliesAgree'  BY <1>5, <1>6 DEF Accounts, RepliesAgree, At, Idle
  <1>. QED  BY <1>8, <1>9, <1>10, <1>11, <1>12 DEF Accounts, At

LEMMA AccountsKept == TypeOK /\ Accounts /\ [Next]_vars => Accounts'
  <1>. SUFFICES ASSUME TypeOK, Accounts, [Next]_vars PROVE Accounts'  OBVIOUS
  <1>. USE DEF At
  <1>1. ASSUME UNCHANGED <<call, total, free, alloc, lock>>  PROVE Accounts'
    BY <1>1 DEF Accounts, RepliesAgree
  <1>2. ASSUME NEW i \in Inst, Create(i)  PROVE Accounts'
    BY <1>1, <1>2 DEF Create
  <1>3. CASE \/ UNCHANGED vars \/ SchedWake \/ SchedReadOther \/ SchedLeave
             \/ \E b \in Bounds : SchedReadOne(b)
    BY <1>1, <1>3 DEF vars, instVars, SchedWake, SchedReadOther, SchedLeave, SchedReadOne
  <1>4. ASSUME NEW i \in Inst  PROVE total[i] \in Words /\ Charged(alloc[i]) \in Nat
    BY SizesAreWords, UnitsFinite DEF TypeOK
  <1>5. Idle \in CallStates /\ Idle.at = "idle"  BY DEF CallStates, Idle
  <1>6. ASSUME NEW c \in Caller, NEW i \in Inst, MeminfoFree(c, i)  PROVE Accounts'
    <2>1. [at |-> "meminfo", inst |-> i, free |-> free[i], moved |-> FALSE] \in CallStates
      BY DEF CallStates, TypeOK
    <2>. QED  BY <1>5, <1>6, <2>1, GotoAccounts DEF MeminfoFree, Begins, instVars
  <1>7. ASSUME NEW c \in Caller, MeminfoTasks(c)  PROVE Accounts'
    <2>. DEFINE i == call[c].inst
                state(short) == [at |-> "told", total |-> total[i], free |-> call[c].free,
                                 charged |-> IF short THEN 0 ELSE Charged(alloc[i]),
                                 moved |-> call[c].moved, short |-> short]
    <2>1. /\ i \in Inst /\ call[c].free \in Words /\ call[c].moved \in BOOLEAN
          /\ lock[i] = None /\ ~At(c, {"resize"}) /\ UNCHANGED <<total, free, alloc, lock>>
          /\ At(c, {"meminfo"})
      BY <1>7, CallFields DEF MeminfoTasks, instVars
    <2>2. PICK short \in BOOLEAN : Goto(c, state(short))  BY <1>7 DEF MeminfoTasks
    <2>. DEFINE told == state(short)
    <2>3. told \in CallStates /\ told.at = "told"  BY <1>4, <2>1 DEF CallStates
    <2>4. ~told.moved /\ ~told.short => (told.free + told.charged) % WordSize = told.total
      BY <2>1 DEF Accounts
    <2>5. Goto(c, told)  BY <2>2
    <2>. HIDE DEF told
    <2>. QED  BY <2>1, <2>3, <2>4, <2>5, GotoAccounts
  <1>8. ASSUME NEW c \in Caller, NEW i \in Inst, HeapInfo(c, i)  PROVE Accounts'
    <2>. DEFINE state == [at |-> "told", total |-> total[i], free |-> free[i],
                          charged |-> Charged(alloc[i]), moved |-> FALSE, short |-> FALSE]
    <2>1. state \in CallStates  BY <1>4 DEF CallStates, TypeOK
    <2>2. lock[i] = None /\ call[c] = Idle /\ UNCHANGED <<total, free, alloc, lock>> /\ Goto(c, state)
      BY <1>8 DEF HeapInfo, Begins, instVars
    <2>3. state.at = "told"  OBVIOUS
    <2>4. (state.free + state.charged) % WordSize = state.total  BY <2>2 DEF Accounts
    <2>. HIDE DEF state
    <2>. QED  BY <1>5, <2>1, <2>2, <2>3, <2>4, GotoAccounts
  <1>9. ASSUME NEW c \in Caller, NEW state \in CallStates, Goto(c, state), UNCHANGED instVars,
               call[c].at # "resize", state.at \notin {"resize", "meminfo", "told"}
        PROVE  Accounts'
    BY <1>9, GotoAccounts DEF instVars
  <1>10. ASSUME NEW c \in Caller, Take(c)  PROVE Accounts'
    BY <1>5, <1>9, <1>10 DEF Take
  <1>11. ASSUME NEW c \in Caller, NEW i \in Inst, DeviceInfo(c, i)  PROVE Accounts'
    <2>1. [at |-> "post", inst |-> i] \in CallStates  BY DEF CallStates
    <2>. QED  BY <1>5, <1>9, <1>11, <2>1 DEF DeviceInfo, Begins
  <1>12. ASSUME NEW c \in Caller, PostInfo(c)  PROVE Accounts'
    <2>. DEFINE i == call[c].inst
    <2>1. i \in Inst  BY <1>12, CallFields DEF PostInfo
    <2>2. total[i] \in Words /\ DdrCode(total[i]) \in Codes
      BY <2>1, SizesAreWords DEF TypeOK
    <2>3. [at |-> "answer", code |-> DdrCode(total[i]), size |-> total[i]] \in CallStates
      BY <2>2 DEF CallStates
    <2>. QED  BY <1>9, <1>12, <2>3 DEF PostInfo
  <1>13. ASSUME NEW c \in Caller, NEW v \in SliceInputs, SliceCheck(c, v)  PROVE Accounts'
    <2>1. [at |-> "set", value |-> v] \in CallStates  BY <1>13 DEF SliceCheck, CallStates
    <2>. QED  BY <1>5, <1>9, <1>13, <2>1 DEF SliceCheck, Begins
  <1>14. ASSUME NEW c \in Caller, SliceMaximum(c)  PROVE Accounts'
    <2>1. call[c].value \in 1 .. 99  BY <1>14, CallFields DEF SliceMaximum
    <2>2. [at |-> "setmin", value |-> call[c].value] \in CallStates  BY <2>1 DEF CallStates
    <2>. QED  BY <1>9, <1>14, <2>2 DEF SliceMaximum
  <1>15. ASSUME NEW c \in Caller, SliceMinimum(c)  PROVE Accounts'
    BY <1>5, <1>9, <1>15 DEF SliceMinimum
  <1>. QED
    BY <1>2, <1>3, <1>6, <1>7, <1>8, <1>10, <1>11, <1>12, <1>13, <1>14, <1>15,
       LedgerAccounts, WriteAccounts, DoneAccounts DEF Next, LedgerStep

-----------------------------------------------------------------------------
(* While no two device info calls are under way on a board with one buffer *)
(* for all, that buffer has the board's figures until the answer is made,  *)
(* and the instance's after it.                                            *)
Infos ==
    /\ \A c \in Caller : At(c, {"answer"}) => call[c].code = DdrCode(call[c].size)
    /\ arch = "SUDI" \/ "mixed" \notin trouble => memTotal \in {0, Board}
    /\ arch # "SUDI" /\ "mixed" \notin trouble =>
          /\ \A c, d \in Caller : At(c, {"post", "answer"}) /\ At(d, {"post", "answer"}) => c = d
          /\ \A c \in Caller : At(c, {"post"}) => ddr = Board
          /\ \A c \in Caller : At(c, {"answer"}) => ddr = DdrCode(call[c].size)

(* Every step but those of the device info, and the answer it gives.       *)
Uninformed ==
    /\ UNCHANGED <<arch, memTotal, ddr>>
    /\ "mixed" \in trouble' <=> "mixed" \in trouble
    /\ \A c \in Caller : At(c, {"post", "answer"})' => call'[c] = call[c]

LEMMA UninformedKeeps == Infos /\ Uninformed => Infos'
  BY DEF Infos, Uninformed, At

LEMMA GotoUninformed ==
    ASSUME TypeOK, NEW c \in Caller, NEW state \in CallStates, Goto(c, state),
           state.at \notin {"post", "answer"},
           UNCHANGED <<arch, memTotal, ddr>>, "mixed" \in trouble' <=> "mixed" \in trouble
    PROVE  Uninformed
  BY GotoTypes DEF Uninformed, At

LEMMA InfosKept == TypeOK /\ Infos /\ [Next]_vars => Infos'
  <1>. SUFFICES ASSUME TypeOK, Infos, [Next]_vars PROVE Infos'  OBVIOUS
  <1>. USE DEF At
  <1>1. CASE \/ UNCHANGED vars \/ SchedWake \/ SchedReadOther \/ SchedLeave
             \/ \E b \in Bounds : SchedReadOne(b)
             \/ \E i \in Inst : Create(i)
    <2>1. UNCHANGED <<arch, memTotal, ddr, trouble, call>>
      BY <1>1 DEF vars, gpuVars, SchedWake, SchedReadOther, SchedLeave, SchedReadOne, Create
    <2>. QED  BY <2>1, UninformedKeeps DEF Uninformed
  <1>2. ASSUME NEW i \in Inst, LedgerStep(i)  PROVE Infos'
    <2>1. UNCHANGED <<arch, memTotal, ddr, trouble>> /\ (call' = call \/ call' = Moved(i))
      BY <1>2, LedgerEffect DEF gpuVars
    <2>2. Uninformed  BY <2>1, MovedTypes DEF Uninformed
    <2>. QED  BY <2>2, UninformedKeeps
  <1>3. ASSUME NEW c \in Caller,
               MemsizeDone(c) \/ \E i \in Inst, size \in SizeInputs : MemsizeWrite(c, i, size)
        PROVE  Infos'
    <2>1. PICK i \in Inst, state \in {Idle} \cup [at : {"resize"}, inst : Inst] :
             call' = [Moved(i) EXCEPT ![c] = state]
      BY <1>3, CallFields DEF MemsizeWrite, MemsizeDone
    <2>2. state \in CallStates /\ state.at \notin {"post", "answer"}
      BY <2>1 DEF CallStates, Idle
    <2>3. call'[c] = state /\ \A d \in Caller \ {c} : call'[d] = Moved(i)[d]
      BY <2>1, <2>2, MovedGoto
    <2>4. UNCHANGED <<arch, memTotal, ddr, trouble>>
      BY <1>3 DEF MemsizeWrite, MemsizeDone, gpuVars
    <2>5. Uninformed  BY <2>2, <2>3, <2>4, MovedTypes DEF Uninformed
    <2>. QED  BY <2>5, UninformedKeeps
  <1>4. Idle \in CallStates /\ Idle.at = "idle"  BY DEF CallStates, Idle
  <1>5. ASSUME NEW i \in Inst
        PROVE  total[i] \in Words /\ Charged(alloc[i]) \in Nat /\ DdrCode(total[i]) \in Codes
    BY SizesAreWords, UnitsFinite DEF TypeOK
  <1>6. ASSUME NEW c \in Caller, NEW state \in CallStates, Goto(c, state),
               state.at \notin {"post", "answer"},
               UNCHANGED <<arch, memTotal, ddr>>, "mixed" \in trouble' <=> "mixed" \in trouble
        PROVE  Infos'
    BY <1>6, GotoUninformed, UninformedKeeps
  <1>7. ASSUME NEW c \in Caller, NEW i \in Inst, MeminfoFree(c, i)  PROVE Infos'
    <2>1. [at |-> "meminfo", inst |-> i, free |-> free[i], moved |-> FALSE] \in CallStates
      BY DEF CallStates, TypeOK
    <2>. QED  BY <1>6, <1>7, <2>1 DEF MeminfoFree, gpuVars
  <1>8. ASSUME NEW c \in Caller, MeminfoTasks(c)  PROVE Infos'
    <2>. DEFINE i == call[c].inst
    <2>1. i \in Inst /\ call[c].free \in Words /\ call[c].moved \in BOOLEAN
      BY <1>8, CallFields DEF MeminfoTasks
    <2>2. PICK short \in BOOLEAN :
            Goto(c, [at |-> "told", total |-> total[i], free |-> call[c].free,
                     charged |-> IF short THEN 0 ELSE Charged(alloc[i]),
                     moved |-> call[c].moved, short |-> short])
      BY <1>8 DEF MeminfoTasks
    <2>3. [at |-> "told", total |-> total[i], free |-> call[c].free,
           charged |-> IF short THEN 0 ELSE Charged(alloc[i]),
           moved |-> call[c].moved, short |-> short] \in CallStates
      BY <1>5, <2>1 DEF CallStates
    <2>. QED  BY <1>6, <1>8, <2>2, <2>3 DEF MeminfoTasks, gpuVars
  <1>9. ASSUME NEW c \in Caller, NEW i \in Inst, HeapInfo(c, i)  PROVE Infos'
    <2>1. [at |-> "told", total |-> total[i], free |-> free[i],
           charged |-> Charged(alloc[i]), moved |-> FALSE, short |-> FALSE] \in CallStates
      BY <1>5 DEF CallStates, TypeOK
    <2>. QED  BY <1>6, <1>9, <2>1 DEF HeapInfo, gpuVars
  <1>10. ASSUME NEW c \in Caller, Take(c)  PROVE Infos'
    BY <1>4, <1>6, <1>10 DEF Take, gpuVars
  <1>11. ASSUME NEW c \in Caller, NEW v \in SliceInputs, SliceCheck(c, v)  PROVE Infos'
    <2>1. [at |-> "set", value |-> v] \in CallStates  BY <1>11 DEF SliceCheck, CallStates
    <2>. QED  BY <1>6, <1>11, <2>1 DEF SliceCheck, gpuVars
  <1>12. ASSUME NEW c \in Caller, SliceMaximum(c)  PROVE Infos'
    <2>1. call[c].value \in 1 .. 99  BY <1>12, CallFields DEF SliceMaximum
    <2>2. [at |-> "setmin", value |-> call[c].value] \in CallStates  BY <2>1 DEF CallStates
    <2>. QED  BY <1>6, <1>12, <2>2 DEF SliceMaximum, Note
  <1>13. ASSUME NEW c \in Caller, SliceMinimum(c)  PROVE Infos'
    BY <1>4, <1>6, <1>13 DEF SliceMinimum
  <1>14. ASSUME NEW c \in Caller, NEW i \in Inst, DeviceInfo(c, i)  PROVE Infos'
    <2>. DEFINE state == [at |-> "post", inst |-> i]
    <2>1. state \in CallStates /\ state.at = "post"  BY DEF CallStates
    <2>2. Goto(c, state) /\ ddr' = Board /\ UNCHANGED <<arch, memTotal>>  BY <1>14 DEF DeviceInfo
    <2>. HIDE DEF state
    <2>3. call'[c] = state /\ \A d \in Caller \ {c} : call'[d] = call[d]
      BY <2>1, <2>2, GotoTypes
    <2>4. ASSUME "mixed" \notin trouble'
          PROVE  "mixed" \notin trouble /\ \A d \in Caller : ~At(d, {"post", "answer"})
      BY <1>14, <2>4 DEF DeviceInfo, Note
    <2>5. "mixed" \in trouble => "mixed" \in trouble'  BY <1>14 DEF DeviceInfo, Note
    <2>. QED  BY <2>1, <2>2, <2>3, <2>4, <2>5 DEF Infos
  <1>15. ASSUME NEW c \in Caller, PostInfo(c)  PROVE Infos'
    <2>. DEFINE i == call[c].inst
                state == [at |-> "answer", code |-> DdrCode(total[i]), size |-> total[i]]
    <2>1. i \in Inst  BY <1>15, CallFields DEF PostInfo
    <2>2. state \in CallStates  BY <1>5, <2>1 DEF CallStates
    <2>3. state.at = "answer" /\ state.code = DdrCode(state.size) /\ state.size = total[i]
      OBVIOUS
    <2>4. /\ Goto(c, state) /\ At(c, {"post"}) /\ UNCHANGED <<arch, trouble>>
          /\ ddr' = (IF arch = "QUYUAN" THEN DdrCode(total[i]) ELSE ddr)
          /\ memTotal' \in {Found(i), memTotal}
      BY <1>15 DEF PostInfo
    <2>. HIDE DEF state
    <2>5. call'[c] = state /\ \A d \in Caller \ {c} : call'[d] = call[d]
      BY <2>2, <2>4, GotoTypes
    <2>6. arch \in {"SUDI", "QUYUAN"}  BY ParamsAssumption DEF TypeOK
    <2>7. arch = "SUDI" \/ "mixed" \notin trouble => Found(i) = Board
      BY <2>4, <2>6 DEF Found, Infos
    <2>8. arch = "SUDI" \/ "mixed" \notin trouble => memTotal' \in {0, Board}
      BY <2>4, <2>7 DEF Infos
    <2>9. arch # "SUDI" => ddr' = DdrCode(state.size)  BY <2>3, <2>4, <2>6
    <2>10. \A d \in Caller : At(d, {"answer"})' => call'[d].code = DdrCode(call'[d].size)
      BY <2>3, <2>5 DEF Infos
    <2>11. ASSUME arch # "SUDI", "mixed" \notin trouble, NEW d \in Caller, d # c
           PROVE  ~At(d, {"post", "answer"})' /\ ~At(d, {"post", "answer"})
      BY <2>4, <2>5, <2>11 DEF Infos
    <2>. QED  BY <2>3, <2>4, <2>5, <2>8, <2>9, <2>10, <2>11 DEF Infos
  <1>. QED
    BY <1>1, <1>2, <1>3, <1>7, <1>8, <1>9, <1>10, <1>11, <1>12, <1>13, <1>14, <1>15
       DEF Next, LedgerStep

-----------------------------------------------------------------------------
ParamsInv == TypeOK /\ Floor /\ Accounts /\ Infos

(* The invariant holds of every behaviour.                                 *)
THEOREM Invariance == Spec => []ParamsInv
  <1>1. Init => ParamsInv
    <2>. SUFFICES ASSUME Init PROVE ParamsInv  OBVIOUS
    <2>1. \A c \in Caller : call[c] = Idle /\ call[c].at = "idle"  BY DEF Init, Idle
    <2>2. TypeOK
      <3>1. InitTotal \in Words  BY SizesAreWords
      <3>2. Idle \in CallStates  BY DEF CallStates
      <3>3. Board \in Codes  BY ParamsAssumption DEF Codes
      <3>. QED  BY <3>1, <3>2, <3>3, NothingCharged DEF Init, TypeOK, Bounds
    <2>3. Accounts
      <3>1. InitTotal \in 0 .. WordSize - 1 /\ WordSize \in Nat \ {0}
        BY SizesAreWords DEF Words
      <3>2. (InitTotal + 0) % WordSize = InitTotal  BY <3>1
      <3>3. \A i \in Inst : (free[i] + Charged(alloc[i])) % WordSize = total[i] /\ lock[i] = None
        BY <3>2, NothingCharged DEF Init
      <3>. QED  BY <2>1, <3>3 DEF Accounts, RepliesAgree, At
    <2>4. Infos  BY <2>1 DEF Infos, Init, At
    <2>5. Floor  BY DEF Init, Floor
    <2>. QED  BY <2>2, <2>3, <2>4, <2>5 DEF ParamsInv
  <1>2. ParamsInv /\ [Next]_vars => ParamsInv'
    BY TypesKept, AccountsKept, InfosKept DEF ParamsInv
  <1>. QED  BY <1>1, <1>2, PTL DEF Spec

(* Every variable has its type, whatever is written to the nodes: an       *)
(* instance has the size it started with or an allowed one, and the lower  *)
(* bound of a slice is never below zero.                                   *)
THEOREM TypeCorrect == Spec => []TypeOK
  <1>1. ParamsInv => TypeOK  BY DEF ParamsInv
  <1>. QED  BY <1>1, Invariance, PTL

(* Every answer about an instance that was made in one piece and has its   *)
(* entries adds up, for any number of callers, instances and processes,    *)
(* and however sizes are written meanwhile.                                *)
THEOREM RepliesAlwaysAgree == Spec => []RepliesAgree
  <1>1. ParamsInv => RepliesAgree  BY DEF ParamsInv, Accounts
  <1>. QED  BY <1>1, Invariance, PTL

(* Every container is told the size of its instance and the driver keeps   *)
(* the size of the board, but where one buffer served two calls at once.   *)
THEOREM DeviceInfoAlwaysRight == Spec => []DeviceInfoRight
  <1>1. ParamsInv => DeviceInfoRight
    <2>. SUFFICES ASSUME ParamsInv PROVE DeviceInfoRight  OBVIOUS
    <2>1. arch \in {"SUDI", "QUYUAN"}  BY ParamsAssumption DEF ParamsInv, TypeOK
    <2>. QED  BY <2>1 DEF ParamsInv, Infos, DeviceInfoRight, Answer, At
  <1>. QED  BY <1>1, Invariance, PTL
=============================================================================
