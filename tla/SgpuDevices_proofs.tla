------------------------- MODULE SgpuDevices_proofs -------------------------
(***************************************************************************)
(* Theorems about SgpuDevices: its minor numbers, for all eight GPUs and   *)
(* sixteen instances, and the writes of the cores node, for any number of  *)
(* writers, GPUs and objects and any lists.                                *)
(***************************************************************************)
EXTENDS SgpuDevices, FiniteSetTheorems, TLAPS

-----------------------------------------------------------------------------
(* The operands of the decoders are small numbers, and / 16 and % 16 undo  *)
(* g * 16 + s.                                                             *)
LEMMA Fields ==
    ASSUME NEW n \in Nat, NEW s \in 0 .. 15
    PROVE  (n * 16 + s) \div 16 = n /\ (n * 16 + s) % 16 = s
OBVIOUS

(* The minor number of a card node is below 128, that of a render node is  *)
(* not: DEV_TYPE tells them apart.                                         *)
LEMMA TypeBit ==
    ASSUME NEW g \in 0 .. 7, NEW s \in 0 .. 15
    PROVE  /\ MinorOf(CARD, g, s) = g * 16 + s
           /\ MinorOf(RENDER, g, s) = (g + 8) * 16 + s
           /\ g * 16 + s \in 0 .. 127
           /\ (g + 8) * 16 + s \in 128 .. 255
BY DEF MinorOf, CARD, RENDER, Max_SGPU

(* sgpu_linux.c decodes the minor number of every node to its type and its *)
(* instance, and to its GPU unless it is the render node of instance 15.   *)
THEOREM MinorDecodes ==
    ASSUME NEW type \in {CARD, RENDER}, NEW g \in 0 .. Max_GPU - 1,
           NEW s \in 0 .. Max_SGPU - 1
    PROVE  LET m == MinorOf(type, g, s) IN
           /\ DEV_TYPE(m) = type
           /\ DEV_SGPU_ID(m) = s
           /\ ~(type = RENDER /\ s = 15) => DEV_GPU_ID(m) = g
<1> DEFINE m == MinorOf(type, g, s)
<1>1. g \in 0 .. 7 /\ s \in 0 .. 15
  BY DEF Max_GPU, Max_SGPU
<1>2. CASE type = CARD
  <2>1. m = g * 16 + s /\ m \in 0 .. 127
    BY <1>1, <1>2, TypeBit
  <2>2. m \div 16 = g /\ m % 16 = s
    BY <1>1, <2>1, Fields
  <2> QED
    BY <1>2, <2>1, <2>2 DEF DEV_TYPE, DEV_GPU_ID, DEV_SGPU_ID, CARD
<1>3. CASE type = RENDER
  <2>1. m = (g + 8) * 16 + s /\ m \in 128 .. 255
    BY <1>1, <1>3, TypeBit
  <2>2. m % 16 = s
    BY <1>1, <2>1, Fields
  <2>3. ASSUME s # 15
        PROVE  (m - 127) \div 16 = g
    <3>1. m - 127 = g * 16 + (s + 1) /\ s + 1 \in 0 .. 15
      BY <1>1, <2>1, <2>3
    <3> QED
      BY <1>1, <3>1, Fields
  <2> QED
    BY <1>3, <2>1, <2>2, <2>3 DEF DEV_TYPE, DEV_GPU_ID, DEV_SGPU_ID, CARD, RENDER
<1> QED
  BY <1>2, <1>3

(* The exception: 0x7f is subtracted where the TYPE bit is 0x80, and the   *)
(* render node of instance 15 is taken for one of the next GPU.            *)
THEOREM RenderFifteenIsNextGpu ==
    \A g \in 0 .. Max_GPU - 1 : DEV_GPU_ID(MinorOf(RENDER, g, 15)) = g + 1
<1> TAKE g \in 0 .. Max_GPU - 1
<1>1. g \in 0 .. 7
  BY DEF Max_GPU
<1> DEFINE m == MinorOf(RENDER, g, 15)
<1>2. m = (g + 8) * 16 + 15 /\ m \in 128 .. 255
  BY <1>1, TypeBit
<1>3. (m - 127) = (g + 1) * 16 + 0
  BY <1>1, <1>2
<1>4. (m - 127) \div 16 = g + 1
  BY <1>1, <1>3, Fields
<1> QED
  BY <1>2, <1>4 DEF DEV_GPU_ID

-----------------------------------------------------------------------------
(* What find_diff finds: the members of the list that are not in the other *)
(* one, no more and no less.                                               *)
LEMMA OrderedSeq ==
    ASSUME NEW set, IsFiniteSet(set), NEW s \in Ordered(set)
    PROVE  s \in Seq(set) /\ Range(s) = set /\ DOMAIN s = 1 .. Len(s)
  <1>1. Cardinality(set) \in Nat  BY FS_CardinalityType
  <1>2. s \in [1 .. Cardinality(set) -> set] /\ Range(s) = set  BY DEF Ordered
  <1>. QED  BY <1>1, <1>2

LEMMA MissingIsDiff ==
    ASSUME NEW list \in Seq(Gpu), NEW other, NEW add \in Missing(list, other)
    PROVE  add \in Seq(Gpu) /\ Range(add) = Range(list) \ other
  <1>. DEFINE where == {i \in DOMAIN list : list[i] \notin other}
  <1>1. DOMAIN list = 1 .. Len(list) /\ Len(list) \in Nat  OBVIOUS
  <1>2. IsFiniteSet(where)
    <2>1. IsFiniteSet(1 .. Len(list))  BY <1>1, FS_Interval
    <2>2. where \subseteq 1 .. Len(list)  BY <1>1
    <2>. QED  BY <2>1, <2>2, FS_Subset
  <1>3. PICK at \in Ordered(where) : add = [k \in DOMAIN at |-> list[at[k]]]
    BY DEF Missing
  <1>. HIDE DEF where
  <1>4. at \in Seq(where) /\ Range(at) = where /\ DOMAIN at = 1 .. Len(at)
    BY <1>2, <1>3, OrderedSeq
  <1>5. /\ \A k \in DOMAIN at : at[k] \in where
        /\ \A i \in where : \E k \in DOMAIN at : at[k] = i
    BY <1>4 DEF Range
  <1>6. where \subseteq DOMAIN list /\ \A i \in DOMAIN list : list[i] \in Gpu
    BY DEF where
  <1>7. add \in Seq(Gpu)
    <2>1. \A k \in 1 .. Len(at) : list[at[k]] \in Gpu  BY <1>4, <1>5, <1>6
    <2>2. add \in [1 .. Len(at) -> Gpu] /\ Len(at) \in Nat  BY <1>3, <1>4, <2>1
    <2>. QED  BY <2>2
  <1>8. DOMAIN add = DOMAIN at /\ \A k \in DOMAIN at : add[k] = list[at[k]]
    BY <1>3
  <1>9. Range(list) \ other = {list[i] : i \in where}  BY DEF Range, where
  <1>10. Range(add) = {list[i] : i \in where}  BY <1>5, <1>8 DEF Range
  <1>. QED  BY <1>7, <1>9, <1>10

(* A list of at most one GPU.                                              *)
LEMMA FewAdded ==
    ASSUME NEW add \in Seq(Gpu)
    PROVE  /\ Len(add) \in Nat /\ \A k \in 1 .. Len(add) : add[k] \in Gpu
           /\ Len(add) = 0 => Range(add) = {}
           /\ Len(add) = 1 => Range(add) = {add[1]} /\ add[1] \in Gpu
  <1>1. DOMAIN add = 1 .. Len(add) /\ Len(add) \in Nat  OBVIOUS
  <1>2. \A k \in 1 .. Len(add) : add[k] \in Gpu  OBVIOUS
  <1>3. ASSUME Len(add) = 0  PROVE Range(add) = {}  BY <1>1, <1>3 DEF Range
  <1>4. ASSUME Len(add) = 1  PROVE Range(add) = {add[1]} /\ add[1] \in Gpu
    <2>1. DOMAIN add = {1}  BY <1>1, <1>4
    <2>. QED  BY <1>2, <1>4, <2>1 DEF Range
  <1>. QED  BY <1>1, <1>2, <1>3, <1>4

-----------------------------------------------------------------------------
(* The states of a write, and how its steps change them.                   *)
WriteStates ==
    [at : {"init", "del", "add"}, want : Lists, del : SUBSET Gpu,
     add : Seq(Gpu), k : Nat \ {0}, last : Obj \cup {NULL}]

LEMMA CallShape ==
    ASSUME TypeOK, NEW w \in Writer
    PROVE  /\ call[w] \in CallStates
           /\ call[w] = Idle <=> call[w].at = "idle"
           /\ call[w].at # "idle" => call[w] \in WriteStates
  <1>1. call[w] \in CallStates  BY DEF TypeOK
  <1>2. call[w] = Idle \/ call[w] \in WriteStates  BY <1>1 DEF CallStates, WriteStates
  <1>3. ASSUME call[w] \in WriteStates  PROVE call[w].at # "idle" /\ call[w] # Idle
    <2>1. call[w].at \in {"init", "del", "add"}  BY <1>3 DEF WriteStates
    <2>. QED  BY <2>1 DEF Idle
  <1>4. Idle.at = "idle"  BY DEF Idle
  <1>. QED  BY <1>1, <1>2, <1>3, <1>4

LEMMA Moves ==
    ASSUME TypeOK, NEW w \in Writer, NEW next \in CallStates,
           call' = [call EXCEPT ![w] = next]
    PROVE  /\ call' \in [Writer -> CallStates] /\ call'[w] = next
           /\ \A v \in Writer \ {w} : call'[v] = call[v]
  BY DEF TypeOK

LEMMA NextPlace ==
    ASSUME NEW c \in WriteStates, NEW place \in {"del", "add"}
    PROVE  LET next == [c EXCEPT !.at = place, !.k = 1] IN
           /\ next \in WriteStates
           /\ next.at = place /\ next.k = 1 /\ next.want = c.want /\ next.del = c.del
           /\ next.add = c.add /\ next.last = c.last
  <1>. DEFINE n == 1
              next == [c EXCEPT !.at = place, !.k = n]
  <1>1. n \in Nat \ {0}  OBVIOUS
  <1>2. n = 1  OBVIOUS
  <1>. HIDE DEF n
  <1>3. /\ next \in WriteStates
        /\ next.at = place /\ next.k = n /\ next.want = c.want /\ next.del = c.del
        /\ next.add = c.add /\ next.last = c.last
    BY <1>1 DEF WriteStates
  <1>. QED  BY <1>2, <1>3

LEMMA NextInit ==
    ASSUME NEW c \in WriteStates, NEW o \in Obj
    PROVE  LET next == [c EXCEPT !.k = @ + 1, !.last = o] IN
           /\ next \in WriteStates
           /\ next.at = c.at /\ next.k = c.k + 1 /\ next.want = c.want /\ next.del = c.del
           /\ next.add = c.add /\ next.last = o
  <1>. DEFINE n == c.k + 1
              next == [c EXCEPT !.k = n, !.last = o]
  <1>1. n \in Nat \ {0}  BY DEF WriteStates
  <1>2. n = c.k + 1  OBVIOUS
  <1>. HIDE DEF n
  <1>3. /\ next \in WriteStates
        /\ next.at = c.at /\ next.k = n /\ next.want = c.want /\ next.del = c.del
        /\ next.add = c.add /\ next.last = o
    BY <1>1 DEF WriteStates
  <1>. QED  BY <1>2, <1>3

LEMMA NextDelete ==
    ASSUME NEW c \in WriteStates, NEW g
    PROVE  LET next == [c EXCEPT !.del = @ \ {g}] IN
           /\ next \in WriteStates
           /\ next.at = c.at /\ next.k = c.k /\ next.want = c.want /\ next.del = c.del \ {g}
           /\ next.add = c.add /\ next.last = c.last
  BY DEF WriteStates

LEMMA NextAdd ==
    ASSUME NEW c \in WriteStates
    PROVE  LET next == [c EXCEPT !.k = @ + 1] IN
           /\ next \in WriteStates
           /\ next.at = c.at /\ next.k = c.k + 1 /\ next.want = c.want /\ next.del = c.del
           /\ next.add = c.add /\ next.last = c.last
  <1>. DEFINE n == c.k + 1
              next == [c EXCEPT !.k = n]
  <1>1. n \in Nat \ {0}  BY DEF WriteStates
  <1>2. n = c.k + 1  OBVIOUS
  <1>. HIDE DEF n
  <1>3. /\ next \in WriteStates
        /\ next.at = c.at /\ next.k = n /\ next.want = c.want /\ next.del = c.del
        /\ next.add = c.add /\ next.last = c.last
    BY <1>1 DEF WriteStates
  <1>. QED  BY <1>2, <1>3

LEMMA WriteFields ==
    ASSUME NEW c \in WriteStates
    PROVE  /\ c.at \in {"init", "del", "add"} /\ c.want \in Lists /\ c.del \subseteq Gpu
           /\ c.add \in Seq(Gpu) /\ c.k \in Nat \ {0} /\ c.last \in Obj \cup {NULL}
           /\ c \in CallStates
  BY DEF WriteStates, CallStates

(* What the objects of the table become when one is freed.                 *)
LEMMA FreeTypes ==
    ASSUME TypeOK, NEW objects, NEW lost \in SUBSET Obj, Free(objects, lost)
    PROVE  /\ live' \subseteq Obj /\ named' \subseteq Obj /\ board' \in [Obj -> Gpu \cup {NULL}]
           /\ live' = (live \ objects) \cup lost
           /\ \A o \in Obj \ objects : board'[o] = board[o]
  BY DEF TypeOK, Free

-----------------------------------------------------------------------------
(* The steps of a write, one outcome each.                                 *)
Carried(next, c) == next.want = c.want /\ next.add = c.add

Begun(w, next) ==
    /\ call[w].at = "idle" /\ next \in WriteStates
    /\ next.at = "init" /\ next.k = 1 /\ next.del = Present \ Range(next.want)
    /\ Range(next.add) = Range(next.want) \ Present
    /\ trouble' = trouble
          \cup (IF Len(next.add) > 1 THEN {"crowd"} ELSE {})
          \cup (IF \E v \in Writer : call[v] # Idle THEN {"overlap"} ELSE {})
    /\ UNCHANGED <<gpus, live, board, named, proc, ids>>

InitOver(c, next) ==
    /\ c.k > Len(c.add)
    /\ next \in WriteStates /\ next.at = "del" /\ next.k = 1
    /\ Carried(next, c) /\ next.del = c.del /\ next.last = c.last
    /\ UNCHANGED <<gpus, live, board, named, proc, ids, trouble>>

InitMade(c, next) ==
    /\ c.k <= Len(c.add) /\ next.last \in Obj \ live
    /\ next \in WriteStates /\ next.at = "init" /\ next.k = c.k + 1
    /\ Carried(next, c) /\ next.del = c.del
    /\ live' = live \cup {next.last}
    /\ board' = [board EXCEPT ![next.last] = c.add[c.k]]
    /\ UNCHANGED <<gpus, named, proc, ids, trouble>>

InitFailed(c, next) ==
    /\ c.k <= Len(c.add) /\ next = Idle
    /\ UNCHANGED <<gpus, proc, ids>>
    /\ \/ Free({gpus[c.add[c.k]]}, {}) /\ trouble' = trouble
       \/ \E o \in Obj \ live :
            Free({gpus[c.add[c.k]]}, {o}) /\ \E lost \in Lost : trouble' = trouble \cup lost

DeleteOver(c, next) ==
    /\ c.del = {}
    /\ next \in WriteStates /\ next.at = "add" /\ next.k = 1
    /\ Carried(next, c) /\ next.del = c.del /\ next.last = c.last
    /\ UNCHANGED <<gpus, live, board, named, proc, ids, trouble>>

Deleted(c, next, g) ==
    /\ next \in WriteStates /\ next.at = "del" /\ next.k = c.k
    /\ Carried(next, c) /\ next.del = c.del \ {g} /\ next.last = c.last
    /\ proc' = proc \ {g} /\ gpus' = [gpus EXCEPT ![g] = NULL]
    /\ Free({gpus[g]}, {})
    /\ UNCHANGED <<ids, trouble>>

AddOver(c, next) ==
    /\ c.k > Len(c.add) /\ next = Idle /\ ids' = c.want
    /\ UNCHANGED <<gpus, live, board, named, proc, trouble>>

Added(c, next) ==
    /\ c.k <= Len(c.add)
    /\ gpus' = [gpus EXCEPT ![c.add[c.k]] = c.last]
    /\ UNCHANGED <<live, board, named, ids>>
    /\ \/ /\ next \in WriteStates /\ next.at = "add" /\ next.k = c.k + 1
          /\ Carried(next, c) /\ next.del = c.del
          /\ proc' = proc \cup {c.add[c.k]} /\ trouble' = trouble
       \/ /\ next = Idle /\ proc' \in {proc \ {c.add[c.k]}, proc \cup {c.add[c.k]}}
          /\ trouble' = trouble \cup {"cut"}

LEMMA BeginEffect ==
    ASSUME TypeOK, NEW w \in Writer, NEW want \in Lists, CoresBegin(w, want)
    PROVE  \E next \in CallStates : call' = [call EXCEPT ![w] = next] /\ Begun(w, next)
  <1>. DEFINE del == Present \ Range(want)
  <1>1. want \in Seq(Gpu)  BY DevicesAssumption
  <1>2. PICK add \in Missing(want, Present) :
          /\ call' = [call EXCEPT ![w] = [at |-> "init", want |-> want, del |-> del,
                                          add |-> add, k |-> 1, last |-> NULL]]
          /\ trouble' = trouble
                \cup (IF Len(add) > 1 THEN {"crowd"} ELSE {})
                \cup (IF \E v \in Writer : call[v] # Idle THEN {"overlap"} ELSE {})
    BY DEF CoresBegin
  <1>3. add \in Seq(Gpu) /\ Range(add) = Range(want) \ Present  BY <1>1, <1>2, MissingIsDiff
  <1>4. del \subseteq Gpu  BY DEF Present
  <1>5. call[w].at = "idle" /\ UNCHANGED <<gpus, live, board, named, proc, ids>>
    BY DEF CoresBegin, objVars, Idle
  <1>. DEFINE next == [at |-> "init", want |-> want, del |-> del, add |-> add, k |-> 1,
                       last |-> NULL]
  <1>6. /\ next.at = "init" /\ next.want = want /\ next.del = del /\ next.add = add
        /\ next.k = 1
    OBVIOUS
  <1>7. next \in WriteStates  BY <1>3, <1>4 DEF WriteStates
  <1>8. next \in CallStates  BY <1>7, WriteFields
  <1>9. call' = [call EXCEPT ![w] = next]  BY <1>2
  <1>10. next.del = Present \ Range(next.want)  BY <1>6
  <1>. HIDE DEF next, del
  <1>11. Begun(w, next)  BY <1>2, <1>3, <1>5, <1>6, <1>7, <1>10 DEF Begun
  <1>. QED  BY <1>8, <1>9, <1>11

LEMMA InitEffect ==
    ASSUME TypeOK, NEW w \in Writer, CoresInit(w)
    PROVE  /\ call[w] \in WriteStates /\ call[w].at = "init"
           /\ \E next \in CallStates :
                /\ call' = [call EXCEPT ![w] = next]
                /\ InitOver(call[w], next) \/ InitMade(call[w], next) \/ InitFailed(call[w], next)
  <1>. DEFINE c == call[w]
  <1>1. c \in WriteStates /\ c.at = "init"  BY CallShape DEF CoresInit
  <1>2. UNCHANGED <<gpus, proc, ids>>  BY DEF CoresInit
  <1>3. CASE c.k > Len(c.add) /\ Goto(w, "del") /\ UNCHANGED <<objVars, trouble>>
    <2>. DEFINE next == [c EXCEPT !.at = "del", !.k = 1]
    <2>1. call' = [call EXCEPT ![w] = next]  BY <1>3 DEF Goto
    <2>2. /\ next \in WriteStates
          /\ next.at = "del" /\ next.k = 1 /\ next.want = c.want /\ next.del = c.del
          /\ next.add = c.add /\ next.last = c.last
      BY <1>1, NextPlace
    <2>. HIDE DEF next
    <2>3. InitOver(c, next)  BY <1>2, <1>3, <2>2 DEF InitOver, Carried, objVars
    <2>. QED  BY <1>1, <2>1, <2>2, <2>3, WriteFields
  <1>4. ASSUME c.k <= Len(c.add), NEW o \in Obj \ live,
               live' = live \cup {o}, board' = [board EXCEPT ![o] = c.add[c.k]],
               call' = [call EXCEPT ![w] = [c EXCEPT !.k = @ + 1, !.last = o]],
               UNCHANGED <<named, trouble>>
        PROVE  \E next \in CallStates :
                 call' = [call EXCEPT ![w] = next] /\ InitMade(c, next)
    <2>. DEFINE next == [c EXCEPT !.k = @ + 1, !.last = o]
    <2>1. call' = [call EXCEPT ![w] = next]  BY <1>4
    <2>2. /\ next \in WriteStates
          /\ next.at = c.at /\ next.k = c.k + 1 /\ next.want = c.want /\ next.del = c.del
          /\ next.add = c.add /\ next.last = o
      BY <1>1, NextInit
    <2>. HIDE DEF next
    <2>3. InitMade(c, next)  BY <1>1, <1>2, <1>4, <2>2 DEF InitMade, Carried
    <2>. QED  BY <2>1, <2>2, <2>3, WriteFields
  <1>5. CASE /\ c.k <= Len(c.add)
             /\ Return(w)
             /\ \/ Free({gpus[c.add[c.k]]}, {}) /\ UNCHANGED trouble
                \/ \E o \in Obj \ live :
                     /\ Free({gpus[c.add[c.k]]}, {o})
                     /\ \E lost \in Lost : trouble' = trouble \cup lost
    <2>1. InitFailed(c, Idle)  BY <1>2, <1>5 DEF InitFailed
    <2>2. Idle \in CallStates /\ call' = [call EXCEPT ![w] = Idle]
      BY <1>5 DEF CallStates, Return
    <2>. QED  BY <1>1, <2>1, <2>2
  <1>. QED  BY <1>1, <1>3, <1>4, <1>5 DEF CoresInit

LEMMA DeleteEffect ==
    ASSUME TypeOK, NEW w \in Writer, CoresDelete(w)
    PROVE  /\ call[w] \in WriteStates /\ call[w].at = "del"
           /\ \E next \in CallStates :
                /\ call' = [call EXCEPT ![w] = next]
                /\ \/ DeleteOver(call[w], next)
                   \/ \E g \in call[w].del : Deleted(call[w], next, g)
  <1>. DEFINE c == call[w]
  <1>1. c \in WriteStates /\ c.at = "del"  BY CallShape DEF CoresDelete
  <1>2. UNCHANGED <<ids, trouble>>  BY DEF CoresDelete
  <1>3. CASE c.del = {} /\ Goto(w, "add") /\ UNCHANGED <<gpus, objVars, proc>>
    <2>. DEFINE next == [c EXCEPT !.at = "add", !.k = 1]
    <2>1. call' = [call EXCEPT ![w] = next]  BY <1>3 DEF Goto
    <2>2. /\ next \in WriteStates
          /\ next.at = "add" /\ next.k = 1 /\ next.want = c.want /\ next.del = c.del
          /\ next.add = c.add /\ next.last = c.last
      BY <1>1, NextPlace
    <2>. HIDE DEF next
    <2>3. DeleteOver(c, next)  BY <1>2, <1>3, <2>2 DEF DeleteOver, Carried, objVars
    <2>. QED  BY <1>1, <2>1, <2>2, <2>3, WriteFields
  <1>4. ASSUME NEW g \in c.del, proc' = proc \ {g}, Free(Freed(g), {}),
               gpus' = [gpus EXCEPT ![g] = Emptied(g)],
               call' = [call EXCEPT ![w].del = @ \ {g}]
        PROVE  \E next \in CallStates :
                 call' = [call EXCEPT ![w] = next] /\ Deleted(c, next, g)
    <2>. DEFINE next == [c EXCEPT !.del = @ \ {g}]
    <2>1. call' = [call EXCEPT ![w] = next]  BY <1>4
    <2>2. /\ next \in WriteStates
          /\ next.at = c.at /\ next.k = c.k /\ next.want = c.want /\ next.del = c.del \ {g}
          /\ next.add = c.add /\ next.last = c.last
      BY <1>1, NextDelete
    <2>. HIDE DEF next
    <2>3. Deleted(c, next, g)
      BY <1>1, <1>2, <1>4, <2>2 DEF Deleted, Carried, Freed, Emptied
    <2>. QED  BY <2>1, <2>2, <2>3, WriteFields
  <1>. QED  BY <1>1, <1>3, <1>4 DEF CoresDelete

LEMMA AddEffect ==
    ASSUME TypeOK, NEW w \in Writer, CoresAdd(w)
    PROVE  /\ call[w] \in WriteStates /\ call[w].at = "add"
           /\ \E next \in CallStates :
                /\ call' = [call EXCEPT ![w] = next]
                /\ AddOver(call[w], next) \/ Added(call[w], next)
  <1>. DEFINE c == call[w]
              g == c.add[c.k]
  <1>1. c \in WriteStates /\ c.at = "add"  BY CallShape DEF CoresAdd
  <1>2. UNCHANGED <<live, board, named>>  BY DEF CoresAdd, objVars
  <1>3. Idle \in CallStates  BY DEF CallStates
  <1>4. CASE c.k > Len(c.add) /\ ids' = Listed(c) /\ Return(w) /\ UNCHANGED <<gpus, proc, trouble>>
    <2>1. AddOver(c, Idle)  BY <1>2, <1>4 DEF AddOver, Listed
    <2>. QED  BY <1>1, <1>3, <1>4, <2>1 DEF Return
  <1>5. CASE /\ c.k <= Len(c.add) /\ gpus' = [gpus EXCEPT ![g] = c.last]
             /\ proc' = proc \cup {g} /\ Again(w) /\ UNCHANGED <<ids, trouble>>
    <2>. DEFINE next == [c EXCEPT !.k = @ + 1]
    <2>1. call' = [call EXCEPT ![w] = next]  BY <1>5 DEF Again
    <2>2. /\ next \in WriteStates
          /\ next.at = c.at /\ next.k = c.k + 1 /\ next.want = c.want /\ next.del = c.del
          /\ next.add = c.add /\ next.last = c.last
      BY <1>1, NextAdd
    <2>. HIDE DEF next
    <2>3. Added(c, next)  BY <1>1, <1>2, <1>5, <2>2 DEF Added, Carried
    <2>. QED  BY <1>1, <2>1, <2>2, <2>3, WriteFields
  <1>6. CASE /\ c.k <= Len(c.add) /\ gpus' = [gpus EXCEPT ![g] = c.last]
             /\ proc' \in {proc \ {g}, proc \cup {g}}
             /\ Return(w) /\ trouble' = trouble \cup {"cut"} /\ UNCHANGED ids
    <2>1. Added(c, Idle)  BY <1>2, <1>6 DEF Added
    <2>. QED  BY <1>1, <1>3, <1>6, <2>1 DEF Return
  <1>. QED  BY <1>1, <1>4, <1>5, <1>6 DEF CoresAdd

(* Every step is a step of a write, or moves a container.                  *)
LEMMA StepShape ==
    ASSUME TypeOK, [Next]_vars
    PROVE  \/ UNCHANGED <<gpus, live, board, proc, ids, call, trouble>>
              /\ (named' = named \/ \E g \in Gpu :
                     gpus[g] \in live \cup named
                     /\ named' \in {named \cup {gpus[g]}, named \ {gpus[g]}})
           \/ \E w \in Writer : \/ \E want \in Lists : CoresBegin(w, want)
                                \/ CoresInit(w) \/ CoresDelete(w) \/ CoresAdd(w)
  <1>1. CASE UNCHANGED vars  BY <1>1 DEF vars, objVars
  <1>2. ASSUME NEW g \in Gpu, NodeCreate(g) \/ NodeDestroy(g)
        PROVE  /\ UNCHANGED <<gpus, live, board, proc, ids, call, trouble>>
               /\ gpus[g] \in live \cup named
               /\ named' \in {named \cup {gpus[g]}, named \ {gpus[g]}}
    BY <1>2 DEF NodeCreate, NodeDestroy
  <1>. QED  BY <1>1, <1>2 DEF Next

LEMMA TypesKept == TypeOK /\ [Next]_vars => TypeOK'
  <1>. SUFFICES ASSUME TypeOK, [Next]_vars PROVE TypeOK'  OBVIOUS
  <1>0. /\ gpus \in [Gpu -> Obj \cup {NULL}] /\ live \subseteq Obj /\ named \subseteq Obj
        /\ board \in [Obj -> Gpu \cup {NULL}] /\ proc \subseteq Gpu
        /\ trouble \subseteq {"overlap", "crowd", "leak", "freed", "cut"}
    BY DEF TypeOK
  <1>1. ASSUME NEW w \in Writer, NEW next \in CallStates, call' = [call EXCEPT ![w] = next],
               gpus' \in [Gpu -> Obj \cup {NULL}], live' \subseteq Obj, named' \subseteq Obj,
               board' \in [Obj -> Gpu \cup {NULL}], proc' \subseteq Gpu,
               ids' = ids \/ ids' \in Lists,
               trouble' \subseteq {"overlap", "crowd", "leak", "freed", "cut"}
        PROVE  TypeOK'
    <2>1. call' \in [Writer -> CallStates]  BY <1>1, Moves
    <2>. QED  BY <1>1, <2>1 DEF TypeOK
  <1>2. ASSUME NEW w \in Writer, NEW want \in Lists, CoresBegin(w, want)  PROVE TypeOK'
    <2>1. PICK next \in CallStates : call' = [call EXCEPT ![w] = next] /\ Begun(w, next)
      BY <1>2, BeginEffect
    <2>2. trouble' \subseteq {"overlap", "crowd", "leak", "freed", "cut"}  BY <1>0, <2>1 DEF Begun
    <2>. QED  BY <1>0, <1>1, <2>1, <2>2 DEF Begun
  <1>3. ASSUME NEW w \in Writer, CoresInit(w)  PROVE TypeOK'
    <2>. DEFINE c == call[w]
    <2>1. PICK next \in CallStates :
            /\ call' = [call EXCEPT ![w] = next]
            /\ InitOver(c, next) \/ InitMade(c, next) \/ InitFailed(c, next)
      BY <1>3, InitEffect
    <2>2. c \in WriteStates  BY <1>3, InitEffect
    <2>3. CASE InitOver(c, next)  BY <1>0, <1>1, <2>1, <2>3 DEF InitOver
    <2>4. CASE InitMade(c, next)
      <3>1. c.k \in 1 .. Len(c.add) => c.add[c.k] \in Gpu  BY <2>2, FewAdded, WriteFields
      <3>2. board' \in [Obj -> Gpu \cup {NULL}]
        BY <1>0, <2>2, <2>4, <3>1, FewAdded, WriteFields DEF InitMade
      <3>. QED  BY <1>0, <1>1, <2>1, <2>4, <3>2 DEF InitMade
    <2>5. CASE InitFailed(c, next)
      <3>1. PICK lost \in SUBSET Obj : Free({gpus[c.add[c.k]]}, lost)
        BY <1>0, <2>5 DEF InitFailed
      <3>2. /\ live' \subseteq Obj /\ named' \subseteq Obj
            /\ board' \in [Obj -> Gpu \cup {NULL}]
        BY <3>1, FreeTypes
      <3>3. trouble' \subseteq {"overlap", "crowd", "leak", "freed", "cut"}
        BY <1>0, <2>5 DEF InitFailed, Lost
      <3>. QED  BY <1>0, <1>1, <2>1, <2>5, <3>2, <3>3 DEF InitFailed
    <2>. QED  BY <2>1, <2>3, <2>4, <2>5
  <1>4. ASSUME NEW w \in Writer, CoresDelete(w)  PROVE TypeOK'
    <2>. DEFINE c == call[w]
    <2>1. PICK next \in CallStates :
            /\ call' = [call EXCEPT ![w] = next]
            /\ DeleteOver(c, next) \/ \E g \in c.del : Deleted(c, next, g)
      BY <1>4, DeleteEffect
    <2>2. CASE DeleteOver(c, next)  BY <1>0, <1>1, <2>1, <2>2 DEF DeleteOver
    <2>3. ASSUME NEW g \in c.del, Deleted(c, next, g)  PROVE TypeOK'
      <3>1. /\ live' \subseteq Obj /\ named' \subseteq Obj
            /\ board' \in [Obj -> Gpu \cup {NULL}]
        BY <2>3, FreeTypes DEF Deleted
      <3>. QED  BY <1>0, <1>1, <2>1, <2>3, <3>1 DEF Deleted
    <2>. QED  BY <2>1, <2>2, <2>3
  <1>5. ASSUME NEW w \in Writer, CoresAdd(w)  PROVE TypeOK'
    <2>. DEFINE c == call[w]
    <2>1. PICK next \in CallStates :
            /\ call' = [call EXCEPT ![w] = next]
            /\ AddOver(c, next) \/ Added(c, next)
      BY <1>5, AddEffect
    <2>2. c \in WriteStates /\ c.last \in Obj \cup {NULL} /\ c.want \in Lists
      BY <1>5, AddEffect, WriteFields
    <2>3. CASE AddOver(c, next)  BY <1>0, <1>1, <2>1, <2>2, <2>3 DEF AddOver
    <2>4. CASE Added(c, next)
      <3>1. gpus' \in [Gpu -> Obj \cup {NULL}]  BY <1>0, <2>2, <2>4 DEF Added
      <3>2. c.add[c.k] \in Gpu
        BY <2>2, <2>4, FewAdded, WriteFields DEF Added
      <3>3. trouble' \subseteq {"overlap", "crowd", "leak", "freed", "cut"}  BY <1>0, <2>4 DEF Added
      <3>4. proc' \subseteq Gpu  BY <1>0, <2>4, <3>2 DEF Added
      <3>. QED  BY <1>0, <1>1, <2>1, <2>4, <3>1, <3>3, <3>4 DEF Added
    <2>. QED  BY <2>1, <2>3, <2>4
  <1>6. CASE UNCHANGED <<gpus, live, board, proc, ids, call, trouble>> /\ named' \subseteq Obj
    BY <1>6 DEF TypeOK
  <1>. QED  BY <1>0, <1>2, <1>3, <1>4, <1>5, <1>6, StepShape

-----------------------------------------------------------------------------
(* The invariant.  Without two writes at once and without one that adds    *)
(* more than one GPU, there is one write, and it knows of one GPU to add:  *)
(* that GPU is not in the table before its entry is stored, and the object *)
(* initialised for it is waiting, allocated and in no entry.               *)
Calm == trouble \cap {"overlap", "crowd"} = {}
Active(w) == call[w].at # "idle"

Waiting(c) ==
    /\ Len(c.add) = 1
    /\ \/ c.at = "init" /\ c.k = 2
       \/ c.at = "del"
       \/ c.at = "add" /\ c.k = 1

WriteSound(c) ==
    /\ Len(c.add) <= 1
    /\ c.at = "init" => c.k <= Len(c.add) + 1
    /\ c.at = "add" => c.del = {}
    /\ c.del \subseteq Present
    /\ IF c.at = "add" /\ c.k > Len(c.add)
       THEN Range(c.add) \subseteq Present
       ELSE Range(c.add) \cap Present = {}
    /\ Waiting(c) => c.last \in live /\ board[c.last] = c.add[1]

Owned ==
    Calm =>
        /\ \A v, w \in Writer : Active(v) /\ Active(w) => v = w
        /\ \A g \in Present : gpus[g] \in live /\ board[gpus[g]] = g
        /\ \A w \in Writer : Active(w) => WriteSound(call[w])

(* And if none was lost, what is allocated is in the table or waits; if no *)
(* write was cut short, the directories are those of the table, which is   *)
(* what gpu_ids says until a write has made its objects, and what the      *)
(* write wants afterwards, but for what it has yet to remove and to add.   *)
Accounted ==
    trouble \subseteq {"cut"} =>
        \A o \in live : \/ \E g \in Present : gpus[g] = o
                        \/ \E w \in Writer : Active(w) /\ Waiting(call[w]) /\ call[w].last = o

Listing ==
    trouble \subseteq {"leak"} =>
        /\ proc = Present
        /\ (\A w \in Writer : call[w].at \in {"idle", "init"}) => Range(ids) = Present
        /\ \A w \in Writer : Active(w) =>
              Range(call[w].want) = (Present \ call[w].del) \cup Range(call[w].add)

DevicesInv == TypeOK /\ Owned /\ Accounted /\ Listing

(* The table with one entry more, or less.                                 *)
LEMMA PresentStep ==
    ASSUME TypeOK, NEW g \in Gpu, NEW o, gpus' = [gpus EXCEPT ![g] = o]
    PROVE  /\ o # NULL => Present' = Present \cup {g}
           /\ o = NULL => Present' = Present \ {g}
           /\ gpus'[g] = o /\ \A h \in Gpu \ {g} : gpus'[h] = gpus[h]
  BY DEF TypeOK, Present

(* The write that is under way is the only one.                            *)
LEMMA Alone ==
    ASSUME DevicesInv, Calm, NEW w \in Writer, Active(w)
    PROVE  /\ \A v \in Writer \ {w} : ~Active(v)
           /\ WriteSound(call[w])
           /\ \A g \in Present : gpus[g] \in live /\ board[gpus[g]] = g
  BY DEF DevicesInv, Owned

(* What is left to show of a step of that write.                           *)
LEMMA AloneStep ==
    ASSUME TypeOK, NEW w \in Writer, NEW next \in CallStates,
           call' = [call EXCEPT ![w] = next],
           Calm' => /\ \A v \in Writer \ {w} : ~Active(v)
                    /\ \A g \in Present' : gpus'[g] \in live' /\ board'[gpus'[g]] = g
                    /\ next.at # "idle" => WriteSound(next)',
           trouble' \subseteq {"cut"} =>
                \A o \in live' : \/ \E g \in Present' : gpus'[g] = o
                                 \/ next.at # "idle" /\ Waiting(next) /\ next.last = o,
           trouble' \subseteq {"leak"} =>
                /\ proc' = Present'
                /\ next.at \in {"idle", "init"} => Range(ids)' = Present'
                /\ next.at # "idle" => Range(next.want) = (Present' \ next.del) \cup Range(next.add)
    PROVE  Owned' /\ Accounted' /\ Listing'
  <1>1. call'[w] = next /\ \A v \in Writer \ {w} : call'[v] = call[v]  BY Moves
  <1>2. trouble' \subseteq {"cut"} \/ trouble' \subseteq {"leak"} => Calm'  BY DEF Calm
  <1>3. Calm' => \A v \in Writer : Active(v)' => v = w  BY <1>1 DEF Active
  <1>4. Owned'
    <2>. SUFFICES ASSUME Calm' PROVE Owned'  BY DEF Owned
    <2>1. \A v \in Writer : Active(v)' => WriteSound(call[v])'
      <3>1. ASSUME NEW v \in Writer, Active(v)'  PROVE WriteSound(call[v])'
        <4>1. v = w /\ call'[v] = next /\ next.at # "idle"  BY <1>1, <1>3, <3>1 DEF Active
        <4>. QED  BY <4>1 DEF WriteSound, Waiting
      <3>. QED  BY <3>1
    <2>. QED  BY <1>3, <2>1 DEF Owned
  <1>5. Accounted'  BY <1>1 DEF Accounted, Active, Waiting
  <1>6. Listing'
    <2>. SUFFICES ASSUME trouble' \subseteq {"leak"} PROVE Listing'  BY DEF Listing
    <2>1. \A v \in Writer : Active(v)' => v = w  BY <1>2, <1>3
    <2>. QED  BY <1>1, <2>1 DEF Listing, Active
  <1>. QED  BY <1>4, <1>5, <1>6

LEMMA BeginKeeps ==
    ASSUME DevicesInv, NEW w \in Writer, NEW next \in CallStates,
           call' = [call EXCEPT ![w] = next], Begun(w, next)
    PROVE  Owned' /\ Accounted' /\ Listing'
  <1>. USE DEF DevicesInv
  <1>1. /\ next \in WriteStates /\ next.at = "init" /\ next.k = 1
        /\ next.del = Present \ Range(next.want)
        /\ Range(next.add) = Range(next.want) \ Present
        /\ UNCHANGED <<gpus, live, board, named, proc, ids>> /\ Present' = Present
    BY DEF Begun, Present
  <1>2. trouble \subseteq trouble'  BY DEF Begun
  <1>3. ASSUME Calm'
        PROVE  Calm /\ Len(next.add) <= 1 /\ \A v \in Writer : ~Active(v)
    <2>1. \A v \in Writer : call[v] = Idle  BY <1>3 DEF Begun, Calm
    <2>2. Len(next.add) \in Nat  BY <1>1, WriteFields, FewAdded
    <2>3. Len(next.add) <= 1  BY <1>3, <2>2 DEF Begun, Calm
    <2>. QED  BY <1>2, <1>3, <2>1, <2>3, CallShape DEF Calm, Active
  <1>4. \A v \in Writer : ~Active(v) <=> call[v].at = "idle"  BY DEF Active
  <1>5. ASSUME Calm'  PROVE WriteSound(next)'
    BY <1>1, <1>3, <1>5 DEF WriteSound, Waiting
  <1>6. ASSUME Calm'  PROVE \A g \in Present' : gpus'[g] \in live' /\ board'[gpus'[g]] = g
    BY <1>1, <1>3, <1>6 DEF Owned
  <1>7. ASSUME trouble' \subseteq {"cut"}
        PROVE  \A o \in live' : \E g \in Present' : gpus'[g] = o
    <2>1. Calm' /\ trouble \subseteq {"cut"}  BY <1>2, <1>7 DEF Calm
    <2>. QED  BY <1>1, <1>3, <2>1 DEF Accounted
  <1>8. ASSUME trouble' \subseteq {"leak"}
        PROVE  /\ proc' = Present' /\ Range(ids)' = Present'
               /\ Range(next.want) = (Present' \ next.del) \cup Range(next.add)
    <2>1. Calm' /\ trouble \subseteq {"leak"}  BY <1>2, <1>8 DEF Calm
    <2>2. proc = Present /\ Range(ids) = Present  BY <1>3, <1>4, <2>1 DEF Listing
    <2>. QED  BY <1>1, <2>2
  <1>. QED  BY <1>1, <1>3, <1>5, <1>6, <1>7, <1>8, AloneStep

LEMMA InitKeeps ==
    ASSUME DevicesInv, NEW w \in Writer, NEW next \in CallStates,
           call' = [call EXCEPT ![w] = next], call[w] \in WriteStates, call[w].at = "init",
           \/ InitOver(call[w], next) \/ InitMade(call[w], next) \/ InitFailed(call[w], next)
    PROVE  Owned' /\ Accounted' /\ Listing'
  <1>. USE DEF DevicesInv
  <1>. DEFINE c == call[w]
  <1>1. c.at = "init" /\ Active(w) /\ c.k \in Nat \ {0} /\ c.add \in Seq(Gpu)
    BY WriteFields DEF Active
  <1>2. /\ UNCHANGED <<gpus, proc, ids>> /\ Present' = Present
        /\ \/ trouble' = trouble
           \/ trouble' = trouble \cup {"leak"} \/ trouble' = trouble \cup {"leak", "freed"}
    BY DEF InitOver, InitMade, InitFailed, Present, Lost
  <1>3. /\ Calm' <=> Calm
        /\ trouble' \subseteq {"cut"} => Calm /\ trouble \subseteq {"cut"}
        /\ trouble' \subseteq {"leak"} => Calm /\ trouble \subseteq {"leak"}
    BY <1>2 DEF Calm
  <1>4. ASSUME Calm
        PROVE  /\ \A v \in Writer \ {w} : ~Active(v)
               /\ WriteSound(c) /\ Range(c.add) \cap Present = {}
               /\ \A g \in Present : gpus[g] \in live /\ board[gpus[g]] = g
               /\ Len(c.add) \in {0, 1} /\ c.k <= Len(c.add) + 1
               /\ c.k <= Len(c.add) => c.k = 1 /\ Len(c.add) = 1 /\ ~Waiting(c)
               /\ c.k > Len(c.add) => (Waiting(c) <=> Len(c.add) = 1)
    <2>1. /\ \A v \in Writer \ {w} : ~Active(v)
          /\ WriteSound(c)
          /\ \A g \in Present : gpus[g] \in live /\ board[gpus[g]] = g
      BY <1>1, <1>4, Alone
    <2>2. Len(c.add) <= 1 /\ Len(c.add) \in Nat /\ c.k <= Len(c.add) + 1
      BY <1>1, <2>1, FewAdded DEF WriteSound
    <2>. DEFINE n == Len(c.add)
    <2>3. n \in Nat /\ n <= 1 /\ c.k \in Nat \ {0} /\ c.k <= n + 1  BY <1>1, <2>2
    <2>4. /\ c.k > Len(c.add) \/ c.k <= Len(c.add)
          /\ Waiting(c) <=> n = 1 /\ c.k = 2
      BY <1>1, <2>3 DEF Waiting
    <2>5. Range(c.add) \cap Present = {}  BY <1>1, <2>1 DEF WriteSound
    <2>. HIDE DEF c, n
    <2>6. n \in {0, 1} /\ (c.k <= n => c.k = 1 /\ n = 1) /\ (c.k > n => (n = 1 <=> n = 1 /\ c.k = 2))
      BY <2>3
    <2>. QED  BY <2>1, <2>2, <2>4, <2>5, <2>6 DEF n
  <1>5. trouble' \subseteq {"leak"} =>
           /\ proc = Present /\ Range(ids) = Present
           /\ Range(c.want) = (Present \ c.del) \cup Range(c.add)
    <2>. SUFFICES ASSUME trouble' \subseteq {"leak"}
         PROVE /\ proc = Present /\ Range(ids) = Present
               /\ Range(c.want) = (Present \ c.del) \cup Range(c.add)
      OBVIOUS
    <2>1. \A v \in Writer : call[v].at \in {"idle", "init"}
      BY <1>1, <1>3, <1>4 DEF Active
    <2>. QED  BY <1>1, <1>3, <2>1 DEF Listing
  <1>6. trouble' \subseteq {"cut"} =>
           \A o \in live : (\E g \in Present : gpus[g] = o) \/ (Waiting(c) /\ c.last = o)
    BY <1>3, <1>4 DEF Accounted
  <1>. HIDE DEF c
  <1>7. CASE InitOver(c, next)
    <2>1. /\ next.at = "del" /\ next.k = 1 /\ next.want = c.want /\ next.add = c.add
          /\ next.del = c.del /\ next.last = c.last /\ UNCHANGED <<live, board>>
          /\ c.k > Len(c.add)
      BY <1>7 DEF InitOver, Carried
    <2>2. Calm => (Waiting(next) <=> Waiting(c))  BY <1>4, <2>1 DEF Waiting
    <2>3. Calm => WriteSound(next)'
      BY <1>1, <1>2, <1>4, <2>1, <2>2 DEF WriteSound, Waiting
    <2>. QED  BY <1>2, <1>3, <1>4, <1>5, <1>6, <2>1, <2>2, <2>3, AloneStep DEF c
  <1>8. CASE InitMade(c, next)
    <2>1. /\ next.at = "init" /\ next.k = c.k + 1 /\ next.want = c.want /\ next.add = c.add
          /\ next.del = c.del /\ next.last \in Obj \ live /\ live' = live \cup {next.last}
          /\ board' = [board EXCEPT ![next.last] = c.add[c.k]] /\ c.k <= Len(c.add)
      BY <1>8 DEF InitMade, Carried
    <2>2. /\ board'[next.last] = c.add[c.k]
          /\ \A o \in live : board'[o] = board[o]
      BY <2>1 DEF TypeOK
    <2>3. Calm => c.k = 1 /\ next.k = 2 /\ Len(next.add) = 1 /\ ~Waiting(c) /\ Waiting(next)
      BY <1>4, <2>1 DEF Waiting
    <2>4. Calm => WriteSound(next)'
      BY <1>1, <1>2, <1>4, <2>1, <2>2, <2>3 DEF WriteSound, Waiting
    <2>5. Calm => \A g \in Present' : gpus'[g] \in live' /\ board'[gpus'[g]] = g
      BY <1>2, <1>4, <2>1, <2>2
    <2>6. trouble' \subseteq {"cut"} =>
              \A o \in live' : \/ \E g \in Present' : gpus'[g] = o
                               \/ next.at # "idle" /\ Waiting(next) /\ next.last = o
      BY <1>2, <1>3, <1>6, <2>1, <2>3
    <2>7. trouble' \subseteq {"leak"} =>
              /\ proc' = Present' /\ Range(ids)' = Present'
              /\ Range(next.want) = (Present' \ next.del) \cup Range(next.add)
      BY <1>2, <1>5, <2>1
    <2>. QED  BY <1>3, <1>4, <2>1, <2>4, <2>5, <2>6, <2>7, AloneStep
  <1>9. CASE InitFailed(c, next)
    <2>1. next.at = "idle" /\ c.k <= Len(c.add)  BY <1>9 DEF InitFailed, Idle
    <2>2. PICK lost \in SUBSET Obj :
            /\ Free({gpus[c.add[c.k]]}, lost)
            /\ lost = {} \/ "leak" \in trouble'
      <3>1. CASE Free({gpus[c.add[c.k]]}, {})  BY <3>1
      <3>2. ASSUME NEW o \in Obj \ live, Free({gpus[c.add[c.k]]}, {o}),
                   NEW some \in Lost, trouble' = trouble \cup some
            PROVE  /\ {o} \in SUBSET Obj /\ Free({gpus[c.add[c.k]]}, {o})
                   /\ "leak" \in trouble'
        BY <3>2 DEF Lost
      <3>. QED  BY <1>9, <3>1, <3>2 DEF InitFailed
    <2>3. /\ live' = (live \ {gpus[c.add[c.k]]}) \cup lost
          /\ \A o \in Obj \ {gpus[c.add[c.k]]} : board'[o] = board[o]
      BY <2>2, FreeTypes
    <2>4. Calm => gpus[c.add[c.k]] \notin Obj
      <3>. SUFFICES ASSUME Calm PROVE gpus[c.add[c.k]] \notin Obj  OBVIOUS
      <3>1. c.k = 1 /\ Len(c.add) = 1  BY <1>4, <2>1
      <3>2. c.add[1] \in Gpu /\ Range(c.add) = {c.add[1]}  BY <1>1, <3>1, FewAdded
      <3>3. c.add[1] \in Gpu \ Present  BY <1>4, <3>2
      <3>. QED  BY <3>1, <3>3, DevicesAssumption DEF Present
    <2>5. Calm => live \subseteq live' /\ \A o \in live : board'[o] = board[o]
      BY <2>3, <2>4 DEF TypeOK
    <2>6. Calm => \A g \in Present' : gpus'[g] \in live' /\ board'[gpus'[g]] = g
      BY <1>2, <1>4, <2>5
    <2>7. trouble' \subseteq {"cut"} => \A o \in live' : \E g \in Present' : gpus'[g] = o
      <3>. SUFFICES ASSUME trouble' \subseteq {"cut"}
           PROVE \A o \in live' : \E g \in Present' : gpus'[g] = o
        OBVIOUS
      <3>1. lost = {}  BY <2>2
      <3>2. ~Waiting(c)  BY <1>3, <1>4, <2>1
      <3>. QED  BY <1>2, <1>6, <2>3, <3>1, <3>2
    <2>. QED  BY <1>2, <1>3, <1>4, <1>5, <2>1, <2>6, <2>7, AloneStep
  <1>. QED  BY <1>7, <1>8, <1>9 DEF c

LEMMA DeleteKeeps ==
    ASSUME DevicesInv, NEW w \in Writer, NEW next \in CallStates,
           call' = [call EXCEPT ![w] = next], call[w] \in WriteStates, call[w].at = "del",
           DeleteOver(call[w], next) \/ \E g \in call[w].del : Deleted(call[w], next, g)
    PROVE  Owned' /\ Accounted' /\ Listing'
  <1>. USE DEF DevicesInv
  <1>. DEFINE c == call[w]
  <1>1. /\ c.at = "del" /\ Active(w) /\ c.k \in Nat \ {0} /\ c.add \in Seq(Gpu)
        /\ c.del \subseteq Gpu
    BY WriteFields DEF Active
  <1>2. trouble' = trouble /\ ids' = ids  BY DEF DeleteOver, Deleted
  <1>3. /\ trouble \subseteq {"cut"} => Calm
        /\ trouble \subseteq {"leak"} => Calm
        /\ Calm' <=> Calm
    BY <1>2 DEF Calm
  <1>4. ASSUME Calm
        PROVE  /\ \A v \in Writer \ {w} : ~Active(v)
               /\ WriteSound(c) /\ Range(c.add) \cap Present = {} /\ Len(c.add) <= 1
               /\ \A g \in Present : gpus[g] \in live /\ board[gpus[g]] = g
               /\ Waiting(c) <=> Len(c.add) = 1
               /\ Waiting(c) => c.last \in live /\ board[c.last] = c.add[1]
                                /\ c.add[1] \notin Present
               /\ c.del \subseteq Present
    <2>1. /\ \A v \in Writer \ {w} : ~Active(v)
          /\ WriteSound(c)
          /\ \A g \in Present : gpus[g] \in live /\ board[gpus[g]] = g
      BY <1>1, <1>4, Alone
    <2>. HIDE DEF c
    <2>2. Waiting(c) <=> Len(c.add) = 1  BY <1>1 DEF Waiting
    <2>3. /\ Range(c.add) \cap Present = {} /\ Len(c.add) <= 1 /\ c.del \subseteq Present
          /\ Waiting(c) => c.last \in live /\ board[c.last] = c.add[1]
      BY <1>1, <2>1 DEF WriteSound
    <2>4. Len(c.add) = 1 => Range(c.add) = {c.add[1]}  BY <1>1, FewAdded
    <2>. QED  BY <2>1, <2>2, <2>3, <2>4
  <1>5. trouble \subseteq {"leak"} =>
           proc = Present /\ Range(c.want) = (Present \ c.del) \cup Range(c.add)
    BY <1>1, <1>3 DEF Listing
  <1>6. trouble \subseteq {"cut"} =>
           \A o \in live : (\E g \in Present : gpus[g] = o) \/ (Waiting(c) /\ c.last = o)
    BY <1>3, <1>4 DEF Accounted
  <1>. HIDE DEF c
  <1>7. CASE DeleteOver(c, next)
    <2>1. /\ next.at = "add" /\ next.k = 1 /\ next.want = c.want /\ next.add = c.add
          /\ next.del = {} /\ c.del = {} /\ next.last = c.last
          /\ UNCHANGED <<gpus, live, board, proc>> /\ Present' = Present
      BY <1>7 DEF DeleteOver, Carried, Present
    <2>2. Calm => (Waiting(next) <=> Waiting(c))  BY <1>4, <2>1 DEF Waiting
    <2>3. Len(c.add) \in Nat /\ (Len(c.add) = 0 => Range(c.add) = {})  BY <1>1, FewAdded
    <2>4. Calm => WriteSound(next)'
      <3>. SUFFICES ASSUME Calm PROVE WriteSound(next)'  OBVIOUS
      <3>1. Waiting(next) => next.last \in live' /\ board'[next.last] = next.add[1]
        BY <1>4, <2>1, <2>2
      <3>2. IF next.k > Len(next.add) THEN Range(next.add) \subseteq Present'
            ELSE Range(next.add) \cap Present' = {}
        <4>1. CASE Len(c.add) = 0  BY <2>1, <2>3, <4>1
        <4>2. CASE Len(c.add) # 0
          <5>1. ~(1 > Len(c.add))  BY <2>3, <4>2
          <5>. QED  BY <1>4, <2>1, <5>1
        <4>. QED  BY <4>1, <4>2
      <3>. QED  BY <1>4, <2>1, <3>1, <3>2 DEF WriteSound, Waiting
    <2>5. trouble' \subseteq {"cut"} =>
              \A o \in live' : \/ \E g \in Present' : gpus'[g] = o
                               \/ next.at # "idle" /\ Waiting(next) /\ next.last = o
      BY <1>2, <1>3, <1>6, <2>1, <2>2
    <2>6. trouble' \subseteq {"leak"} =>
              /\ proc' = Present'
              /\ Range(next.want) = (Present' \ next.del) \cup Range(next.add)
      BY <1>2, <1>5, <2>1
    <2>. QED  BY <1>3, <1>4, <2>1, <2>4, <2>5, <2>6, AloneStep
  <1>8. ASSUME NEW g \in c.del, Deleted(c, next, g)  PROVE Owned' /\ Accounted' /\ Listing'
    <2>1. /\ next.at = "del" /\ next.k = c.k /\ next.want = c.want /\ next.add = c.add
          /\ next.del = c.del \ {g} /\ next.last = c.last
          /\ gpus' = [gpus EXCEPT ![g] = NULL] /\ proc' = proc \ {g}
          /\ Free({gpus[g]}, {})
      BY <1>8 DEF Deleted, Carried
    <2>2. /\ Present' = Present \ {g}
          /\ \A h \in Gpu \ {g} : gpus'[h] = gpus[h]
      BY <1>1, <1>8, <2>1, PresentStep
    <2>3. /\ live' = live \ {gpus[g]}
          /\ \A o \in live' : board'[o] = board[o]
      BY <2>1, FreeTypes DEF TypeOK
    <2>4. Present \subseteq Gpu  BY DEF Present
    <2>5. Calm => \A h \in Present' : gpus'[h] \in live' /\ board'[gpus'[h]] = h
      BY <1>4, <1>8, <2>2, <2>3, <2>4
    <2>6. Calm => (Waiting(next) <=> Waiting(c))  BY <1>4, <2>1 DEF Waiting
    <2>7. Calm /\ Waiting(c) => c.last \in live' /\ board'[c.last] = c.add[1]
      BY <1>4, <1>8, <2>3
    <2>8. Calm => WriteSound(next)'
      BY <1>4, <2>1, <2>2, <2>6, <2>7 DEF WriteSound, Waiting
    <2>9. trouble' \subseteq {"cut"} =>
              \A o \in live' : \/ \E h \in Present' : gpus'[h] = o
                               \/ next.at # "idle" /\ Waiting(next) /\ next.last = o
      <3>. SUFFICES ASSUME trouble' \subseteq {"cut"}, NEW o \in live'
           PROVE  (\E h \in Present' : gpus'[h] = o) \/ (Waiting(next) /\ next.last = o)
        BY <2>1
      <3>1. Calm /\ o \in live /\ o # gpus[g]  BY <1>2, <1>3, <2>3
      <3>2. (\E h \in Present : gpus[h] = o) \/ (Waiting(c) /\ c.last = o)
        BY <1>2, <1>6, <3>1
      <3>. QED  BY <2>1, <2>2, <2>4, <2>6, <3>1, <3>2
    <2>10. trouble' \subseteq {"leak"} =>
              /\ proc' = Present'
              /\ Range(next.want) = (Present' \ next.del) \cup Range(next.add)
      BY <1>2, <1>5, <1>8, <2>1, <2>2
    <2>. QED  BY <1>3, <1>4, <2>1, <2>5, <2>8, <2>9, <2>10, AloneStep
  <1>. QED  BY <1>7, <1>8 DEF c

LEMMA AddKeeps ==
    ASSUME DevicesInv, NEW w \in Writer, NEW next \in CallStates,
           call' = [call EXCEPT ![w] = next], call[w] \in WriteStates, call[w].at = "add",
           AddOver(call[w], next) \/ Added(call[w], next)
    PROVE  Owned' /\ Accounted' /\ Listing'
  <1>. USE DEF DevicesInv
  <1>. DEFINE c == call[w]
  <1>1. /\ c.at = "add" /\ Active(w) /\ c.k \in Nat \ {0} /\ c.add \in Seq(Gpu)
        /\ c.del \subseteq Gpu
    BY WriteFields DEF Active
  <1>2. /\ UNCHANGED <<live, board>>
        /\ trouble' = trouble \/ trouble' = trouble \cup {"cut"}
    BY DEF AddOver, Added
  <1>3. /\ trouble' \subseteq {"cut"} => Calm /\ trouble \subseteq {"cut"}
        /\ trouble' \subseteq {"leak"} => Calm /\ trouble' = trouble
        /\ Calm' <=> Calm
    BY <1>2 DEF Calm
  <1>4. ASSUME Calm
        PROVE  /\ \A v \in Writer \ {w} : ~Active(v)
               /\ WriteSound(c) /\ c.del = {} /\ Len(c.add) <= 1
               /\ \A g \in Present : gpus[g] \in live /\ board[gpus[g]] = g
               /\ Waiting(c) <=> Len(c.add) = 1 /\ c.k = 1
               /\ c.k > Len(c.add) => Range(c.add) \subseteq Present
               /\ c.k <= Len(c.add) =>
                     /\ Waiting(c) /\ c.k = 1 /\ Len(c.add) = 1
                     /\ c.add[c.k] \in Gpu \ Present /\ Range(c.add) = {c.add[c.k]}
                     /\ c.last \in live /\ board[c.last] = c.add[c.k]
    <2>1. /\ \A v \in Writer \ {w} : ~Active(v)
          /\ WriteSound(c)
          /\ \A g \in Present : gpus[g] \in live /\ board[gpus[g]] = g
      BY <1>1, <1>4, Alone
    <2>. HIDE DEF c
    <2>2. Waiting(c) <=> Len(c.add) = 1 /\ c.k = 1  BY <1>1 DEF Waiting
    <2>3. /\ c.k > Len(c.add) => Range(c.add) \subseteq Present
          /\ ~(c.k > Len(c.add)) => Range(c.add) \cap Present = {}
          /\ Len(c.add) <= 1 /\ c.del = {}
          /\ Waiting(c) => c.last \in live /\ board[c.last] = c.add[1]
      BY <1>1, <2>1 DEF WriteSound
    <2>4. Len(c.add) \in Nat /\ (Len(c.add) = 1 => Range(c.add) = {c.add[1]} /\ c.add[1] \in Gpu)
      BY <1>1, FewAdded
    <2>. DEFINE n == Len(c.add)
    <2>5. n \in Nat /\ n <= 1 /\ c.k \in Nat \ {0}  BY <1>1, <2>3, <2>4
    <2>. HIDE DEF n
    <2>6. c.k <= n => ~(c.k > n) /\ n = 1 /\ c.k = 1  BY <2>5
    <2>7. c.k <= n => /\ Waiting(c) /\ c.k = 1 /\ n = 1
                      /\ c.add[c.k] \in Gpu \ Present /\ Range(c.add) = {c.add[c.k]}
                      /\ c.last \in live /\ board[c.last] = c.add[c.k]
      BY <2>2, <2>3, <2>4, <2>6 DEF n
    <2>. QED  BY <2>1, <2>2, <2>3, <2>7 DEF n
  <1>5. trouble \subseteq {"leak"} =>
           proc = Present /\ Range(c.want) = (Present \ c.del) \cup Range(c.add)
    BY <1>1 DEF Listing
  <1>6. trouble' \subseteq {"cut"} =>
           \A o \in live : (\E g \in Present : gpus[g] = o) \/ (Waiting(c) /\ c.last = o)
    BY <1>3, <1>4 DEF Accounted
  <1>. HIDE DEF c
  <1>7. CASE AddOver(c, next)
    <2>1. /\ next.at = "idle" /\ ids' = c.want /\ c.k > Len(c.add)
          /\ UNCHANGED <<gpus, proc, trouble>> /\ Present' = Present
      BY <1>7 DEF AddOver, Present, Idle
    <2>2. Calm => ~Waiting(c)
      <3>. SUFFICES ASSUME Calm, Len(c.add) = 1, c.k = 1 PROVE FALSE  BY <1>4
      <3>. QED  BY <2>1
    <2>3. trouble' \subseteq {"cut"} => \A o \in live' : \E g \in Present' : gpus'[g] = o
      BY <1>2, <1>3, <1>6, <2>1, <2>2
    <2>4. trouble' \subseteq {"leak"} => proc' = Present' /\ Range(ids)' = Present'
      <3>. SUFFICES ASSUME trouble' \subseteq {"leak"}
           PROVE  proc' = Present' /\ Range(ids)' = Present'
        OBVIOUS
      <3>1. Range(c.want) = Present  BY <1>3, <1>4, <1>5, <2>1
      <3>2. proc = Present  BY <1>3, <1>5
      <3>. QED  BY <2>1, <3>1, <3>2
    <2>. QED  BY <1>2, <1>3, <1>4, <2>1, <2>3, <2>4, AloneStep
  <1>8. CASE Added(c, next)
    <2>. DEFINE g == c.add[c.k]
    <2>1. gpus' = [gpus EXCEPT ![g] = c.last] /\ ids' = ids /\ c.k <= Len(c.add)
      BY <1>8 DEF Added
    <2>2. \/ /\ next.at = "add" /\ next.k = c.k + 1 /\ next.want = c.want /\ next.add = c.add
             /\ next.del = c.del /\ proc' = proc \cup {g} /\ trouble' = trouble
          \/ next.at = "idle" /\ trouble' = trouble \cup {"cut"}
      BY <1>8 DEF Added, Carried, Idle
    <2>. HIDE DEF g
    <2>3. Calm => /\ g \in Gpu \ Present /\ Range(c.add) = {g} /\ c.k = 1 /\ Len(c.add) = 1
                  /\ c.last \in live /\ board[c.last] = g
      BY <1>4, <2>1 DEF g
    <2>4. Calm => /\ Present' = Present \cup {g} /\ gpus'[g] = c.last
                  /\ \A h \in Gpu \ {g} : gpus'[h] = gpus[h]
      <3>. SUFFICES ASSUME Calm
           PROVE  /\ Present' = Present \cup {g} /\ gpus'[g] = c.last
                  /\ \A h \in Gpu \ {g} : gpus'[h] = gpus[h]
        OBVIOUS
      <3>1. g \in Gpu /\ c.last # NULL  BY <2>3, DevicesAssumption DEF TypeOK
      <3>. QED  BY <2>1, <3>1, PresentStep
    <2>5. Present \subseteq Gpu  BY DEF Present
    <2>6. Calm => \A h \in Present' : gpus'[h] \in live' /\ board'[gpus'[h]] = h
      BY <1>2, <1>4, <2>3, <2>4, <2>5
    <2>7. trouble' \subseteq {"cut"} => \A o \in live' : \E h \in Present' : gpus'[h] = o
      <3>. SUFFICES ASSUME trouble' \subseteq {"cut"}, NEW o \in live'
           PROVE  \E h \in Present' : gpus'[h] = o
        OBVIOUS
      <3>1. Calm  BY <1>3
      <3>2. (\E h \in Present : gpus[h] = o) \/ c.last = o  BY <1>2, <1>6
      <3>. QED  BY <2>3, <2>4, <2>5, <3>1, <3>2
    <2>8. CASE /\ next.at = "add" /\ next.k = c.k + 1 /\ next.want = c.want
               /\ next.add = c.add /\ next.del = c.del /\ proc' = proc \cup {g}
      <3>1. Calm => ~Waiting(next) /\ next.k = 2 /\ Len(next.add) = 1
        BY <2>3, <2>8 DEF Waiting
      <3>2. Calm => WriteSound(next)'
        <4>. SUFFICES ASSUME Calm PROVE WriteSound(next)'  OBVIOUS
        <4>1. Range(next.add) \subseteq Present'  BY <2>3, <2>4, <2>8
        <4>2. next.k > Len(next.add) /\ Len(next.add) <= 1
          <5>1. next.k = 2 /\ Len(next.add) = 1  BY <3>1
          <5>2. 2 > 1 /\ 1 <= 1  OBVIOUS
          <5>. QED  BY <5>1, <5>2, Zenon
        <4>. QED  BY <1>4, <2>8, <3>1, <4>1, <4>2 DEF WriteSound, Waiting
      <3>3. trouble' \subseteq {"leak"} =>
              /\ proc' = Present'
              /\ Range(next.want) = (Present' \ next.del) \cup Range(next.add)
        <4>. SUFFICES ASSUME trouble' \subseteq {"leak"}
             PROVE  /\ proc' = Present'
                    /\ Range(next.want) = (Present' \ next.del) \cup Range(next.add)
          OBVIOUS
        <4>1. proc = Present /\ Range(c.want) = (Present \ c.del) \cup Range(c.add)
          BY <1>3, <1>5
        <4>. QED  BY <1>3, <1>4, <2>3, <2>4, <2>8, <4>1
      <3>. QED  BY <1>3, <1>4, <2>6, <2>7, <2>8, <3>2, <3>3, AloneStep
    <2>9. CASE next.at = "idle" /\ trouble' = trouble \cup {"cut"}
      <3>1. ~(trouble' \subseteq {"leak"})  BY <2>9
      <3>. QED  BY <1>3, <1>4, <2>6, <2>7, <2>9, <3>1, AloneStep
    <2>. QED  BY <2>2, <2>8, <2>9
  <1>. QED  BY <1>7, <1>8 DEF c

-----------------------------------------------------------------------------
(* The invariant holds of every behaviour, for any number of writers, GPUs *)
(* and objects and any lists that are written.                             *)
LEMMA InitSound == Init => DevicesInv
  <1>. SUFFICES ASSUME Init PROVE DevicesInv  OBVIOUS
  <1>1. PICK o \in [InitGpus -> Obj] :
          /\ IsInjective(o)
          /\ gpus = [g \in Gpu |-> IF g \in InitGpus THEN o[g] ELSE NULL]
          /\ live = {o[g] : g \in InitGpus}
          /\ board = [x \in Obj |-> IF \E g \in InitGpus : o[g] = x
                                    THEN CHOOSE g \in InitGpus : o[g] = x ELSE NULL]
    BY DEF Init
  <1>2. /\ InitGpus \subseteq Gpu /\ NULL \notin Obj
        /\ named = {} /\ proc = InitGpus /\ ids \in Ordered(InitGpus)
        /\ call = [w \in Writer |-> Idle] /\ trouble = {}
    BY DevicesAssumption DEF Init
  <1>3. Range(ids) = InitGpus  BY <1>2 DEF Ordered
  <1>4. \A g \in InitGpus : gpus[g] = o[g] /\ o[g] \in Obj  BY <1>1, <1>2
  <1>5. Present = InitGpus  BY <1>1, <1>2, <1>4 DEF Present
  <1>6. \A g, h \in InitGpus : o[g] = o[h] => g = h  BY <1>1 DEF IsInjective
  <1>7. ASSUME NEW g \in InitGpus  PROVE board[gpus[g]] = g
    <2>1. (CHOOSE h \in InitGpus : o[h] = o[g]) = g  BY <1>6
    <2>. QED  BY <1>1, <1>4, <2>1
  <1>8. TypeOK
    <2>1. gpus \in [Gpu -> Obj \cup {NULL}]  BY <1>1, <1>4
    <2>2. live \subseteq Obj  BY <1>1, <1>4
    <2>3. board \in [Obj -> Gpu \cup {NULL}]  BY <1>1, <1>2
    <2>4. call \in [Writer -> CallStates]  BY <1>2 DEF CallStates
    <2>. QED  BY <1>2, <2>1, <2>2, <2>3, <2>4 DEF TypeOK
  <1>9. \A w \in Writer : call[w].at = "idle"  BY <1>2 DEF Idle
  <1>10. Owned  BY <1>1, <1>4, <1>5, <1>7, <1>9 DEF Owned, Active
  <1>11. Accounted  BY <1>1, <1>4, <1>5 DEF Accounted
  <1>12. Listing  BY <1>2, <1>3, <1>5, <1>9 DEF Listing, Active
  <1>. QED  BY <1>8, <1>10, <1>11, <1>12 DEF DevicesInv

LEMMA StepSound == DevicesInv /\ [Next]_vars => DevicesInv'
  <1>. SUFFICES ASSUME DevicesInv, [Next]_vars PROVE DevicesInv'  OBVIOUS
  <1>1. TypeOK /\ TypeOK'  BY TypesKept DEF DevicesInv
  <1>2. ASSUME NEW w \in Writer, NEW want \in Lists, CoresBegin(w, want)
        PROVE  Owned' /\ Accounted' /\ Listing'
    BY <1>1, <1>2, BeginEffect, BeginKeeps
  <1>3. ASSUME NEW w \in Writer, CoresInit(w)  PROVE Owned' /\ Accounted' /\ Listing'
    BY <1>1, <1>3, InitEffect, InitKeeps
  <1>4. ASSUME NEW w \in Writer, CoresDelete(w)  PROVE Owned' /\ Accounted' /\ Listing'
    BY <1>1, <1>4, DeleteEffect, DeleteKeeps
  <1>5. ASSUME NEW w \in Writer, CoresAdd(w)  PROVE Owned' /\ Accounted' /\ Listing'
    BY <1>1, <1>5, AddEffect, AddKeeps
  <1>6. CASE UNCHANGED <<gpus, live, board, proc, ids, call, trouble>>
    <2>1. Present' = Present /\ (Calm' <=> Calm)  BY <1>6 DEF Present, Calm
    <2>2. Owned'
      BY <1>6, <2>1 DEF DevicesInv, Owned, WriteSound, Waiting, Active
    <2>3. Accounted'  BY <1>6, <2>1 DEF DevicesInv, Accounted, Waiting, Active
    <2>4. Listing'  BY <1>6, <2>1 DEF DevicesInv, Listing, Active
    <2>. QED  BY <1>1, <2>2, <2>3, <2>4 DEF DevicesInv
  <1>. QED  BY <1>1, <1>2, <1>3, <1>4, <1>5, <1>6, StepShape DEF DevicesInv

THEOREM Invariance == Spec => []DevicesInv
  <1>. QED  BY InitSound, StepSound, PTL DEF Spec

(* Every variable has its type.                                            *)
THEOREM TypeCorrect == Spec => []TypeOK
  <1>1. DevicesInv => TypeOK  BY DEF DevicesInv
  <1>. QED  BY <1>1, Invariance, PTL

(* The table holds for every GPU an allocated object that was initialised  *)
(* for it, whatever fails in the writes, unless two of them overlap, one   *)
(* adds two GPUs, or one frees the pci_dev of a GPU.                       *)
THEOREM TableSound == Spec => []OwnBoard
  <1>1. DevicesInv => OwnBoard  BY DEF DevicesInv, Owned, Calm, OwnBoard
  <1>. QED  BY <1>1, Invariance, PTL

(* Between two writes the objects allocated are those of the table.        *)
THEOREM NoneForgotten == Spec => []NothingForgotten
  <1>1. DevicesInv => NothingForgotten
    <2>. SUFFICES ASSUME DevicesInv, trouble \subseteq {"cut"}, \A w \in Writer : call[w] = Idle
         PROVE  live = {gpus[g] : g \in Present}
      BY DEF NothingForgotten
    <2>1. Calm /\ \A w \in Writer : ~Active(w)  BY CallShape DEF Calm, Active, DevicesInv
    <2>. QED  BY <2>1 DEF DevicesInv, Owned, Accounted
  <1>. QED  BY <1>1, Invariance, PTL

(* Between two writes gpu_ids, the table and the directories name the same *)
(* GPUs.                                                                   *)
THEOREM ListsAgree == Spec => []ListedIsPresent
  <1>1. DevicesInv => ListedIsPresent
    <2>. SUFFICES ASSUME DevicesInv, trouble \subseteq {"leak"},
                         \A w \in Writer : call[w] = Idle
         PROVE  Range(ids) = Present /\ proc = Present
      BY DEF ListedIsPresent
    <2>1. \A w \in Writer : call[w].at = "idle"  BY CallShape DEF DevicesInv
    <2>. QED  BY <2>1 DEF DevicesInv, Listing
  <1>. QED  BY <1>1, Invariance, PTL

(* A device node leads to its own GPU and instance, or to nothing while    *)
(* that GPU is removed: the decoding of its minor number and what the      *)
(* table holds, together.                                                  *)
THEOREM NodesReachOwnGpu == Spec => []OpensOwnGpu
  <1>1. DevicesInv => OpensOwnGpu
    <2>. SUFFICES ASSUME DevicesInv, trouble \cap {"overlap", "crowd", "freed"} = {},
                         NEW type \in {CARD, RENDER}, NEW g \in Gpu, NEW s \in Slots,
                         ~(type = RENDER /\ s = 15)
         PROVE  Reached(type, g, s)
      BY DEF OpensOwnGpu
    <2>0. Calm  BY DEF Calm
    <2>. DEFINE m == MinorOf(type, g, s)
    <2>1. DEV_TYPE(m) = type /\ DEV_SGPU_ID(m) = s /\ DEV_GPU_ID(m) = g
      BY DevicesAssumption, MinorDecodes
    <2>2. g \in Present => gpus[g] \in live /\ board[gpus[g]] = g /\ gpus[g] # NULL
      BY <2>0 DEF DevicesInv, Owned, Present
    <2>3. OpenedBy(type, g, s) =
            [type |-> type, slot |-> s, gpu |-> IF g \in Present THEN gpus[g] ELSE NULL]
      BY <2>1 DEF OpenedBy
    <2>. QED  BY <2>2, <2>3 DEF Reached
  <1>. QED  BY <1>1, Invariance, PTL
=============================================================================
