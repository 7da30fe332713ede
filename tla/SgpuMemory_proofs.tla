-------------------------- MODULE SgpuMemory_proofs --------------------------
(***************************************************************************)
(* Theorems about SgpuMemory, for every value of its constants.            *)
(***************************************************************************)
EXTENDS SgpuMemory, FiniteSetTheorems, TLAPS

-----------------------------------------------------------------------------
(* Sums of charges: the facts about Bytes the other proofs cite.           *)

(* A new charge adds its bytes to the sum.                                 *)
LEMMA ChargedAdd ==
    ASSUME NEW H, NEW c, c.bytes \in Nat, c \notin H, IsFiniteSet(Bytes(H))
    PROVE  /\ IsFiniteSet(Bytes(H \cup {c}))
           /\ Charged(H \cup {c}) = Charged(H) + c.bytes
<1> DEFINE C == {c} \X (1 .. c.bytes)
<1>1. Bytes(H \cup {c}) = Bytes(H) \cup C
  BY DEF Bytes
<1>2. Bytes(H) \cap C = {}
  BY DEF Bytes
<1>3. IsFiniteSet(1 .. c.bytes) /\ Cardinality(1 .. c.bytes) = c.bytes
  BY FS_Interval
<1>4. IsFiniteSet({c}) /\ Cardinality({c}) = 1
  BY FS_Singleton
<1>5. IsFiniteSet(C) /\ Cardinality(C) = c.bytes
  <2>1. IsFiniteSet(C) /\ Cardinality(C) = Cardinality({c}) * Cardinality(1 .. c.bytes)
    BY <1>3, <1>4, FS_Product, Zenon
  <2>2. 1 * c.bytes = c.bytes
    OBVIOUS
  <2> QED
    BY <2>1, <2>2, <1>3, <1>4
<1>6. Cardinality(Bytes(H)) \in Nat
  BY FS_CardinalityType
<1>7. Cardinality(Bytes(H) \cap C) = 0
  BY <1>2, FS_EmptySet
<1> HIDE DEF C
<1>8. /\ IsFiniteSet(Bytes(H) \cup C)
      /\ Cardinality(Bytes(H) \cup C) =
           Cardinality(Bytes(H)) + Cardinality(C) - Cardinality(Bytes(H) \cap C)
  BY <1>5, FS_Union, Zenon
<1>9. Cardinality(Bytes(H) \cup C) = Cardinality(Bytes(H)) + c.bytes
  BY <1>5, <1>6, <1>7, <1>8
<1> QED
  BY <1>1, <1>8, <1>9, Zenon DEF Charged

(* Removing charges subtracts their bytes from the sum.                    *)
LEMMA ChargedRemove ==
    ASSUME NEW H, IsFiniteSet(Bytes(H)), NEW G \in SUBSET H
    PROVE  /\ IsFiniteSet(Bytes(G))
           /\ IsFiniteSet(Bytes(H \ G))
           /\ Charged(G) \in Nat
           /\ Charged(H \ G) \in Nat
           /\ Charged(H) = Charged(H \ G) + Charged(G)
<1>1. Bytes(G) \subseteq Bytes(H)
  BY DEF Bytes
<1>2. Bytes(H \ G) = Bytes(H) \ Bytes(G)
  BY DEF Bytes
<1>3. IsFiniteSet(Bytes(G)) /\ IsFiniteSet(Bytes(H \ G))
  BY <1>1, <1>2, FS_Subset, FS_Difference
<1>4. Bytes(H) \cap Bytes(G) = Bytes(G)
  BY <1>1
<1>5. Cardinality(Bytes(H \ G)) =
        Cardinality(Bytes(H)) - Cardinality(Bytes(G))
  BY <1>2, <1>4, FS_Difference
<1> QED
  BY <1>3, <1>5, FS_CardinalityType DEF Charged

(* Without handlers nothing is charged.                                    *)
LEMMA ChargedEmpty == IsFiniteSet(Bytes({})) /\ Charged({}) = 0
<1>1. Bytes({}) = {}
  BY DEF Bytes
<1> QED
  BY <1>1, FS_EmptySet DEF Charged

(* One charge alone sums to its bytes.                                     *)
LEMMA ChargedOne ==
    ASSUME NEW c, c.bytes \in Nat
    PROVE  IsFiniteSet(Bytes({c})) /\ Charged({c}) = c.bytes
<1>1. /\ IsFiniteSet(Bytes({} \cup {c}))
      /\ Charged({} \cup {c}) = Charged({}) + c.bytes
  BY ChargedEmpty, ChargedAdd, Zenon
<1>2. {} \cup {c} = {c}
  OBVIOUS
<1> QED
  BY <1>1, <1>2, ChargedEmpty

(* Word arithmetic: reducing an operand early changes nothing.             *)
(* A number has one remainder modulo w, and reducing a summand first does  *)
(* not change a sum modulo w.                                              *)
LEMMA OneRemainder ==
    ASSUME NEW w \in Nat \ {0}, NEW e \in 0 .. w - 1, NEW i \in Int
    PROVE  (e + i * w) % w = e
  <1>. DEFINE q == (e + i * w) \div w
              r == (e + i * w) % w
              n == i - q
  <1>1. i * w \in Int /\ e + i * w \in Int  OBVIOUS
  <1>2. q \in Int /\ r \in 0 .. w - 1 /\ e + i * w = q * w + r  BY <1>1
  <1>3. n \in Int /\ i = q + n  BY <1>2
  <1>. HIDE DEF q, r, n
  <1>4. i * w = q * w + n * w /\ q * w \in Int /\ n * w \in Int  BY <1>2, <1>3
  <1>5. n * w = r - e  BY ONLY <1>2, <1>4, w \in Nat, e \in 0 .. w - 1
  <1>6. n >= 1 => n * w >= w  BY <1>3
  <1>7. n <= -1 => n * w <= -w  BY <1>3
  <1>8. n = 0  BY ONLY <1>2, <1>3, <1>4, <1>5, <1>6, <1>7, w \in Nat, e \in 0 .. w - 1
  <1>9. n * w = 0  BY <1>8
  <1>10. r = e  BY ONLY <1>2, <1>5, <1>9, e \in 0 .. w - 1, w \in Nat
  <1>. QED  BY <1>10 DEF r

LEMMA ModAdd ==
    ASSUME NEW x \in Int, NEW d \in Int, NEW w \in Nat \ {0}
    PROVE  ((x % w) + d) % w = (x + d) % w
  <1>. DEFINE k == x \div w
              j == ((x % w) + d) \div w
              r == ((x % w) + d) % w
              i == k + j
  <1>1. k \in Int /\ j \in Int /\ r \in 0 .. w - 1  OBVIOUS
  <1>2. x = k * w + (x % w) /\ (x % w) + d = j * w + r  OBVIOUS
  <1>3. i \in Int /\ x + d = r + i * w  BY <1>1, <1>2
  <1>. HIDE DEF k, j, r, i
  <1>4. (x + d) % w = r  BY <1>1, <1>3, OneRemainder
  <1>. QED  BY <1>4 DEF r

-----------------------------------------------------------------------------
(* Requests and limits are words.                                          *)
LEMMA SizesAreWords ==
    /\ WordSize \in Nat \ {0}
    /\ \A b \in Sizes : b \in 0 .. WordSize - 1 /\ b \in Nat
    /\ \A m \in Totals \cup {InitTotal} : m \in 0 .. WordSize - 1 /\ m \in Nat
<1>1. /\ WordSize \in Nat \ {0}
      /\ Sizes \subseteq 0 .. WordSize - 1 /\ Totals \subseteq 0 .. WordSize - 1
      /\ InitTotal \in 0 .. WordSize - 1
  BY MemoryAssumption, Zenon
<1> QED
  BY <1>1

(* What a handler holds is a size.                                         *)
LEMMA HandlerBytes == \A r \in HandlerRec : r.bytes \in Sizes /\ r.bytes \in Nat
BY SizesAreWords DEF HandlerRec

(* The sum of a word and a size is reduced to a word.                      *)
LEMMA WordAdd ==
    \A x \in 0 .. WordSize - 1, b \in Sizes : (x + b) % WordSize \in 0 .. WordSize - 1
BY SizesAreWords

(* The inductive invariant behind the ledger: types, the finite sum, the   *)
(* balance, and every handler's task still listed, without which a new     *)
(* limit could be set over live charges.                                   *)
HandlersListed == \A h \in handlers : h.task \in tasks

TasksOwned == \A a \in tasks : tgid[a] \in Proc

LedgerInv ==
    /\ TypeOK
    /\ HandlersListed
    /\ TasksOwned
    /\ IsFiniteSet(Bytes(handlers))
    /\ free = Ledger!Balance(total, handlers)

(* What a step does to the memory figures: nothing, one charge, one refund *)
(* or a new limit over an empty set of handlers.                           *)
ChargeStep ==
    /\ \E c \in HandlerRec :
         /\ c \notin handlers
         /\ handlers' = handlers \cup {c}
         /\ free' = (free - c.bytes) % WordSize
    /\ total' = total

RefundStep ==
    /\ \E G \in SUBSET handlers :
         /\ handlers' = handlers \ G
         /\ free' = (free + Charged(G)) % WordSize
    /\ total' = total

ResizeStep ==
    /\ handlers = {}
    /\ handlers' = {}
    /\ total' \in Totals
    /\ free' = total'

(* Every step of the instance is one of the four.                          *)
LEMMA MemoryEffect ==
    ASSUME TypeOK, HandlersListed, [Next]_vars
    PROVE  UNCHANGED memVars \/ ChargeStep \/ RefundStep \/ ResizeStep
<1> USE DEF memVars, vars, objVars
<1>0. ASSUME NEW A \in SUBSET tasks, CleanTasks(A), total' = total
      PROVE  RefundStep
  BY <1>0 DEF CleanTasks, FreeAfterClean, HandlersOf, RefundStep
<1>1. CASE \E t \in Thread, f \in File : OpenFind(t, f)
  BY <1>1 DEF OpenFind
<1>2. CASE \E t \in Thread : OpenDone(t)
  BY <1>2 DEF OpenDone
<1>3. CASE \E t \in Thread : OpenFail(t)
  BY <1>3 DEF OpenFail
<1>4. CASE \E t \in Thread, f \in File : Close(t, f)
  <2>1. PICK t \in Thread, f \in File : Close(t, f)
    BY <1>4
  <2>2. CASE \E a \in TaskOf(TgidOf[t]) : CleanTasks({a})
    BY <2>1, <2>2, <1>0 DEF Close, TaskOf
  <2>3. CASE UNCHANGED <<free, handlers>>
    BY <2>1, <2>3 DEF Close
  <2> QED
    BY <2>1, <2>2, <2>3 DEF Close
<1>5. CASE \E t \in Thread, f \in File, b \in Sizes \cup {0} : AllocPre(t, f, b)
  BY <1>5 DEF AllocPre
<1>6. CASE \E t \in Thread : AllocPost(t)
  <2>1. PICK t \in Thread : AllocPost(t)
    BY <1>6
  <2>3. PICK b \in Sizes, a \in TaskOf(TgidOf[t]), h \in Handle,
             o \in HandlerObj \ {x.obj : x \in handlers} :
          /\ handlers' = handlers \cup
                {[obj |-> o, task |-> a, handle |-> h, bytes |-> b]}
          /\ free' = FreeAfterCharge(b)
    BY <2>1 DEF AllocPost
  <2> DEFINE c == [obj |-> o, task |-> a, handle |-> h, bytes |-> b]
  <2>4. c \in HandlerRec /\ c \notin handlers /\ c.bytes = b
    BY <2>3 DEF TypeOK, HandlerRec, TaskOf
  <2>5. free' = (free - c.bytes) % WordSize /\ total' = total
    BY <2>1, <2>3, <2>4 DEF AllocPost, FreeAfterCharge
  <2>6. handlers' = handlers \cup {c}
    BY <2>3
  <2> HIDE DEF c
  <2> QED
    BY <2>4, <2>5, <2>6 DEF ChargeStep
<1>7. CASE \E t \in Thread : AllocUncharged(t)
  BY <1>7 DEF AllocUncharged
<1>8. CASE \E t \in Thread, f \in File, h \in Handle : Free(t, f, h)
  <2>1. PICK t \in Thread, f \in File, h \in Handle : Free(t, f, h)
    BY <1>8
  <2>2. PICK r \in HandlersOf(TaskOf(TgidOf[t])) :
          handlers' = handlers \ {r} /\ free' = (free + r.bytes) % WordSize
    BY <2>1 DEF Free
  <2>3. r \in handlers /\ r.bytes \in Nat
    BY <2>2, HandlerBytes DEF HandlersOf, TypeOK
  <2>4. Charged({r}) = r.bytes
    BY <2>3, ChargedOne
  <2> QED
    BY <2>1, <2>2, <2>3, <2>4 DEF Free, RefundStep
<1>9. CASE \E m \in Totals : SetTotalMem(m)
  BY <1>9 DEF SetTotalMem, Resizable, ResizeStep, HandlersListed
<1>10. CASE DestroyNode
  BY <1>10, <1>0 DEF DestroyNode
<1>11. CASE UNCHANGED vars
  BY <1>11
<1> QED
  BY <1>1, <1>2, <1>3, <1>4, <1>5, <1>6, <1>7, <1>8, <1>9, <1>10, <1>11 DEF Next

(* A step keeps the finite sum and the balance.                            *)
LEMMA BalanceKept ==
    ASSUME LedgerInv, [Next]_vars
    PROVE  IsFiniteSet(Bytes(handlers))' /\ (free = Ledger!Balance(total, handlers))'
<1> USE DEF LedgerInv, Ledger!Balance
<1>1. WordSize \in Nat \ {0} /\ total \in Int /\ free \in Int
  BY SizesAreWords DEF TypeOK
<1>2. Charged(handlers) \in Nat
  BY ChargedRemove
<1> DEFINE x == total - Charged(handlers)
<1>0. x \in Int /\ free = x % WordSize
  BY <1>1, <1>2
<1>3. CASE UNCHANGED memVars
  BY <1>3 DEF memVars
<1>4. CASE ChargeStep
  <2>1. PICK c \in HandlerRec :
          /\ c \notin handlers
          /\ handlers' = handlers \cup {c}
          /\ free' = (free - c.bytes) % WordSize
    BY <1>4 DEF ChargeStep
  <2>2. c.bytes \in Nat
    BY <2>1, HandlerBytes
  <2>3. IsFiniteSet(Bytes(handlers')) /\ Charged(handlers') = Charged(handlers) + c.bytes
    BY <2>1, <2>2, ChargedAdd
  <2> DEFINE d == 0 - c.bytes
  <2>4. d \in Int /\ free' = (free + d) % WordSize
    BY <1>1, <2>1, <2>2
  <2> HIDE DEF x, d
  <2>5. free' = (x + d) % WordSize
    BY <1>0, <1>1, <2>4, ModAdd
  <2>6. x + d = total - (Charged(handlers) + c.bytes)
    BY <1>1, <1>2, <2>2 DEF x, d
  <2>7. total' = total
    BY <1>4 DEF ChargeStep
  <2>8. free' = (total' - Charged(handlers')) % WordSize
    BY <2>3, <2>5, <2>6, <2>7
  <2> QED
    BY <2>3, <2>8 DEF Charged, Bytes
<1>5. CASE RefundStep
  <2>1. PICK G \in SUBSET handlers :
          /\ handlers' = handlers \ G
          /\ free' = (free + Charged(G)) % WordSize
    BY <1>5 DEF RefundStep
  <2>2. /\ IsFiniteSet(Bytes(handlers'))
        /\ Charged(G) \in Nat
        /\ Charged(handlers') \in Nat
        /\ Charged(handlers) = Charged(handlers') + Charged(G)
    BY <2>1, ChargedRemove
  <2>3. x + Charged(G) = total - Charged(handlers')
    BY <1>1, <1>2, <2>2
  <2> DEFINE e == Charged(G)
  <2>5. e \in Int /\ free' = (free + e) % WordSize
    BY <2>1, <2>2
  <2> HIDE DEF x, e
  <2>6. free' = (x + e) % WordSize
    BY <1>0, <1>1, <2>5, ModAdd
  <2>4. free' = (x + Charged(G)) % WordSize
    BY <2>6 DEF e
  <2>7. total' = total
    BY <1>5 DEF RefundStep
  <2>8. free' = (total' - Charged(handlers')) % WordSize
    BY <2>3, <2>4, <2>7
  <2> QED
    BY <2>2, <2>8 DEF Charged, Bytes
<1>6. CASE ResizeStep
  <2>1. IsFiniteSet(Bytes(handlers')) /\ Charged(handlers') = 0
    BY <1>6, ChargedEmpty DEF ResizeStep
  <2>2. total' \in 0 .. WordSize - 1
    BY <1>6, SizesAreWords DEF ResizeStep
  <2>3. \A m \in 0 .. WordSize - 1 : m = (m - 0) % WordSize
    BY <1>1
  <2> QED
    BY <1>6, <2>1, <2>2, <2>3 DEF ResizeStep, Charged, Bytes
<1> QED
  BY <1>3, <1>4, <1>5, <1>6, MemoryEffect

(* A step keeps the types.                                                 *)
LEMMA TypesKept ==
    ASSUME LedgerInv, [Next]_vars
    PROVE  TypeOK'
<1> USE SizesAreWords, HandlerBytes, MemoryAssumption
    DEF LedgerInv, TypeOK, vars, memVars, objVars, Calls, Idle
<1>1. free' \in 0 .. WordSize - 1 /\ total' \in Totals \cup {InitTotal} /\ handlers' \subseteq HandlerRec
  <2>1. CASE UNCHANGED memVars
    BY <2>1
  <2>2. CASE ChargeStep
    BY <2>2 DEF ChargeStep, HandlerRec
  <2>3. CASE RefundStep
    <3>1. PICK G \in SUBSET handlers :
            handlers' = handlers \ G /\ free' = (free + Charged(G)) % WordSize
      BY <2>3 DEF RefundStep
    <3>2. Charged(G) \in Nat
      BY <3>1, ChargedRemove
    <3> QED
      BY <2>3, <3>1, <3>2 DEF RefundStep
  <2>4. CASE ResizeStep
    BY <2>4 DEF ResizeStep
  <2> QED
    BY <2>1, <2>2, <2>3, <2>4, MemoryEffect
<1> DEFINE Rest ==
      /\ tasks' \subseteq TaskObj
      /\ tgid' \in [TaskObj -> Proc \cup {None}]
      /\ count' \in [TaskObj -> 0 .. MaxCount]
      /\ alloc' \in [TaskObj -> 0 .. WordSize - 1]
      /\ owner' \in [File -> Proc \cup {None}]
      /\ call' \in [Thread -> Calls]
      /\ disturbed' \subseteq Proc
      /\ stale' \in BOOLEAN
<1>2. ASSUME NEW t \in Thread, NEW f \in File, OpenFind(t, f) PROVE Rest
  BY <1>2 DEF OpenFind, TaskOf
<1>3. ASSUME NEW t \in Thread, OpenDone(t) PROVE Rest
  <2> DEFINE a == call[t].task
  <2>1. a \in TaskObj /\ call[t].file \in File /\ TgidOf[t] \in Proc
    BY <1>3 DEF OpenDone
  <2>2. count' \in [TaskObj -> 0 .. MaxCount]
    <3>1. count[a] \in 0 .. MaxCount /\ count[a] < MaxCount
      BY <1>3, <2>1 DEF OpenDone
    <3>2. count[a] + 1 \in 0 .. MaxCount
      BY <3>1
    <3>3. count' = count \/ count' = [count EXCEPT ![a] = count[a] + 1]
      BY <1>3 DEF OpenDone, IncOpenCount
    <3> QED
      BY <2>1, <3>2, <3>3
  <2>3. {tgid[b] : b \in {a} \cap tasks} \subseteq Proc
    BY DEF TasksOwned
  <2>4. disturbed' \subseteq Proc
    BY <1>3, <2>1, <2>3 DEF OpenDone
  <2>5. /\ owner' = [owner EXCEPT ![call[t].file] = TgidOf[t]]
        /\ call' = [call EXCEPT ![t] = Idle]
        /\ UNCHANGED <<tasks, tgid, alloc, stale>>
    BY <1>3 DEF OpenDone
  <2> QED
    BY <2>1, <2>2, <2>4, <2>5
<1>4. ASSUME NEW t \in Thread, OpenFail(t) PROVE Rest
  BY <1>4 DEF OpenFail
<1>5. ASSUME NEW t \in Thread, NEW f \in File, Close(t, f) PROVE Rest
  <2>1. owner[f] \in Proc /\ TgidOf[t] \in Proc
    BY <1>5 DEF Close, CanUse
  <2>2. tasks' \subseteq TaskObj /\ count' \in [TaskObj -> 0 .. MaxCount]
    <3>1. ASSUME NEW a \in TaskOf(TgidOf[t]),
                 IF LastClose(a) THEN CleanTasks({a}) /\ UNCHANGED count
                 ELSE /\ count' = [count EXCEPT ![a] = @ - 1]
                      /\ UNCHANGED <<free, handlers, tasks>>
          PROVE  tasks' \subseteq TaskObj /\ count' \in [TaskObj -> 0 .. MaxCount]
      <4>1. CASE LastClose(a)
        BY <3>1, <4>1 DEF CleanTasks
      <4>2. CASE ~LastClose(a)
        <5>1. count[a] \in 0 .. MaxCount /\ ~(count[a] - 1 <= 0)
          BY <3>1, <4>2 DEF LastClose, TaskOf
        <5>2. count[a] - 1 \in 0 .. MaxCount
          BY <5>1
        <5> QED
          BY <3>1, <4>2, <5>2
      <4> QED
        BY <4>1, <4>2
    <3>2. CASE UNCHANGED <<free, handlers, tasks, count>>
      BY <3>2
    <3> QED
      BY <1>5, <3>1, <3>2 DEF Close
  <2>3. /\ owner' = [owner EXCEPT ![f] = None]
        /\ disturbed' = disturbed \/ disturbed' = disturbed \cup {TgidOf[t], owner[f]}
        /\ UNCHANGED <<tgid, alloc, call, stale>>
    BY <1>5 DEF Close
  <2> QED
    BY <2>1, <2>2, <2>3
<1>6. ASSUME NEW t \in Thread, NEW f \in File, NEW b \in Sizes \cup {0}, AllocPre(t, f, b) PROVE Rest
  BY <1>6 DEF AllocPre
<1>7. ASSUME NEW t \in Thread, AllocPost(t) PROVE Rest
  <2>1. TgidOf[t] \in Proc
    OBVIOUS
  <2>2. PICK b \in Sizes, a \in tasks :
          /\ alloc' = [alloc EXCEPT ![a] = (alloc[a] + b) % WordSize]
          /\ stale' = (stale \/ b > call[t].bytes)
    BY <1>7 DEF AllocPost, AllocAfterCharge, TaskOf
  <2>3. alloc[a] \in 0 .. WordSize - 1
    BY <2>2
  <2>4. (alloc[a] + b) % WordSize \in 0 .. WordSize - 1
    BY <2>2, <2>3, WordAdd, Zenon
  <2>5. /\ disturbed' = disturbed \/ disturbed' = disturbed \cup {TgidOf[t]}
        /\ call' = [call EXCEPT ![t] = Idle]
        /\ UNCHANGED <<tasks, tgid, count, owner>>
    BY <1>7 DEF AllocPost
  <2>6. stale' \in BOOLEAN
    BY <2>2
  <2> QED
    BY <2>1, <2>2, <2>4, <2>5, <2>6
<1>8. ASSUME NEW t \in Thread, AllocUncharged(t) PROVE Rest
  BY <1>8 DEF AllocUncharged
<1>9. ASSUME NEW t \in Thread, NEW f \in File, NEW h \in Handle, Free(t, f, h) PROVE Rest
  BY <1>9 DEF Free, HandlersOf, HandlerRec
<1>10. ASSUME NEW m \in Totals, SetTotalMem(m) PROVE Rest
  BY <1>10 DEF SetTotalMem
<1>11. ASSUME DestroyNode PROVE Rest
  BY <1>11 DEF DestroyNode, CleanTasks
<1>12. ASSUME UNCHANGED vars PROVE Rest
  BY <1>12
<1>13. Rest
  BY <1>2, <1>3, <1>4, <1>5, <1>6, <1>7, <1>8, <1>9, <1>10, <1>11, <1>12 DEF Next
<1> QED
  BY <1>1, <1>13

(* A step keeps the task list sound: one task per thread group, each owned *)
(* by one, and no handler without its task.                                *)
ListInv == TaskListSound /\ TasksOwned

(* A lookup under the lock adds a task only where there is none, and the   *)
(* removal of a task takes its handlers along.                             *)
LEMMA ListKept ==
    ASSUME TypeOK, ListInv, [Next]_vars
    PROVE  ListInv'
<1> USE MemoryAssumption
    DEF TypeOK, ListInv, TaskListSound, TasksOwned, vars, memVars, objVars, TaskOf
<1>0. ASSUME NEW A \in SUBSET tasks, CleanTasks(A), UNCHANGED tgid
      PROVE  ListInv'
  BY <1>0 DEF CleanTasks, HandlersOf
<1>2. ASSUME NEW t \in Thread, NEW f \in File, OpenFind(t, f) PROVE ListInv'
  BY <1>2 DEF OpenFind
<1>3. ASSUME NEW t \in Thread, OpenDone(t) PROVE ListInv'
  BY <1>3 DEF OpenDone
<1>4. ASSUME NEW t \in Thread, OpenFail(t) PROVE ListInv'
  BY <1>4 DEF OpenFail
<1>5. ASSUME NEW t \in Thread, NEW f \in File, Close(t, f) PROVE ListInv'
  <2>1. CASE \E a \in TaskOf(TgidOf[t]) : CleanTasks({a})
    BY <1>0, <1>5, <2>1 DEF Close
  <2>2. CASE UNCHANGED <<handlers, tasks>>
    BY <1>5, <2>2 DEF Close
  <2> QED
    BY <1>5, <2>1, <2>2 DEF Close
<1>6. ASSUME NEW t \in Thread, NEW f \in File, NEW b \in Sizes \cup {0}, AllocPre(t, f, b) PROVE ListInv'
  BY <1>6 DEF AllocPre
<1>7. ASSUME NEW t \in Thread, AllocPost(t) PROVE ListInv'
  BY <1>7 DEF AllocPost
<1>8. ASSUME NEW t \in Thread, AllocUncharged(t) PROVE ListInv'
  BY <1>8 DEF AllocUncharged
<1>9. ASSUME NEW t \in Thread, NEW f \in File, NEW h \in Handle, Free(t, f, h) PROVE ListInv'
  BY <1>9 DEF Free, HandlersOf
<1>10. ASSUME NEW m \in Totals, SetTotalMem(m) PROVE ListInv'
  BY <1>10 DEF SetTotalMem
<1>11. ASSUME DestroyNode PROVE ListInv'
  BY <1>0, <1>11 DEF DestroyNode
<1>12. ASSUME UNCHANGED vars PROVE ListInv'
  BY <1>12
<1> QED
  BY <1>2, <1>3, <1>4, <1>5, <1>6, <1>7, <1>8, <1>9, <1>10, <1>11, <1>12 DEF Next

-----------------------------------------------------------------------------
IInv == LedgerInv /\ ListInv

(* The invariant holds at first.                                           *)
LEMMA InitIInv == Init => IInv
<1> SUFFICES ASSUME Init PROVE IInv
  OBVIOUS
<1>1. TypeOK
  <2>1. /\ total \in Totals \cup {InitTotal} /\ total \in 0 .. WordSize - 1
        /\ 0 \in 0 .. WordSize - 1 /\ 0 \in 0 .. MaxCount
    BY SizesAreWords, MemoryAssumption DEF Init
  <2>2. free \in 0 .. WordSize - 1 /\ tgid \in [TaskObj -> Proc \cup {None}]
    BY <2>1 DEF Init
  <2>3. count \in [TaskObj -> 0 .. MaxCount] /\ alloc \in [TaskObj -> 0 .. WordSize - 1]
    BY <2>1 DEF Init
  <2>4. call \in [Thread -> Calls] /\ owner \in [File -> Proc \cup {None}]
    BY DEF Init, Calls
  <2> QED
    BY <2>1, <2>2, <2>3, <2>4 DEF Init, TypeOK
<1>2. HandlersListed /\ TasksOwned /\ TaskListSound
  BY DEF Init, HandlersListed, TasksOwned, TaskListSound
<1>3. handlers = {} /\ free = total /\ total \in 0 .. WordSize - 1
  BY SizesAreWords DEF Init
<1>4. \A m \in 0 .. WordSize - 1 : m = (m - 0) % WordSize
  BY SizesAreWords
<1>5. IsFiniteSet(Bytes(handlers)) /\ free = Ledger!Balance(total, handlers)
  BY <1>3, <1>4, ChargedEmpty DEF Ledger!Balance
<1> QED
  BY <1>1, <1>2, <1>5 DEF IInv, LedgerInv, ListInv

(* Every step keeps it.                                                    *)
LEMMA NextIInv == IInv /\ [Next]_vars => IInv'
<1> SUFFICES ASSUME IInv, [Next]_vars PROVE IInv'
  OBVIOUS
<1>1. LedgerInv /\ ListInv /\ TypeOK
  BY DEF IInv, LedgerInv
<1>2. TypeOK'
  BY <1>1, TypesKept
<1>3. ListInv'
  BY <1>1, ListKept
<1>4. IsFiniteSet(Bytes(handlers))' /\ (free = Ledger!Balance(total, handlers))'
  BY <1>1, BalanceKept
<1> QED
  BY <1>2, <1>3, <1>4 DEF IInv, LedgerInv, ListInv, TaskListSound, HandlersListed

(* So it holds always.                                                     *)
LEMMA Invariance == Spec => []IInv
BY InitIInv, NextIInv, PTL DEF Spec

(* Types: free_memory and alloc_memory stay words, open_count stays a      *)
(* small natural number, every in-flight call is well formed.              *)
THEOREM TypeCorrect == Spec => []TypeOK
<1>1. IInv => TypeOK
  BY DEF IInv, LedgerInv
<1> QED
  BY <1>1, Invariance, PTL

(* One task per thread group and no handler without its task, however many *)
(* threads, files and task addresses there are.                            *)
THEOREM TaskListAlwaysSound == Spec => []TaskListSound
<1>1. IInv => TaskListSound
  BY DEF IInv, ListInv
<1> QED
  BY <1>1, Invariance, PTL

(* The accounting implements the ledger: every step of every interleaving  *)
(* is a charge, a refund, a new limit over nothing charged, or none.       *)
THEOREM Refinement == Spec => LedgerRefined
<1>1. Init => Ledger!LedgerInit
  BY SizesAreWords DEF Init, Ledger!LedgerInit
<1>2. IInv /\ IInv' /\ [Next]_vars => [Ledger!LedgerNext]_Ledger!ledgerVars
  <2> SUFFICES ASSUME IInv, IInv', [Next]_vars
               PROVE  [Ledger!LedgerNext]_Ledger!ledgerVars
    OBVIOUS
  <2>1. free' = Ledger!Balance(total', handlers')
    BY DEF IInv, LedgerInv
  <2>2. CASE UNCHANGED memVars
    BY <2>2 DEF memVars, Ledger!ledgerVars
  <2>3. CASE ChargeStep
    BY <2>1, <2>3 DEF ChargeStep, Ledger!LedgerNext, Ledger!Charge
  <2>4. CASE RefundStep
    BY <2>1, <2>4 DEF RefundStep, Ledger!LedgerNext, Ledger!Refund, IInv, LedgerInv, Ledger!ledgerVars
  <2>5. CASE ResizeStep
    BY <2>5, SizesAreWords DEF ResizeStep, Ledger!LedgerNext, Ledger!Resize
  <2> QED
    BY <2>2, <2>3, <2>4, <2>5, MemoryEffect DEF IInv, LedgerInv
<1> QED
  BY <1>1, <1>2, Invariance, PTL DEF Spec, LedgerRefined, Ledger!LedgerSpec

-----------------------------------------------------------------------------
(* The limit.  While no admission has been overtaken at most one request   *)
(* is between its check and its charge, it still fits, and its charge is   *)
(* for no more.                                                            *)
QuotaInv ==
    ~stale =>
      /\ Charged(handlers) <= total
      /\ \A t, u \in Allocating : t = u
      /\ \A t \in Allocating : Charged(handlers) + call[t].bytes <= total

(* Within the limit the free figure is the difference itself, not only its *)
(* remainder.                                                              *)
LEMMA FreeIsExact ==
    ASSUME LedgerInv, Charged(handlers) <= total
    PROVE  /\ free = total - Charged(handlers)
           /\ total \in Nat
           /\ Charged(handlers) \in Nat
<1>1. Charged(handlers) \in Nat
  BY ChargedRemove DEF LedgerInv
<1>2. total \in 0 .. WordSize - 1 /\ WordSize \in Nat \ {0}
  BY SizesAreWords DEF LedgerInv, TypeOK
<1>3. \A x \in 0 .. WordSize - 1 : x % WordSize = x
  BY <1>2
<1>4. total - Charged(handlers) \in 0 .. WordSize - 1
  BY <1>1, <1>2
<1> QED
  BY <1>1, <1>2, <1>3, <1>4 DEF LedgerInv, Ledger!Balance

(* An admission that nothing overtook still fits when it is charged.       *)
LEMMA QuotaKept ==
    ASSUME IInv, QuotaInv, [Next]_vars
    PROVE  QuotaInv'
<1> SUFFICES ASSUME ~stale'
             PROVE  /\ Charged(handlers') <= total'
                    /\ \A t, u \in Allocating' : t = u
                    /\ \A t \in Allocating' : Charged(handlers') + call'[t].bytes <= total'
  BY DEF QuotaInv, Charged, Bytes
<1> USE DEF vars, memVars, objVars
<1>1. LedgerInv /\ TypeOK
  BY DEF IInv, LedgerInv
<1>2. ~stale
  BY DEF Next, OpenFind, OpenDone, OpenFail, Close, AllocPre, AllocPost,
         AllocUncharged, Free, SetTotalMem, DestroyNode
<1>3. /\ Charged(handlers) <= total
      /\ \A t, u \in Allocating : t = u
      /\ \A t \in Allocating : Charged(handlers) + call[t].bytes <= total
  BY <1>2 DEF QuotaInv
<1>4. total \in Nat /\ Charged(handlers) \in Nat /\ free = total - Charged(handlers)
  BY <1>1, <1>3, FreeIsExact
<1>5. \A t \in Allocating : call[t].bytes \in Nat
  BY <1>1, SizesAreWords DEF TypeOK, Calls, Idle, Allocating
(* Steps that neither admit nor charge: nothing grows.                     *)
<1>6. ASSUME handlers' \in SUBSET handlers, total' = total,
             \A t \in Allocating' : t \in Allocating /\ call'[t] = call[t]
      PROVE  QuotaInv'
  <2>1. Charged(handlers') \in Nat /\ Charged(handlers') <= Charged(handlers)
    <3>1. handlers \ (handlers \ handlers') = handlers'
      BY <1>6
    <3>2. /\ Charged(handlers') \in Nat
          /\ Charged(handlers \ handlers') \in Nat
          /\ Charged(handlers) = Charged(handlers \ handlers') + Charged(handlers')
      BY <1>1, <1>6, ChargedRemove DEF LedgerInv
    <3> QED
      BY <3>2
  <2>2. \A t \in Allocating' : Charged(handlers') + call'[t].bytes <= total'
    <3> TAKE t \in Allocating'
    <3>1. /\ Charged(handlers) + call[t].bytes <= total
          /\ call[t].bytes \in Nat
          /\ call'[t] = call[t]
      BY <1>3, <1>5, <1>6
    <3> QED
      BY <1>4, <1>6, <2>1, <3>1
  <2>3. \A t, u \in Allocating' : t = u
    BY <1>3, <1>6
  <2>4. Charged(handlers') <= total'
    BY <1>3, <1>4, <1>6, <2>1
  <2> QED
    BY <2>2, <2>3, <2>4 DEF QuotaInv, Charged, Bytes
<1>7. ASSUME NEW t \in Thread, NEW f \in File, NEW b \in Sizes \cup {0}, AllocPre(t, f, b)
      PROVE  QuotaInv'
  <2>1. b <= free /\ b \in Nat /\ (b > 0 => Allocating = {})
    <3>1. b \in Nat
      BY SizesAreWords
    <3>2. b <= free /\ stale' = (stale \/ (b > 0 /\ Allocating # {}))
      BY <1>7 DEF AllocPre, Admits
    <3>3. b > 0 => Allocating = {}
      BY <3>2, Zenon
    <3> QED
      BY <3>1, <3>2, <3>3
  <2>2. /\ UNCHANGED <<total, handlers>> /\ call'[t].bytes = b /\ t \notin Allocating
        /\ \A u \in Thread \ {t} : call'[u] = call[u]
    BY <1>1, <1>7 DEF AllocPre, Allocating, TypeOK, Idle
  <2>3. CASE b = 0
    <3>1. \A u \in Allocating' : u \in Allocating /\ call'[u] = call[u]
      BY <2>2, <2>3 DEF Allocating
    <3> QED
      BY <1>6, <2>2, <3>1
  <2>4. CASE b > 0
    <3>1. Allocating' \subseteq {t}
      BY <2>1, <2>2, <2>4 DEF Allocating
    <3>2. Charged(handlers) + b <= total
      BY <1>4, <2>1
    <3> QED
      BY <1>3, <2>2, <3>1, <3>2 DEF QuotaInv, Charged, Bytes
  <2> QED
    BY <2>1, <2>3, <2>4
<1>8. ASSUME NEW t \in Thread, AllocPost(t) PROVE QuotaInv'
  <2>1. PICK b \in Sizes, a \in TaskOf(TgidOf[t]), h \in Handle,
             o \in HandlerObj \ {x.obj : x \in handlers} :
          /\ handlers' = handlers \cup
                {[obj |-> o, task |-> a, handle |-> h, bytes |-> b]}
          /\ stale' = (stale \/ b > call[t].bytes)
    BY <1>8 DEF AllocPost
  <2>2. /\ b \in Nat /\ call[t].bytes \in Nat /\ b <= call[t].bytes
        /\ call[t].bytes > 0 => t \in Allocating
    <3>1. call[t].bytes \in Nat
      BY <1>1, <1>8, SizesAreWords DEF AllocPost, TypeOK, Calls, Idle
    <3>2. ~(b > call[t].bytes)
      BY <2>1, Zenon
    <3>3. b \in Nat
      BY SizesAreWords
    <3>4. call[t].bytes > 0 => t \in Allocating
      BY <1>8 DEF AllocPost, Allocating
    <3> QED
      BY <3>1, <3>2, <3>3, <3>4
  <2>3. Charged(handlers') = Charged(handlers) + b
    <3> DEFINE c == [obj |-> o, task |-> a, handle |-> h, bytes |-> b]
    <3>1. c \notin handlers /\ c.bytes = b /\ handlers' = handlers \cup {c}
      BY <2>1
    <3> HIDE DEF c
    <3> QED
      BY <1>1, <2>2, <3>1, ChargedAdd DEF LedgerInv
  <2>4. total' = total /\ \A u \in Allocating' : u \in Allocating \ {t} /\ call'[u] = call[u]
    BY <1>1, <1>8 DEF AllocPost, Allocating, TypeOK, Idle
  <2>5. CASE call[t].bytes = 0
    <3>1. b = 0
      BY <2>2, <2>5
    <3>2. Charged(handlers') = Charged(handlers)
      BY <1>4, <2>3, <3>1
    <3> QED
      BY <1>3, <2>4, <3>2 DEF QuotaInv, Charged, Bytes
  <2>6. CASE call[t].bytes > 0
    <3>1. Allocating' = {}
      BY <1>3, <2>2, <2>4, <2>6
    <3>2. Charged(handlers') <= total
      BY <1>3, <1>4, <2>2, <2>3, <2>6
    <3> QED
      BY <2>4, <3>1, <3>2 DEF QuotaInv, Charged, Bytes
  <2> QED
    BY <2>2, <2>5, <2>6
<1>9. ASSUME NEW m \in Totals, SetTotalMem(m) PROVE QuotaInv'
  <2>1. handlers' = {} /\ total' \in Nat /\ Allocating' = {}
    BY <1>1, <1>9, SizesAreWords
       DEF SetTotalMem, Resizable, LedgerInv, HandlersListed, Allocating
  <2> QED
    BY <2>1, ChargedEmpty DEF QuotaInv, Charged, Bytes
<1>10. ASSUME NEW t \in Thread, NEW f \in File, OpenFind(t, f) PROVE QuotaInv'
  BY <1>1, <1>6, <1>10 DEF OpenFind, Allocating, TypeOK
<1>11. ASSUME NEW t \in Thread, OpenDone(t) \/ OpenFail(t) \/ AllocUncharged(t) PROVE QuotaInv'
  BY <1>1, <1>6, <1>11 DEF OpenDone, OpenFail, AllocUncharged, Allocating, TypeOK, Idle
<1>12. ASSUME NEW t \in Thread, NEW f \in File, Close(t, f) PROVE QuotaInv'
  BY <1>6, <1>12 DEF Close, CleanTasks, Allocating
<1>13. ASSUME NEW t \in Thread, NEW f \in File, NEW h \in Handle, Free(t, f, h) PROVE QuotaInv'
  BY <1>6, <1>13 DEF Free, Allocating
<1>14. ASSUME DestroyNode PROVE QuotaInv'
  BY <1>6, <1>14 DEF DestroyNode, CleanTasks, Allocating
<1>15. ASSUME UNCHANGED vars PROVE QuotaInv'
  BY <1>6, <1>15 DEF Allocating
<1>16. QuotaInv'
  BY <1>7, <1>8, <1>9, <1>10, <1>11, <1>12, <1>13, <1>14, <1>15 DEF Next
<1> QED
  BY <1>16 DEF QuotaInv, Charged, Bytes

(* No overcommit without a race: as long as no admission is overtaken by   *)
(* another allocation or a new limit before it is charged, and no request  *)
(* is made larger in user memory before it is read for the second time,    *)
(* what is charged stays within total_memory.                              *)
THEOREM QuotaHeld == Spec => []QuotaUnlessOvertaken
<1>1. Init => QuotaInv
  BY SizesAreWords, ChargedEmpty DEF Init, QuotaInv, Allocating, Idle
<1>2. IInv /\ QuotaInv /\ [Next]_vars => QuotaInv'
  BY QuotaKept
<1>3. QuotaInv => QuotaUnlessOvertaken
  BY DEF QuotaInv, QuotaUnlessOvertaken
<1> QED
  BY <1>1, <1>2, <1>3, Invariance, PTL DEF Spec

-----------------------------------------------------------------------------
(* The account of a task.  Its handlers change by one charge or one free,   *)
(* with alloc_memory, and a task that is cleaned or new has none.          *)
LEMMA AccountKept ==
    ASSUME IInv, TaskAccountExact, [Next]_vars
    PROVE  TaskAccountExact'
<1> USE DEF vars, memVars, objVars
<1>1. LedgerInv /\ TypeOK /\ HandlersListed
  BY DEF IInv, LedgerInv
<1>2. WordSize \in Nat \ {0}
  BY SizesAreWords
<1>3. ASSUME NEW a \in tasks
      PROVE  /\ IsFiniteSet(Bytes(HandlersOf({a}))) /\ Charged(HandlersOf({a})) \in Nat
             /\ alloc[a] = Charged(HandlersOf({a})) % WordSize
  <2>1. HandlersOf({a}) \in SUBSET handlers
    BY DEF HandlersOf
  <2> QED
    BY <1>1, <2>1, ChargedRemove DEF LedgerInv, TaskAccountExact
(* Tasks that stay listed with their handlers and their account.           *)
<1>4. ASSUME tasks' \subseteq tasks, UNCHANGED alloc,
             \A h \in handlers \cup handlers' :
                 h.task \in tasks' => (h \in handlers <=> h \in handlers')
      PROVE  TaskAccountExact'
  <2>1. \A a \in tasks' : HandlersOf({a})' = HandlersOf({a})
    BY <1>4 DEF HandlersOf
  <2> QED
    BY <1>4, <2>1 DEF TaskAccountExact, Charged, Bytes
<1>5. ASSUME NEW A \in SUBSET tasks, CleanTasks(A), UNCHANGED alloc
      PROVE  TaskAccountExact'
  BY <1>4, <1>5 DEF CleanTasks, HandlersOf
<1>6. ASSUME NEW t \in Thread, NEW f \in File, OpenFind(t, f) PROVE TaskAccountExact'
  <2>1. CASE UNCHANGED <<tasks, alloc>>
    BY <1>4, <1>6, <2>1 DEF OpenFind
  <2>2. CASE \E a \in TaskObj \ tasks :
               tasks' = tasks \cup {a} /\ alloc' = [alloc EXCEPT ![a] = 0]
    <3>1. PICK a \in TaskObj \ tasks :
            tasks' = tasks \cup {a} /\ alloc' = [alloc EXCEPT ![a] = 0]
      BY <2>2
    <3>2. handlers' = handlers
      BY <1>6 DEF OpenFind
    <3>3. HandlersOf({a}) = {} /\ alloc'[a] = 0
      BY <1>1, <3>1 DEF HandlersOf, HandlersListed, TypeOK
    <3>4. alloc'[a] = Charged(HandlersOf({a})) % WordSize
      BY <1>2, <3>3, ChargedEmpty
    <3>5. \A b \in tasks' : alloc'[b] = Charged(HandlersOf({b})) % WordSize
      BY <1>1, <1>3, <3>1, <3>4 DEF TypeOK
    <3> QED
      BY <3>2, <3>5 DEF TaskAccountExact, HandlersOf, Charged, Bytes
  <2> QED
    BY <1>6, <2>1, <2>2 DEF OpenFind
<1>7. ASSUME NEW t \in Thread, NEW f \in File, Close(t, f) PROVE TaskAccountExact'
  <2>1. CASE \E a \in TaskOf(TgidOf[t]) : CleanTasks({a})
    BY <1>5, <1>7, <2>1 DEF Close, TaskOf
  <2>2. CASE UNCHANGED <<handlers, tasks>>
    BY <1>4, <1>7, <2>2 DEF Close
  <2> QED
    BY <1>7, <2>1, <2>2 DEF Close
<1>8. ASSUME NEW t \in Thread, AllocPost(t) PROVE TaskAccountExact'
  <2>2. PICK b \in Sizes, a \in tasks, c \in handlers' :
            /\ c \notin handlers /\ c.task = a /\ c.bytes = b
            /\ handlers' = handlers \cup {c}
            /\ alloc' = [alloc EXCEPT ![a] = (@ + b) % WordSize]
    <3>1. PICK b \in Sizes, a \in TaskOf(TgidOf[t]), h \in Handle,
               o \in HandlerObj \ {x.obj : x \in handlers} :
            /\ handlers' = handlers \cup {[obj |-> o, task |-> a, handle |-> h, bytes |-> b]}
            /\ alloc' = [alloc EXCEPT ![a] = (@ + b) % WordSize]
      BY <1>8 DEF AllocPost, AllocAfterCharge
    <3>2. a \in tasks
      BY DEF TaskOf
    <3> WITNESS b \in Sizes, a \in tasks, [obj |-> o, task |-> a, handle |-> h, bytes |-> b] \in handlers'
    <3> QED
      BY <3>1
  <2>1. b \in Nat
    BY SizesAreWords
  <2>3. tasks' = tasks
    BY <1>8 DEF AllocPost
  <2>4. \A e \in tasks \ {a} : HandlersOf({e})' = HandlersOf({e}) /\ alloc'[e] = alloc[e]
    BY <1>1, <2>2 DEF HandlersOf, TypeOK
  <2>5. HandlersOf({a})' = HandlersOf({a}) \cup {c} /\ c \notin HandlersOf({a})
    BY <2>2 DEF HandlersOf
  <2> DEFINE x == Charged(HandlersOf({a}))
  <2>6. Charged(HandlersOf({a}) \cup {c}) = x + b
    BY <1>3, <2>1, <2>2, <2>5, ChargedAdd
  <2>7. x \in Int /\ b \in Int /\ alloc'[a] = ((x % WordSize) + b) % WordSize
    BY <1>1, <1>3, <2>1, <2>2 DEF TypeOK
  <2> HIDE DEF x
  <2>8. alloc'[a] = (x + b) % WordSize
    BY <1>2, <2>7, ModAdd
  <2> QED
    BY <1>3, <2>3, <2>4, <2>5, <2>6, <2>8 DEF TaskAccountExact, Charged, Bytes
<1>9. ASSUME NEW t \in Thread, NEW f \in File, NEW h \in Handle, Free(t, f, h)
      PROVE  TaskAccountExact'
  <2>1. PICK r \in HandlersOf(TaskOf(TgidOf[t])) :
          /\ handlers' = handlers \ {r}
          /\ alloc' = [alloc EXCEPT ![r.task] = (@ - r.bytes) % WordSize]
    BY <1>9 DEF Free
  <2> DEFINE a == r.task
             x == Charged(HandlersOf({a}))
             d == 0 - r.bytes
  <2>2. r \in handlers /\ a \in tasks /\ r.bytes \in Nat
    BY <1>1, HandlerBytes DEF HandlersOf, TaskOf, TypeOK
  <2>3. tasks' = tasks
    BY <1>9 DEF Free
  <2>4. \A e \in tasks \ {a} : HandlersOf({e})' = HandlersOf({e}) /\ alloc'[e] = alloc[e]
    BY <1>1, <2>1 DEF HandlersOf, TypeOK
  <2>5. HandlersOf({a})' = HandlersOf({a}) \ {r} /\ {r} \in SUBSET HandlersOf({a})
    BY <2>1, <2>2 DEF HandlersOf
  <2>6. x = Charged(HandlersOf({a}) \ {r}) + r.bytes
    BY <1>3, <2>2, <2>5, ChargedRemove, ChargedOne
  <2>7. x \in Int /\ d \in Int /\ Charged(HandlersOf({a}) \ {r}) = x + d
    <3>1. Charged(HandlersOf({a}) \ {r}) \in Nat
      BY <1>3, <2>2, <2>5, ChargedRemove
    <3> QED
      BY <1>3, <2>2, <2>6, <3>1
  <2>8. alloc'[a] = ((x % WordSize) + d) % WordSize
    <3>1. alloc'[a] = (alloc[a] - r.bytes) % WordSize /\ alloc[a] \in Int
      BY <1>1, <2>1, <2>2, SizesAreWords DEF TypeOK
    <3>2. alloc[a] = x % WordSize
      BY <1>3, <2>2
    <3>3. alloc[a] - r.bytes = alloc[a] + d
      BY <2>2, <3>1
    <3> QED
      BY <3>1, <3>2, <3>3
  <2> HIDE DEF x, d
  <2>9. alloc'[a] = (x + d) % WordSize
    BY <1>2, <2>7, <2>8, ModAdd
  <2> QED
    BY <1>3, <2>3, <2>4, <2>5, <2>7, <2>9 DEF TaskAccountExact, Charged, Bytes
<1>10. ASSUME NEW t \in Thread, OpenDone(t) \/ OpenFail(t) \/ AllocUncharged(t)
       PROVE  TaskAccountExact'
  BY <1>4, <1>10 DEF OpenDone, OpenFail, AllocUncharged
<1>11. ASSUME NEW t \in Thread, NEW f \in File, NEW b \in Sizes \cup {0}, AllocPre(t, f, b)
       PROVE  TaskAccountExact'
  BY <1>4, <1>11 DEF AllocPre
<1>12. ASSUME NEW m \in Totals, SetTotalMem(m) PROVE TaskAccountExact'
  BY <1>4, <1>12 DEF SetTotalMem
<1>13. ASSUME DestroyNode PROVE TaskAccountExact'
  BY <1>5, <1>13 DEF DestroyNode
<1>14. ASSUME UNCHANGED vars PROVE TaskAccountExact'
  BY <1>4, <1>14
<1> QED
  BY <1>6, <1>7, <1>8, <1>9, <1>10, <1>11, <1>12, <1>13, <1>14 DEF Next

(* alloc_memory of a listed task, which the meminfo node shows, is the sum *)
(* of the handlers the task holds, reduced to a word.                      *)
THEOREM AccountsExact == Spec => []TaskAccountExact
<1>1. Init => TaskAccountExact
  BY DEF Init, TaskAccountExact
<1>2. IInv /\ TaskAccountExact /\ [Next]_vars => TaskAccountExact'
  BY AccountKept
<1> QED
  BY <1>1, <1>2, Invariance, PTL DEF Spec

-----------------------------------------------------------------------------
(* The counts.  An open that is under way has a file of its own that       *)
(* nobody owns yet, so that its end adds one file, to one process.         *)
OpensPending ==
    /\ \A t \in Thread : call[t].op = "open" => owner[call[t].file] = None
    /\ \A t, u \in Thread :
          call[t].op = "open" /\ call[u].op = "open" /\ call[t].file = call[u].file => t = u

FilesFinite == \A p \in Proc : IsFiniteSet(FilesOf(p))

CountInv == OpensPending /\ FilesFinite /\ CountMatchesFiles /\ ChargedWhileOpen

(* The fields of a call that is under way.                                 *)
LEMMA CallFields ==
    ASSUME TypeOK, NEW t \in Thread
    PROVE  /\ TgidOf[t] \in Proc
           /\ call[t].op = "open" => call[t].file \in File /\ call[t].task \in TaskObj
           /\ call[t].op = "alloc" => call[t].file \in File
BY MemoryAssumption DEF TypeOK, Calls, Idle

(* Calls begin and end without disturbing the opens under way.             *)
LEMMA PendingKept ==
    ASSUME IInv, OpensPending, [Next]_vars
    PROVE  OpensPending'
<1> USE DEF vars, memVars, objVars
<1>1. TypeOK
  BY DEF IInv, LedgerInv
<1>2. ASSUME NEW t \in Thread, NEW f \in File, OpenFind(t, f) PROVE OpensPending'
  <2>1. owner[f] = None /\ owner' = owner /\ f \notin BusyFiles
    BY <1>2 DEF OpenFind
  <2>2. call'[t].file = f /\ \A u \in Thread \ {t} : call'[u] = call[u]
    BY <1>1, <1>2 DEF OpenFind, TypeOK
  <2>3. \A u \in Thread : call[u].op = "open" => call[u].file # f
    BY <2>1 DEF BusyFiles
  <2> QED
    BY <2>1, <2>2, <2>3 DEF OpensPending
<1>3. ASSUME NEW t \in Thread, call' = [call EXCEPT ![t] = Idle],
             owner' = owner \/ (call[t].op = "open"
                                /\ owner' = [owner EXCEPT ![call[t].file] = TgidOf[t]])
      PROVE  OpensPending'
  <2>1. call'[t].op # "open" /\ \A u \in Thread \ {t} : call'[u] = call[u]
    BY <1>1, <1>3 DEF TypeOK, Idle
  <2>2. \A u \in Thread \ {t} : call[u].op = "open" =>
            owner'[call[u].file] = owner[call[u].file]
    BY <1>1, <1>3, CallFields DEF OpensPending, TypeOK
  <2> QED
    BY <2>1, <2>2 DEF OpensPending
<1>4. ASSUME NEW t \in Thread,
             OpenDone(t) \/ OpenFail(t) \/ AllocPost(t) \/ AllocUncharged(t)
      PROVE  OpensPending'
  BY <1>3, <1>4 DEF OpenDone, OpenFail, AllocPost, AllocUncharged
<1>5. ASSUME NEW t \in Thread, NEW f \in File, Close(t, f) PROVE OpensPending'
  <2>1. call' = call /\ owner' = [owner EXCEPT ![f] = None]
    BY <1>5 DEF Close
  <2>2. \A g \in File : owner[g] = None => owner'[g] = None
    BY <1>1, <2>1 DEF TypeOK
  <2> QED
    BY <1>1, <2>1, <2>2, CallFields DEF OpensPending
<1>6. ASSUME NEW t \in Thread, NEW f \in File, NEW b \in Sizes \cup {0}, AllocPre(t, f, b)
      PROVE  OpensPending'
  <2>1. owner' = owner
    BY <1>6 DEF AllocPre
  <2>2. call'[t].op # "open" /\ \A u \in Thread \ {t} : call'[u] = call[u]
    BY <1>1, <1>6 DEF AllocPre, TypeOK
  <2> QED
    BY <2>1, <2>2 DEF OpensPending
<1>7. CASE UNCHANGED <<call, owner>>
  BY <1>7 DEF OpensPending
<1> QED
  BY <1>2, <1>4, <1>5, <1>6, <1>7 DEF Next, Free, SetTotalMem, DestroyNode

(* What a step does to the files a process has open.                       *)
LEMMA FilesChange ==
    ASSUME TypeOK, NEW f \in File, NEW p \in Proc \cup {None},
           owner' = [owner EXCEPT ![f] = p], NEW q \in Proc
    PROVE  FilesOf(q)' = IF q = p THEN FilesOf(q) \cup {f} ELSE FilesOf(q) \ {f}
BY MemoryAssumption DEF FilesOf, TypeOK

LEMMA FiniteKept ==
    ASSUME IInv, FilesFinite, [Next]_vars
    PROVE  FilesFinite'
<1> USE DEF vars, memVars, objVars
<1>1. TypeOK
  BY DEF IInv, LedgerInv
<1>2. ASSUME NEW f \in File, NEW p \in Proc \cup {None}, owner' = [owner EXCEPT ![f] = p]
      PROVE  FilesFinite'
  <2>1. ASSUME NEW q \in Proc PROVE IsFiniteSet(FilesOf(q)')
    <3>1. IsFiniteSet(FilesOf(q) \cup {f}) /\ IsFiniteSet(FilesOf(q) \ {f})
      BY FS_AddElement, FS_RemoveElement DEF FilesFinite
    <3> QED
      BY <1>1, <1>2, <3>1, FilesChange
  <2> QED
    BY <2>1 DEF FilesFinite
<1>3. ASSUME NEW t \in Thread, OpenDone(t) PROVE FilesFinite'
  BY <1>1, <1>2, <1>3, CallFields DEF OpenDone
<1>4. ASSUME NEW t \in Thread, NEW f \in File, Close(t, f) PROVE FilesFinite'
  BY <1>2, <1>4 DEF Close
<1>5. CASE UNCHANGED owner
  BY <1>5 DEF FilesFinite, FilesOf
<1> QED
  BY <1>3, <1>4, <1>5
     DEF Next, OpenFind, OpenFail, AllocPre, AllocPost, AllocUncharged, Free, SetTotalMem,
         DestroyNode

(* The first and the last file of a process come and go with its task.     *)
LEMMA CountKept ==
    ASSUME IInv, CountInv, [Next]_vars
    PROVE  CountMatchesFiles' /\ ChargedWhileOpen'
<1> USE DEF vars, memVars, objVars
<1>1. TypeOK /\ HandlersListed /\ TaskListSound /\ TasksOwned
  BY DEF IInv, LedgerInv, ListInv
<1>2. OpensPending /\ FilesFinite /\ CountMatchesFiles /\ ChargedWhileOpen
  BY DEF CountInv
<1>3. ASSUME NEW p \in Proc \ disturbed
      PROVE  /\ FilesOf(p) # {} => TaskOf(p) # {}
             /\ \A a \in TaskOf(p) : count[a] = Cardinality(FilesOf(p))
  BY <1>2 DEF CountMatchesFiles
(* A step that leaves the tasks, the counts and the files alone.           *)
<1>4. ASSUME UNCHANGED <<tasks, tgid, count, owner>>, disturbed \subseteq disturbed',
             handlers' \subseteq handlers
      PROVE  CountMatchesFiles' /\ ChargedWhileOpen'
  <2>1. \A p : FilesOf(p)' = FilesOf(p) /\ TaskOf(p)' = TaskOf(p)
    BY <1>4 DEF FilesOf, TaskOf
  <2>2. CountMatchesFiles'
    BY <1>3, <1>4, <2>1 DEF CountMatchesFiles
  <2>3. ChargedWhileOpen'
    BY <1>2, <1>4, <2>1 DEF ChargedWhileOpen
  <2> QED
    BY <2>2, <2>3
<1>5. ASSUME NEW t \in Thread, NEW f \in File, OpenFind(t, f)
      PROVE  CountMatchesFiles' /\ ChargedWhileOpen'
  <2>1. CASE UNCHANGED <<tasks, objVars>>
    BY <1>4, <1>5, <2>1 DEF OpenFind
  <2>2. CASE ~UNCHANGED <<tasks, objVars>>
    <3> DEFINE p == TgidOf[t]
    <3>1. PICK a \in TaskObj \ tasks : /\ TaskOf(p) = {}
                                     /\ tasks' = tasks \cup {a}
                                     /\ tgid' = [tgid EXCEPT ![a] = p]
                                     /\ count' = [count EXCEPT ![a] = 0]
      BY <1>5, <2>2 DEF OpenFind
    <3>2. UNCHANGED <<handlers, owner, disturbed>> /\ \A q : FilesOf(q)' = FilesOf(q)
      BY <1>5 DEF OpenFind, FilesOf
    <3>3. p \in Proc
      BY <1>1, CallFields
    <3>4. TaskOf(p)' = {a} /\ \A q \in Proc \ {p} : TaskOf(q)' = TaskOf(q)
      BY <1>1, <3>1 DEF TaskOf, TypeOK
    <3>5. count'[a] = 0 /\ \A b \in tasks : count'[b] = count[b] /\ tgid'[b] = tgid[b]
      BY <1>1, <3>1 DEF TypeOK
    <3>6. ASSUME p \notin disturbed
          PROVE  \A b \in TaskOf(p)' : count'[b] = Cardinality(FilesOf(p)')
      <4>1. FilesOf(p) = {}
        BY <1>3, <3>1, <3>3, <3>6
      <4> QED
        BY <3>2, <3>4, <3>5, <4>1, FS_EmptySet
    <3>7. \A q \in Proc \ {p} : TaskOf(q) \subseteq tasks
      BY DEF TaskOf
    <3>8. CountMatchesFiles'
      BY <1>3, <3>2, <3>4, <3>5, <3>6, <3>7 DEF CountMatchesFiles
    <3>9. ChargedWhileOpen'
      BY <1>1, <1>2, <3>2, <3>5 DEF ChargedWhileOpen, HandlersListed
    <3> QED
      BY <3>8, <3>9
  <2> QED
    BY <2>1, <2>2
<1>6. ASSUME NEW t \in Thread, OpenDone(t)
      PROVE  CountMatchesFiles' /\ ChargedWhileOpen'
  <2> DEFINE p == TgidOf[t]
             f == call[t].file
             a == call[t].task
  <2>1. p \in Proc /\ f \in File /\ a \in TaskObj /\ owner[f] = None
    BY <1>1, <1>2, <1>6, CallFields DEF OpenDone, OpensPending
  <2>2. /\ UNCHANGED <<tasks, tgid, handlers>> /\ disturbed \subseteq disturbed'
        /\ count' = IncOpenCount(a) /\ owner' = [owner EXCEPT ![f] = p]
        /\ a \notin TaskOf(p) => p \in disturbed' /\ \A b \in {a} \cap tasks : tgid[b] \in disturbed'
    BY <1>6 DEF OpenDone
  <2>3. \A q \in Proc : FilesOf(q)' = IF q = p THEN FilesOf(q) \cup {f} ELSE FilesOf(q)
    BY <1>1, <2>1, <2>2, MemoryAssumption DEF FilesOf, TypeOK
  <2>4. \A q : TaskOf(q)' = TaskOf(q)
    BY <2>2 DEF TaskOf
  <2>5. ASSUME NEW q \in Proc \ disturbed', q # p
        PROVE  \A b \in TaskOf(q) : count'[b] = count[b]
    <3>1. a \notin TaskOf(q)
      BY <2>2, <2>5 DEF TaskOf
    <3> QED
      BY <1>1, <2>2, <3>1 DEF IncOpenCount, TypeOK
  <2>6. ASSUME p \notin disturbed'
        PROVE  /\ TaskOf(p) = {a}
               /\ count'[a] = Cardinality(FilesOf(p) \cup {f})
    <3>1. a \in TaskOf(p) /\ TaskOf(p) = {a}
      BY <1>1, <2>2, <2>6 DEF TaskListSound, TaskOf
    <3>2. a \in tasks /\ f \notin FilesOf(p) /\ IsFiniteSet(FilesOf(p))
      BY <1>2, <2>1, <3>1, MemoryAssumption DEF TaskOf, FilesOf, FilesFinite
    <3>3. count[a] = Cardinality(FilesOf(p)) /\ count'[a] = count[a] + 1
      BY <1>1, <1>3, <2>1, <2>2, <2>6, <3>1, <3>2 DEF IncOpenCount, TypeOK
    <3>4. Cardinality(FilesOf(p) \cup {f}) = Cardinality(FilesOf(p)) + 1
      BY <3>2, FS_AddElement
    <3> QED
      BY <3>1, <3>3, <3>4
  <2>7. CountMatchesFiles'
    <3>1. ASSUME NEW q \in Proc \ disturbed'
          PROVE  /\ FilesOf(q)' # {} => TaskOf(q)' # {}
                 /\ \A b \in TaskOf(q)' : count'[b] = Cardinality(FilesOf(q)')
      <4>1. CASE q = p
        BY <2>3, <2>4, <2>6, <3>1, <4>1
      <4>2. CASE q # p
        BY <1>3, <2>2, <2>3, <2>4, <2>5, <3>1, <4>2
      <4> QED
        BY <4>1, <4>2
    <3> QED
      BY <3>1 DEF CountMatchesFiles
  <2>8. ChargedWhileOpen'
    BY <1>1, <1>2, <2>2, <2>3 DEF ChargedWhileOpen, TasksOwned, HandlersListed
  <2> QED
    BY <2>7, <2>8
<1>7. ASSUME NEW t \in Thread, NEW f \in File, Close(t, f)
      PROVE  CountMatchesFiles' /\ ChargedWhileOpen'
  <2> DEFINE p == TgidOf[t]
  <2>1. p \in Proc /\ owner[f] \in Proc
    BY <1>1, <1>7, CallFields DEF Close, CanUse, TypeOK
  <2>2. /\ tgid' = tgid /\ disturbed \subseteq disturbed'
        /\ owner[f] # p => p \in disturbed' /\ owner[f] \in disturbed'
        /\ tasks' \subseteq tasks /\ handlers' \subseteq handlers
    BY <1>7 DEF Close, CleanTasks
  <2>3. \A q \in Proc : FilesOf(q)' = FilesOf(q) \ {f}
    BY <1>1, <1>7, MemoryAssumption DEF Close, FilesOf, TypeOK
  <2>4. ASSUME NEW q \in Proc \ disturbed', q # p
        PROVE  /\ FilesOf(q)' = FilesOf(q) /\ TaskOf(q)' = TaskOf(q)
               /\ \A b \in TaskOf(q) : count'[b] = count[b]
    <3>1. f \notin FilesOf(q)
      BY <2>2, <2>4 DEF FilesOf
    <3>2. \A b \in TaskOf(q) : b \notin TaskOf(p)
      BY <2>4 DEF TaskOf
    <3>3. TaskOf(q)' = TaskOf(q)
      BY <1>7, <3>2 DEF Close, CleanTasks, TaskOf
    <3>4. \A b \in TaskOf(q) : count'[b] = count[b]
      <4>1. count' = count \/ \E a \in TaskOf(p) : count' = [count EXCEPT ![a] = @ - 1]
        BY <1>7 DEF Close
      <4>2. \A b \in TaskOf(q) : b \in TaskObj
        BY <1>1 DEF TaskOf, TypeOK
      <4> QED
        BY <1>1, <3>2, <4>1, <4>2 DEF TypeOK
    <3> QED
      BY <2>3, <3>1, <3>3, <3>4
  <2>5. ASSUME p \notin disturbed'
        PROVE  \/ FilesOf(p)' = {} /\ TaskOf(p)' = {} /\ \A h \in handlers' : tgid[h.task] # p
               \/ /\ FilesOf(p)' # {} /\ TaskOf(p)' = TaskOf(p) /\ TaskOf(p) # {}
                  /\ \A b \in TaskOf(p) : count'[b] = Cardinality(FilesOf(p)')
    <3>1. f \in FilesOf(p) /\ p \notin disturbed
      BY <2>2, <2>5 DEF FilesOf
    <3>2. PICK a : TaskOf(p) = {a}
      <4>1. PICK a : a \in TaskOf(p)
        BY <1>3, <2>1, <3>1
      <4>2. \A b \in TaskOf(p) : b = a
        BY <1>1, <4>1 DEF TaskListSound, TaskOf
      <4> QED
        BY <4>1, <4>2
    <3>3. IsFiniteSet(FilesOf(p)) /\ count[a] = Cardinality(FilesOf(p))
      BY <1>2, <1>3, <2>1, <3>1, <3>2 DEF FilesFinite
    <3>4. /\ IsFiniteSet(FilesOf(p) \ {f})
          /\ Cardinality(FilesOf(p) \ {f}) = Cardinality(FilesOf(p)) - 1
      BY <3>1, <3>3, FS_RemoveElement
    <3>5. Cardinality(FilesOf(p) \ {f}) \in Nat
      BY <3>4, FS_CardinalityType
    <3>6. count[a] - 1 = Cardinality(FilesOf(p)')
      BY <2>1, <2>3, <3>3, <3>4
    <3>7. a \in tasks /\ tgid[a] = p
      BY <3>2 DEF TaskOf
    <3>8. CASE LastClose(a)
      <4>1. CleanTasks({a})
        BY <1>7, <3>2, <3>8 DEF Close
      <4>2. Cardinality(FilesOf(p) \ {f}) = 0
        <5>1. Cardinality(FilesOf(p) \ {f}) = count[a] - 1
          BY <2>1, <2>3, <3>6
        <5> QED
          BY <3>5, <3>8, <5>1 DEF LastClose
      <4>3. FilesOf(p)' = {}
        BY <2>1, <2>3, <3>4, <4>2, FS_EmptySet
      <4>4. TaskOf(p)' = {}
        BY <2>2, <3>2, <4>1 DEF CleanTasks, TaskOf
      <4>5. \A h \in handlers' : tgid[h.task] # p
        BY <1>1, <3>2, <4>1 DEF CleanTasks, HandlersOf, HandlersListed, TaskOf
      <4> QED
        BY <4>3, <4>4, <4>5
    <3>9. CASE ~LastClose(a)
      <4>1. count' = [count EXCEPT ![a] = @ - 1] /\ UNCHANGED <<handlers, tasks>>
        BY <1>7, <3>2, <3>9 DEF Close
      <4>2. count'[a] = Cardinality(FilesOf(p)') /\ TaskOf(p)' = TaskOf(p)
        BY <1>1, <2>2, <3>6, <3>7, <4>1 DEF TaskOf, TypeOK
      <4>3. FilesOf(p)' # {}
        <5>1. Cardinality(FilesOf(p)') # 0
          BY <1>1, <3>6, <3>7, <3>9 DEF LastClose, TypeOK
        <5> QED
          BY <5>1, FS_EmptySet
      <4> QED
        BY <3>2, <4>2, <4>3
    <3> QED
      BY <3>8, <3>9
  <2>6. CountMatchesFiles'
    <3>1. ASSUME NEW q \in Proc \ disturbed'
          PROVE  /\ FilesOf(q)' # {} => TaskOf(q)' # {}
                 /\ \A b \in TaskOf(q)' : count'[b] = Cardinality(FilesOf(q)')
      <4>1. CASE q = p
        BY <2>5, <3>1, <4>1
      <4>2. CASE q # p
        BY <1>3, <2>2, <2>4, <3>1, <4>2
      <4> QED
        BY <4>1, <4>2
    <3> QED
      BY <3>1 DEF CountMatchesFiles
  <2>7. ChargedWhileOpen'
    <3>1. ASSUME NEW h \in handlers', NEW q, q = tgid[h.task], q \notin disturbed'
          PROVE  FilesOf(q)' # {}
      <4>1. h \in handlers /\ q \in Proc /\ q \notin disturbed
        BY <1>1, <2>2, <3>1 DEF HandlersListed, TasksOwned
      <4>2. CASE q = p
        BY <2>5, <3>1, <4>2
      <4>3. CASE q # p
        BY <1>2, <2>4, <3>1, <4>1, <4>3 DEF ChargedWhileOpen
      <4> QED
        BY <4>2, <4>3
    <3> QED
      BY <2>2, <3>1 DEF ChargedWhileOpen
  <2> QED
    BY <2>6, <2>7
<1>8. ASSUME NEW t \in Thread, AllocPost(t)
      PROVE  CountMatchesFiles' /\ ChargedWhileOpen'
  <2> DEFINE p == TgidOf[t]
             f == call[t].file
  <2>1. f \in File /\ (p \notin disturbed' => owner[f] = p)
    BY <1>1, <1>8, CallFields DEF AllocPost
  <2>2. UNCHANGED <<tasks, tgid, count, owner>> /\ disturbed \subseteq disturbed'
    BY <1>8 DEF AllocPost
  <2>3. \A q : FilesOf(q)' = FilesOf(q) /\ TaskOf(q)' = TaskOf(q)
    BY <2>2 DEF FilesOf, TaskOf
  <2>4. \A h \in handlers' \ handlers : tgid[h.task] = p
    BY <1>8 DEF AllocPost, TaskOf
  <2>5. CountMatchesFiles'
    BY <1>3, <2>2, <2>3 DEF CountMatchesFiles
  <2>6. p \notin disturbed' => FilesOf(p) # {}
    BY <2>1 DEF FilesOf
  <2>7. ChargedWhileOpen'
    BY <1>2, <2>2, <2>3, <2>4, <2>6 DEF ChargedWhileOpen
  <2> QED
    BY <2>5, <2>7
<1>9. ASSUME DestroyNode
      PROVE  CountMatchesFiles' /\ ChargedWhileOpen'
  <2>1. tasks' = {} /\ handlers' = {} /\ owner' = owner
    BY <1>1, <1>9 DEF DestroyNode, CleanTasks, HandlersOf, HandlersListed
  <2>2. \A p \in Proc \ disturbed' : FilesOf(p)' = {} /\ TaskOf(p)' = {}
    BY <1>9, <2>1 DEF DestroyNode, FilesOf, TaskOf
  <2> QED
    BY <2>1, <2>2 DEF CountMatchesFiles, ChargedWhileOpen
<1>10. ASSUME NEW t \in Thread, NEW f \in File, NEW h \in Handle, Free(t, f, h)
       PROVE  CountMatchesFiles' /\ ChargedWhileOpen'
  BY <1>4, <1>10 DEF Free
<1>11. CASE UNCHANGED <<tasks, tgid, count, owner, disturbed, handlers>>
  BY <1>4, <1>11
<1> QED
  BY <1>5, <1>6, <1>7, <1>8, <1>9, <1>10, <1>11
     DEF Next, OpenFail, AllocPre, AllocUncharged, SetTotalMem

(* The counts hold at first and are kept.                                  *)
LEMMA CountInvariance == Spec => []CountInv
<1>1. Init => CountInv
  <2> SUFFICES ASSUME Init PROVE CountInv
    OBVIOUS
  <2>1. \A p \in Proc : FilesOf(p) = {} /\ TaskOf(p) = {}
    BY MemoryAssumption DEF Init, FilesOf, TaskOf
  <2>2. OpensPending
    BY DEF Init, OpensPending, Idle
  <2> QED
    BY <2>1, <2>2, FS_EmptySet
       DEF Init, CountInv, FilesFinite, CountMatchesFiles, ChargedWhileOpen
<1>2. IInv /\ CountInv /\ [Next]_vars => CountInv'
  BY PendingKept, FiniteKept, CountKept DEF CountInv
<1> QED
  BY <1>1, <1>2, Invariance, PTL DEF Spec

(* open_count is the number of files the process has open, so the last     *)
(* close of a process, and no earlier one, cleans its task.                *)
THEOREM CountsMatchFiles == Spec => []CountMatchesFiles
<1>1. CountInv => CountMatchesFiles
  BY DEF CountInv
<1> QED
  BY <1>1, CountInvariance, PTL

(* No quota leaks: a process is charged only while it has a file open.     *)
THEOREM ChargesEndWithFiles == Spec => []ChargedWhileOpen
<1>1. CountInv => ChargedWhileOpen
  BY DEF CountInv
<1> QED
  BY <1>1, CountInvariance, PTL
=============================================================================
