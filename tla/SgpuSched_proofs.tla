---------------------------- MODULE SgpuSched_proofs ----------------------------
(***************************************************************************)
(* Theorems about SgpuSched, for any number of processes, commands,        *)
(* instances, weights and scheduler threads.                               *)
(***************************************************************************)
EXTENDS SgpuSched, TLAPS

(* Where a thread is in its loop says something of its locals: it picks    *)
(* only after a scan was cut short, and serves only with weight left.      *)
ThreadsSound ==
    \A k \in Kthread :
        /\ kt[k].st = "pick" => kt[k].idx = 0
        /\ kt[k].st = "service" => kt[k].weight >= 1

TypeInv == TypeOK /\ ThreadsSound

-----------------------------------------------------------------------------
(* The constants as numbers.                                               *)
LEMMA Numbers ==
    /\ NInst \in Nat \ {0} /\ MaxWeight \in Nat \ {0} /\ Bound \in Nat
    /\ Inst = 0 .. NInst - 1 /\ 0 \in Inst
    /\ \A p \in Proc : InstOf[p] \in Inst
  <1>1. NInst \in Nat \ {0} /\ MaxWeight \in Nat \ {0}  BY SchedAssumption
  <1>2. \A a, b \in Nat : a * b \in Nat  OBVIOUS
  <1>3. Bound \in Nat  BY <1>1, <1>2 DEF Bound
  <1>. QED  BY <1>1, <1>3, SchedAssumption DEF Inst

(* A call that is under way is one of these.                               *)
LEMMA CallFields ==
    ASSUME TypeOK, NEW p \in Proc
    PROVE  /\ call[p].at = "found" =>
                 call[p] = [at |-> "found", live |-> call[p].live] /\ call[p].live \in BOOLEAN
           /\ call[p].at \in {"check", "start", "driver", "mark"} =>
                 call[p] = [at |-> call[p].at, cmd |-> call[p].cmd] /\ call[p].cmd \in Cmd
           /\ call[p].at = "assign" =>
                 call[p].cmd \in Cmd /\ call[p].thread \in Kthread \cup {ErrPtr}
  <1>1. call[p] \in CallStates  BY DEF TypeOK
  <1>. QED  BY <1>1 DEF CallStates, Idle

(* A call goes to its next place, or is replaced; the others stay.         *)
LEMMA CallSet ==
    ASSUME TypeOK, NEW p \in Proc, NEW next \in CallStates,
           call' = [call EXCEPT ![p] = next]
    PROVE  /\ call' \in [Proc -> CallStates]
           /\ call'[p] = next
           /\ \A q \in Proc \ {p} : call'[q] = call[q]
  BY DEF TypeOK

LEMMA CallMoves ==
    ASSUME TypeOK, NEW p \in Proc, call[p].at \in {"check", "start", "driver"},
           NEW place \in {"check", "start", "driver", "mark"},
           call' = [call EXCEPT ![p].at = place]
    PROVE  /\ call' \in [Proc -> CallStates]
           /\ call'[p].at = place /\ call'[p].cmd = call[p].cmd
           /\ \A q \in Proc \ {p} : call'[q] = call[q]
  <1>. DEFINE next == [at |-> place, cmd |-> call[p].cmd]
  <1>1. call[p] = [at |-> call[p].at, cmd |-> call[p].cmd] /\ call[p].cmd \in Cmd
    BY CallFields
  <1>2. [call[p] EXCEPT !.at = place] = next  BY <1>1
  <1>3. next \in CallStates  BY <1>1 DEF CallStates
  <1>4. call' = [call EXCEPT ![p] = next]  BY <1>2
  <1>5. next.at = place /\ next.cmd = call[p].cmd  OBVIOUS
  <1>. HIDE DEF next
  <1>. QED  BY <1>3, <1>4, <1>5, CallSet

(* The steps of a kick, as far as the call goes.                           *)
LEMMA FindEffect ==
    ASSUME TypeOK, NEW p \in Proc, KickFind(p)
    PROVE  /\ call' \in [Proc -> CallStates]
           /\ call'[p].at = "found"
           /\ \A q \in Proc \ {p} : call'[q] = call[q]
  <1>. DEFINE next == [at |-> "found", live |-> TRUE]
  <1>1. next \in CallStates /\ next.at = "found"  BY DEF CallStates
  <1>2. call' = [call EXCEPT ![p] = next]  BY DEF KickFind
  <1>. HIDE DEF next
  <1>. QED  BY <1>1, <1>2, CallSet

LEMMA CheckEffect ==
    ASSUME TypeOK, NEW p \in Proc, KickCheck(p)
    PROVE  /\ call' \in [Proc -> CallStates]
           /\ call'[p].at = IF taskStruct = NULL THEN "start" ELSE "driver"
           /\ call'[p].cmd = call[p].cmd
           /\ \A q \in Proc \ {p} : call'[q] = call[q]
  <1>1. CASE taskStruct = NULL
    <2>1. call[p].at = "check" /\ call' = [call EXCEPT ![p].at = "start"]
      BY <1>1 DEF KickCheck
    <2>. QED  BY <1>1, <2>1, CallMoves
  <1>2. CASE taskStruct # NULL
    <2>1. call[p].at = "check" /\ call' = [call EXCEPT ![p].at = "driver"]
      BY <1>2 DEF KickCheck
    <2>. QED  BY <1>2, <2>1, CallMoves
  <1>. QED  BY <1>1, <1>2

LEMMA StartCallEffect ==
    ASSUME TypeOK, NEW p \in Proc, KickStart(p)
    PROVE  /\ call' \in [Proc -> CallStates]
           /\ call'[p].at = "assign" /\ call'[p].cmd = call[p].cmd
           /\ \A q \in Proc \ {p} : call'[q] = call[q]
  <1>1. PICK k \in Kthread \cup {ErrPtr} :
            call' = [call EXCEPT ![p] =
                       [at |-> "assign", cmd |-> call[p].cmd, thread |-> k]]
    BY DEF KickStart
  <1>. DEFINE next == [at |-> "assign", cmd |-> call[p].cmd, thread |-> k]
  <1>2. call[p].cmd \in Cmd  BY CallFields DEF KickStart
  <1>3. next \in CallStates /\ next.at = "assign" /\ next.cmd = call[p].cmd
    BY <1>2 DEF CallStates
  <1>. HIDE DEF next
  <1>. QED  BY <1>1, <1>3, CallSet DEF next

LEMMA AssignEffect ==
    ASSUME TypeOK, NEW p \in Proc, KickAssign(p)
    PROVE  /\ call' \in [Proc -> CallStates]
           /\ call'[p].at = "driver" /\ call'[p].cmd = call[p].cmd
           /\ taskStruct' = call[p].thread /\ taskStruct' \in Kthread \cup {ErrPtr}
           /\ \A q \in Proc \ {p} : call'[q] = call[q]
  <1>. DEFINE next == [at |-> "driver", cmd |-> call[p].cmd]
  <1>1. call[p].cmd \in Cmd /\ call[p].thread \in Kthread \cup {ErrPtr}
    BY CallFields DEF KickAssign
  <1>2. next \in CallStates /\ next.at = "driver" /\ next.cmd = call[p].cmd
    BY <1>1 DEF CallStates
  <1>3. call' = [call EXCEPT ![p] = next] /\ taskStruct' = call[p].thread
    BY DEF KickAssign
  <1>. HIDE DEF next
  <1>. QED  BY <1>1, <1>2, <1>3, CallSet

LEMMA DriverEffect ==
    ASSUME TypeOK, NEW p \in Proc, DriverAccepts(p) \/ DriverFails(p) \/ KickMark(p)
    PROVE  /\ call' \in [Proc -> CallStates]
           /\ call[p].at \in {"driver", "mark"}
           /\ call'[p].at \in {"mark", "idle"}
           /\ \A q \in Proc \ {p} : call'[q] = call[q]
  <1>1. CASE DriverAccepts(p)  BY <1>1, CallMoves DEF DriverAccepts
  <1>2. CASE DriverFails(p) \/ KickMark(p)
    <2>1. Idle \in CallStates /\ Idle.at = "idle"  BY DEF CallStates, Idle
    <2>. QED  BY <1>2, <2>1, CallSet DEF DriverFails, KickMark
  <1>. QED  BY <1>1, <1>2

(* The tasks of P are cleaned: calls that had found one learn of it.       *)
LEMMA CleanEffect ==
    ASSUME TypeOK, NEW P \in SUBSET Proc, Clean(P)
    PROVE  /\ call' \in [Proc -> CallStates]
           /\ queue' \in [Proc -> SUBSET Cmd]
           /\ submitted' \subseteq submitted
           /\ \A p \in Proc : queue'[p] = IF p \in P THEN {} ELSE queue[p]
           /\ \A p \in Proc :
                 \/ call'[p] = call[p] /\ (p \in P => call[p].at # "found")
                 \/ call[p].at = "found" /\ call'[p] = [at |-> "found", live |-> FALSE]
  <1>. DEFINE f(p) == IF p \in P /\ call[p].at = "found"
                      THEN [call[p] EXCEPT !.live = FALSE] ELSE call[p]
  <1>1. call' = [p \in Proc |-> f(p)]  BY DEF Clean
  <1>2. ASSUME NEW p \in Proc
        PROVE  /\ f(p) \in CallStates
               /\ \/ f(p) = call[p] /\ (p \in P => call[p].at # "found")
                  \/ call[p].at = "found" /\ f(p) = [at |-> "found", live |-> FALSE]
    <2>1. CASE p \in P /\ call[p].at = "found"
      <3>1. call[p] = [at |-> "found", live |-> call[p].live]  BY <2>1, CallFields
      <3>2. f(p) = [at |-> "found", live |-> FALSE]  BY <2>1, <3>1
      <3>3. [at |-> "found", live |-> FALSE] \in CallStates  BY DEF CallStates
      <3>. QED  BY <2>1, <3>2, <3>3
    <2>2. CASE ~(p \in P /\ call[p].at = "found")  BY <2>2 DEF TypeOK
    <2>. QED  BY <2>1, <2>2
  <1>. HIDE DEF f
  <1>3. call' \in [Proc -> CallStates] /\ \A p \in Proc : call'[p] = f(p)  BY <1>1, <1>2
  <1>4. queue' \in [Proc -> SUBSET Cmd] /\ submitted' \subseteq submitted
        /\ \A p \in Proc : queue'[p] = IF p \in P THEN {} ELSE queue[p]
    BY DEF Clean, TypeOK
  <1>. QED  BY <1>2, <1>3, <1>4

-----------------------------------------------------------------------------
(* The steps of a scheduler thread, field by field.                        *)
LEMMA ThreadFields ==
    ASSUME TypeOK, NEW k \in Kthread
    PROVE  /\ kt[k] \in ThreadStates
           /\ kt[k] = [st |-> kt[k].st, idx |-> kt[k].idx, weight |-> kt[k].weight,
                       next |-> kt[k].next, at |-> kt[k].at]
           /\ kt[k].idx \in Inst /\ kt[k].next \in Inst /\ kt[k].at \in Inst
           /\ kt[k].weight \in 0 .. MaxWeight
  <1>1. kt[k] \in ThreadStates  BY DEF TypeOK
  <1>. QED  BY <1>1 DEF ThreadStates

LEMMA ThreadSet ==
    ASSUME TypeOK, NEW k \in Kthread, NEW next \in ThreadStates,
           kt' = [kt EXCEPT ![k] = next]
    PROVE  /\ kt' \in [Kthread -> ThreadStates]
           /\ kt'[k] = next
           /\ \A j \in Kthread \ {k} : kt'[j] = kt[j]
  BY DEF TypeOK

(* A thread is created.                                                    *)
LEMMA StartEffect ==
    ASSUME TypeOK, NEW k \in Kthread,
           kt' = [kt EXCEPT ![k] = [Dead EXCEPT !.st = "sleep", !.at = curr]]
    PROVE  /\ kt' \in [Kthread -> ThreadStates]
           /\ kt'[k].st = "sleep" /\ kt'[k].weight = 0 /\ kt'[k].at = curr
           /\ \A j \in Kthread \ {k} : kt'[j] = kt[j]
  <1>. DEFINE t == [st |-> "sleep", idx |-> 0, weight |-> 0, next |-> 0, at |-> curr]
              u == [Dead EXCEPT !.st = "sleep", !.at = curr]
  <1>1. u = t
    <2>1. u = [Dead EXCEPT !.st = "sleep", !.at = curr]  OBVIOUS
    <2>. HIDE DEF u
    <2>. QED  BY <2>1 DEF Dead
  <1>2. t \in ThreadStates  BY Numbers DEF ThreadStates, TypeOK
  <1>3. t.st = "sleep" /\ t.weight = 0 /\ t.at = curr  OBVIOUS
  <1>4. kt' = [kt EXCEPT ![k] = t]  BY <1>1
  <1>. HIDE DEF t
  <1>. QED  BY <1>2, <1>3, <1>4, ThreadSet

(* A thread wakes.                                                         *)
LEMMA WakeEffect ==
    ASSUME TypeOK, NEW k \in Kthread, Wake(k)
    PROVE  /\ kt' \in [Kthread -> ThreadStates]
           /\ kt'[k].st = "scan" /\ kt'[k].idx = 0 /\ kt'[k].weight = kt[k].weight
           /\ kt'[k].next = curr /\ kt'[k].at = kt[k].at
           /\ \A j \in Kthread \ {k} : kt'[j] = kt[j]
  <1>. DEFINE t == [st |-> "scan", idx |-> 0, weight |-> kt[k].weight,
                    next |-> curr, at |-> kt[k].at]
              u == [kt[k] EXCEPT !.st = "scan", !.next = curr, !.idx = 0]
  <1>1. u = t
    <2>1. u = [kt[k] EXCEPT !.st = "scan", !.next = curr, !.idx = 0]  OBVIOUS
    <2>. HIDE DEF u
    <2>2. kt[k] \in ThreadStates  BY ThreadFields
    <2>. QED  BY <2>1, <2>2 DEF ThreadStates
  <1>2. t \in ThreadStates  BY ThreadFields, Numbers DEF ThreadStates, TypeOK
  <1>3. /\ t.st = "scan" /\ t.idx = 0 /\ t.weight = kt[k].weight
        /\ t.next = curr /\ t.at = kt[k].at
    OBVIOUS
  <1>4. kt' = [kt EXCEPT ![k] = t]  BY <1>1 DEF Wake
  <1>. HIDE DEF t
  <1>. QED  BY <1>2, <1>3, <1>4, ThreadSet

(* It has looked at one instance.                                          *)
LEMMA ScanEffect ==
    ASSUME TypeOK, NEW k \in Kthread, Scan(k)
    PROVE  /\ kt' \in [Kthread -> ThreadStates]
           /\ \/ Used(kt[k].idx) /\ kt'[k].st = "pick" /\ kt'[k].idx = 0
              \/ /\ ~Used(kt[k].idx) /\ kt[k].idx < NInst - 1
                 /\ kt'[k].st = "scan" /\ kt'[k].idx = kt[k].idx + 1
              \/ ~Used(kt[k].idx) /\ kt[k].idx = NInst - 1 /\ kt'[k].st = "exit"
           /\ kt'[k].weight = kt[k].weight
           /\ kt'[k].next = kt[k].next /\ kt'[k].at = kt[k].at
           /\ \A j \in Kthread \ {k} : kt'[j] = kt[j]
  <1>. DEFINE t(st, idx) == [st |-> st, idx |-> idx, weight |-> kt[k].weight,
                             next |-> kt[k].next, at |-> kt[k].at]
              a == [kt[k] EXCEPT !.st = "pick", !.idx = 0]
              b == [kt[k] EXCEPT !.idx = @ + 1]
              c == [kt[k] EXCEPT !.st = "exit", !.idx = 0]
  <1>1. /\ kt[k].st = "scan"
        /\ \/ Used(kt[k].idx) /\ kt' = [kt EXCEPT ![k] = a]
           \/ ~Used(kt[k].idx) /\ kt[k].idx < NInst - 1 /\ kt' = [kt EXCEPT ![k] = b]
           \/ ~Used(kt[k].idx) /\ kt[k].idx >= NInst - 1 /\ kt' = [kt EXCEPT ![k] = c]
    BY DEF Scan, LastScanned
  <1>2. /\ kt[k] \in ThreadStates
        /\ kt[k].idx \in Inst /\ kt[k].next \in Inst /\ kt[k].at \in Inst
        /\ kt[k].weight \in 0 .. MaxWeight
    BY ThreadFields
  <1>3. \A st \in {"scan", "pick", "exit"} : \A idx \in Inst :
            /\ t(st, idx) \in ThreadStates
            /\ t(st, idx).st = st /\ t(st, idx).idx = idx
            /\ t(st, idx).weight = kt[k].weight
            /\ t(st, idx).next = kt[k].next /\ t(st, idx).at = kt[k].at
    BY <1>2 DEF ThreadStates
  <1>4. a = t("pick", 0) /\ b = t("scan", kt[k].idx + 1) /\ c = t("exit", 0)
    <2>1. /\ a = [kt[k] EXCEPT !.st = "pick", !.idx = 0]
          /\ b = [kt[k] EXCEPT !.idx = @ + 1]
          /\ c = [kt[k] EXCEPT !.st = "exit", !.idx = 0]
      OBVIOUS
    <2>. HIDE DEF a, b, c
    <2>. QED  BY <1>1, <1>2, <2>1 DEF ThreadStates
  <1>. HIDE DEF a, b, c, t
  <1>5. CASE Used(kt[k].idx) /\ kt' = [kt EXCEPT ![k] = a]
    BY <1>3, <1>4, <1>5, Numbers, ThreadSet
  <1>6. CASE ~Used(kt[k].idx) /\ kt[k].idx < NInst - 1 /\ kt' = [kt EXCEPT ![k] = b]
    <2>. DEFINE n == kt[k].idx + 1
    <2>1. n \in Inst  BY <1>2, <1>6, Numbers
    <2>2. b = t("scan", n)  BY <1>4
    <2>. HIDE DEF n
    <2>3. /\ t("scan", n) \in ThreadStates /\ t("scan", n).st = "scan"
          /\ t("scan", n).idx = n /\ t("scan", n).weight = kt[k].weight
          /\ t("scan", n).next = kt[k].next /\ t("scan", n).at = kt[k].at
      BY <1>3, <2>1
    <2>4. /\ kt' \in [Kthread -> ThreadStates] /\ kt'[k] = t("scan", n)
          /\ \A j \in Kthread \ {k} : kt'[j] = kt[j]
      BY <1>6, <2>2, <2>3, ThreadSet
    <2>. QED  BY <1>6, <2>3, <2>4 DEF n
  <1>7. CASE ~Used(kt[k].idx) /\ kt[k].idx >= NInst - 1 /\ kt' = [kt EXCEPT ![k] = c]
    <2>1. kt[k].idx = NInst - 1  BY <1>2, <1>7, Numbers
    <2>2. t("exit", 0) \in ThreadStates /\ t("exit", 0).st = "exit"  BY <1>3, Numbers
    <2>. QED  BY <1>3, <1>4, <1>7, <2>1, <2>2, Numbers, ThreadSet
  <1>. QED  BY <1>1, <1>5, <1>6, <1>7

(* The instance whose turn it is, and its weight.                          *)
LEMMA AdvanceFields ==
    ASSUME TypeOK, NEW k \in Kthread
    PROVE  LET t == Advance(kt[k]) IN
           /\ t = [st |-> kt[k].st, idx |-> kt[k].idx, weight |-> t.weight,
                   next |-> t.next, at |-> t.at]
           /\ t.weight \in 1 .. MaxWeight /\ t.next \in Inst /\ t.at \in Inst
           /\ \/ /\ kt[k].weight >= 1 /\ t.weight = kt[k].weight
                 /\ t.next = kt[k].next /\ t.at = kt[k].at
              \/ /\ kt[k].weight = 0
                 /\ t.next = (kt[k].next + 1) % maxInst /\ t.at = t.next
  <1>1. /\ kt[k] = [st |-> kt[k].st, idx |-> kt[k].idx, weight |-> kt[k].weight,
                    next |-> kt[k].next, at |-> kt[k].at]
        /\ kt[k].next \in Inst /\ kt[k].at \in Inst /\ kt[k].weight \in 0 .. MaxWeight
    BY ThreadFields
  <1>2. CASE kt[k].weight >= 1
    <2>1. Advance(kt[k]) = kt[k]  BY <1>1, <1>2, Numbers DEF Advance
    <2>. QED  BY <1>1, <1>2, <2>1, Numbers
  <1>3. CASE kt[k].weight = 0
    <2>. DEFINE n == (kt[k].next + 1) % maxInst
    <2>1. n \in 0 .. maxInst - 1 /\ maxInst <= NInst
      <3>1. maxInst \in 1 .. NInst  BY DEF TypeOK
      <3>2. NInst \in Nat /\ kt[k].next \in 0 .. NInst - 1  BY <1>1, Numbers
      <3>. QED  BY ONLY <3>1, <3>2
    <2>2. n \in Inst  BY <2>1, Numbers DEF TypeOK
    <2>3. weight[n] \in 1 .. MaxWeight  BY <2>2 DEF TypeOK
    <2>4. Advance(kt[k]) = [kt[k] EXCEPT !.next = n, !.at = n, !.weight = weight[n]]
      BY <1>3 DEF Advance
    <2>. HIDE DEF n
    <2>5. Advance(kt[k]) = [st |-> kt[k].st, idx |-> kt[k].idx, weight |-> weight[n],
                            next |-> n, at |-> n]
      BY <1>1, <2>4
    <2>. QED  BY <1>3, <2>2, <2>3, <2>5 DEF n
  <1>. QED  BY <1>1, <1>2, <1>3, Numbers

(* It serves the instance, or starts over.                                 *)
LEMMA PickEffect ==
    ASSUME TypeOK, NEW k \in Kthread, Pick(k)
    PROVE  LET t == Advance(kt[k]) IN
           /\ kt' \in [Kthread -> ThreadStates]
           /\ \/ kt'[k].st = "service" /\ kt'[k].weight = t.weight
              \/ /\ kt'[k].st = "scan" /\ ~Used(t.next)
                 /\ kt'[k].weight \in {0, t.weight}
           /\ kt'[k].idx = kt[k].idx /\ kt'[k].next = t.next /\ kt'[k].at = t.at
           /\ \A j \in Kthread \ {k} : kt'[j] = kt[j]
  <1>. DEFINE t == Advance(kt[k])
              v(st, w) == [st |-> st, idx |-> kt[k].idx, weight |-> w,
                           next |-> t.next, at |-> t.at]
              u == IF Used(t.next) \/ policy = "fair_fixed" THEN [t EXCEPT !.st = "service"]
                   ELSE [t EXCEPT !.st = "scan",
                                  !.weight = IF policy = "fair_preemption" THEN 0 ELSE @]
  <1>1. kt' = [kt EXCEPT ![k] = u]  BY DEF Pick
  <1>2. /\ t = [st |-> kt[k].st, idx |-> kt[k].idx, weight |-> t.weight,
                next |-> t.next, at |-> t.at]
        /\ t.weight \in 1 .. MaxWeight /\ t.next \in Inst /\ t.at \in Inst
    BY AdvanceFields
  <1>3. kt[k].idx \in Inst /\ kt[k].st = "pick"  BY ThreadFields DEF Pick
  <1>. HIDE DEF t
  <1>8. t \in ThreadStates /\ t.idx = kt[k].idx  BY <1>2, <1>3, Numbers DEF ThreadStates
  <1>4. \A st \in {"scan", "service"} : \A w \in 0 .. MaxWeight :
            /\ v(st, w) \in ThreadStates
            /\ v(st, w).st = st /\ v(st, w).weight = w /\ v(st, w).idx = kt[k].idx
            /\ v(st, w).next = t.next /\ v(st, w).at = t.at
    BY <1>2, <1>3 DEF ThreadStates
  <1>5. 0 \in 0 .. MaxWeight /\ t.weight \in 0 .. MaxWeight  BY <1>2, Numbers
  <1>6. CASE Used(t.next) \/ policy = "fair_fixed"
    <2>1. u = v("service", t.weight)  BY <1>2, <1>6
    <2>. HIDE DEF u, v
    <2>2. /\ kt' \in [Kthread -> ThreadStates] /\ kt'[k] = v("service", t.weight)
          /\ \A j \in Kthread \ {k} : kt'[j] = kt[j]
      BY <1>1, <1>4, <1>5, <2>1, ThreadSet
    <2>. QED  BY <1>4, <1>5, <2>2 DEF t
  <1>7. CASE ~(Used(t.next) \/ policy = "fair_fixed")
    <2>. DEFINE a == [t EXCEPT !.st = "scan", !.weight = 0]
                b == [t EXCEPT !.st = "scan", !.weight = @]
    <2>1. u = a \/ u = b  BY <1>7, Zenon
    <2>2. a = v("scan", 0)
      <3>1. a = [t EXCEPT !.st = "scan", !.weight = 0]  OBVIOUS
      <3>. HIDE DEF a
      <3>. QED  BY <1>2, <1>8, <3>1 DEF ThreadStates
    <2>3. b = v("scan", t.weight)
      <3>1. b = [t EXCEPT !.st = "scan", !.weight = @]  OBVIOUS
      <3>. HIDE DEF b
      <3>. QED  BY <1>2, <1>8, <3>1 DEF ThreadStates
    <2>. HIDE DEF a, b, u, v
    <2>4. /\ kt' \in [Kthread -> ThreadStates]
          /\ kt'[k] = v("scan", 0) \/ kt'[k] = v("scan", t.weight)
          /\ \A j \in Kthread \ {k} : kt'[j] = kt[j]
      BY <1>1, <1>4, <1>5, <2>1, <2>2, <2>3, ThreadSet
    <2>. QED  BY <1>4, <1>5, <1>7, <2>4 DEF t
  <1>. QED  BY <1>6, <1>7

(* It has served an instance: the next in turn, or where it was.           *)
LEMMA ServiceEffect ==
    ASSUME TypeInv, NEW k \in Kthread, Service(k)
    PROVE  LET i == IF curr # kt[k].next THEN kt[k].next ELSE kt[k].at IN
           /\ kt' \in [Kthread -> ThreadStates]
           /\ i \in Inst /\ curr' = kt[k].next /\ curr' \in Inst
           /\ kt'[k].st = "sleep" /\ kt'[k].weight = kt[k].weight - 1 /\ kt'[k].at = i
           /\ kt[k].weight >= 1
           /\ \A j \in Kthread \ {k} : kt'[j] = kt[j]
           /\ \A p \in Proc : queue'[p] = queue[p] \ Served(i)
           /\ fence' = [c \in Cmd |-> IF c \in Served(i) THEN "signalled" ELSE fence[c]]
           /\ submitted' = submitted \ Served(i)
           /\ \A j \in Inst : since'[j] =
                 IF j = i \/ ~Used(j) THEN 0
                 ELSE IF since[j] > Bound THEN since[j] ELSE since[j] + 1
  <1>. DEFINE i == IF curr # kt[k].next THEN kt[k].next ELSE kt[k].at
              t == [st |-> "sleep", idx |-> kt[k].idx, weight |-> kt[k].weight - 1,
                    next |-> kt[k].next, at |-> i]
              u == [kt[k] EXCEPT !.st = "sleep", !.at = i, !.weight = @ - 1]
  <1>1. /\ TypeOK /\ kt[k].weight >= 1 /\ kt[k].weight \in 0 .. MaxWeight
        /\ kt[k].idx \in Inst /\ kt[k].next \in Inst /\ kt[k].at \in Inst
        /\ kt[k] = [st |-> kt[k].st, idx |-> kt[k].idx, weight |-> kt[k].weight,
                    next |-> kt[k].next, at |-> kt[k].at]
    BY ThreadFields DEF TypeInv, ThreadsSound, Service
  <1>2. u = t
    <2>1. u = [kt[k] EXCEPT !.st = "sleep", !.at = i, !.weight = @ - 1]  OBVIOUS
    <2>. HIDE DEF u, i
    <2>. QED  BY <1>1, <2>1
  <1>3. kt[k].weight - 1 \in 0 .. MaxWeight /\ i \in Inst  BY <1>1, Numbers
  <1>4. t \in ThreadStates  BY <1>1, <1>3 DEF ThreadStates
  <1>5. kt' = [kt EXCEPT ![k] = t]  BY <1>2 DEF Service
  <1>6. t.st = "sleep" /\ t.weight = kt[k].weight - 1 /\ t.at = i  OBVIOUS
  <1>7. /\ kt' \in [Kthread -> ThreadStates] /\ kt'[k] = t
        /\ \A j \in Kthread \ {k} : kt'[j] = kt[j]
    <2>. HIDE DEF t
    <2>. QED  BY <1>1, <1>4, <1>5, ThreadSet
  <1>8. /\ curr' = kt[k].next
        /\ \A p \in Proc : queue'[p] = queue[p] \ Served(i)
        /\ fence' = [c \in Cmd |-> IF c \in Served(i) THEN "signalled" ELSE fence[c]]
        /\ submitted' = submitted \ Served(i)
        /\ \A j \in Inst : since'[j] =
              IF j = i \/ ~Used(j) THEN 0
              ELSE IF since[j] > Bound THEN since[j] ELSE since[j] + 1
    BY DEF Service, QueueAfter
  <1>. HIDE DEF t, i
  <1>. QED  BY <1>1, <1>3, <1>6, <1>7, <1>8 DEF i

-----------------------------------------------------------------------------
(* Every step keeps the types.                                             *)
LEMMA TypeInductive == TypeInv /\ [Next]_vars => TypeInv'
  <1>. SUFFICES ASSUME TypeInv, [Next]_vars PROVE TypeInv'  OBVIOUS
  <1>. USE DEF vars, groupVars, cmdVars, threadVars, histVars
  <1>1. TypeOK /\ ThreadsSound  BY DEF TypeInv
  <1>2. \A w \in 1 .. MaxWeight : w \in 0 .. MaxWeight  BY Numbers
  (* The group nodes and the task list.                                    *)
  <1>3. ASSUME NEW new \in Policies, SetPolicy(new)  PROVE TypeInv'
    <2>1. new \in Policy /\ 0 \in 0 .. Bound + 1  BY SchedAssumption, Numbers
    <2>. QED  BY <1>1, <1>3, <2>1 DEF SetPolicy, TypeInv, TypeOK, ThreadsSound
  <1>4. ASSUME NEW n \in MaxInsts, SetMaxInst(n)  PROVE TypeInv'
    <2>1. n \in 1 .. NInst /\ 0 \in 0 .. Bound + 1  BY SchedAssumption, Numbers
    <2>. QED  BY <1>1, <1>4, <2>1 DEF SetMaxInst, TypeInv, TypeOK, ThreadsSound
  <1>5. ASSUME NEW i \in Inst, NEW w \in 1 .. MaxWeight, SetWeight(i, w)  PROVE TypeInv'
    BY <1>1, <1>5 DEF SetWeight, TypeInv, TypeOK, ThreadsSound
  <1>6. ASSUME NEW i \in Inst, CreateNode(i)  PROVE TypeInv'
    BY <1>1, <1>6 DEF CreateNode, TypeInv, TypeOK, ThreadsSound
  <1>7. ASSUME NEW p \in Proc, Open(p)  PROVE TypeInv'
    <2>1. 0 \in 0 .. Bound + 1  BY Numbers
    <2>. QED  BY <1>1, <1>7, <2>1 DEF Open, TypeInv, TypeOK, ThreadsSound
  <1>8. ASSUME NEW P \in SUBSET Proc, Clean(P), named' \subseteq named,
               UNCHANGED <<policy, maxInst, weight, threadVars, histVars>>
        PROVE  TypeInv'
    <2>1. /\ call' \in [Proc -> CallStates] /\ queue' \in [Proc -> SUBSET Cmd]
          /\ submitted' \subseteq submitted
      BY <1>1, <1>8, CleanEffect
    <2>2. listed' \subseteq listed /\ fence' = fence  BY <1>8 DEF Clean
    <2>. QED  BY <1>1, <1>8, <2>1, <2>2 DEF TypeInv, TypeOK, ThreadsSound
  <1>9. ASSUME NEW p \in Proc, Close(p)  PROVE TypeInv'
    BY <1>8, <1>9 DEF Close
  <1>10. ASSUME NEW i \in Inst, Destroy(i)  PROVE TypeInv'
    <2>1. {p \in listed : InstOf[p] = i} \in SUBSET Proc  BY <1>1 DEF TypeOK
    <2>. QED  BY <1>8, <1>10, <2>1 DEF Destroy
  (* The kick.                                                             *)
  <1>11. ASSUME call' \in [Proc -> CallStates], UNCHANGED <<groupVars, cmdVars, since>>,
                taskStruct' \in Kthread \cup {NULL, ErrPtr}, UNCHANGED <<curr, kt>>,
                startRace' \in BOOLEAN, missed' \in BOOLEAN
         PROVE  TypeInv'
    BY <1>1, <1>11 DEF TypeInv, TypeOK, ThreadsSound
  <1>12. startRace \in BOOLEAN /\ missed \in BOOLEAN
         /\ taskStruct \in Kthread \cup {NULL, ErrPtr}
    BY <1>1 DEF TypeOK
  <1>14. ASSUME NEW p \in Proc, KickFind(p)  PROVE TypeInv'
    BY <1>1, <1>11, <1>12, <1>14, FindEffect DEF KickFind
  <1>15. ASSUME NEW p \in Proc, KickAdd(p)  PROVE TypeInv'
    <2>1. PICK c \in Cmd : /\ fence' = [fence EXCEPT ![c] = "armed"]
                           /\ call' = [call EXCEPT ![p] = [at |-> "check", cmd |-> c]]
                           /\ submitted' \subseteq submitted \cup {c}
                           /\ \/ \E q \in listed \cup {p} :
                                    queue' = [queue EXCEPT ![q] = @ \cup {c}]
                              \/ queue' = queue
      BY <1>15 DEF KickAdd
    <2>2. [at |-> "check", cmd |-> c] \in CallStates  BY DEF CallStates
    <2>3. call' \in [Proc -> CallStates]  BY <1>1, <2>1, <2>2, CallSet
    <2>4. queue' \in [Proc -> SUBSET Cmd] /\ submitted' \subseteq Cmd
          /\ fence' \in [Cmd -> {"none", "armed", "signalled"}]
      BY <1>1, <2>1 DEF TypeOK
    <2>. QED  BY <1>1, <1>15, <2>3, <2>4 DEF KickAdd, TypeInv, TypeOK, ThreadsSound
  <1>16. ASSUME NEW p \in Proc, KickCheck(p)  PROVE TypeInv'
    <2>1. call' \in [Proc -> CallStates]  BY <1>1, <1>16, CheckEffect
    <2>2. startRace' \in BOOLEAN /\ missed' \in BOOLEAN
      BY <1>12, <1>16 DEF KickCheck, Unattended
    <2>. QED  BY <1>11, <1>12, <1>16, <2>1, <2>2 DEF KickCheck
  <1>17. ASSUME NEW p \in Proc, KickStart(p)  PROVE TypeInv'
    <2>3. call' \in [Proc -> CallStates]  BY <1>1, <1>17, StartCallEffect
    <2>4. CASE UNCHANGED kt  BY <1>11, <1>12, <1>17, <2>3, <2>4 DEF KickStart
    <2>5. CASE \E k \in Kthread \ Live :
                  kt' = [kt EXCEPT ![k] = [Dead EXCEPT !.st = "sleep", !.at = curr]]
      <3>1. kt' \in [Kthread -> ThreadStates] /\ ThreadsSound'
        BY <1>1, <2>5, StartEffect DEF ThreadsSound
      <3>. QED  BY <1>1, <1>17, <2>3, <3>1 DEF KickStart, TypeInv, TypeOK
    <2>. QED  BY <1>17, <2>4, <2>5 DEF KickStart
  <1>18. ASSUME NEW p \in Proc, KickAssign(p)  PROVE TypeInv'
    <2>1. call' \in [Proc -> CallStates] /\ taskStruct' \in Kthread \cup {ErrPtr}
      BY <1>1, <1>18, AssignEffect
    <2>2. missed' \in BOOLEAN  BY <1>12, <1>18 DEF KickAssign, Unattended
    <2>. QED  BY <1>11, <1>12, <1>18, <2>1, <2>2 DEF KickAssign
  <1>19. ASSUME NEW p \in Proc, DriverAccepts(p)  PROVE TypeInv'
    <2>1. call' \in [Proc -> CallStates]  BY <1>1, <1>19, DriverEffect
    <2>. QED  BY <1>11, <1>12, <1>19, <2>1 DEF DriverAccepts
  <1>20. ASSUME NEW p \in Proc, DriverFails(p)  PROVE TypeInv'
    <2>1. call' \in [Proc -> CallStates]  BY <1>1, <1>20, DriverEffect
    <2>. QED  BY <1>11, <1>12, <1>20, <2>1 DEF DriverFails
  <1>21. ASSUME NEW p \in Proc, KickMark(p)  PROVE TypeInv'
    <2>1. call' \in [Proc -> CallStates]  BY <1>1, <1>21, DriverEffect
    <2>2. submitted' \subseteq Cmd  BY <1>1, <1>21, CallFields DEF KickMark, TypeOK
    <2>. QED  BY <1>1, <1>21, <2>1, <2>2 DEF KickMark, TypeInv, TypeOK, ThreadsSound
  (* The scheduler threads.                                                *)
  <1>22. ASSUME NEW k \in Kthread, Wake(k)  PROVE TypeInv'
    <2>1. kt' \in [Kthread -> ThreadStates] /\ ThreadsSound'
      BY <1>1, <1>22, WakeEffect DEF ThreadsSound
    <2>. QED  BY <1>1, <1>22, <2>1 DEF Wake, TypeInv, TypeOK
  <1>23. ASSUME NEW k \in Kthread, Scan(k)  PROVE TypeInv'
    <2>1. kt' \in [Kthread -> ThreadStates] /\ ThreadsSound'
      BY <1>1, <1>23, ScanEffect DEF ThreadsSound
    <2>. QED  BY <1>1, <1>23, <2>1 DEF Scan, TypeInv, TypeOK
  <1>24. ASSUME NEW k \in Kthread, Pick(k)  PROVE TypeInv'
    <2>1. Advance(kt[k]).weight \in 1 .. MaxWeight /\ kt[k].idx = 0
      BY <1>1, <1>24, AdvanceFields DEF Pick, ThreadsSound
    <2>2. kt' \in [Kthread -> ThreadStates] /\ ThreadsSound'
      BY <1>1, <1>24, <2>1, PickEffect DEF ThreadsSound
    <2>. QED  BY <1>1, <1>24, <2>2 DEF Pick, TypeInv, TypeOK
  <1>25. ASSUME NEW k \in Kthread, Service(k)  PROVE TypeInv'
    <2>1. kt' \in [Kthread -> ThreadStates] /\ curr' \in Inst /\ ThreadsSound'
      BY <1>1, <1>25, ServiceEffect DEF ThreadsSound, TypeInv
    <2>2. /\ queue' \in [Proc -> SUBSET Cmd] /\ submitted' \subseteq Cmd
          /\ fence' \in [Cmd -> {"none", "armed", "signalled"}]
      BY <1>1, <1>25 DEF Service, QueueAfter, TypeOK
    <2>3. since' \in [Inst -> 0 .. Bound + 1]
      BY <1>1, <1>25, Numbers DEF Service, TypeOK
    <2>. QED  BY <1>1, <1>25, <2>1, <2>2, <2>3 DEF Service, TypeInv, TypeOK
  <1>26. ASSUME NEW k \in Kthread, Exit(k)  PROVE TypeInv'
    <2>1. Dead \in ThreadStates /\ Dead.st = "dead"
      BY Numbers DEF Dead, ThreadStates
    <2>2. kt' \in [Kthread -> ThreadStates] /\ ThreadsSound'
      BY <1>1, <1>26, <2>1, ThreadSet DEF Exit, ThreadsSound
    <2>. QED  BY <1>1, <1>26, <2>2 DEF Exit, TypeInv, TypeOK
  <1>27. CASE UNCHANGED vars  BY <1>1, <1>27 DEF TypeInv, TypeOK, ThreadsSound
  <1>. QED
    BY <1>3, <1>4, <1>5, <1>6, <1>7, <1>9, <1>10, <1>14, <1>15, <1>16, <1>17, <1>18, <1>19,
       <1>20, <1>21, <1>22, <1>23, <1>24, <1>25, <1>26, <1>27
       DEF Next, KickStep, ThreadStep

-----------------------------------------------------------------------------
(* One scheduler.  While no two kicks have been starting a thread at once, *)
(* one that is has seen that there is none, and a thread that lives is     *)
(* known to task_struct or about to be.                                    *)
StartsAlone == \A p, q \in Proc : Starting(p) /\ Starting(q) => p = q
StartSeesNone == \A p \in Proc : Starting(p) => taskStruct = NULL
LiveAlone == \A j, k \in Live : j = k
LiveKnown == Live # {} => taskStruct # NULL \/ \E p \in Proc : call[p].at = "assign"

SingleParts == StartsAlone /\ StartSeesNone /\ LiveAlone /\ LiveKnown
SingleInv == ~startRace => SingleParts

(* Calls that are not starting a thread, and threads that live on, do not  *)
(* matter.                                                                 *)
LEMMA SingleSteady ==
    ASSUME SingleParts, Live' = Live, taskStruct' = taskStruct,
           \A p \in Proc : Starting(p)' \/ Starting(p) => call'[p].at = call[p].at
    PROVE  SingleParts'
  BY DEF SingleParts, StartsAlone, StartSeesNone, LiveAlone, LiveKnown, Starting

(* A thread that goes on lives.                                            *)
LEMMA ThreadGoesOn ==
    ASSUME TypeInv, NEW k \in Kthread, Wake(k) \/ Scan(k) \/ Pick(k) \/ Service(k)
    PROVE  Live' = Live /\ taskStruct' = taskStruct /\ call' = call
  <1>1. TypeOK  BY DEF TypeInv
  <1>2. kt[k].st # "dead"  BY DEF Wake, Scan, Pick, Service
  <1>3. kt'[k].st # "dead" /\ \A j \in Kthread \ {k} : kt'[j] = kt[j]
    BY <1>1, WakeEffect, ScanEffect, PickEffect, ServiceEffect
  <1>4. Live' = Live  BY <1>2, <1>3 DEF Live
  <1>. QED  BY <1>4 DEF Wake, Scan, Pick, Service

LEMMA SingleInductive == TypeInv /\ SingleInv /\ [Next]_vars => SingleInv'
  <1>. SUFFICES ASSUME TypeInv, SingleInv, [Next]_vars, ~startRace' PROVE SingleParts'
    BY DEF SingleInv
  <1>. USE DEF vars, groupVars, cmdVars, threadVars, histVars
  <1>1. TypeOK  BY DEF TypeInv
  <1>2. SingleParts
    BY DEF SingleInv, Next, SetPolicy, SetMaxInst, SetWeight, CreateNode, Open, Close, Destroy,
           KickFind, KickStep, KickAdd, KickCheck, KickStart, KickAssign, DriverAccepts,
           DriverFails, KickMark, ThreadStep, Wake, Scan, Pick, Service, Exit
  <1>3. ASSUME UNCHANGED <<call, kt, taskStruct>>  PROVE SingleParts'
    BY <1>2, <1>3, SingleSteady DEF Live, Starting
  <1>4. ASSUME NEW P \in SUBSET Proc, Clean(P), UNCHANGED threadVars  PROVE SingleParts'
    <2>1. \A p \in Proc : Starting(p)' \/ Starting(p) => call'[p] = call[p]
      BY <1>1, <1>4, CleanEffect DEF Starting
    <2>. QED  BY <1>2, <1>4, <2>1, SingleSteady DEF Live
  <1>5. ASSUME NEW i \in Inst, Destroy(i)  PROVE SingleParts'
    <2>1. {p \in listed : InstOf[p] = i} \in SUBSET Proc  BY <1>1 DEF TypeOK
    <2>. QED  BY <1>4, <1>5, <2>1 DEF Destroy
  <1>6. ASSUME NEW p \in Proc, Close(p)  PROVE SingleParts'
    BY <1>4, <1>6 DEF Close
  <1>7. ASSUME NEW p \in Proc, ~Starting(p), call'[p].at \notin {"start", "assign"},
               \A q \in Proc \ {p} : call'[q] = call[q], UNCHANGED threadVars
        PROVE  SingleParts'
    <2>1. \A q \in Proc : Starting(q)' \/ Starting(q) => call'[q] = call[q]
      BY <1>7 DEF Starting
    <2>. QED  BY <1>2, <1>7, <2>1, SingleSteady DEF Live
  <1>9. ASSUME NEW p \in Proc, KickFind(p)  PROVE SingleParts'
    <2>1. call[p].at = "idle"  BY <1>9 DEF KickFind, Idle
    <2>. QED  BY <1>1, <1>7, <1>9, <2>1, FindEffect DEF KickFind, Starting
  <1>10. ASSUME NEW p \in Proc, KickAdd(p)  PROVE SingleParts'
    <2>1. PICK c \in Cmd : call' = [call EXCEPT ![p] = [at |-> "check", cmd |-> c]]
      BY <1>10 DEF KickAdd
    <2>2. [at |-> "check", cmd |-> c] \in CallStates  BY DEF CallStates
    <2>3. call'[p].at = "check" /\ \A q \in Proc \ {p} : call'[q] = call[q]
      BY <1>1, <2>1, <2>2, CallSet
    <2>. QED  BY <1>7, <1>10, <2>3 DEF KickAdd, Starting
  <1>11. ASSUME NEW p \in Proc, KickCheck(p)  PROVE SingleParts'
    <2>1. CASE taskStruct = NULL
      <3>1. call'[p].at = "start" /\ \A q \in Proc \ {p} : call'[q] = call[q]
        BY <1>1, <1>11, <2>1, CheckEffect
      <3>2. /\ UNCHANGED <<kt, taskStruct>> /\ call[p].at = "check"
            /\ \A q \in Proc \ {p} : ~Starting(q)
        BY <1>11, <2>1 DEF KickCheck
      <3>3. StartsAlone' /\ StartSeesNone'
        BY <2>1, <3>1, <3>2 DEF StartsAlone, StartSeesNone, Starting
      <3>4. LiveAlone' /\ LiveKnown'
        BY <1>2, <2>1, <3>1, <3>2 DEF SingleParts, LiveAlone, LiveKnown, Live
      <3>. QED  BY <3>3, <3>4 DEF SingleParts
    <2>2. CASE taskStruct # NULL
      <3>1. call'[p].at = "driver" /\ \A q \in Proc \ {p} : call'[q] = call[q]
        BY <1>1, <1>11, <2>2, CheckEffect
      <3>. QED  BY <1>7, <1>11, <3>1 DEF KickCheck, Starting
    <2>. QED  BY <2>1, <2>2
  <1>12. ASSUME NEW p \in Proc, KickStart(p)  PROVE SingleParts'
    <2>1. Starting(p) /\ taskStruct = NULL /\ taskStruct' = NULL
      BY <1>2, <1>12 DEF KickStart, Starting, SingleParts, StartSeesNone
    <2>2. call'[p].at = "assign" /\ \A q \in Proc \ {p} : call'[q] = call[q]
      BY <1>1, <1>12, StartCallEffect
    <2>3. StartsAlone' /\ StartSeesNone' /\ LiveKnown'
      BY <1>2, <2>1, <2>2
         DEF SingleParts, StartsAlone, StartSeesNone, LiveKnown, Starting
    <2>4. Live = {}
      <3>1. ASSUME NEW q \in Proc, call[q].at = "assign"  PROVE FALSE
        <4>1. Starting(q)  BY <3>1 DEF Starting
        <4>. QED  BY <1>2, <1>12, <2>1, <3>1, <4>1
                  DEF SingleParts, StartsAlone, KickStart
      <3>. QED  BY <1>2, <2>1, <3>1 DEF SingleParts, LiveKnown
    <2>5. LiveAlone'
      <3>1. kt' = kt \/ \E k \in Kthread : \A j \in Kthread \ {k} : kt'[j] = kt[j]
        BY <1>1, <1>12, StartEffect DEF KickStart
      <3>. QED  BY <2>4, <3>1 DEF LiveAlone, Live
    <2>. QED  BY <2>3, <2>5 DEF SingleParts
  <1>13. ASSUME NEW p \in Proc, KickAssign(p)  PROVE SingleParts'
    <2>3. call'[p].at = "driver" /\ \A q \in Proc \ {p} : call'[q] = call[q]
      BY <1>1, <1>13, AssignEffect
    <2>4. taskStruct' # NULL /\ kt' = kt
      BY <1>1, <1>13, AssignEffect, SchedAssumption DEF KickAssign
    <2>5. \A q \in Proc : ~Starting(q)'
      BY <1>2, <1>13, <2>3 DEF SingleParts, StartsAlone, Starting, KickAssign
    <2>. QED  BY <1>2, <2>4, <2>5
              DEF SingleParts, StartsAlone, StartSeesNone, LiveAlone, LiveKnown, Live
  <1>15. ASSUME NEW p \in Proc, DriverAccepts(p) \/ DriverFails(p) \/ KickMark(p)
         PROVE  SingleParts'
    <2>1. UNCHANGED threadVars  BY <1>15 DEF DriverAccepts, DriverFails, KickMark
    <2>. QED  BY <1>1, <1>7, <1>15, <2>1, DriverEffect DEF Starting
  <1>16. ASSUME NEW k \in Kthread, Wake(k) \/ Scan(k) \/ Pick(k) \/ Service(k)
         PROVE  SingleParts'
    BY <1>2, <1>16, ThreadGoesOn, SingleSteady DEF Starting
  <1>17. ASSUME NEW k \in Kthread, Exit(k)  PROVE SingleParts'
    <2>1. Live' = Live \ {k} /\ k \in Live
      BY <1>1, <1>17 DEF Exit, Live, TypeOK, Dead
    <2>2. Live' = {}  BY <1>2, <2>1 DEF SingleParts, LiveAlone
    <2>3. taskStruct' = NULL /\ call' = call  BY <1>17 DEF Exit
    <2>. QED  BY <1>2, <2>2, <2>3
              DEF SingleParts, StartsAlone, StartSeesNone, LiveAlone, LiveKnown, Starting
  <1>. QED
    BY <1>3, <1>5, <1>6, <1>9, <1>10, <1>11, <1>12, <1>13, <1>15, <1>16, <1>17
       DEF Next, KickStep, ThreadStep, SetPolicy, SetMaxInst, SetWeight, CreateNode, Open

-----------------------------------------------------------------------------
(* Pending commands.  A kick that found its task has not lost it unless it *)
(* knows, so a command is added to a listed task, and it is a new one.     *)
FoundLive == \A p \in Proc : call[p].at = "found" /\ call[p].live => p \in listed
PendingInv == PendingArmed /\ FoundLive

LEMMA PendingInductive == TypeInv /\ PendingInv /\ [Next]_vars => PendingInv'
  <1>. SUFFICES ASSUME TypeInv, PendingInv, [Next]_vars PROVE PendingInv'  OBVIOUS
  <1>. USE DEF vars, groupVars, cmdVars, threadVars, histVars
  <1>1. TypeOK /\ PendingArmed /\ FoundLive  BY DEF TypeInv, PendingInv
  <1>2. ASSUME UNCHANGED <<queue, fence, call>>, listed \subseteq listed'
        PROVE  PendingInv'
    BY <1>1, <1>2 DEF PendingInv, PendingArmed, FoundLive
  <1>3. ASSUME NEW P \in SUBSET Proc, Clean(P)  PROVE PendingInv'
    <2>1. /\ \A p \in Proc : queue'[p] = IF p \in P THEN {} ELSE queue[p]
          /\ fence' = fence /\ listed' = listed \ P
      BY <1>1, <1>3, CleanEffect DEF Clean
    <2>2. \A p \in Proc : \/ call'[p] = call[p] /\ (p \in P => call[p].at # "found")
                          \/ call'[p] = [at |-> "found", live |-> FALSE]
      BY <1>1, <1>3, CleanEffect
    <2>3. PendingArmed'  BY <1>1, <2>1 DEF PendingArmed
    <2>4. FoundLive'  BY <1>1, <2>1, <2>2 DEF FoundLive
    <2>. QED  BY <2>3, <2>4 DEF PendingInv
  <1>4. ASSUME NEW p \in Proc, Close(p)  PROVE PendingInv'  BY <1>3, <1>4 DEF Close
  <1>5. ASSUME NEW i \in Inst, Destroy(i)  PROVE PendingInv'
    <2>1. {p \in listed : InstOf[p] = i} \in SUBSET Proc  BY <1>1 DEF TypeOK
    <2>. QED  BY <1>3, <1>5, <2>1 DEF Destroy
  <1>6. ASSUME NEW p \in Proc, UNCHANGED <<listed, queue, fence>>,
               call'[p].at = "found" => p \in listed,
               \A q \in Proc \ {p} : call'[q] = call[q]
        PROVE  PendingInv'
    BY <1>1, <1>6 DEF PendingInv, PendingArmed, FoundLive
  <1>8. ASSUME NEW p \in Proc, KickFind(p)  PROVE PendingInv'
    BY <1>1, <1>6, <1>8, FindEffect DEF KickFind
  <1>9. ASSUME NEW p \in Proc, KickAdd(p)  PROVE PendingInv'
    <2>1. PICK c \in Cmd :
            /\ fence[c] = "none" /\ fence' = [fence EXCEPT ![c] = "armed"]
            /\ call' = [call EXCEPT ![p] = [at |-> "check", cmd |-> c]]
            /\ \E q \in IF call[p].live THEN {p} ELSE listed \cup {p} :
                  IF call[p].live \/ q \in listed
                    THEN queue' = [queue EXCEPT ![q] = @ \cup {c}]
                    ELSE UNCHANGED queue
      BY <1>9 DEF KickAdd
    <2>2. [at |-> "check", cmd |-> c] \in CallStates  BY DEF CallStates
    <2>3. call'[p].at = "check" /\ \A q \in Proc \ {p} : call'[q] = call[q]
      BY <1>1, <2>1, <2>2, CallSet
    <2>4. listed' = listed  BY <1>9 DEF KickAdd
    <2>5. FoundLive'  BY <1>1, <2>3, <2>4 DEF FoundLive
    <2>6. fence'[c] = "armed" /\ \A d \in Cmd \ {c} : fence'[d] = fence[d]
      BY <1>1, <2>1 DEF TypeOK
    <2>7. \A q \in Proc : c \notin queue[q]  BY <1>1, <2>1 DEF PendingArmed
    <2>8. CASE UNCHANGED queue
      <3>1. PendingArmed'
        BY <1>1, <2>4, <2>6, <2>7, <2>8 DEF PendingArmed, TypeOK
      <3>. QED  BY <2>5, <3>1 DEF PendingInv
    <2>9. CASE \E q \in listed : queue' = [queue EXCEPT ![q] = @ \cup {c}]
      <3>1. PICK q \in listed : queue' = [queue EXCEPT ![q] = @ \cup {c}]  BY <2>9
      <3>2. q \in Proc /\ \A r \in Proc :
                queue'[r] = IF r = q THEN queue[q] \cup {c} ELSE queue[r]
        BY <1>1, <3>1 DEF TypeOK
      <3>3. PendingArmed'
        BY <1>1, <2>4, <2>6, <2>7, <3>1, <3>2 DEF PendingArmed, TypeOK
      <3>. QED  BY <2>5, <3>3 DEF PendingInv
    <2>. QED  BY <1>1, <1>9, <2>1, <2>8, <2>9 DEF FoundLive, KickAdd
  <1>10. ASSUME NEW p \in Proc, KickCheck(p)  PROVE PendingInv'
    BY <1>1, <1>6, <1>10, CheckEffect DEF KickCheck
  <1>11. ASSUME NEW p \in Proc, KickStart(p)  PROVE PendingInv'
    BY <1>1, <1>6, <1>11, StartCallEffect DEF KickStart
  <1>12. ASSUME NEW p \in Proc, KickAssign(p)  PROVE PendingInv'
    BY <1>1, <1>6, <1>12, AssignEffect DEF KickAssign
  <1>13. ASSUME NEW p \in Proc, DriverAccepts(p) \/ DriverFails(p) \/ KickMark(p)
         PROVE  PendingInv'
    <2>1. UNCHANGED <<listed, queue, fence>>
      BY <1>13 DEF DriverAccepts, DriverFails, KickMark
    <2>. QED  BY <1>1, <1>6, <1>13, <2>1, DriverEffect
  <1>14. ASSUME NEW k \in Kthread, Service(k)  PROVE PendingInv'
    <2>1. PICK i \in Inst :
            /\ \A p \in Proc : queue'[p] = queue[p] \ Served(i)
            /\ fence' = [c \in Cmd |-> IF c \in Served(i) THEN "signalled" ELSE fence[c]]
      BY <1>14, ServiceEffect
    <2>2. listed' = listed /\ call' = call  BY <1>14 DEF Service
    <2>3. \A c \in Cmd : c \notin Served(i) => fence'[c] = fence[c]  BY <2>1
    <2>4. PendingArmed'  BY <1>1, <2>1, <2>2, <2>3 DEF PendingArmed, TypeOK
    <2>. QED  BY <1>1, <2>2, <2>4 DEF PendingInv, FoundLive
  <1>. QED
    BY <1>2, <1>4, <1>5, <1>8, <1>9, <1>10, <1>11, <1>12, <1>13, <1>14
       DEF Next, KickStep, ThreadStep, SetPolicy, SetMaxInst, SetWeight, CreateNode, Open,
           Wake, Scan, Pick, Exit

-----------------------------------------------------------------------------
(* Nothing takes a pending command's attendance away: the lists only       *)
(* shrink, the kicks on their way to a start stay there, and the threads   *)
(* that will see an instance still will.                                   *)
OnTheWay(q, c) == call[q].at \in {"check", "start", "assign"} /\ call[q].cmd = c

LEMMA AttendedSteady ==
    ASSUME StaysAttended, missed' = missed,
           \A p \in listed' : \A c \in queue'[p] : p \in listed /\ c \in queue[p],
           \A q \in Proc, c \in Cmd : OnTheWay(q, c) => OnTheWay(q, c)',
           TypeOK, TypeOK',
           \A k \in Kthread, p \in listed' : WillSee(k, InstOf[p]) => WillSee(k, InstOf[p])'
    PROVE  StaysAttended'
  <1>. SUFFICES ASSUME ~missed', NEW p \in listed', NEW c \in queue'[p]
                PROVE  \/ \E q \in Proc : OnTheWay(q, c)'
                       \/ \E k \in Kthread : WillSee(k, InstOf[p])'
    BY DEF StaysAttended, OnTheWay
  <1>1. p \in listed /\ c \in queue[p] /\ c \in Cmd  BY DEF TypeOK
  <1>2. \/ \E q \in Proc : OnTheWay(q, c)
        \/ \E k \in Kthread : WillSee(k, InstOf[p])
    BY <1>1 DEF StaysAttended, OnTheWay
  <1>. QED  BY <1>1, <1>2

(* A kick that passes the start of the scheduler leaves its command to the *)
(* threads, or counts as missed.                                           *)
LEMMA AttendedPassed ==
    ASSUME StaysAttended, TypeOK, NEW p \in Proc,
           missed' = (missed \/ Unattended(call[p].cmd)),
           \A q \in Proc \ {p} : call'[q] = call[q],
           UNCHANGED <<listed, queue, kt>>
    PROVE  StaysAttended'
  <1>. SUFFICES ASSUME ~missed', NEW r \in listed, NEW c \in queue[r]
                PROVE  \/ \E q \in Proc : OnTheWay(q, c)'
                       \/ \E k \in Kthread : WillSee(k, InstOf[r])
    BY DEF StaysAttended, OnTheWay, WillSee
  <1>1. \/ \E q \in Proc : OnTheWay(q, c)
        \/ \E k \in Kthread : WillSee(k, InstOf[r])
    BY DEF StaysAttended, OnTheWay
  <1>2. c = call[p].cmd => \E k \in Kthread : WillSee(k, InstOf[r])
    BY DEF Unattended
  <1>. QED  BY <1>1, <1>2 DEF OnTheWay

LEMMA AttendedInductive ==
    TypeInv /\ TypeInv' /\ PendingInv /\ StaysAttended /\ [Next]_vars => StaysAttended'
  <1>. SUFFICES ASSUME TypeInv, TypeInv', PendingInv, StaysAttended, [Next]_vars
                PROVE  StaysAttended'
    OBVIOUS
  <1>. USE DEF vars, groupVars, cmdVars, threadVars, histVars
  <1>1. TypeOK /\ TypeOK' /\ PendingArmed /\ ThreadsSound
    BY DEF TypeInv, PendingInv
  <1>2. ASSUME UNCHANGED <<missed, call, queue, kt>>,
               \A p \in listed' : \A c \in queue[p] : p \in listed
        PROVE  StaysAttended'
    <2>1. \A q \in Proc, c \in Cmd : OnTheWay(q, c) => OnTheWay(q, c)'
      BY <1>2 DEF OnTheWay
    <2>2. \A k \in Kthread, p \in listed' : WillSee(k, InstOf[p]) => WillSee(k, InstOf[p])'
      BY <1>2 DEF WillSee
    <2>. QED  BY <1>1, <1>2, <2>1, <2>2, AttendedSteady
  <1>3. ASSUME NEW p \in Proc, Open(p)  PROVE StaysAttended'
    <2>1. \A q \in listed' : \A c \in queue[q] : q \in listed
      BY <1>1, <1>3 DEF Open, PendingArmed, TypeOK
    <2>. QED  BY <1>2, <1>3, <2>1 DEF Open
  <1>4. ASSUME NEW P \in SUBSET Proc, Clean(P), missed' = missed, kt' = kt
        PROVE  StaysAttended'
    <2>1. /\ \A p \in Proc : queue'[p] = IF p \in P THEN {} ELSE queue[p]
          /\ listed' = listed \ P
          /\ \A p \in Proc : call'[p] = call[p] \/ call[p].at = "found"
      BY <1>1, <1>4, CleanEffect DEF Clean
    <2>2. \A p \in listed' : \A c \in queue'[p] : p \in listed /\ c \in queue[p]
      BY <1>1, <2>1 DEF TypeOK
    <2>3. \A q \in Proc, c \in Cmd : OnTheWay(q, c) => OnTheWay(q, c)'
      BY <2>1 DEF OnTheWay
    <2>4. \A k \in Kthread, p \in listed' : WillSee(k, InstOf[p]) => WillSee(k, InstOf[p])'
      BY <1>4 DEF WillSee
    <2>. QED  BY <1>1, <1>4, <2>2, <2>3, <2>4, AttendedSteady
  <1>5. ASSUME NEW p \in Proc, Close(p)  PROVE StaysAttended'
    BY <1>4, <1>5 DEF Close
  <1>6. ASSUME NEW i \in Inst, Destroy(i)  PROVE StaysAttended'
    <2>1. {p \in listed : InstOf[p] = i} \in SUBSET Proc  BY <1>1 DEF TypeOK
    <2>. QED  BY <1>4, <1>6, <2>1 DEF Destroy
  (* A call that was not on its way to a start moves, or moves along it.   *)
  <1>7. ASSUME NEW p \in Proc, UNCHANGED <<missed, listed, queue>>,
               \A q \in Proc \ {p} : call'[q] = call[q],
               call[p].at \in {"check", "start", "assign"} =>
                  call'[p].at \in {"check", "start", "assign"} /\ call'[p].cmd = call[p].cmd,
               \A k \in Kthread : kt'[k] = kt[k] \/ kt[k].st = "dead"
        PROVE  StaysAttended'
    <2>1. \A q \in Proc, c \in Cmd : OnTheWay(q, c) => OnTheWay(q, c)'
      BY <1>7 DEF OnTheWay
    <2>2. \A k \in Kthread, r \in listed' : WillSee(k, InstOf[r]) => WillSee(k, InstOf[r])'
      BY <1>7 DEF WillSee
    <2>. QED  BY <1>1, <1>7, <2>1, <2>2, AttendedSteady
  <1>8. ASSUME NEW p \in Proc, KickFind(p)  PROVE StaysAttended'
    <2>1. call[p].at = "idle"  BY <1>8 DEF KickFind, Idle
    <2>. QED  BY <1>1, <1>7, <1>8, <2>1, FindEffect DEF KickFind
  <1>9. ASSUME NEW p \in Proc, KickAdd(p)  PROVE StaysAttended'
    <2>1. PICK c \in Cmd : /\ call' = [call EXCEPT ![p] = [at |-> "check", cmd |-> c]]
                           /\ \/ \E q \in listed \cup {p} :
                                    queue' = [queue EXCEPT ![q] = @ \cup {c}]
                              \/ queue' = queue
      BY <1>9 DEF KickAdd
    <2>2. call[p].at = "found" /\ UNCHANGED <<listed, kt, missed>>  BY <1>9 DEF KickAdd
    <2>3. OnTheWay(p, c)' /\ \A q \in Proc \ {p} : call'[q] = call[q]
      <3>. DEFINE next == [at |-> "check", cmd |-> c]
      <3>1. next \in CallStates /\ next.at = "check" /\ next.cmd = c  BY DEF CallStates
      <3>. HIDE DEF next
      <3>. QED  BY <1>1, <2>1, <3>1, CallSet DEF OnTheWay, next
    <2>4. \A r \in listed : queue'[r] \subseteq queue[r] \cup {c}
      BY <1>1, <2>1 DEF TypeOK
    <2>. SUFFICES ASSUME ~missed', NEW r \in listed, NEW d \in queue[r]
                  PROVE  \/ \E q \in Proc : OnTheWay(q, d)'
                         \/ \E k \in Kthread : WillSee(k, InstOf[r])
      BY <2>2, <2>3, <2>4 DEF StaysAttended, OnTheWay, WillSee
    <2>5. \/ \E q \in Proc : OnTheWay(q, d)
          \/ \E k \in Kthread : WillSee(k, InstOf[r])
      BY <2>2 DEF StaysAttended, OnTheWay
    <2>. QED  BY <2>2, <2>3, <2>5 DEF OnTheWay
  <1>10. ASSUME NEW p \in Proc, KickCheck(p)  PROVE StaysAttended'
    <2>1. CASE taskStruct = NULL
      <3>1. /\ call'[p].at = "start" /\ call'[p].cmd = call[p].cmd
            /\ \A q \in Proc \ {p} : call'[q] = call[q]
        BY <1>1, <1>10, <2>1, CheckEffect
      <3>2. UNCHANGED <<missed, listed, queue, kt>>  BY <1>10, <2>1 DEF KickCheck
      <3>. QED  BY <1>7, <3>1, <3>2
    <2>2. CASE taskStruct # NULL
      <3>1. \A q \in Proc \ {p} : call'[q] = call[q]  BY <1>1, <1>10, CheckEffect
      <3>2. missed' = (missed \/ Unattended(call[p].cmd)) /\ UNCHANGED <<listed, queue, kt>>
        BY <1>10, <2>2 DEF KickCheck
      <3>. QED  BY <1>1, <3>1, <3>2, AttendedPassed
    <2>. QED  BY <2>1, <2>2
  <1>11. ASSUME NEW p \in Proc, KickStart(p)  PROVE StaysAttended'
    <2>1. /\ call'[p].at = "assign" /\ call'[p].cmd = call[p].cmd
          /\ \A q \in Proc \ {p} : call'[q] = call[q]
      BY <1>1, <1>11, StartCallEffect
    <2>2. \A k \in Kthread : kt'[k] = kt[k] \/ kt[k].st = "dead"
      BY <1>1, <1>11, StartEffect DEF KickStart, Live
    <2>. QED  BY <1>7, <1>11, <2>1, <2>2 DEF KickStart
  <1>12. ASSUME NEW p \in Proc, KickAssign(p)  PROVE StaysAttended'
    <2>1. \A q \in Proc \ {p} : call'[q] = call[q]  BY <1>1, <1>12, AssignEffect
    <2>. QED  BY <1>1, <1>12, <2>1, AttendedPassed DEF KickAssign
  <1>13. ASSUME NEW p \in Proc, DriverAccepts(p) \/ DriverFails(p) \/ KickMark(p)
         PROVE  StaysAttended'
    <2>1. UNCHANGED <<missed, listed, queue, kt>>
      BY <1>13 DEF DriverAccepts, DriverFails, KickMark
    <2>. QED  BY <1>1, <1>7, <1>13, <2>1, DriverEffect
  (* A thread that goes on will still see what it would have seen.         *)
  <1>14. ASSUME NEW k \in Kthread, UNCHANGED <<missed, listed, call>>,
                \A p \in Proc : queue'[p] \subseteq queue[p],
                \A j \in Kthread \ {k} : kt'[j] = kt[j],
                \A p \in listed : WillSee(k, InstOf[p]) => WillSee(k, InstOf[p])'
         PROVE  StaysAttended'
    <2>1. \A q \in Proc, c \in Cmd : OnTheWay(q, c) => OnTheWay(q, c)'
      BY <1>14 DEF OnTheWay
    <2>2. \A j \in Kthread, p \in listed' : WillSee(j, InstOf[p]) => WillSee(j, InstOf[p])'
      BY <1>14 DEF WillSee
    <2>3. \A p \in listed' : \A c \in queue'[p] : p \in listed /\ c \in queue[p]
      BY <1>1, <1>14 DEF TypeOK
    <2>. QED  BY <1>1, <1>14, <2>1, <2>2, <2>3, AttendedSteady
  <1>15. \A p \in listed : InstOf[p] \in Inst  BY <1>1, Numbers DEF TypeOK
  <1>16. ASSUME NEW k \in Kthread, Wake(k)  PROVE StaysAttended'
    <2>1. \A i \in Inst : WillSee(k, i)'
      BY <1>1, <1>16, WakeEffect, Numbers DEF WillSee
    <2>2. \A p \in listed : WillSee(k, InstOf[p])'  BY <1>15, <2>1
    <2>3. UNCHANGED <<missed, listed, call, queue>>  BY <1>16 DEF Wake
    <2>4. \A j \in Kthread \ {k} : kt'[j] = kt[j]  BY <1>1, <1>16, WakeEffect
    <2>. QED  BY <1>14, <2>2, <2>3, <2>4
  <1>17. ASSUME NEW k \in Kthread, Scan(k)  PROVE StaysAttended'
    <2>1. ASSUME NEW p \in listed, WillSee(k, InstOf[p])  PROVE WillSee(k, InstOf[p])'
      <3>1. Used(InstOf[p]) /\ kt[k].idx \in Inst  BY <1>1, ThreadFields DEF Used
      <3>2. kt[k].idx <= InstOf[p]  BY <1>17, <2>1 DEF WillSee, Scan
      <3>3. kt'[k].st = "pick" \/ (kt'[k].st = "scan" /\ kt'[k].idx <= InstOf[p])
        BY <1>1, <1>15, <1>17, <3>1, <3>2, ScanEffect, Numbers
      <3>. QED  BY <3>3 DEF WillSee
    <2>. QED  BY <1>1, <1>14, <1>17, <2>1, ScanEffect DEF Scan
  <1>18. ASSUME NEW k \in Kthread, Pick(k)  PROVE StaysAttended'
    <2>1. kt[k].idx = 0  BY <1>1, <1>18 DEF Pick, ThreadsSound
    <2>2. /\ kt'[k].st = "service" \/ (kt'[k].st = "scan" /\ kt'[k].idx = 0)
          /\ \A j \in Kthread \ {k} : kt'[j] = kt[j]
      BY <1>1, <1>18, <2>1, PickEffect
    <2>3. \A i \in Inst : WillSee(k, i)'  BY <2>2, Numbers DEF WillSee
    <2>. QED  BY <1>14, <1>15, <1>18, <2>2, <2>3 DEF Pick
  <1>19. ASSUME NEW k \in Kthread, Service(k)  PROVE StaysAttended'
    <2>1. /\ kt'[k].st = "sleep" /\ \A j \in Kthread \ {k} : kt'[j] = kt[j]
          /\ \A p \in Proc : queue'[p] \subseteq queue[p]
      BY <1>1, <1>19, ServiceEffect
    <2>. QED  BY <1>14, <1>19, <2>1 DEF Service, WillSee
  <1>20. ASSUME NEW k \in Kthread, Exit(k)  PROVE StaysAttended'
    <2>1. \A i \in Inst : ~WillSee(k, i)  BY <1>20 DEF Exit, WillSee
    <2>2. \A j \in Kthread \ {k} : kt'[j] = kt[j]  BY <1>1, <1>20 DEF Exit, TypeOK
    <2>. QED  BY <1>14, <1>15, <1>20, <2>1, <2>2 DEF Exit
  <1>21. ASSUME UNCHANGED <<missed, call, queue, kt, listed>>  PROVE StaysAttended'
    BY <1>2, <1>21
  <1>. QED
    BY <1>3, <1>5, <1>6, <1>8, <1>9, <1>10, <1>11, <1>12, <1>13, <1>16, <1>17, <1>18,
       <1>19, <1>20, <1>21
       DEF Next, KickStep, ThreadStep, SetPolicy, SetMaxInst, SetWeight, CreateNode

-----------------------------------------------------------------------------
(* Waiting.  Slices go round: what an instance still has to wait is the    *)
(* rest of the current slice and one full weight of every instance between *)
(* the next in turn and itself.                                            *)
Behind(start, i, m) == IF i >= start THEN i - start ELSE i - start + m
Ahead(turn, w, i, m) ==
    IF i = turn /\ w > 0 THEN 0 ELSE w + Behind((turn + 1) % m, i, m) * MaxWeight

Turn(k) == IF kt[k].st = "sleep" THEN curr ELSE kt[k].next
AheadOf(k, i) == Ahead(Turn(k), kt[k].weight, i, maxInst)

LEMMA Multiply ==
    ASSUME NEW a \in Nat, NEW b \in Nat, a <= b
    PROVE  a * MaxWeight \in Nat /\ a * MaxWeight <= b * MaxWeight
  <1>1. MaxWeight \in Nat  BY Numbers
  <1>2. \A x, y \in Nat : x * y \in Nat  OBVIOUS
  <1>3. PICK d \in Nat : b = a + d
    <2>1. b - a \in Nat /\ b = a + (b - a)  OBVIOUS
    <2>. QED  BY <2>1
  <1>4. \A x, y, z \in Nat : (x + y) * z = x * z + y * z  OBVIOUS
  <1>5. b * MaxWeight = a * MaxWeight + d * MaxWeight  BY <1>1, <1>3, <1>4
  <1>6. a * MaxWeight \in Nat /\ d * MaxWeight \in Nat  BY <1>1, <1>2
  <1>. QED  BY <1>5, <1>6

LEMMA NextInTurn ==
    ASSUME NEW m \in Nat \ {0}, NEW turn \in Nat
    PROVE  /\ (turn + 1) % m \in 0 .. m - 1
           /\ turn < m => (turn + 1) % m = IF turn + 1 = m THEN 0 ELSE turn + 1
  OBVIOUS

LEMMA AheadBound ==
    ASSUME NEW m \in 1 .. NInst, NEW turn \in Inst, NEW w \in 0 .. MaxWeight,
           NEW i \in 0 .. m - 1
    PROVE  Ahead(turn, w, i, m) \in 0 .. Bound
  <1>. DEFINE f == (turn + 1) % m
              b == Behind(f, i, m)
  <1>1. /\ m \in Nat \ {0} /\ m <= NInst /\ turn \in Nat /\ turn < NInst /\ NInst \in Nat
        /\ w \in Nat /\ w <= MaxWeight /\ i \in Nat /\ i < m /\ MaxWeight \in Nat
    BY Numbers
  <1>2. f \in 0 .. m - 1 /\ (turn < m => f = IF turn + 1 = m THEN 0 ELSE turn + 1)
    BY <1>1, NextInTurn
  <1>. HIDE DEF f
  <1>3. b \in Nat /\ b <= m - 1  BY <1>1, <1>2 DEF Behind
  <1>4. i # turn => b <= NInst - 2 /\ NInst - 2 \in Nat
    BY <1>1, <1>2 DEF Behind
  <1>5. Ahead(turn, w, i, m) = IF i = turn /\ w > 0 THEN 0 ELSE w + b * MaxWeight
    BY DEF Ahead, f
  <1>. HIDE DEF b
  <1>6. CASE i = turn /\ w > 0  BY <1>5, <1>6, Numbers
  <1>7. CASE i = turn /\ ~(w > 0)
    <2>1. w = 0 /\ Ahead(turn, w, i, m) = w + b * MaxWeight  BY <1>1, <1>5, <1>7
    <2>2. NInst - 1 \in Nat /\ b <= NInst - 1  BY <1>1, <1>3
    <2>3. b * MaxWeight \in Nat /\ b * MaxWeight <= Bound  BY <1>3, <2>2, Multiply DEF Bound
    <2>. QED  BY <2>1, <2>3, Numbers
  <1>8. CASE i # turn
    <2>1. Ahead(turn, w, i, m) = w + b * MaxWeight  BY <1>5, <1>8
    <2>2. b * MaxWeight \in Nat /\ b * MaxWeight <= (NInst - 2) * MaxWeight
      BY <1>3, <1>4, <1>8, Multiply
    <2>3. (NInst - 2) * MaxWeight + MaxWeight = Bound
      <3>1. \A x, y \in Int : (x - 2) * y + y = (x - 1) * y  OBVIOUS
      <3>. QED  BY <1>1, <3>1 DEF Bound
    <2>4. (NInst - 2) * MaxWeight \in Int  BY <1>1
    <2>. QED  BY <1>1, <2>1, <2>2, <2>3, <2>4, Numbers
  <1>. QED  BY <1>6, <1>7, <1>8

(* The turn goes to the next instance, with a fresh weight.                *)
LEMMA AheadAdvance ==
    ASSUME NEW m \in 1 .. NInst, NEW turn \in Inst, NEW w \in 0 .. MaxWeight,
           NEW i \in 0 .. m - 1, i # (turn + 1) % m
    PROVE  Ahead((turn + 1) % m, w, i, m) <= Ahead(turn, 0, i, m)
  <1>. DEFINE n == (turn + 1) % m
              g == (n + 1) % m
              b == Behind(n, i, m)
              a == Behind(g, i, m)
  <1>1. /\ m \in Nat \ {0} /\ turn \in Nat /\ w \in Nat /\ w <= MaxWeight
        /\ i \in Nat /\ i < m /\ MaxWeight \in Nat
    BY Numbers
  <1>2. n \in 0 .. m - 1 /\ i # n  BY <1>1, NextInTurn
  <1>. HIDE DEF n
  <1>3. g = IF n + 1 = m THEN 0 ELSE n + 1  BY <1>1, <1>2, NextInTurn
  <1>. HIDE DEF g
  <1>4. a \in Nat /\ b = a + 1  BY <1>1, <1>2, <1>3 DEF Behind
  <1>5. Ahead(turn, 0, i, m) = 0 + b * MaxWeight  BY DEF Ahead, n
  <1>6. Ahead(n, w, i, m) = w + a * MaxWeight  BY <1>2 DEF Ahead, g
  <1>. HIDE DEF a, b
  <1>7. (a + 1) * MaxWeight = a * MaxWeight + MaxWeight /\ a * MaxWeight \in Nat
    <2>1. \A x, y \in Nat : (x + 1) * y = x * y + y /\ x * y \in Nat  OBVIOUS
    <2>. QED  BY <1>1, <1>4, <2>1
  <1>8. Ahead(n, w, i, m) <= Ahead(turn, 0, i, m)  BY <1>1, <1>4, <1>5, <1>6, <1>7
  <1>. QED  BY <1>8 DEF n

(* A slice less of the weight is a slice less to wait.                     *)
LEMMA AheadSpent ==
    ASSUME NEW m \in 1 .. NInst, NEW turn \in Inst, NEW w \in 0 .. MaxWeight,
           NEW v \in 0 .. w, NEW i \in 0 .. m - 1, i # turn
    PROVE  Ahead(turn, v, i, m) = Ahead(turn, w, i, m) - (w - v)
  <1>. DEFINE b == Behind((turn + 1) % m, i, m)
  <1>1. m \in Nat \ {0} /\ turn \in Nat /\ i \in Nat /\ MaxWeight \in Nat  BY Numbers
  <1>2. b \in Int  BY <1>1, NextInTurn DEF Behind
  <1>3. \A x, y \in Int : x * y \in Int  OBVIOUS
  <1>4. Ahead(turn, v, i, m) = v + b * MaxWeight /\ Ahead(turn, w, i, m) = w + b * MaxWeight
    BY DEF Ahead
  <1>. HIDE DEF b
  <1>. QED  BY <1>1, <1>2, <1>3, <1>4

(* While there is one scheduler at most: a thread is at the instance whose *)
(* turn it is; what an instance has waited and has still to wait is within *)
(* the bound; and an instance the scan has passed, or that is used while   *)
(* no thread lives, has not waited since it became used.                   *)
ThreadAt == \A k \in Live : kt[k].at = Turn(k)
Turns ==
    \A k \in Live, i \in Inst : i < maxInst /\ Used(i) => since[i] + AheadOf(k, i) <= Bound
Passed ==
    \A k \in Live, i \in Inst :
        (kt[k].st = "exit" \/ (kt[k].st = "scan" /\ i < kt[k].idx)) /\ Used(i) => since[i] = 0
Rested == Live = {} => \A i \in Inst : Used(i) => since[i] = 0

WaitingParts == ThreadAt /\ Turns /\ Passed /\ Rested
WaitingInv == ~startRace => WaitingParts

LEMMA Sizes ==
    ASSUME TypeOK
    PROVE  /\ maxInst \in 1 .. NInst /\ curr \in Inst
           /\ \A i \in Inst : i < maxInst => i \in 0 .. maxInst - 1
           /\ \A i \in Inst : since[i] \in Nat
           /\ \A k \in Kthread : Turn(k) \in Inst
           /\ \A k \in Kthread : kt[k].weight \in 0 .. MaxWeight
  <1>1. maxInst \in 1 .. NInst /\ curr \in Inst  BY DEF TypeOK
  <1>2. \A i \in Inst : i < maxInst => i \in 0 .. maxInst - 1  BY <1>1, Numbers
  <1>3. \A i \in Inst : since[i] \in Nat
    <2>1. since \in [Inst -> 0 .. Bound + 1]  BY DEF TypeOK
    <2>. QED  BY <2>1, Numbers
  <1>4. \A k \in Kthread : kt[k].next \in Inst /\ kt[k].weight \in 0 .. MaxWeight
    BY ThreadFields
  <1>. QED  BY <1>1, <1>2, <1>3, <1>4 DEF Turn

AheadsBounded ==
    \A k \in Kthread, i \in Inst : i < maxInst => AheadOf(k, i) \in 0 .. Bound

LEMMA AheadOfBound == TypeOK => AheadsBounded
  <1>. SUFFICES ASSUME TypeOK, NEW k \in Kthread, NEW i \in Inst, i < maxInst
                PROVE  AheadOf(k, i) \in 0 .. Bound
    BY DEF AheadsBounded
  <1>1. /\ Turn(k) \in Inst /\ kt[k].weight \in 0 .. MaxWeight
        /\ maxInst \in 1 .. NInst /\ i \in 0 .. maxInst - 1
    BY Sizes
  <1>. QED  BY <1>1, AheadBound DEF AheadOf

LEMMA AheadOfBoundNext == TypeOK' => AheadsBounded'
  BY AheadOfBound, PTL

(* The settings and the lists: an instance goes on waiting or is new.      *)
LEMMA WaitingSteady ==
    ASSUME TypeOK, TypeOK', WaitingParts, UNCHANGED <<kt, curr>>,
           \A i \in Inst : Used(i)' =>
              (maxInst' = maxInst /\ Used(i) /\ since'[i] = since[i]) \/ since'[i] = 0
    PROVE  WaitingParts'
  <1>1. Live' = Live /\ \A k \in Kthread : Turn(k)' = Turn(k)  BY DEF Live, Turn
  <1>2. ThreadAt' /\ Passed' /\ Rested'
    BY <1>1 DEF WaitingParts, ThreadAt, Passed, Rested, Live
  <1>3. ASSUME NEW k \in Live', NEW i \in Inst, i < maxInst', Used(i)'
        PROVE  since'[i] + AheadOf(k, i)' <= Bound
    <2>1. k \in Kthread /\ k \in Live  BY <1>1 DEF Live
    <2>2. AheadOf(k, i)' \in 0 .. Bound  BY <1>3, <2>1, AheadOfBoundNext DEF AheadsBounded
    <2>3. CASE since'[i] = 0  BY <2>2, <2>3, Numbers
    <2>4. CASE maxInst' = maxInst /\ Used(i) /\ since'[i] = since[i]
      <3>1. AheadOf(k, i)' = AheadOf(k, i)  BY <1>1, <2>1, <2>4 DEF AheadOf
      <3>. QED  BY <1>3, <2>1, <2>4, <3>1 DEF WaitingParts, Turns
    <2>. QED  BY <1>3, <2>3, <2>4
  <1>. QED  BY <1>2, <1>3 DEF WaitingParts, Turns

(* The one thread goes on: it is enough to look at it.                     *)
LEMMA WaitingThread ==
    ASSUME TypeOK, LiveAlone, NEW k \in Live, Live' = Live, UNCHANGED maxInst,
           kt'[k].at = Turn(k)',
           \A i \in Inst : i < maxInst /\ Used(i)' => since'[i] + AheadOf(k, i)' <= Bound,
           \A i \in Inst :
              (kt'[k].st = "exit" \/ (kt'[k].st = "scan" /\ i < kt'[k].idx)) /\ Used(i)'
              => since'[i] = 0
    PROVE  WaitingParts'
  <1>1. \A j \in Live' : j = k  BY DEF LiveAlone
  <1>2. k \in Live' /\ Live' # {}  OBVIOUS
  <1>3. ThreadAt'  BY <1>1 DEF ThreadAt
  <1>4. Turns'  BY <1>1 DEF Turns
  <1>5. Passed'  BY <1>1 DEF Passed
  <1>6. Rested'  BY <1>2 DEF Rested
  <1>. QED  BY <1>3, <1>4, <1>5, <1>6 DEF WaitingParts

LEMMA WaitingInductive ==
    TypeInv /\ TypeInv' /\ SingleInv /\ WaitingInv /\ [Next]_vars => WaitingInv'
  <1>. SUFFICES ASSUME TypeInv, TypeInv', SingleInv, WaitingInv, [Next]_vars, ~startRace'
                PROVE  WaitingParts'
    BY DEF WaitingInv
  <1>. USE DEF vars, groupVars, cmdVars, threadVars, histVars
  <1>1. TypeOK /\ TypeOK' /\ ThreadsSound  BY DEF TypeInv
  <1>2. SingleParts /\ WaitingParts
    BY DEF SingleInv, WaitingInv, Next, SetPolicy, SetMaxInst, SetWeight, CreateNode, Open,
           Close, Destroy, KickFind, KickStep, KickAdd, KickCheck, KickStart, KickAssign,
           DriverAccepts, DriverFails, KickMark, ThreadStep, Wake, Scan, Pick, Service, Exit
  <1>3. ASSUME UNCHANGED <<kt, curr, maxInst, since>>, listed' \subseteq listed
        PROVE  WaitingParts'
    <2>1. \A i \in Inst : Used(i)' => Used(i)  BY <1>3 DEF Used
    <2>. QED  BY <1>1, <1>2, <1>3, <2>1, WaitingSteady
  <1>4. ASSUME UNCHANGED <<kt, curr>>, since' = [i \in Inst |-> 0]  PROVE WaitingParts'
    BY <1>1, <1>2, <1>4, WaitingSteady
  <1>5. ASSUME NEW p \in Proc, Open(p)  PROVE WaitingParts'
    <2>1. InstOf[p] \in Inst /\ listed' = listed \cup {p}  BY <1>5, Numbers DEF Open
    <2>2. ASSUME NEW i \in Inst, Used(i)'
          PROVE  (Used(i) /\ since'[i] = since[i]) \/ since'[i] = 0
      <3>1. Used(i) \/ i = InstOf[p]  BY <2>1, <2>2 DEF Used
      <3>2. since \in [Inst -> 0 .. Bound + 1]  BY <1>1 DEF TypeOK
      <3>3. since' = IF Used(InstOf[p]) THEN since ELSE [since EXCEPT ![InstOf[p]] = 0]
        BY <1>5 DEF Open
      <3>4. CASE Used(i) /\ since' = since  BY <3>4
      <3>5. CASE i = InstOf[p] /\ since' = [since EXCEPT ![InstOf[p]] = 0]
        BY <2>1, <3>2, <3>5
      <3>6. CASE i # InstOf[p] /\ since' = [since EXCEPT ![InstOf[p]] = 0]
        BY <2>1, <3>1, <3>2, <3>6
      <3>. QED  BY <3>1, <3>3, <3>4, <3>5, <3>6
    <2>. QED  BY <1>1, <1>2, <1>5, <2>2, WaitingSteady DEF Open
  <1>6. ASSUME NEW p \in Proc, Close(p)  PROVE WaitingParts'
    BY <1>3, <1>6 DEF Close, Clean
  <1>7. ASSUME NEW i \in Inst, Destroy(i)  PROVE WaitingParts'
    BY <1>3, <1>7 DEF Destroy, Clean
  <1>8. ASSUME NEW p \in Proc,
               \/ KickFind(p) \/ KickAdd(p) \/ KickCheck(p) \/ KickAssign(p)
               \/ DriverAccepts(p) \/ DriverFails(p) \/ KickMark(p)
        PROVE  WaitingParts'
    <2>1. UNCHANGED <<kt, curr, maxInst, since, listed>>
      BY <1>8 DEF KickFind, KickAdd, KickCheck, KickAssign, DriverAccepts, DriverFails,
                  KickMark
    <2>. QED  BY <1>3, <2>1
  <1>9. ASSUME NEW p \in Proc, KickStart(p)  PROVE WaitingParts'
    <2>1. UNCHANGED <<curr, maxInst, since, listed>>  BY <1>9 DEF KickStart
    <2>2. CASE kt' = kt  BY <1>3, <2>1, <2>2
    <2>3. CASE \E k \in Kthread \ Live :
                  kt' = [kt EXCEPT ![k] = [Dead EXCEPT !.st = "sleep", !.at = curr]]
      <3>1. PICK k \in Kthread :
              /\ kt'[k].st = "sleep" /\ kt'[k].at = curr
              /\ \A j \in Kthread \ {k} : kt'[j] = kt[j]
        BY <1>1, <2>3, StartEffect
      <3>2. Live = {}
        <4>1. taskStruct = NULL /\ ~\E q \in Proc : call[q].at = "assign"
          BY <1>2, <1>9 DEF SingleParts, StartsAlone, StartSeesNone, Starting, KickStart
        <4>. QED  BY <1>2, <4>1 DEF SingleParts, LiveKnown
      <3>3. Live' = {k}  BY <3>1, <3>2 DEF Live
      <3>4. ThreadAt'  BY <2>1, <3>1, <3>3 DEF ThreadAt, Turn
      <3>5. \A i \in Inst : Used(i)' => since'[i] = 0
        BY <1>2, <2>1, <3>2 DEF WaitingParts, Rested, Used
      <3>6. Passed' /\ Rested'  BY <3>5 DEF Passed, Rested
      <3>7. Turns'
        <4>1. \A i \in Inst : i < maxInst' => AheadOf(k, i)' \in 0 .. Bound
          BY <1>1, AheadOfBoundNext DEF AheadsBounded
        <4>. QED  BY <3>3, <3>5, <4>1, Numbers DEF Turns
      <3>. QED  BY <3>4, <3>6, <3>7 DEF WaitingParts
    <2>. QED  BY <1>9, <2>2, <2>3 DEF KickStart
  (* The thread.                                                           *)
  <1>10. ASSUME NEW k \in Kthread, kt[k].st # "dead"
         PROVE  /\ k \in Live /\ LiveAlone
                /\ kt[k].at = Turn(k)
                /\ \A i \in Inst : i < maxInst /\ Used(i) => since[i] + AheadOf(k, i) <= Bound
                /\ \A i \in Inst :
                     (kt[k].st = "exit" \/ (kt[k].st = "scan" /\ i < kt[k].idx)) /\ Used(i)
                     => since[i] = 0
    BY <1>2, <1>10
       DEF Live, SingleParts, WaitingParts, ThreadAt, Turns, Passed
  <1>11. ASSUME NEW k \in Kthread, Wake(k)  PROVE WaitingParts'
    <2>1. UNCHANGED <<maxInst, since, listed, curr>> /\ kt[k].st = "sleep"
      BY <1>11 DEF Wake
    <2>2. /\ kt'[k].st = "scan" /\ kt'[k].idx = 0 /\ kt'[k].weight = kt[k].weight
          /\ kt'[k].next = curr /\ kt'[k].at = kt[k].at /\ Live' = Live
      BY <1>1, <1>11, WakeEffect, ThreadGoesOn
    <2>3. Turn(k)' = Turn(k) /\ \A i \in Inst : AheadOf(k, i)' = AheadOf(k, i)
      BY <2>1, <2>2 DEF Turn, AheadOf
    <2>4. \A i \in Inst : (Used(i)' <=> Used(i)) /\ ~(i < kt'[k].idx)
      BY <2>1, <2>2, Numbers DEF Used
    <2>. QED  BY <1>1, <1>10, <2>1, <2>2, <2>3, <2>4, WaitingThread
  <1>12. ASSUME NEW k \in Kthread, Scan(k)  PROVE WaitingParts'
    <2>1. UNCHANGED <<maxInst, since, listed, curr>> /\ kt[k].st = "scan"
      BY <1>12 DEF Scan
    <2>2. /\ \/ kt'[k].st = "pick"
             \/ ~Used(kt[k].idx) /\ kt'[k].st = "scan" /\ kt'[k].idx = kt[k].idx + 1
             \/ ~Used(kt[k].idx) /\ kt[k].idx = NInst - 1 /\ kt'[k].st = "exit"
          /\ kt'[k].weight = kt[k].weight
          /\ kt'[k].next = kt[k].next /\ kt'[k].at = kt[k].at /\ Live' = Live
          /\ kt[k].idx \in Inst
      BY <1>1, <1>12, ScanEffect, ThreadGoesOn, ThreadFields
    <2>3. Turn(k)' = Turn(k) /\ \A i \in Inst : AheadOf(k, i)' = AheadOf(k, i)
      BY <2>1, <2>2 DEF Turn, AheadOf
    <2>4. \A i \in Inst : Used(i)' <=> Used(i)  BY <2>1 DEF Used
    <2>5. ASSUME NEW i \in Inst, Used(i)',
                 kt'[k].st = "exit" \/ (kt'[k].st = "scan" /\ i < kt'[k].idx)
          PROVE  since'[i] = 0
      <3>1. i < kt[k].idx  BY <2>2, <2>4, <2>5, Numbers
      <3>. QED  BY <1>10, <2>1, <2>4, <2>5, <3>1
    <2>. QED  BY <1>1, <1>10, <2>1, <2>2, <2>3, <2>4, <2>5, WaitingThread
  <1>13. ASSUME NEW k \in Kthread, Pick(k)  PROVE WaitingParts'
    <2>. DEFINE t == Advance(kt[k])
    <2>1. UNCHANGED <<maxInst, since, listed, curr>> /\ kt[k].st = "pick" /\ kt[k].idx = 0
      BY <1>1, <1>13 DEF Pick, ThreadsSound
    <2>2. /\ \/ kt'[k].st = "service" /\ kt'[k].weight = t.weight
             \/ kt'[k].st = "scan" /\ ~Used(t.next) /\ kt'[k].weight \in {0, t.weight}
          /\ kt'[k].idx = 0 /\ kt'[k].next = t.next /\ kt'[k].at = t.at /\ Live' = Live
      BY <1>1, <1>13, <2>1, PickEffect, ThreadGoesOn
    <2>3. /\ t.weight \in 1 .. MaxWeight /\ t.next \in Inst /\ t.at \in Inst
          /\ \/ /\ kt[k].weight >= 1 /\ t.weight = kt[k].weight
                /\ t.next = kt[k].next /\ t.at = kt[k].at
             \/ /\ kt[k].weight = 0
                /\ t.next = (kt[k].next + 1) % maxInst /\ t.at = t.next
      BY <1>1, AdvanceFields
    <2>. HIDE DEF t
    <2>4. Turn(k) = kt[k].next /\ Turn(k)' = t.next  BY <2>1, <2>2 DEF Turn
    <2>5. t.at = t.next  BY <1>10, <2>1, <2>3, <2>4
    <2>6. \A i \in Inst : Used(i)' <=> Used(i)  BY <2>1 DEF Used
    <2>7. ASSUME NEW i \in Inst, i < maxInst, Used(i)'
          PROVE  since'[i] + AheadOf(k, i)' <= Bound
      <3>1. since[i] + AheadOf(k, i) <= Bound /\ since'[i] = since[i] /\ since[i] \in Nat
        BY <1>1, <1>10, <2>1, <2>6, <2>7, Sizes
      <3>2. /\ maxInst \in 1 .. NInst /\ i \in 0 .. maxInst - 1
            /\ kt[k].next \in Inst /\ kt[k].weight \in 0 .. MaxWeight
        BY <1>1, <2>4, <2>7, Sizes
      <3>3. AheadOf(k, i) \in 0 .. Bound /\ AheadOf(k, i)' \in 0 .. Bound
        BY <1>1, <2>1, <2>7, AheadOfBound, AheadOfBoundNext DEF AheadsBounded
      <3>4. AheadOf(k, i) = Ahead(kt[k].next, kt[k].weight, i, maxInst)
            /\ AheadOf(k, i)' = Ahead(t.next, kt'[k].weight, i, maxInst)
        BY <2>1, <2>4 DEF AheadOf
      <3>5. kt'[k].weight = t.weight \/ (kt'[k].weight = 0 /\ i # t.next)
        <4>1. Used(i)  BY <2>6, <2>7
        <4>2. CASE kt'[k].weight = t.weight  BY <4>2
        <4>3. CASE ~Used(t.next) /\ kt'[k].weight = 0
          <5>1. i # t.next  BY <4>1, <4>3, Zenon
          <5>. QED  BY <4>3, <5>1
        <4>. QED  BY <2>2, <4>2, <4>3
      <3>6. Ahead(t.next, kt'[k].weight, i, maxInst) <= Ahead(t.next, t.weight, i, maxInst)
        <4>1. CASE kt'[k].weight = t.weight
          BY <3>3, <3>4, <4>1
        <4>2. CASE kt'[k].weight = 0 /\ i # t.next
          <5>1. t.weight \in 0 .. MaxWeight /\ 0 \in 0 .. t.weight /\ i # t.next
            BY <2>3, <4>2, Numbers
          <5>2. Ahead(t.next, 0, i, maxInst) = Ahead(t.next, t.weight, i, maxInst) - (t.weight - 0)
            BY <2>3, <3>2, <5>1, AheadSpent
          <5>3. Ahead(t.next, t.weight, i, maxInst) \in 0 .. Bound
            BY <2>3, <3>2, <5>1, AheadBound
          <5>. QED  BY <2>3, <4>2, <5>2, <5>3, Numbers
        <4>. QED  BY <3>5, <4>1, <4>2
      <3>7. Ahead(t.next, t.weight, i, maxInst) <= Ahead(kt[k].next, kt[k].weight, i, maxInst)
        <4>1. CASE t.weight = kt[k].weight /\ t.next = kt[k].next
          BY <3>3, <3>4, <4>1
        <4>2. CASE kt[k].weight = 0 /\ t.next = (kt[k].next + 1) % maxInst
          <5>1. t.weight \in 0 .. MaxWeight  BY <2>3, Numbers
          <5>2. CASE i = t.next
            BY <2>3, <3>3, <3>4, <5>2, Numbers DEF Ahead
          <5>3. CASE i # t.next
            BY <3>2, <4>2, <5>1, <5>3, AheadAdvance
          <5>. QED  BY <5>2, <5>3
        <4>. QED  BY <2>3, <4>1, <4>2
      <3>8. Ahead(t.next, t.weight, i, maxInst) \in 0 .. Bound
        <4>1. t.weight \in 0 .. MaxWeight  BY <2>3, Numbers
        <4>. QED  BY <2>3, <3>2, <4>1, AheadBound
      <3>. QED  BY <3>1, <3>3, <3>4, <3>6, <3>7, <3>8, Numbers
    <2>8. \A i \in Inst : ~(i < kt'[k].idx) /\ kt'[k].st # "exit"
      BY <2>2, Numbers
    <2>. QED  BY <1>1, <1>10, <2>1, <2>2, <2>4, <2>5, <2>7, <2>8, WaitingThread
  <1>14. ASSUME NEW k \in Kthread, Service(k)  PROVE WaitingParts'
    <2>1. UNCHANGED <<maxInst, listed>> /\ kt[k].st = "service"  BY <1>14 DEF Service
    <2>2. Turn(k) = kt[k].next /\ kt[k].at = kt[k].next  BY <1>10, <2>1 DEF Turn
    <2>. DEFINE i == kt[k].next
    <2>3. /\ i \in Inst /\ curr' = i /\ Live' = Live
          /\ kt'[k].st = "sleep" /\ kt'[k].weight = kt[k].weight - 1 /\ kt'[k].at = i
          /\ kt[k].weight >= 1
          /\ \A j \in Inst : since'[j] =
                IF j = i \/ ~Used(j) THEN 0
                ELSE IF since[j] > Bound THEN since[j] ELSE since[j] + 1
      BY <1>14, <2>2, ServiceEffect, ThreadGoesOn
    <2>4. Turn(k)' = i  BY <2>3 DEF Turn
    <2>. HIDE DEF i
    <2>5. \A j \in Inst : Used(j)' <=> Used(j)  BY <2>1 DEF Used
    <2>6. ASSUME NEW j \in Inst, j < maxInst, Used(j)'
          PROVE  since'[j] + AheadOf(k, j)' <= Bound
      <3>1. AheadOf(k, j)' \in 0 .. Bound /\ AheadOf(k, j) \in 0 .. Bound
        BY <1>1, <2>1, <2>6, AheadOfBound, AheadOfBoundNext DEF AheadsBounded
      <3>2. CASE since'[j] = 0  BY <3>1, <3>2, Numbers
      <3>3. CASE since'[j] # 0
        <4>1. j # i /\ Used(j)  BY <2>3, <2>5, <2>6, <3>3
        <4>2. since[j] + AheadOf(k, j) <= Bound /\ since[j] \in Nat
          BY <1>1, <1>10, <2>1, <2>6, <4>1, Sizes
        <4>3. since'[j] = since[j] + 1  BY <2>3, <3>1, <4>1, <4>2, Numbers
        <4>4. /\ maxInst \in 1 .. NInst /\ j \in 0 .. maxInst - 1
              /\ kt[k].weight \in 0 .. MaxWeight
          BY <1>1, <2>6, Sizes
        <4>5. kt[k].weight - 1 \in 0 .. kt[k].weight  BY <2>3, <4>4, Numbers
        <4>6. Ahead(i, kt[k].weight - 1, j, maxInst)
                 = Ahead(i, kt[k].weight, j, maxInst) - (kt[k].weight - (kt[k].weight - 1))
          BY <2>3, <4>1, <4>4, <4>5, AheadSpent
        <4>7. /\ AheadOf(k, j) = Ahead(i, kt[k].weight, j, maxInst)
              /\ AheadOf(k, j)' = Ahead(i, kt[k].weight - 1, j, maxInst)
          BY <2>1, <2>2, <2>3, <2>4 DEF AheadOf, i
        <4>8. kt[k].weight \in Int  BY <4>4, Numbers
        <4>9. AheadOf(k, j)' = AheadOf(k, j) - 1  BY <3>1, <4>6, <4>7, <4>8, Numbers
        <4>. QED  BY <3>1, <4>2, <4>3, <4>9, Numbers
      <3>. QED  BY <3>2, <3>3
    <2>. QED  BY <1>1, <1>10, <2>1, <2>3, <2>4, <2>6, WaitingThread
  <1>15. ASSUME NEW k \in Kthread, Exit(k)  PROVE WaitingParts'
    <2>1. kt[k].st = "exit" /\ UNCHANGED <<since, listed>>  BY <1>15 DEF Exit
    <2>2. Live' = {}
      <3>1. Live' = Live \ {k}  BY <1>1, <1>15 DEF Exit, Live, TypeOK, Dead
      <3>2. k \in Live /\ LiveAlone  BY <1>10, <2>1
      <3>3. \A j \in Live : j = k  BY <3>2 DEF LiveAlone
      <3>4. Live \ {k} = {}  BY <3>3
      <3>. QED  BY <3>1, <3>4
    <2>3. Rested'  BY <1>10, <2>1 DEF Rested, Used
    <2>. QED  BY <2>2, <2>3 DEF WaitingParts, ThreadAt, Turns, Passed
  <1>. QED
    BY <1>3, <1>4, <1>5, <1>6, <1>7, <1>8, <1>9, <1>11, <1>12, <1>13, <1>14, <1>15
       DEF Next, KickStep, ThreadStep, SetPolicy, SetMaxInst, SetWeight, CreateNode

-----------------------------------------------------------------------------
(* What holds of every reachable state.                                    *)
SchedInv == TypeInv /\ SingleInv /\ PendingInv /\ StaysAttended /\ WaitingInv

(* At the start nothing is used, listed, kicked or scheduled.              *)
LEMMA InitInv == Init => SchedInv
  <1>. SUFFICES ASSUME Init PROVE SchedInv  OBVIOUS
  <1>1. Dead \in ThreadStates /\ Dead.st = "dead"  BY Numbers DEF Dead, ThreadStates
  <1>2. Idle \in CallStates /\ Idle.at = "idle"  BY DEF Idle, CallStates
  <1>3. Live = {}  BY <1>1 DEF Live, Init
  <1>4. TypeInv
    <2>2. /\ NInst \in 1 .. NInst /\ 1 \in 1 .. MaxWeight /\ 0 \in 0 .. Bound + 1
          /\ 0 \in Inst
      BY Numbers
    <2>1. TypeOK  BY <1>1, <1>2, <2>2 DEF Init, TypeOK, Policy
    <2>. QED  BY <1>1, <2>1 DEF TypeInv, ThreadsSound, Init
  <1>5. \A p \in Proc : call[p].at = "idle"  BY <1>2 DEF Init
  <1>6. SingleInv
    BY <1>3, <1>5 DEF SingleInv, SingleParts, StartsAlone, StartSeesNone, LiveAlone,
                      LiveKnown, Starting
  <1>7. PendingInv /\ StaysAttended
    BY <1>5 DEF PendingInv, PendingArmed, FoundLive, StaysAttended, Init
  <1>8. WaitingInv
    BY <1>3 DEF WaitingInv, WaitingParts, ThreadAt, Turns, Passed, Rested, Init, Used
  <1>. QED  BY <1>4, <1>6, <1>7, <1>8 DEF SchedInv

(* The parts hold together in every reachable state.                       *)
THEOREM Invariance == Spec => []SchedInv
  <1>1. SchedInv /\ [Next]_vars => SchedInv'
    BY TypeInductive, SingleInductive, PendingInductive, AttendedInductive,
       WaitingInductive DEF SchedInv
  <1>. QED  BY InitInv, <1>1, PTL DEF Spec

(* Every variable keeps its type, whatever the kicks, the closes and the   *)
(* threads do between each other's steps.                                  *)
THEOREM TypeCorrect == Spec => []TypeOK
  <1>1. SchedInv => TypeOK  BY DEF SchedInv, TypeInv
  <1>. QED  BY Invariance, <1>1, PTL

(* A GPU has one scheduler thread (mt_gpu_i->task_struct) as long as no    *)
(* two kicks were between their test of task_struct and the assignment of  *)
(* what kthread_run returned at once.                                      *)
THEOREM OneScheduler == Spec => []SingleScheduler
  <1>1. SchedInv => SingleScheduler
    BY DEF SchedInv, SingleInv, SingleParts, LiveAlone, SingleScheduler
  <1>. QED  BY Invariance, <1>1, PTL

(* A command waits on one list, of a listed task, with its fence armed:    *)
(* core_rgxcmp_sched signals no fence twice and no command of a task that  *)
(* was cleaned.                                                            *)
THEOREM PendingStaysArmed == Spec => []PendingArmed
  <1>1. SchedInv => PendingArmed  BY DEF SchedInv, PendingInv
  <1>. QED  BY Invariance, <1>1, PTL

(* Work a kick left to the scheduler is never abandoned: the thread leaves *)
(* only when is_gpu_used saw nothing that a kick relied on it to see.      *)
THEOREM WorkStaysAttended == Spec => []StaysAttended
  <1>1. SchedInv => StaysAttended  BY DEF SchedInv
  <1>. QED  BY Invariance, <1>1, PTL

(* A used instance within max_inst is passed over for at most              *)
(* (MAX_SGPU - 1) * the largest weight slices, under every policy and      *)
(* however max_inst, the weights and the tasks change meanwhile.           *)
THEOREM WaitingIsBounded == Spec => []BoundedWaiting
  <1>1. SchedInv => BoundedWaiting
    <2>. SUFFICES ASSUME SchedInv, ~startRace, NEW i \in Inst, i < maxInst, Used(i)
                  PROVE  since[i] <= Bound
      BY DEF BoundedWaiting
    <2>1. TypeOK /\ Turns /\ Rested  BY DEF SchedInv, TypeInv, WaitingInv, WaitingParts
    <2>2. CASE Live = {}  BY <2>1, <2>2, Numbers DEF Rested
    <2>3. CASE Live # {}
      <3>1. PICK k \in Live : TRUE  BY <2>3
      <3>2. k \in Kthread /\ since[i] + AheadOf(k, i) <= Bound
        BY <2>1, <3>1 DEF Turns, Live
      <3>3. AheadOf(k, i) \in 0 .. Bound /\ since[i] \in Nat
        BY <2>1, <3>2, AheadOfBound, Sizes DEF AheadsBounded
      <3>. QED  BY <3>2, <3>3, Numbers
    <2>. QED  BY <2>2, <2>3
  <1>. QED  BY Invariance, <1>1, PTL

-----------------------------------------------------------------------------
(* The fences follow the book.  What waits on an instance is what the      *)
(* lists of its processes hold.                                            *)
LEMMA PendingIs ==
    /\ \A i \in Inst : \A c :
          c \in Pending[i] <=> \E p \in Proc : InstOf[p] = i /\ c \in queue[p]
    /\ \A i \in Inst : \A c :
          c \in Pending'[i] <=> \E p \in Proc : InstOf[p] = i /\ c \in queue'[p]
  <1>1. \A i \in Inst : Pending[i] = UNION {queue[p] : p \in {q \in Proc : InstOf[q] = i}}
    BY DEF Pending
  <1>2. \A i \in Inst : Pending'[i] = UNION {queue'[p] : p \in {q \in Proc : InstOf[q] = i}}
    BY DEF Pending
  <1>. QED  BY <1>1, <1>2

(* Only the lists of one instance changed.                                 *)
LEMMA PendingOfOne ==
    ASSUME NEW i \in Inst, \A p \in Proc : InstOf[p] # i => queue'[p] = queue[p]
    PROVE  Pending' = [Pending EXCEPT ![i] = Pending'[i]]
  <1>. DEFINE on(j) == UNION {queue[p] : p \in {q \in Proc : InstOf[q] = j}}
              onNext(j) == UNION {queue'[p] : p \in {q \in Proc : InstOf[q] = j}}
  <1>1. Pending = [j \in Inst |-> on(j)] /\ Pending' = [j \in Inst |-> onNext(j)]
    BY DEF Pending
  <1>2. \A j \in Inst \ {i} : onNext(j) = on(j)  OBVIOUS
  <1>. HIDE DEF on, onNext
  <1>. QED  BY <1>1, <1>2

(* A step that leaves the lists, the marks and the fences alone.           *)
LEMMA BookUntouched ==
    ASSUME UNCHANGED <<queue, submitted, fence>>
    PROVE  UNCHANGED Fences!bookVars
  BY DEF Fences!bookVars, Pending

LEMMA BookArmed ==
    ASSUME TypeOK, PendingInv, NEW p \in Proc, KickAdd(p)
    PROVE  Fences!Arm
  <1>1. PICK c \in Cmd, garbage \in BOOLEAN :
          /\ fence[c] = "none" /\ fence' = [fence EXCEPT ![c] = "armed"]
          /\ \E q \in IF call[p].live THEN {p} ELSE listed \cup {p} :
                IF call[p].live \/ q \in listed
                  THEN /\ queue' = [queue EXCEPT ![q] = @ \cup {c}]
                       /\ submitted' = IF garbage THEN submitted \cup {c} ELSE submitted
                  ELSE UNCHANGED <<queue, submitted>>
    BY DEF KickAdd
  <1>2. CASE UNCHANGED <<queue, submitted>>
    <2>1. Pending' = Pending  BY <1>2 DEF Pending
    <2>. QED  BY <1>1, <1>2, <2>1 DEF Fences!Arm
  <1>3. CASE /\ \E q \in Proc : queue' = [queue EXCEPT ![q] = @ \cup {c}]
             /\ submitted' \in {submitted, submitted \cup {c}}
    <2>1. PICK q \in Proc : queue' = [queue EXCEPT ![q] = @ \cup {c}]  BY <1>3
    <2>2. \A r \in Proc : queue'[r] = IF r = q THEN queue[q] \cup {c} ELSE queue[r]
      BY <2>1 DEF TypeOK
    <2>3. PICK i \in Inst : i = InstOf[q]  BY Numbers
    <2>4. Pending' = [Pending EXCEPT ![i] = Pending'[i]]  BY <2>2, <2>3, PendingOfOne
    <2>5. Pending'[i] = Pending[i] \cup {c}  BY <2>2, <2>3, PendingIs
    <2>. QED  BY <1>1, <1>3, <2>4, <2>5 DEF Fences!Arm
  <1>4. listed \subseteq Proc  BY DEF TypeOK
  <1>. QED  BY <1>1, <1>2, <1>3, <1>4

LEMMA BookMarked ==
    ASSUME TypeOK, NEW p \in Proc, KickMark(p)
    PROVE  Fences!Mark \/ UNCHANGED Fences!bookVars
  <1>1. UNCHANGED <<queue, fence>>  BY DEF KickMark
  <1>2. CASE submitted' = submitted  BY <1>1, <1>2, BookUntouched
  <1>3. ASSUME NEW c \in queue[p], submitted' = submitted \cup {c}
        PROVE  Fences!Mark
    <2>1. InstOf[p] \in Inst /\ c \in Pending[InstOf[p]]
      BY <1>3, Numbers, PendingIs
    <2>2. Pending' = Pending  BY <1>1 DEF Pending
    <2>. QED  BY <1>1, <1>3, <2>1, <2>2 DEF Fences!Mark
  <1>. QED  BY <1>2, <1>3 DEF KickMark

LEMMA BookSliced ==
    ASSUME TypeInv, PendingArmed, NEW k \in Kthread, Service(k)
    PROVE  Fences!Slice
  <1>1. PICK i \in Inst :
          /\ \A p \in Proc : queue'[p] = queue[p] \ Served(i)
          /\ fence' = [c \in Cmd |-> IF c \in Served(i) THEN "signalled" ELSE fence[c]]
          /\ submitted' = submitted \ Served(i)
    BY ServiceEffect
  <1>2. Served(i) = Pending[i] \cap submitted
    <2>1. \A p \in Proc : p \notin listed => queue[p] = {}
      BY DEF PendingArmed, TypeInv, TypeOK
    <2>2. listed \subseteq Proc  BY DEF TypeInv, TypeOK
    <2>. DEFINE lists == UNION {queue[p] : p \in {q \in listed : InstOf[q] = i}}
    <2>3. Served(i) = submitted \cap lists  BY DEF Served
    <2>4. ASSUME NEW c \in lists  PROVE c \in Pending[i]
      <3>1. PICK p \in {q \in listed : InstOf[q] = i} : c \in queue[p]  OBVIOUS
      <3>2. p \in Proc /\ InstOf[p] = i  BY <2>2
      <3>. QED  BY <3>1, <3>2, PendingIs
    <2>5. ASSUME NEW c \in Pending[i]  PROVE c \in lists
      <3>1. PICK p \in Proc : InstOf[p] = i /\ c \in queue[p]  BY PendingIs
      <3>2. p \in {q \in listed : InstOf[q] = i}  BY <2>1, <3>1
      <3>. QED  BY <3>1, <3>2
    <2>. HIDE DEF lists
    <2>. QED  BY <2>3, <2>4, <2>5
  <1>3. \A p \in Proc : InstOf[p] # i => queue'[p] = queue[p]
    <2>. SUFFICES ASSUME NEW p \in Proc, InstOf[p] # i, NEW c \in queue[p], c \in Served(i)
                  PROVE  FALSE
      BY <1>1
    <2>1. PICK q \in Proc : InstOf[q] = i /\ c \in queue[q]  BY <1>2, PendingIs
    <2>. QED  BY <2>1 DEF PendingArmed
  <1>4. Pending' = [Pending EXCEPT ![i] = Pending'[i]]  BY <1>3, PendingOfOne
  <1>5. Pending'[i] = Pending[i] \ Served(i)  BY <1>1, PendingIs
  <1>. QED  BY <1>1, <1>2, <1>4, <1>5 DEF Fences!Slice

(* The tasks cleaned together are of one instance.                         *)
LEMMA BookDropped ==
    ASSUME TypeOK, PendingArmed, NEW P \in SUBSET Proc, Clean(P),
           NEW i \in Inst, \A p \in P : InstOf[p] = i
    PROVE  Fences!Drop
  <1>1. \A p \in Proc : queue'[p] = IF p \in P THEN {} ELSE queue[p]  BY CleanEffect
  <1>2. submitted' = submitted \ UNION {queue[p] : p \in P} /\ fence' = fence  BY DEF Clean
  <1>3. Pending' = [Pending EXCEPT ![i] = Pending'[i]]  BY <1>1, PendingOfOne
  <1>4. Pending'[i] \subseteq Pending[i]
        /\ Pending' = [Pending EXCEPT ![i] = Pending[i] \ (Pending[i] \ Pending'[i])]
    <2>1. Pending'[i] \subseteq Pending[i]  BY <1>1, PendingIs
    <2>. QED  BY <1>3, <2>1
  <1>5. UNION {queue[p] : p \in P} = Pending[i] \ Pending'[i]
    <2>1. ASSUME NEW p \in P, NEW c \in queue[p]  PROVE c \in Pending[i] \ Pending'[i]
      <3>1. \A q \in Proc : c \in queue[q] => q = p  BY <2>1 DEF PendingArmed
      <3>. QED  BY <1>1, <2>1, <3>1, PendingIs
    <2>2. ASSUME NEW c \in Pending[i] \ Pending'[i]  PROVE \E p \in P : c \in queue[p]
      BY <1>1, <2>2, PendingIs
    <2>. QED  BY <2>1, <2>2
  <1>. QED  BY <1>2, <1>3, <1>4, <1>5 DEF Fences!Drop

(* The kicks, the slices of core_rgxcmp_sched and clean_sgpu_task          *)
(* implement the book: each fence is armed once and signalled once, only   *)
(* by a slice of its instance, only when marked, and not after its task.   *)
THEOREM FencesFollowBook == Spec => FencesRefined
  <1>1. Init => Fences!BookInit
    BY DEF Init, Fences!BookInit, Pending
  <1>2. SchedInv /\ [Next]_vars => [Fences!BookNext]_Fences!bookVars
    <2>. SUFFICES ASSUME SchedInv, [Next]_vars
                  PROVE  Fences!BookNext \/ UNCHANGED Fences!bookVars
      OBVIOUS
    <2>1. TypeInv /\ TypeOK /\ PendingInv /\ PendingArmed  BY DEF SchedInv, TypeInv, PendingInv
    <2>2. CASE UNCHANGED <<queue, submitted, fence>>  BY <2>2, BookUntouched
    <2>3. ASSUME NEW p \in Proc, KickAdd(p)  PROVE Fences!BookNext
      BY <2>1, <2>3, BookArmed DEF Fences!BookNext
    <2>4. ASSUME NEW p \in Proc, KickMark(p)
          PROVE  Fences!BookNext \/ UNCHANGED Fences!bookVars
      BY <2>1, <2>4, BookMarked DEF Fences!BookNext
    <2>5. ASSUME NEW k \in Kthread, Service(k)  PROVE Fences!BookNext
      BY <2>1, <2>5, BookSliced DEF Fences!BookNext
    <2>6. ASSUME NEW p \in Proc, Close(p)  PROVE Fences!BookNext
      <3>1. {p} \in SUBSET Proc /\ Clean({p}) /\ InstOf[p] \in Inst
        BY <2>6, Numbers DEF Close
      <3>. QED  BY <2>1, <3>1, BookDropped DEF Fences!BookNext
    <2>7. ASSUME NEW i \in Inst, Destroy(i)  PROVE Fences!BookNext
      <3>. DEFINE P == {p \in listed : InstOf[p] = i}
      <3>1. P \in SUBSET Proc /\ Clean(P) /\ \A p \in P : InstOf[p] = i
        BY <2>1, <2>7 DEF Destroy, TypeOK
      <3>. HIDE DEF P
      <3>. QED  BY <2>1, <3>1, BookDropped DEF Fences!BookNext
    <2>8. ASSUME NEW p \in Proc,
                 \/ KickFind(p) \/ KickCheck(p) \/ KickStart(p) \/ KickAssign(p)
                 \/ DriverAccepts(p) \/ DriverFails(p) \/ Open(p)
          PROVE  UNCHANGED <<queue, submitted, fence>>
      BY <2>8 DEF cmdVars, KickFind, KickCheck, KickStart, KickAssign,
                  DriverAccepts, DriverFails, Open
    <2>9. ASSUME NEW k \in Kthread, Wake(k) \/ Scan(k) \/ Pick(k) \/ Exit(k)
          PROVE  UNCHANGED <<queue, submitted, fence>>
      BY <2>9 DEF cmdVars, Wake, Scan, Pick, Exit
    <2>10. ASSUME \/ \E new \in Policies : SetPolicy(new)
                  \/ \E n \in MaxInsts : SetMaxInst(n)
                  \/ \E i \in Inst, w \in 1 .. MaxWeight : SetWeight(i, w)
                  \/ \E i \in Inst : CreateNode(i)
           PROVE  UNCHANGED <<queue, submitted, fence>>
      BY <2>10 DEF cmdVars, SetPolicy, SetMaxInst, SetWeight, CreateNode
    <2>11. CASE UNCHANGED vars  BY <2>2, <2>11 DEF vars, cmdVars
    <2>. QED
      BY <2>2, <2>3, <2>4, <2>5, <2>6, <2>7, <2>8, <2>9, <2>10, <2>11
         DEF Next, KickStep, ThreadStep
  <1>. QED  BY <1>1, <1>2, Invariance, PTL DEF Spec, FencesRefined, Fences!BookSpec
=============================================================================
