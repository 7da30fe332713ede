--------------------------- MODULE SgpuNodes_proofs ---------------------------
(***************************************************************************)
(* The claims of SgpuNodes, for any number of writers, containers and      *)
(* instances.                                                              *)
(***************************************************************************)
EXTENDS SgpuNodes, WellFoundedInduction, TLAPS

(* A container that is losing its directory, having lost its name.         *)
Dropping(n) == \E w \in Writer : At(w, {"clean", "rmdir"}) /\ call[w].id = n

Claiming(w) == At(w, {"mkdir", "files", "clear"})

(* The parts of the inductive invariant.  A directory has its name alone.  *)
DirsUnique ==
    \A n \in Name : \A i, j \in Inst : <<n, i>> \in dir /\ <<n, j>> \in dir => i = j

(* A creation holds the claim it made, and no two hold one instance.       *)
ClaimsHeld ==
    \A w \in Writer : Claiming(w) => name[call[w].inst] = call[w].id
ClaimsApart ==
    \A v, w \in Writer : Claiming(v) /\ Claiming(w) /\ call[v].inst = call[w].inst => v = w

(* A directory is that of the instance that has its name, until it goes.   *)
DirsNamed ==
    \A n \in Name, i \in Inst : <<n, i>> \in dir => name[i] = n \/ Dropping(n)

(* A name has its directory, or its creation is about to make one or to    *)
(* give the name back.                                                     *)
NamesBacked ==
    \A n \in Name, i \in Inst : name[i] = n =>
        \/ <<n, i>> \in dir
        \/ \E w \in Writer : At(w, {"mkdir", "clear"}) /\ call[w].inst = i

FilesMade ==
    \A w \in Writer : At(w, {"files"}) => <<call[w].id, call[w].inst>> \in dir

(* A removal past the loss of the name has its directory still, alone, and *)
(* the name is only on instances it is about to be taken from again.       *)
DropsHeld ==
    \A w \in Writer : At(w, {"clean", "rmdir"}) => <<call[w].id, call[w].inst>> \in dir
DropsApart ==
    \A v, w \in Writer :
        At(v, {"clean", "rmdir"}) /\ At(w, {"clean", "rmdir"}) /\ call[v].id = call[w].id => v = w
DropsUnnamed ==
    \A w \in Writer, i \in Inst :
        At(w, {"clean", "rmdir"}) /\ name[i] = call[w].id =>
            \E v \in Writer : At(v, {"mkdir", "clear"}) /\ call[v].inst = i

(* What a creation finds in the place of its directory is going.           *)
MakesFresh ==
    \A w \in Writer :
        At(w, {"mkdir", "clear"}) /\ <<call[w].id, call[w].inst>> \in dir => Dropping(call[w].id)

ClaimParts ==
    /\ ClaimsHeld /\ ClaimsApart /\ DirsNamed /\ NamesBacked /\ FilesMade
    /\ DropsHeld /\ DropsApart /\ DropsUnnamed /\ MakesFresh
ClaimInv == TypeOK /\ DirsUnique /\ (Without({"clash"}) => ClaimParts)

(* Every instance with a name is below max_inst, unless that moved.        *)
NamesBelow ==
    Without({"maxInst"}) => \A i \in Inst : name[i] # None => i < maxInst

(* While nothing happened that TenantsApart excludes: an instance keeps no *)
(* name and no other container's tasks until its tasks are cleaned, and    *)
(* then has none of its old ones until the directory is gone; nor has a    *)
(* container a task whose files are being made.                            *)
TenantInv ==
    TaskBound =>
        /\ TenantsApart
        /\ \A w \in Writer :
              /\ At(w, {"clean"}) =>
                    name[call[w].inst] = None /\ tasks[call[w].inst] \subseteq {call[w].id}
              /\ At(w, {"files", "rmdir"}) => call[w].id \notin tasks[call[w].inst]

-----------------------------------------------------------------------------
(* The first match is one: sets of instances have a lowest member.         *)
LEMMA LookupMatches ==
    ASSUME NEW n, Matches(n) # {}
    PROVE  Lookup(n) \in Matches(n)
  <1>. DEFINE Less == {p \in Nat \X Nat : p[1] < p[2]}
              S == Matches(n)
  <1>1. IsWellFoundedOn(Less, Nat)  BY NatLessThanWellFounded DEF OpToRel
  <1>2. S \in SUBSET Nat /\ S # {}  BY NodesAssumption DEF Matches, Inst
  <1>3. PICK i \in S : \A j \in S : ~(<<j, i>> \in Less)
    <2>. HIDE DEF Less, S
    <2>. QED  BY <1>1, <1>2, WFMin
  <1>4. ASSUME NEW j \in S  PROVE i <= j
    <2>1. i \in Nat /\ j \in Nat  BY <1>2
    <2>2. <<j, i>> \in Nat \X Nat /\ <<j, i>> \notin Less  BY <1>3, <2>1
    <2>3. ~(j < i)  BY <2>2
    <2>. QED  BY <2>1, <2>3
  <1>. HIDE DEF S
  <1>5. Min(S) \in S  BY <1>4 DEF Min
  <1>. QED  BY <1>5 DEF Lookup, S

Stages == {"name", "mkdir", "files", "clear", "unname", "clean", "rmdir"}

(* A call at a stage of a creation or a removal has its container and its  *)
(* instance.                                                               *)
LEMMA CallFields ==
    ASSUME TypeOK, NEW w \in Writer, At(w, Stages)
    PROVE  /\ call[w] \in [at : Stages, id : Name, inst : Inst]
           /\ call[w].id \in Name /\ call[w].inst \in Inst
  <1>1. call[w] \in CallStates /\ call[w].at \in Stages  BY DEF TypeOK, At
  <1>2. call[w] \in [at : Stages, id : Name, inst : Inst]
    BY <1>1 DEF CallStates, Idle, Stages
  <1>. QED  BY <1>2

(* A call goes on to its next stage, the others stay.                      *)
LEMMA StageMoves ==
    ASSUME TypeOK, NEW w \in Writer, At(w, Stages), NEW place \in Stages, Goto(w, place)
    PROVE  /\ call' \in [Writer -> CallStates]
           /\ call'[w].at = place
           /\ call'[w].id = call[w].id /\ call'[w].inst = call[w].inst
           /\ \A v \in Writer \ {w} : call'[v] = call[v]
  <1>1. call[w] \in [at : Stages, id : Name, inst : Inst]  BY CallFields
  <1>2. [call[w] EXCEPT !.at = place] = [at |-> place, id |-> call[w].id, inst |-> call[w].inst]
    BY <1>1
  <1>. DEFINE next == [at |-> place, id |-> call[w].id, inst |-> call[w].inst]
  <1>3. next \in CallStates  BY <1>1 DEF CallStates, Stages
  <1>4. call' = [call EXCEPT ![w] = next]  BY <1>2 DEF Goto
  <1>. HIDE DEF next
  <1>5. call'[w] = next /\ \A v \in Writer \ {w} : call'[v] = call[v]
    BY <1>4 DEF TypeOK
  <1>6. call' \in [Writer -> CallStates]  BY <1>3, <1>4 DEF TypeOK
  <1>. QED  BY <1>5, <1>6 DEF next

(* A call returns, or begins.                                              *)
LEMMA CallSet ==
    ASSUME TypeOK, NEW w \in Writer, NEW next \in CallStates,
           call' = [call EXCEPT ![w] = next]
    PROVE  /\ call' \in [Writer -> CallStates]
           /\ call'[w] = next
           /\ \A v \in Writer \ {w} : call'[v] = call[v]
  BY DEF TypeOK

(* The variables stay in their sets.                                       *)
LEMMA TypeInductive == TypeOK /\ [Next]_vars => TypeOK'
  <1>. SUFFICES ASSUME TypeOK, [Next]_vars PROVE TypeOK'  OBVIOUS
  <1>. USE NodesAssumption
  <1>1. Idle \in CallStates  BY DEF CallStates
  <1>2. ASSUME NEW w \in Writer, NEW n \in Name, CreateFind(w, n)  PROVE TypeOK'
    <2>1. Lookup(None) \in Inst  BY <1>2, LookupMatches DEF CreateFind, Matches
    <2>2. [at |-> "name", id |-> n, inst |-> Lookup(None)] \in CallStates
      BY <2>1 DEF CallStates
    <2>3. call' \in [Writer -> CallStates]  BY <1>2, <2>2, CallSet DEF CreateFind
    <2>. QED  BY <1>2, <2>3 DEF CreateFind, TypeOK
  <1>3. ASSUME NEW w \in Writer, NEW n \in Name, DestroyFind(w, n)  PROVE TypeOK'
    <2>1. Lookup(n) \in Inst  BY <1>3, LookupMatches DEF DestroyFind, Matches
    <2>2. [at |-> "unname", id |-> n, inst |-> Lookup(n)] \in CallStates
      BY <2>1 DEF CallStates
    <2>3. call' \in [Writer -> CallStates]  BY <1>3, <2>2, CallSet DEF DestroyFind
    <2>. QED  BY <1>3, <2>3 DEF DestroyFind, TypeOK
  <1>4. ASSUME NEW w \in Writer, At(w, Stages),
               Return(w) \/ \E place \in Stages : Goto(w, place)
        PROVE  call' \in [Writer -> CallStates] /\ call[w].id \in Name /\ call[w].inst \in Inst
    BY <1>1, <1>4, CallSet, StageMoves, CallFields DEF Return
  <1>5. ASSUME NEW w \in Writer,
               CreateName(w) \/ CreateMkdir(w) \/ CreateFiles(w) \/ CreateClear(w)
        PROVE  TypeOK'
    <2>1. At(w, Stages)
      BY <1>5 DEF CreateName, CreateMkdir, CreateFiles, CreateClear, At, Stages
    <2>2. Return(w) \/ \E place \in Stages : Goto(w, place)
      BY <1>5 DEF CreateName, CreateMkdir, CreateFiles, CreateClear, Stages
    <2>3. call' \in [Writer -> CallStates] /\ call[w].id \in Name /\ call[w].inst \in Inst
      BY <1>4, <2>1, <2>2
    <2>4. CASE CreateName(w)
      <3>1. trouble' \subseteq {"clash", "maxInst", "handed", "late", "wiped"}
        BY <2>4 DEF CreateName, Note, If, TypeOK
      <3>. QED  BY <2>3, <2>4, <3>1 DEF CreateName, TypeOK
    <2>5. CASE CreateMkdir(w)
      <3>1. dir' \subseteq Name \X Inst  BY <2>3, <2>5 DEF CreateMkdir, TypeOK
      <3>. QED  BY <2>3, <2>5, <3>1 DEF CreateMkdir, TypeOK
    <2>6. CASE CreateFiles(w)  BY <2>3, <2>6 DEF CreateFiles, TypeOK
    <2>7. CASE CreateClear(w)  BY <2>3, <2>7 DEF CreateClear, TypeOK
    <2>. QED  BY <1>5, <2>4, <2>5, <2>6, <2>7
  <1>6. ASSUME NEW w \in Writer, DestroyUnname(w) \/ DestroyClean(w) \/ DestroyRmdir(w)
        PROVE  TypeOK'
    <2>1. At(w, Stages)
      BY <1>6 DEF DestroyUnname, DestroyClean, DestroyRmdir, At, Stages
    <2>2. Return(w) \/ \E place \in Stages : Goto(w, place)
      BY <1>6 DEF DestroyUnname, DestroyClean, DestroyRmdir, Stages
    <2>. QED  BY <1>4, <1>6, <2>1, <2>2
              DEF DestroyUnname, DestroyClean, DestroyRmdir, Note, If, TypeOK
  <1>7. ASSUME NEW w \in Writer, NEW n \in 1 .. NInst, MaxInstCheck(w, n)  PROVE TypeOK'
    <2>1. [at |-> "setmax", value |-> n] \in CallStates  BY DEF CallStates
    <2>2. call' \in [Writer -> CallStates]  BY <1>7, <2>1, CallSet DEF MaxInstCheck
    <2>. QED  BY <1>7, <2>2 DEF MaxInstCheck, TypeOK
  <1>8. ASSUME NEW w \in Writer, MaxInstSet(w)  PROVE TypeOK'
    <2>1. call[w].value \in 1 .. NInst
      BY <1>8 DEF MaxInstSet, At, TypeOK, CallStates, Idle
    <2>2. call' \in [Writer -> CallStates]  BY <1>1, <1>8, CallSet DEF MaxInstSet, Return
    <2>. QED  BY <1>8, <2>1, <2>2 DEF MaxInstSet, Note, If, TypeOK
  <1>9. ASSUME NEW n \in Name, NEW i \in Inst, TaskOpen(n, i) \/ TaskClose(n, i)
        PROVE  TypeOK'
    <2>1. CASE TaskOpen(n, i)
      <3>1. trouble' \subseteq {"clash", "maxInst", "handed", "late", "wiped"}
        BY <2>1 DEF TaskOpen, Note, If, TypeOK
      <3>2. tasks' \in [Inst -> SUBSET Name]  BY <2>1 DEF TaskOpen, TypeOK
      <3>. QED  BY <2>1, <3>1, <3>2 DEF TaskOpen, TypeOK
    <2>2. CASE TaskClose(n, i)  BY <2>2 DEF TaskClose, TypeOK
    <2>. QED  BY <1>9, <2>1, <2>2
  <1>10. CASE UNCHANGED vars  BY <1>10 DEF vars, TypeOK
  <1>. QED  BY <1>2, <1>3, <1>5, <1>6, <1>7, <1>8, <1>9, <1>10 DEF Next

-----------------------------------------------------------------------------
(* Nothing that happened is forgotten.                                     *)
LEMMA TroubleGrows == [Next]_vars => trouble \subseteq trouble'
  BY DEF Next, vars, CreateFind, DestroyFind, CreateName, CreateMkdir, CreateFiles, CreateClear,
         DestroyUnname, DestroyClean, DestroyRmdir, MaxInstCheck, MaxInstSet, TaskOpen,
         TaskClose, Note

(* Only a creation adds a directory, under a name no other has.            *)
LEMMA DirsInductive == TypeOK /\ DirsUnique /\ [Next]_vars => DirsUnique'
  <1>. SUFFICES ASSUME TypeOK, DirsUnique, [Next]_vars PROVE DirsUnique'  OBVIOUS
  <1>1. ASSUME dir' \subseteq dir  PROVE DirsUnique'  BY <1>1 DEF DirsUnique
  <1>2. ASSUME NEW w \in Writer, CreateMkdir(w)  PROVE DirsUnique'
    <2>1. ASSUME NEW n \in Name, NEW i \in Inst, <<n, i>> \in dir  PROVE n \in DirNames
      <3>1. <<n, i>>[1] = n  OBVIOUS
      <3>. QED  BY <2>1, <3>1 DEF DirNames
    <2>2. call[w].id \in Name /\ call[w].inst \in Inst
      BY <1>2, CallFields DEF CreateMkdir, At, Stages
    <2>. QED  BY <1>1, <1>2, <2>1, <2>2 DEF CreateMkdir, DirsUnique
  <1>3. dir' \subseteq dir \/ \E w \in Writer : CreateMkdir(w)
    BY DEF Next, vars, CreateFind, DestroyFind, CreateName, CreateFiles, CreateClear,
           DestroyUnname, DestroyClean, DestroyRmdir, MaxInstCheck, MaxInstSet, TaskOpen,
           TaskClose, Note
  <1>. QED  BY <1>1, <1>2, <1>3

-----------------------------------------------------------------------------
(* The claims.  Calls that are not past their claim, or have not taken the *)
(* name away yet, do not matter.                                           *)
Held == {"mkdir", "files", "clear", "clean", "rmdir"}
Steady ==
    /\ UNCHANGED <<name, dir>>
    /\ \A v \in Writer : At(v, Held)' \/ At(v, Held) => call'[v] = call[v]

LEMMA ClaimsSteady == ASSUME ClaimParts, Steady PROVE ClaimParts'
  <1>1. ClaimsHeld'
    BY DEF ClaimsHeld, ClaimParts, Steady, At, Held, Claiming, Dropping
  <1>2. ClaimsApart'
    BY DEF ClaimsApart, ClaimParts, Steady, At, Held, Claiming, Dropping
  <1>3. DirsNamed'
    BY DEF DirsNamed, ClaimParts, Steady, At, Held, Claiming, Dropping
  <1>4. NamesBacked'
    BY DEF NamesBacked, ClaimParts, Steady, At, Held, Claiming, Dropping
  <1>5. FilesMade'
    BY DEF FilesMade, ClaimParts, Steady, At, Held, Claiming, Dropping
  <1>6. DropsHeld'
    BY DEF DropsHeld, ClaimParts, Steady, At, Held, Claiming, Dropping
  <1>7. DropsApart'
    BY DEF DropsApart, ClaimParts, Steady, At, Held, Claiming, Dropping
  <1>8. DropsUnnamed'
    BY DEF DropsUnnamed, ClaimParts, Steady, At, Held, Claiming, Dropping
  <1>9. MakesFresh'
    BY DEF MakesFresh, ClaimParts, Steady, At, Held, Claiming, Dropping
  <1>. QED  BY <1>1, <1>2, <1>3, <1>4, <1>5, <1>6, <1>7, <1>8, <1>9 DEF ClaimParts

(* A free instance is claimed.                                             *)
LEMMA NameClaimed ==
    ASSUME ClaimInv, ClaimParts, TypeOK', NEW w \in Writer, At(w, {"name"}), Goto(w, "mkdir"),
           name[call[w].inst] = None, UNCHANGED dir,
           name' = [name EXCEPT ![call[w].inst] = call[w].id]
    PROVE  ClaimParts'
  <1>. DEFINE n == call[w].id
              i == call[w].inst
  <1>a. n \in Name /\ i \in Inst  BY CallFields DEF ClaimInv, At, Stages
  <1>b. /\ call'[w].at = "mkdir" /\ call'[w].id = n /\ call'[w].inst = i
        /\ \A v \in Writer \ {w} : call'[v] = call[v]
    BY StageMoves DEF ClaimInv, At, Stages
  <1>c. \A v \in Writer : At(v, Stages) => call[v].id \in Name /\ call[v].inst \in Inst
    BY CallFields DEF ClaimInv
  <1>1. ClaimsHeld'
    BY NodesAssumption, <1>b, <1>c DEF ClaimsHeld, ClaimParts, At, Claiming, TypeOK, Stages
  <1>2. ClaimsApart'
    BY <1>b, <1>c, NodesAssumption DEF ClaimsHeld, ClaimsApart, ClaimParts, At, Claiming, Stages
  <1>3. DirsNamed'
    BY NodesAssumption, <1>b DEF DirsNamed, ClaimParts, At, Dropping
  <1>4. ASSUME NEW m \in Name, NEW j \in Inst, name'[j] = m
        PROVE  \/ <<m, j>> \in dir'
               \/ \E v \in Writer : call'[v].at \in {"mkdir", "clear"} /\ call'[v].inst = j
    BY <1>a, <1>b, <1>c, <1>4 DEF ClaimParts, NamesBacked, At
  <1>5. FilesMade'
    BY <1>a, <1>b, <1>c DEF FilesMade, ClaimParts, At
  <1>6. DropsHeld'
    BY <1>a, <1>b, <1>c DEF DropsHeld, ClaimParts, At
  <1>7. DropsApart'
    BY <1>a, <1>b, <1>c DEF DropsApart, ClaimParts, At
  <1>8. ASSUME NEW u \in Writer, NEW j \in Inst, At(u, {"clean", "rmdir"})', name'[j] = call'[u].id
        PROVE  \E v \in Writer : call'[v].at \in {"mkdir", "clear"} /\ call'[v].inst = j
    BY <1>a, <1>b, <1>c, <1>8 DEF ClaimParts, DropsUnnamed, At
  <1>9. MakesFresh'
    BY <1>a, <1>b, NodesAssumption DEF DirsNamed, MakesFresh, ClaimParts, At, Dropping
  <1>. QED
    BY <1>1, <1>2, <1>3, <1>4, <1>5, <1>6, <1>7, <1>8, <1>9
       DEF ClaimParts, NamesBacked, DropsUnnamed, At

(* Its directory is made.                                                  *)
LEMMA DirMade ==
    ASSUME ClaimInv, ClaimParts, TypeOK', NEW w \in Writer, At(w, {"mkdir"}), Goto(w, "files"),
           UNCHANGED name, call[w].id \notin DirNames,
           dir' = dir \cup {<<call[w].id, call[w].inst>>}
    PROVE  ClaimParts'
  <1>. DEFINE n == call[w].id
              i == call[w].inst
  <1>a. n \in Name /\ i \in Inst  BY CallFields DEF ClaimInv, At, Stages
  <1>b. /\ call'[w].at = "files" /\ call'[w].id = n /\ call'[w].inst = i
        /\ \A v \in Writer \ {w} : call'[v] = call[v]
    BY StageMoves DEF ClaimInv, At, Stages
  <1>c. \A v \in Writer : At(v, Stages) => call[v].id \in Name /\ call[v].inst \in Inst
    BY CallFields DEF ClaimInv
  <1>1. ClaimsHeld'
    BY <1>a, <1>b, <1>c DEF ClaimsHeld, ClaimParts, At, Claiming
  <1>2. ClaimsApart'
    BY <1>a, <1>b, <1>c DEF ClaimsApart, ClaimParts, At, Claiming
  <1>3. DirsNamed'
    BY <1>b DEF ClaimsHeld, DirsNamed, ClaimParts, At, Claiming, Dropping
  <1>4. ASSUME NEW m \in Name, NEW j \in Inst, name'[j] = m
        PROVE  \/ <<m, j>> \in dir'
               \/ \E v \in Writer : call'[v].at \in {"mkdir", "clear"} /\ call'[v].inst = j
    <2>1. CASE <<m, j>> \in dir  BY <2>1
    <2>2. CASE \E v \in Writer : At(v, {"mkdir", "clear"}) /\ call[v].inst = j
      <3>1. PICK v \in Writer : At(v, {"mkdir", "clear"}) /\ call[v].inst = j  BY <2>2
      <3>2. CASE v = w
        <4>1. name[i] = n  BY DEF ClaimParts, ClaimsHeld, Claiming, At
        <4>. QED  BY <1>4, <3>1, <3>2, <4>1
      <3>3. CASE v # w  BY <1>b, <3>1, <3>3 DEF At
      <3>. QED  BY <3>2, <3>3
    <2>. QED  BY <1>4, <2>1, <2>2 DEF ClaimParts, NamesBacked
  <1>5. FilesMade'
    BY <1>a, <1>b, <1>c DEF FilesMade, ClaimParts, At
  <1>6. DropsHeld'
    BY <1>a, <1>b, <1>c DEF DropsHeld, ClaimParts, At
  <1>7. DropsApart'
    BY <1>a, <1>b, <1>c DEF DropsApart, ClaimParts, At
  <1>8. ASSUME NEW u \in Writer, NEW j \in Inst, At(u, {"clean", "rmdir"})', name'[j] = call'[u].id
        PROVE  \E v \in Writer : call'[v].at \in {"mkdir", "clear"} /\ call'[v].inst = j
    <2>1. u # w /\ At(u, {"clean", "rmdir"}) /\ name[j] = call[u].id  BY <1>b, <1>8 DEF At
    <2>2. PICK v \in Writer : At(v, {"mkdir", "clear"}) /\ call[v].inst = j
      BY <2>1 DEF ClaimParts, DropsUnnamed
    <2>3. CASE v = w
      <3>1. name[i] = n  BY DEF ClaimParts, ClaimsHeld, Claiming, At
      <3>2. <<n, call[u].inst>> \in dir  BY <2>1, <2>2, <2>3, <3>1 DEF ClaimParts, DropsHeld
      <3>3. <<n, call[u].inst>>[1] = n  OBVIOUS
      <3>. QED  BY <3>2, <3>3 DEF DirNames
    <2>4. CASE v # w  BY <1>b, <2>2, <2>4 DEF At
    <2>. QED  BY <2>3, <2>4
  <1>9. MakesFresh'
    BY <1>b DEF ClaimsApart, MakesFresh, ClaimParts, At, Claiming, Dropping
  <1>. QED
    BY <1>1, <1>2, <1>3, <1>4, <1>5, <1>6, <1>7, <1>8, <1>9
       DEF ClaimParts, NamesBacked, DropsUnnamed, At

(* Or is refused.                                                          *)
LEMMA DirRefused ==
    ASSUME ClaimInv, ClaimParts, TypeOK', NEW w \in Writer, At(w, {"mkdir"}), Goto(w, "clear"),
           UNCHANGED <<name, dir>>
    PROVE  ClaimParts'
  <1>. DEFINE n == call[w].id
              i == call[w].inst
  <1>a. n \in Name /\ i \in Inst  BY CallFields DEF ClaimInv, At, Stages
  <1>b. /\ call'[w].at = "clear" /\ call'[w].id = n /\ call'[w].inst = i
        /\ \A v \in Writer \ {w} : call'[v] = call[v]
    BY StageMoves DEF ClaimInv, At, Stages
  <1>c. \A v \in Writer : At(v, Stages) => call[v].id \in Name /\ call[v].inst \in Inst
    BY CallFields DEF ClaimInv
  <1>1. ClaimsHeld'
    BY <1>a, <1>b, <1>c DEF ClaimsHeld, ClaimParts, At, Claiming
  <1>2. ClaimsApart'
    BY <1>a, <1>b, <1>c DEF ClaimsApart, ClaimParts, At, Claiming
  <1>3. DirsNamed'
    BY <1>a, <1>b, <1>c DEF DirsNamed, ClaimParts, At, Dropping
  <1>4. ASSUME NEW m \in Name, NEW j \in Inst, name'[j] = m
        PROVE  \/ <<m, j>> \in dir'
               \/ \E v \in Writer : call'[v].at \in {"mkdir", "clear"} /\ call'[v].inst = j
    BY <1>a, <1>b, <1>c, <1>4 DEF ClaimParts, NamesBacked, At
  <1>5. FilesMade'
    BY <1>a, <1>b, <1>c DEF FilesMade, ClaimParts, At
  <1>6. DropsHeld'
    BY <1>a, <1>b, <1>c DEF DropsHeld, ClaimParts, At
  <1>7. DropsApart'
    BY <1>a, <1>b, <1>c DEF DropsApart, ClaimParts, At
  <1>8. ASSUME NEW u \in Writer, NEW j \in Inst, At(u, {"clean", "rmdir"})', name'[j] = call'[u].id
        PROVE  \E v \in Writer : call'[v].at \in {"mkdir", "clear"} /\ call'[v].inst = j
    BY <1>a, <1>b, <1>c, <1>8 DEF ClaimParts, DropsUnnamed, At
  <1>9. MakesFresh'
    BY <1>a, <1>b, <1>c DEF MakesFresh, ClaimParts, At, Dropping
  <1>. QED
    BY <1>1, <1>2, <1>3, <1>4, <1>5, <1>6, <1>7, <1>8, <1>9
       DEF ClaimParts, NamesBacked, DropsUnnamed, At

(* The files of a directory cannot be made: it goes.                       *)
LEMMA FilesFailed ==
    ASSUME ClaimInv, ClaimParts, TypeOK', NEW w \in Writer, At(w, {"files"}), Goto(w, "clear"),
           UNCHANGED name, dir' = dir \ {<<call[w].id, call[w].inst>>}
    PROVE  ClaimParts'
  <1>. DEFINE n == call[w].id
              i == call[w].inst
  <1>a. n \in Name /\ i \in Inst  BY CallFields DEF ClaimInv, At, Stages
  <1>b. /\ call'[w].at = "clear" /\ call'[w].id = n /\ call'[w].inst = i
        /\ \A v \in Writer \ {w} : call'[v] = call[v]
    BY StageMoves DEF ClaimInv, At, Stages
  <1>c. \A v \in Writer : At(v, Stages) => call[v].id \in Name /\ call[v].inst \in Inst
    BY CallFields DEF ClaimInv
  <1>1. ClaimsHeld'
    BY <1>a, <1>b, <1>c DEF ClaimsHeld, ClaimParts, At, Claiming
  <1>2. ClaimsApart'
    BY <1>a, <1>b, <1>c DEF ClaimsApart, ClaimParts, At, Claiming
  <1>3. DirsNamed'
    BY <1>a, <1>b, <1>c DEF DirsNamed, ClaimParts, At, Dropping
  <1>4. ASSUME NEW m \in Name, NEW j \in Inst, name'[j] = m
        PROVE  \/ <<m, j>> \in dir'
               \/ \E v \in Writer : call'[v].at \in {"mkdir", "clear"} /\ call'[v].inst = j
    BY <1>a, <1>b, <1>c, <1>4 DEF ClaimParts, NamesBacked, At
  <1>5. FilesMade'
    BY <1>b DEF ClaimsApart, FilesMade, ClaimParts, At, Claiming
  <1>6. DropsHeld'
    BY <1>a, <1>b DEF ClaimsHeld, ClaimsApart, DropsHeld, DropsUnnamed, ClaimParts, At, Claiming
  <1>7. DropsApart'
    BY <1>a, <1>b, <1>c DEF DropsApart, ClaimParts, At
  <1>8. ASSUME NEW u \in Writer, NEW j \in Inst, At(u, {"clean", "rmdir"})', name'[j] = call'[u].id
        PROVE  \E v \in Writer : call'[v].at \in {"mkdir", "clear"} /\ call'[v].inst = j
    BY <1>a, <1>b, <1>c, <1>8 DEF ClaimParts, DropsUnnamed, At
  <1>9. MakesFresh'
    BY <1>a, <1>b, <1>c DEF MakesFresh, ClaimParts, At, Dropping
  <1>. QED
    BY <1>1, <1>2, <1>3, <1>4, <1>5, <1>6, <1>7, <1>8, <1>9
       DEF ClaimParts, NamesBacked, DropsUnnamed, At

(* A creation ends well.                                                   *)
LEMMA Created ==
    ASSUME ClaimInv, ClaimParts, TypeOK', NEW w \in Writer, At(w, {"files"}), Return(w),
           UNCHANGED <<name, dir>>
    PROVE  ClaimParts'
  <1>. DEFINE n == call[w].id
              i == call[w].inst
  <1>a. n \in Name /\ i \in Inst  BY CallFields DEF ClaimInv, At, Stages
  <1>b. call'[w] = Idle /\ \A v \in Writer \ {w} : call'[v] = call[v]
    BY DEF Return, ClaimInv, TypeOK
  <1>c. \A v \in Writer : At(v, Stages) => call[v].id \in Name /\ call[v].inst \in Inst
    BY CallFields DEF ClaimInv
  <1>1. ClaimsHeld'
    BY <1>a, <1>b, <1>c
       DEF ClaimsHeld, ClaimParts, At, Claiming, ClaimInv, TypeOK, Idle, Removed, Stages
  <1>2. ClaimsApart'
    BY <1>a, <1>b, <1>c
       DEF ClaimsApart, ClaimParts, At, Claiming, ClaimInv, TypeOK, Idle, Removed, Stages
  <1>3. DirsNamed'
    BY <1>a, <1>b, <1>c DEF DirsNamed, ClaimParts, At, Dropping
  <1>4. ASSUME NEW m \in Name, NEW j \in Inst, name'[j] = m
        PROVE  \/ <<m, j>> \in dir'
               \/ \E v \in Writer : call'[v].at \in {"mkdir", "clear"} /\ call'[v].inst = j
    BY <1>a, <1>b, <1>c, <1>4 DEF ClaimParts, NamesBacked, At
  <1>5. FilesMade'
    BY <1>a, <1>b, <1>c DEF FilesMade, ClaimParts, At, ClaimInv, TypeOK, Idle, Removed, Stages
  <1>6. DropsHeld'
    BY <1>a, <1>b, <1>c DEF DropsHeld, ClaimParts, At, ClaimInv, TypeOK, Idle, Removed, Stages
  <1>7. DropsApart'
    BY <1>a, <1>b, <1>c DEF DropsApart, ClaimParts, At, ClaimInv, TypeOK, Idle, Removed, Stages
  <1>8. ASSUME NEW u \in Writer, NEW j \in Inst, At(u, {"clean", "rmdir"})', name'[j] = call'[u].id
        PROVE  \E v \in Writer : call'[v].at \in {"mkdir", "clear"} /\ call'[v].inst = j
    BY <1>a, <1>b, <1>c, <1>8
       DEF ClaimParts, DropsUnnamed, At, ClaimInv, TypeOK, Idle, Removed, Stages
  <1>9. MakesFresh'
    BY <1>a, <1>b, <1>c
       DEF MakesFresh, ClaimParts, At, Dropping, ClaimInv, TypeOK, Idle, Removed, Stages
  <1>. QED
    BY <1>1, <1>2, <1>3, <1>4, <1>5, <1>6, <1>7, <1>8, <1>9
       DEF ClaimParts, NamesBacked, DropsUnnamed, At

(* A claim is given back.                                                  *)
LEMMA ClaimGiven ==
    ASSUME ClaimInv, ClaimParts, TypeOK', NEW w \in Writer, At(w, {"clear"}), Return(w),
           UNCHANGED dir, name' = [name EXCEPT ![call[w].inst] = None]
    PROVE  ClaimParts'
  <1>. DEFINE n == call[w].id
              i == call[w].inst
  <1>a. n \in Name /\ i \in Inst  BY CallFields DEF ClaimInv, At, Stages
  <1>b. call'[w] = Idle /\ \A v \in Writer \ {w} : call'[v] = call[v]
    BY DEF Return, ClaimInv, TypeOK
  <1>c. \A v \in Writer : At(v, Stages) => call[v].id \in Name /\ call[v].inst \in Inst
    BY CallFields DEF ClaimInv
  <1>1. ClaimsHeld'
    BY <1>b DEF ClaimsHeld, ClaimsApart, ClaimParts, At, Claiming, Idle
  <1>2. ClaimsApart'
    BY <1>a, <1>b, <1>c
       DEF ClaimsApart, ClaimParts, At, Claiming, ClaimInv, TypeOK, Idle, Removed, Stages
  <1>3. DirsNamed'
    BY <1>b DEF ClaimsHeld, DirsNamed, MakesFresh, ClaimParts, At, Claiming, Dropping
  <1>4. ASSUME NEW m \in Name, NEW j \in Inst, name'[j] = m
        PROVE  \/ <<m, j>> \in dir'
               \/ \E v \in Writer : call'[v].at \in {"mkdir", "clear"} /\ call'[v].inst = j
    BY NodesAssumption, <1>a, <1>b, <1>c, <1>4
       DEF ClaimParts, NamesBacked, At, ClaimInv, DirsUnique, TypeOK, Idle, Building, Removed,
           Stages
  <1>5. FilesMade'
    BY <1>a, <1>b, <1>c DEF FilesMade, ClaimParts, At, ClaimInv, TypeOK, Idle, Removed, Stages
  <1>6. DropsHeld'
    BY <1>a, <1>b, <1>c DEF DropsHeld, ClaimParts, At, ClaimInv, TypeOK, Idle, Removed, Stages
  <1>7. DropsApart'
    BY <1>a, <1>b, <1>c DEF DropsApart, ClaimParts, At, ClaimInv, TypeOK, Idle, Removed, Stages
  <1>8. ASSUME NEW u \in Writer, NEW j \in Inst, At(u, {"clean", "rmdir"})', name'[j] = call'[u].id
        PROVE  \E v \in Writer : call'[v].at \in {"mkdir", "clear"} /\ call'[v].inst = j
    BY NodesAssumption, <1>a, <1>b, <1>c, <1>8
       DEF ClaimParts, NamesBacked, DropsUnnamed, At, ClaimInv, DirsUnique, TypeOK, Idle,
           Building, Removed, Stages
  <1>9. MakesFresh'
    BY <1>a, <1>b, <1>c
       DEF MakesFresh, ClaimParts, At, Dropping, ClaimInv, TypeOK, Idle, Removed, Stages
  <1>. QED
    BY <1>1, <1>2, <1>3, <1>4, <1>5, <1>6, <1>7, <1>8, <1>9
       DEF ClaimParts, NamesBacked, DropsUnnamed, At

(* A removal takes the name of its container away.                         *)
LEMMA NameTaken ==
    ASSUME ClaimInv, ClaimParts, TypeOK', NEW w \in Writer, At(w, {"unname"}), Goto(w, "clean"),
           UNCHANGED dir, name' = [name EXCEPT ![call[w].inst] = None],
           name[call[w].inst] = call[w].id, ~Building(call[w].inst)
    PROVE  ClaimParts'
  <1>. DEFINE n == call[w].id
              i == call[w].inst
  <1>a. n \in Name /\ i \in Inst  BY CallFields DEF ClaimInv, At, Stages
  <1>b. /\ call'[w].at = "clean" /\ call'[w].id = n /\ call'[w].inst = i
        /\ \A v \in Writer \ {w} : call'[v] = call[v]
    BY StageMoves DEF ClaimInv, At, Stages
  <1>c. \A v \in Writer : At(v, Stages) => call[v].id \in Name /\ call[v].inst \in Inst
    BY CallFields DEF ClaimInv
  <1>1. ClaimsHeld'
    BY <1>a, <1>b, <1>c
       DEF ClaimsHeld, NamesBacked, FilesMade, DropsHeld, ClaimParts, At, Claiming, ClaimInv,
           DirsUnique, TypeOK, Idle, Building, Removed, Stages
  <1>2. ClaimsApart'
    BY <1>a, <1>b, <1>c DEF ClaimsApart, ClaimParts, At, Claiming
  <1>3. DirsNamed'
    BY <1>a, <1>b, <1>c DEF DirsNamed, ClaimParts, At, Dropping
  <1>4. ASSUME NEW m \in Name, NEW j \in Inst, name'[j] = m
        PROVE  \/ <<m, j>> \in dir'
               \/ \E v \in Writer : call'[v].at \in {"mkdir", "clear"} /\ call'[v].inst = j
    BY NodesAssumption, <1>a, <1>b, <1>c, <1>4
       DEF ClaimParts, NamesBacked, At, ClaimInv, DirsUnique, TypeOK, Idle, Building, Removed,
           Stages
  <1>5. FilesMade'
    BY <1>a, <1>b, <1>c DEF FilesMade, ClaimParts, At
  <1>6. DropsHeld'
    BY <1>a, <1>b, <1>c
       DEF NamesBacked, FilesMade, DropsHeld, ClaimParts, At, ClaimInv, DirsUnique, TypeOK,
           Idle, Building, Removed, Stages
  <1>7. DropsApart'
    BY <1>a, <1>b DEF DropsApart, DropsUnnamed, ClaimParts, At, Building
  <1>8. ASSUME NEW u \in Writer, NEW j \in Inst, At(u, {"clean", "rmdir"})', name'[j] = call'[u].id
        PROVE  \E v \in Writer : call'[v].at \in {"mkdir", "clear"} /\ call'[v].inst = j
    <2>1. j # i  BY <1>a, <1>8, <1>c, <1>b, NodesAssumption DEF ClaimInv, TypeOK, At, Stages
    <2>2. name[j] = call'[u].id  BY <1>8, <1>a, <2>1 DEF ClaimInv, TypeOK
    <2>3. \E v \in Writer : At(v, {"mkdir", "clear"}) /\ call[v].inst = j
      <3>1. CASE u = w
        <4>1. <<n, i>> \in dir  BY <1>a DEF ClaimParts, NamesBacked, Building, At
        <4>2. <<n, j>> \notin dir  BY <1>a, <2>1, <4>1 DEF ClaimInv, DirsUnique
        <4>3. name[j] = n  BY <1>b, <2>2, <3>1
        <4>. QED  BY <1>a, <4>2, <4>3 DEF ClaimParts, NamesBacked
      <3>2. CASE u # w  BY <1>b, <1>8, <2>2, <3>2 DEF ClaimParts, DropsUnnamed, At
      <3>. QED  BY <3>1, <3>2
    <2>. QED  BY <1>b, <2>3 DEF At
  <1>9. MakesFresh'
    BY <1>a, <1>b, <1>c DEF MakesFresh, ClaimParts, At, Dropping
  <1>. QED
    BY <1>1, <1>2, <1>3, <1>4, <1>5, <1>6, <1>7, <1>8, <1>9
       DEF ClaimParts, NamesBacked, DropsUnnamed, At

(* It has cleaned the tasks.                                               *)
LEMMA Cleaned ==
    ASSUME ClaimInv, ClaimParts, TypeOK', NEW w \in Writer, At(w, {"clean"}), Goto(w, "rmdir"),
           UNCHANGED <<name, dir>>
    PROVE  ClaimParts'
  <1>. DEFINE n == call[w].id
              i == call[w].inst
  <1>a. n \in Name /\ i \in Inst  BY CallFields DEF ClaimInv, At, Stages
  <1>b. /\ call'[w].at = "rmdir" /\ call'[w].id = n /\ call'[w].inst = i
        /\ \A v \in Writer \ {w} : call'[v] = call[v]
    BY StageMoves DEF ClaimInv, At, Stages
  <1>c. \A v \in Writer : At(v, Stages) => call[v].id \in Name /\ call[v].inst \in Inst
    BY CallFields DEF ClaimInv
  <1>1. ClaimsHeld'
    BY <1>a, <1>b, <1>c DEF ClaimsHeld, ClaimParts, At, Claiming
  <1>2. ClaimsApart'
    BY <1>a, <1>b, <1>c DEF ClaimsApart, ClaimParts, At, Claiming
  <1>3. DirsNamed'
    BY <1>a, <1>b, <1>c DEF DirsNamed, ClaimParts, At, Dropping
  <1>4. ASSUME NEW m \in Name, NEW j \in Inst, name'[j] = m
        PROVE  \/ <<m, j>> \in dir'
               \/ \E v \in Writer : call'[v].at \in {"mkdir", "clear"} /\ call'[v].inst = j
    BY <1>a, <1>b, <1>c, <1>4 DEF ClaimParts, NamesBacked, At
  <1>5. FilesMade'
    BY <1>a, <1>b, <1>c DEF FilesMade, ClaimParts, At
  <1>6. DropsHeld'
    BY <1>a, <1>b, <1>c DEF DropsHeld, ClaimParts, At
  <1>7. DropsApart'
    BY <1>a, <1>b, <1>c DEF DropsApart, ClaimParts, At
  <1>8. ASSUME NEW u \in Writer, NEW j \in Inst, At(u, {"clean", "rmdir"})', name'[j] = call'[u].id
        PROVE  \E v \in Writer : call'[v].at \in {"mkdir", "clear"} /\ call'[v].inst = j
    BY <1>a, <1>b, <1>c, <1>8 DEF ClaimParts, DropsUnnamed, At
  <1>9. MakesFresh'
    BY <1>a, <1>b, <1>c DEF MakesFresh, ClaimParts, At, Dropping
  <1>. QED
    BY <1>1, <1>2, <1>3, <1>4, <1>5, <1>6, <1>7, <1>8, <1>9
       DEF ClaimParts, NamesBacked, DropsUnnamed, At

(* It removes the directory.                                               *)
LEMMA DirRemoved ==
    ASSUME ClaimInv, ClaimParts, TypeOK', NEW w \in Writer, At(w, {"rmdir"}), Return(w),
           UNCHANGED name, dir' = dir \ Removed(call[w].id)
    PROVE  ClaimParts'
  <1>. DEFINE n == call[w].id
              i == call[w].inst
  <1>a. n \in Name /\ i \in Inst  BY CallFields DEF ClaimInv, At, Stages
  <1>b. call'[w] = Idle /\ \A v \in Writer \ {w} : call'[v] = call[v]
    BY DEF Return, ClaimInv, TypeOK
  <1>c. \A v \in Writer : At(v, Stages) => call[v].id \in Name /\ call[v].inst \in Inst
    BY CallFields DEF ClaimInv
  <1>1. ClaimsHeld'
    BY <1>a, <1>b, <1>c
       DEF ClaimsHeld, ClaimParts, At, Claiming, ClaimInv, TypeOK, Idle, Removed, Stages
  <1>2. ClaimsApart'
    BY <1>a, <1>b, <1>c
       DEF ClaimsApart, ClaimParts, At, Claiming, ClaimInv, TypeOK, Idle, Removed, Stages
  <1>3. DirsNamed'
    BY <1>a, <1>b, <1>c
       DEF DirsNamed, ClaimParts, At, Dropping, ClaimInv, TypeOK, Idle, Removed, Stages
  <1>4. ASSUME NEW m \in Name, NEW j \in Inst, name'[j] = m
        PROVE  \/ <<m, j>> \in dir'
               \/ \E v \in Writer : call'[v].at \in {"mkdir", "clear"} /\ call'[v].inst = j
    BY <1>a, <1>b, <1>c, <1>4, NodesAssumption
       DEF ClaimParts, NamesBacked, DropsUnnamed, At, ClaimInv, DirsUnique, TypeOK, Idle,
           Building, Removed, Stages, Claiming
  <1>5. FilesMade'
    BY <1>b, <1>c
       DEF ClaimsHeld, ClaimsApart, FilesMade, DropsUnnamed, ClaimParts, At, Claiming, Idle,
           Removed, Stages
  <1>6. DropsHeld'
    BY <1>b DEF DropsHeld, DropsApart, ClaimParts, At, Idle, Removed
  <1>7. DropsApart'
    BY <1>a, <1>b, <1>c DEF DropsApart, ClaimParts, At, ClaimInv, TypeOK, Idle, Removed, Stages
  <1>8. ASSUME NEW u \in Writer, NEW j \in Inst, At(u, {"clean", "rmdir"})', name'[j] = call'[u].id
        PROVE  \E v \in Writer : call'[v].at \in {"mkdir", "clear"} /\ call'[v].inst = j
    BY <1>a, <1>b, <1>c, <1>8
       DEF ClaimParts, DropsUnnamed, At, ClaimInv, TypeOK, Idle, Removed, Stages
  <1>9. MakesFresh'
    BY <1>a, <1>b, <1>c
       DEF MakesFresh, ClaimParts, At, Dropping, ClaimInv, TypeOK, Idle, Removed, Stages
  <1>. QED
    BY <1>1, <1>2, <1>3, <1>4, <1>5, <1>6, <1>7, <1>8, <1>9
       DEF ClaimParts, NamesBacked, DropsUnnamed, At

-----------------------------------------------------------------------------
(* Every step keeps the invariant of the claims.                           *)
LEMMA ClaimInductive == ClaimInv /\ [Next]_vars => ClaimInv'
  <1>. SUFFICES ASSUME ClaimInv, [Next]_vars PROVE ClaimInv'  OBVIOUS
  <1>1. TypeOK' /\ DirsUnique'  BY TypeInductive, DirsInductive DEF ClaimInv
  <1>. SUFFICES ASSUME Without({"clash"})' PROVE ClaimParts'  BY <1>1 DEF ClaimInv
  <1>2. ClaimParts  BY TroubleGrows DEF ClaimInv, Without
  <1>3. TypeOK  BY DEF ClaimInv
  <1>4. ASSUME NEW w \in Writer, NEW next \in CallStates, call' = [call EXCEPT ![w] = next],
               ~At(w, Held), next.at \notin Held, UNCHANGED <<name, dir>>
        PROVE  ClaimParts'
    <2>1. Steady  BY <1>3, <1>4, CallSet DEF Steady, At
    <2>. QED  BY <1>2, <2>1, ClaimsSteady
  <1>5. ASSUME NEW w \in Writer, NEW n \in Name, CreateFind(w, n)  PROVE ClaimParts'
    <2>. DEFINE next == [at |-> "name", id |-> n, inst |-> Lookup(None)]
    <2>1. Lookup(None) \in Inst  BY <1>5, LookupMatches DEF CreateFind, Matches
    <2>2. next \in CallStates /\ next.at \notin Held  BY <2>1 DEF CallStates, Held
    <2>3. ~At(w, Held)  BY <1>5 DEF CreateFind, Begins, Idle, At, Held
    <2>4. call' = [call EXCEPT ![w] = next] /\ UNCHANGED <<name, dir>>  BY <1>5 DEF CreateFind
    <2>. HIDE DEF next
    <2>. QED  BY <1>4, <2>2, <2>3, <2>4
  <1>6. ASSUME NEW w \in Writer, NEW n \in Name, DestroyFind(w, n)  PROVE ClaimParts'
    <2>. DEFINE next == [at |-> "unname", id |-> n, inst |-> Lookup(n)]
    <2>1. Lookup(n) \in Inst  BY <1>6, LookupMatches DEF DestroyFind, Matches
    <2>2. next \in CallStates /\ next.at \notin Held  BY <2>1 DEF CallStates, Held
    <2>3. ~At(w, Held)  BY <1>6 DEF DestroyFind, Begins, Idle, At, Held
    <2>4. call' = [call EXCEPT ![w] = next] /\ UNCHANGED <<name, dir>>  BY <1>6 DEF DestroyFind
    <2>. HIDE DEF next
    <2>. QED  BY <1>4, <2>2, <2>3, <2>4
  <1>7. ASSUME NEW w \in Writer, CreateName(w)  PROVE ClaimParts'
    <2>1. CASE Goto(w, "mkdir") /\ name' = [name EXCEPT ![call[w].inst] = call[w].id]
                /\ "clash" \notin If("clash", name[call[w].inst] # None)
      BY <1>1, <1>2, <1>7, <2>1, NameClaimed DEF CreateName, If
    <2>2. CASE Return(w) /\ UNCHANGED name
      <3>1. Idle \in CallStates /\ Idle.at \notin Held  BY DEF CallStates, Idle, Held
      <3>. QED  BY <1>4, <1>7, <2>2, <3>1 DEF CreateName, Return, At, Held
    <2>. QED  BY <1>7, <2>1, <2>2 DEF CreateName, Note, Without
  <1>8. ASSUME NEW w \in Writer, CreateMkdir(w)  PROVE ClaimParts'
    BY <1>1, <1>2, <1>8, DirMade, DirRefused DEF CreateMkdir
  <1>9. ASSUME NEW w \in Writer, CreateFiles(w)  PROVE ClaimParts'
    BY <1>1, <1>2, <1>9, Created, FilesFailed DEF CreateFiles
  <1>10. ASSUME NEW w \in Writer, CreateClear(w)  PROVE ClaimParts'
    BY <1>1, <1>2, <1>10, ClaimGiven DEF CreateClear
  <1>11. ASSUME NEW w \in Writer, DestroyUnname(w)  PROVE ClaimParts'
    <2>1. name[call[w].inst] = call[w].id /\ ~Building(call[w].inst)
      BY <1>11 DEF DestroyUnname, Note, If, Without
    <2>. QED  BY <1>1, <1>2, <1>11, <2>1, NameTaken DEF DestroyUnname
  <1>12. ASSUME NEW w \in Writer, DestroyClean(w)  PROVE ClaimParts'
    BY <1>1, <1>2, <1>12, Cleaned DEF DestroyClean
  <1>13. ASSUME NEW w \in Writer, DestroyRmdir(w)  PROVE ClaimParts'
    BY <1>1, <1>2, <1>13, DirRemoved DEF DestroyRmdir
  <1>14. ASSUME NEW w \in Writer, NEW n \in 1 .. NInst, MaxInstCheck(w, n)  PROVE ClaimParts'
    <2>. DEFINE next == [at |-> "setmax", value |-> n]
    <2>1. next \in CallStates /\ next.at \notin Held  BY DEF CallStates, Held
    <2>2. ~At(w, Held)  BY <1>14 DEF MaxInstCheck, Begins, Idle, At, Held
    <2>3. call' = [call EXCEPT ![w] = next] /\ UNCHANGED <<name, dir>>
      BY <1>14 DEF MaxInstCheck
    <2>. HIDE DEF next
    <2>. QED  BY <1>4, <2>1, <2>2, <2>3
  <1>15. ASSUME NEW w \in Writer, MaxInstSet(w)  PROVE ClaimParts'
    <2>1. Idle \in CallStates /\ Idle.at \notin Held  BY DEF CallStates, Idle, Held
    <2>. QED  BY <1>4, <1>15, <2>1 DEF MaxInstSet, Return, At, Held
  <1>16. ASSUME UNCHANGED <<name, dir, call>>  PROVE ClaimParts'
    BY <1>2, <1>16, ClaimsSteady DEF Steady, At
  <1>. QED  BY <1>5, <1>6, <1>7, <1>8, <1>9, <1>10, <1>11, <1>12, <1>13, <1>14, <1>15, <1>16
            DEF Next, vars, TaskOpen, TaskClose

(* What SeparateInstances, NoLostInstance and half of DirectoryIsFound say *)
(* follows from it.                                                        *)
LEMMA ClaimsSeparate == ClaimInv => SeparateInstances
  <1>. SUFFICES ASSUME ClaimInv, Without({"clash"}),
                       NEW d \in dir, NEW e \in dir, d # e, d[2] = e[2]
                PROVE  Leaving(d[1]) \/ Leaving(e[1])
    BY DEF SeparateInstances
  <1>1. /\ d = <<d[1], d[2]>> /\ d[1] \in Name /\ d[2] \in Inst
        /\ e = <<e[1], e[2]>> /\ e[1] \in Name
    BY DEF ClaimInv, TypeOK
  <1>2. /\ name[d[2]] = d[1] \/ Dropping(d[1])
        /\ name[d[2]] = e[1] \/ Dropping(e[1])
    BY <1>1 DEF ClaimInv, ClaimParts, DirsNamed
  <1>. QED  BY <1>1, <1>2 DEF Dropping, Leaving, At

LEMMA ClaimsNotLost == ClaimInv => NoLostInstance
  BY NodesAssumption DEF ClaimInv, ClaimParts, NamesBacked, NoLostInstance, TypeOK, At

(* max_inst.  A name is given to an instance below it, and it is set while *)
(* there is no name, unless the history says otherwise.                    *)
LEMMA BelowInductive == TypeOK /\ NamesBelow /\ [Next]_vars => NamesBelow'
  <1>. SUFFICES ASSUME TypeOK, NamesBelow, [Next]_vars, Without({"maxInst"})',
                       NEW i \in Inst, name'[i] # None
                PROVE  i < maxInst'
    BY DEF NamesBelow
  <1>1. \A j \in Inst : name[j] # None => j < maxInst
    BY TroubleGrows DEF NamesBelow, Without
  <1>2. ASSUME NEW w \in Writer, CreateName(w)  PROVE i < maxInst'
    <2>1. call[w].inst \in Inst /\ Inst \subseteq Int /\ maxInst \in Int
      BY <1>2, CallFields, NodesAssumption DEF CreateName, At, Stages, Inst, TypeOK
    <2>2. CASE Return(w) /\ UNCHANGED name  BY <1>1, <1>2, <2>2 DEF CreateName
    <2>3. CASE ~(call[w].inst >= maxInst)
      BY <1>1, <1>2, <2>1, <2>3 DEF CreateName, TypeOK
    <2>. QED  BY <1>2, <2>2, <2>3 DEF CreateName, Note, If, Without
  <1>3. ASSUME NEW w \in Writer, MaxInstSet(w)  PROVE i < maxInst'
    BY <1>3 DEF MaxInstSet, Opened, Note, If, Without
  <1>4. ASSUME NEW w \in Writer, CreateClear(w) \/ DestroyUnname(w)  PROVE i < maxInst'
    BY <1>1, <1>4 DEF CreateClear, DestroyUnname, TypeOK
  <1>5. CASE UNCHANGED <<name, maxInst>>  BY <1>1, <1>5
  <1>. QED  BY <1>2, <1>3, <1>4, <1>5
            DEF Next, vars, CreateFind, DestroyFind, CreateMkdir, CreateFiles, DestroyClean,
                DestroyRmdir, MaxInstCheck, TaskOpen, TaskClose

LEMMA DirsFound == ClaimInv /\ NamesBelow => DirectoryIsFound
  <1>. SUFFICES ASSUME ClaimInv, NamesBelow, Without({"clash", "maxInst"}), NEW d \in dir
                PROVE  Leaving(d[1]) \/ d[2] \in Matches(d[1])
    BY DEF DirectoryIsFound
  <1>1. d = <<d[1], d[2]>> /\ d[1] \in Name /\ d[2] \in Inst  BY DEF ClaimInv, TypeOK
  <1>2. name[d[2]] = d[1] \/ Dropping(d[1])
    BY <1>1 DEF ClaimInv, ClaimParts, DirsNamed, Without
  <1>3. name[d[2]] = d[1] => d[2] < maxInst
    BY <1>1, NodesAssumption DEF NamesBelow, Without
  <1>. QED  BY <1>1, <1>2, <1>3 DEF Dropping, Leaving, At, Matches

(* The tenants.  While a container is there, being removed or not, its     *)
(* directory has its instance's name or is on its way out.                 *)
LEMMA TenantsInductive == ClaimInv /\ TenantInv /\ [Next]_vars => TenantInv'
  <1>. SUFFICES ASSUME ClaimInv, TenantInv, [Next]_vars, TaskBound' PROVE TenantInv'
    BY DEF TenantInv
  <1>1. TypeOK /\ TypeOK' /\ DirsUnique  BY TypeInductive DEF ClaimInv
  <1>2. TaskBound /\ ClaimParts  BY TroubleGrows DEF ClaimInv, TaskBound, Without
  <1>3. TenantsApart  BY <1>2 DEF TenantInv
  <1>4. \A v \in Writer : At(v, Stages) => call[v].id \in Name /\ call[v].inst \in Inst
    BY <1>1, CallFields
  (* What is to be shown of the next state.                                *)
  <1>. DEFINE Clean == \A v \in Writer : At(v, {"clean"}) =>
                         /\ name[call[v].inst] = None
                         /\ tasks[call[v].inst] \subseteq {call[v].id}
              Gone == \A v \in Writer : At(v, {"files", "rmdir"}) =>
                         call[v].id \notin tasks[call[v].inst]
              Homes == \A i \in Inst : \A n \in tasks[i] : <<n, i>> \in dir
  <1>5. Clean /\ Gone /\ Homes /\ Without({"wiped"})
    BY <1>2 DEF TenantInv, TenantsApart
  <1>6. Clean' /\ Gone' /\ Homes' /\ Without({"wiped"})' => TenantInv'
    BY DEF TenantInv, TenantsApart
  <1>. HIDE DEF TenantInv
  (* Calls at other stages do not matter.                                  *)
  <1>7. ASSUME UNCHANGED <<name, dir, tasks, trouble>>,
               \A v \in Writer : At(v, {"files", "clean", "rmdir"})' => call'[v] = call[v]
        PROVE  TenantInv'
    BY <1>5, <1>6, <1>7 DEF At, Without
  <1>8. ASSUME NEW w \in Writer, CreateName(w)  PROVE TenantInv'
    <2>. DEFINE n == call[w].id
                i == call[w].inst
    <2>1. n \in Name /\ i \in Inst  BY <1>4, <1>8 DEF CreateName, At, Stages
    <2>2. CASE Return(w) /\ UNCHANGED <<name, trouble>>
      BY <1>1, <1>7, <1>8, <2>2 DEF CreateName, Return, TypeOK, Idle, At
    <2>3. CASE Goto(w, "mkdir") /\ name' = [name EXCEPT ![i] = n] /\ ~Releasing(i)
      <3>1. /\ call'[w].at = "mkdir"
            /\ \A v \in Writer \ {w} : call'[v] = call[v]
        BY <1>1, <1>8, <2>3, StageMoves DEF CreateName, At, Stages
      <3>2. Clean'
        BY <1>1, <1>4, <1>5, <1>8, <2>1, <2>3, <3>1
           DEF CreateName, Releasing, TypeOK, At, Stages
      <3>3. Gone' /\ Homes'  BY <1>5, <1>8, <3>1 DEF CreateName, At
      <3>4. Without({"wiped"})'  BY <1>5, <1>8, <2>3 DEF CreateName, Note, If, Without
      <3>. QED  BY <1>6, <3>2, <3>3, <3>4
    <2>. QED  BY <1>8, <2>2, <2>3 DEF CreateName, Note, If, TaskBound, Without
  <1>9. ASSUME NEW w \in Writer, CreateMkdir(w)  PROVE TenantInv'
    <2>. DEFINE n == call[w].id
                i == call[w].inst
    <2>1. n \in Name /\ i \in Inst  BY <1>4, <1>9 DEF CreateMkdir, At, Stages
    <2>2. CASE n \notin DirNames /\ dir' = dir \cup {<<n, i>>} /\ Goto(w, "files")
      <3>1. /\ call'[w].at = "files" /\ call'[w].id = n /\ call'[w].inst = i
            /\ \A v \in Writer \ {w} : call'[v] = call[v]
        BY <1>1, <1>9, <2>2, StageMoves DEF CreateMkdir, At, Stages
      <3>2. <<n, i>> \notin dir
        <4>1. <<n, i>>[1] = n  OBVIOUS
        <4>. QED  BY <2>2, <4>1 DEF DirNames
      <3>3. n \notin tasks[i]  BY <1>5, <2>1, <3>2
      <3>4. Clean' /\ Gone' /\ Homes' /\ Without({"wiped"})'
        BY <1>5, <1>9, <2>2, <3>1, <3>3 DEF CreateMkdir, At, Without
      <3>. QED  BY <1>6, <3>4
    <2>3. CASE UNCHANGED dir /\ Goto(w, "clear")
      <3>1. /\ call'[w].at = "clear"
            /\ \A v \in Writer \ {w} : call'[v] = call[v]
        BY <1>1, <1>9, <2>3, StageMoves DEF CreateMkdir, At, Stages
      <3>. QED  BY <1>7, <1>9, <2>3, <3>1 DEF CreateMkdir, At
    <2>. QED  BY <1>9, <2>2, <2>3 DEF CreateMkdir
  <1>10. ASSUME NEW w \in Writer, CreateFiles(w)  PROVE TenantInv'
    <2>. DEFINE n == call[w].id
                i == call[w].inst
    <2>1. n \in Name /\ i \in Inst  BY <1>4, <1>10 DEF CreateFiles, At, Stages
    <2>2. CASE UNCHANGED dir /\ Return(w)
      BY <1>1, <1>7, <1>10, <2>2 DEF CreateFiles, Return, TypeOK, Idle, At
    <2>3. CASE dir' = dir \ {<<n, i>>} /\ Goto(w, "clear")
      <3>1. /\ call'[w].at = "clear"
            /\ \A v \in Writer \ {w} : call'[v] = call[v]
        BY <1>1, <1>10, <2>3, StageMoves DEF CreateFiles, At, Stages
      <3>2. n \notin tasks[i]  BY <1>5, <1>10 DEF CreateFiles, At
      <3>3. Homes'  BY <1>5, <1>10, <2>3, <3>2 DEF CreateFiles
      <3>4. Clean' /\ Gone' /\ Without({"wiped"})'
        BY <1>5, <1>10, <3>1 DEF CreateFiles, At, Without
      <3>. QED  BY <1>6, <3>3, <3>4
    <2>. QED  BY <1>10, <2>2, <2>3 DEF CreateFiles
  <1>11. ASSUME NEW w \in Writer, CreateClear(w)  PROVE TenantInv'
    <2>1. call[w].inst \in Inst  BY <1>4, <1>11 DEF CreateClear, At, Stages
    <2>2. call'[w] = Idle /\ \A v \in Writer \ {w} : call'[v] = call[v]
      BY <1>1, <1>11 DEF CreateClear, Return, TypeOK
    <2>3. Clean'
      BY <1>1, <1>4, <1>5, <1>11, <2>1, <2>2 DEF CreateClear, TypeOK, Idle, At, Stages
    <2>4. Gone' /\ Homes' /\ Without({"wiped"})'
      BY <1>5, <1>11, <2>2 DEF CreateClear, Idle, At, Without
    <2>. QED  BY <1>6, <2>3, <2>4
  <1>12. ASSUME NEW w \in Writer, DestroyUnname(w)  PROVE TenantInv'
    <2>. DEFINE n == call[w].id
                i == call[w].inst
    <2>1. n \in Name /\ i \in Inst  BY <1>4, <1>12 DEF DestroyUnname, At, Stages
    <2>2. /\ call'[w].at = "clean" /\ call'[w].id = n /\ call'[w].inst = i
          /\ \A v \in Writer \ {w} : call'[v] = call[v]
      BY <1>1, <1>12, StageMoves DEF DestroyUnname, At, Stages
    <2>3. name[i] = n  BY <1>12 DEF DestroyUnname, Note, If, TaskBound, Without
    <2>4. ASSUME NEW m \in tasks[i]  PROVE m = n
      <3>1. m \in Name /\ <<m, i>> \in dir  BY <1>1, <1>5, <2>1 DEF TypeOK
      <3>2. ASSUME NEW v \in Writer, At(v, {"clean", "rmdir"}), call[v].id = m  PROVE FALSE
        <4>1. call[v].inst = i
          BY <1>1, <1>2, <1>4, <2>1, <3>1, <3>2
             DEF ClaimParts, DropsHeld, DirsUnique, At, Stages
        <4>. QED  BY <1>5, <2>1, <2>3, <3>2, <4>1, NodesAssumption DEF At
      <3>. QED  BY <1>2, <2>1, <2>3, <3>1, <3>2 DEF ClaimParts, DirsNamed, Dropping
    <2>5. Clean'
      BY <1>1, <1>4, <1>5, <1>12, <2>1, <2>2, <2>4 DEF DestroyUnname, TypeOK, At, Stages
    <2>6. Gone' /\ Homes'  BY <1>5, <1>12, <2>2 DEF DestroyUnname, At
    <2>7. Without({"wiped"})'  BY <1>5, <1>12 DEF DestroyUnname, Note, If, Without
    <2>. QED  BY <1>6, <2>5, <2>6, <2>7
  <1>13. ASSUME NEW w \in Writer, DestroyClean(w)  PROVE TenantInv'
    <2>. DEFINE n == call[w].id
                i == call[w].inst
    <2>1. n \in Name /\ i \in Inst  BY <1>4, <1>13 DEF DestroyClean, At, Stages
    <2>2. /\ call'[w].at = "rmdir" /\ call'[w].id = n /\ call'[w].inst = i
          /\ \A v \in Writer \ {w} : call'[v] = call[v]
      BY <1>1, <1>13, StageMoves DEF DestroyClean, At, Stages
    <2>3. tasks' = [tasks EXCEPT ![i] = {}] /\ \A j \in Inst : tasks'[j] \subseteq tasks[j]
      BY <1>1, <1>13, <2>1 DEF DestroyClean, TypeOK
    <2>4. tasks'[i] = {}  BY <1>1, <2>1, <2>3 DEF TypeOK
    <2>5. Clean' /\ Homes'
      BY <1>4, <1>5, <1>13, <2>2, <2>3 DEF DestroyClean, At, Stages
    <2>6. Gone'  BY <1>4, <1>5, <2>2, <2>3, <2>4 DEF At, Stages
    <2>7. Without({"wiped"})'
      BY <1>5, <1>13 DEF DestroyClean, Note, If, Without, At
    <2>. QED  BY <1>6, <2>5, <2>6, <2>7
  <1>14. ASSUME NEW w \in Writer, DestroyRmdir(w)  PROVE TenantInv'
    <2>. DEFINE n == call[w].id
                i == call[w].inst
    <2>1. n \in Name /\ i \in Inst /\ n \notin tasks[i]
      BY <1>4, <1>5, <1>14 DEF DestroyRmdir, At, Stages
    <2>2. call'[w] = Idle /\ \A v \in Writer \ {w} : call'[v] = call[v]
      BY <1>1, <1>14 DEF DestroyRmdir, Return, TypeOK
    <2>3. <<n, i>> \in dir  BY <1>2, <1>14 DEF ClaimParts, DropsHeld, DestroyRmdir, At
    <2>4. ASSUME NEW j \in Inst, NEW m \in tasks[j]  PROVE <<m, j>> \in dir'
      <3>1. m \in Name /\ <<m, j>> \in dir  BY <1>1, <1>5 DEF TypeOK
      <3>2. m # n  BY <1>1, <2>1, <2>3, <3>1 DEF DirsUnique
      <3>3. <<m, j>>[1] = m  OBVIOUS
      <3>. QED  BY <1>14, <3>1, <3>2, <3>3 DEF DestroyRmdir, Removed
    <2>5. Homes'  BY <1>14, <2>4 DEF DestroyRmdir
    <2>6. Clean' /\ Gone' /\ Without({"wiped"})'
      BY <1>5, <1>14, <2>2 DEF DestroyRmdir, Idle, At, Without
    <2>. QED  BY <1>6, <2>5, <2>6
  <1>15. ASSUME NEW n \in Name, NEW i \in Inst, TaskOpen(n, i)  PROVE TenantInv'
    <2>1. ~Leaving(n)  BY <1>15 DEF TaskOpen, Note, If, TaskBound, Without
    <2>2. tasks' = [tasks EXCEPT ![i] = @ \cup {n}]  BY <1>15 DEF TaskOpen
    <2>3. Homes'
      <3>1. ASSUME NEW j \in Inst, NEW m \in tasks'[j]  PROVE <<m, j>> \in dir
        BY <1>1, <1>5, <1>15, <2>2 DEF TaskOpen, TypeOK
      <3>. QED  BY <1>15, <3>1 DEF TaskOpen
    <2>4. ASSUME NEW v \in Writer, At(v, {"clean"})
          PROVE  call[v].inst # i
      <3>1. call[v].id # n  BY <2>1, <2>4 DEF Leaving, At
      <3>2. <<call[v].id, call[v].inst>> \in dir
        BY <1>2, <2>4 DEF ClaimParts, DropsHeld, At
      <3>3. <<n, i>> \in dir  BY <1>15 DEF TaskOpen
      <3>4. name[i] = n \/ Dropping(n)  BY <1>2, <3>3 DEF ClaimParts, DirsNamed
      <3>5. ~Dropping(n)  BY <2>1 DEF Dropping, Leaving, At
      <3>. QED  BY <1>5, <2>4, <3>4, <3>5, NodesAssumption
    <2>5. Clean'  BY <1>1, <1>4, <1>5, <1>15, <2>2, <2>4 DEF TaskOpen, TypeOK, At, Stages
    <2>6. \A v \in Writer : At(v, {"files", "rmdir"}) => call[v].id # n
      BY <1>15, <2>1 DEF TaskOpen, Leaving, At
    <2>7. Gone'  BY <1>1, <1>4, <1>5, <1>15, <2>2, <2>6 DEF TaskOpen, TypeOK, At, Stages
    <2>8. Without({"wiped"})'  BY <1>5, <1>15 DEF TaskOpen, Note, If, Without
    <2>. QED  BY <1>6, <2>3, <2>5, <2>7, <2>8
  <1>16. ASSUME NEW n \in Name, NEW i \in Inst, TaskClose(n, i)  PROVE TenantInv'
    <2>1. \A j \in Inst : tasks'[j] \subseteq tasks[j]  BY <1>1, <1>16 DEF TaskClose, TypeOK
    <2>. QED  BY <1>4, <1>5, <1>6, <1>16, <2>1 DEF TaskClose, At, Stages, Without
  <1>17. ASSUME NEW w \in Writer, MaxInstSet(w)  PROVE TenantInv'
    <2>1. call'[w] = Idle /\ \A v \in Writer \ {w} : call'[v] = call[v]
      BY <1>1, <1>17 DEF MaxInstSet, Return, TypeOK
    <2>2. Without({"wiped"})'  BY <1>5, <1>17 DEF MaxInstSet, Note, If, Without
    <2>. QED  BY <1>5, <1>6, <1>17, <2>1, <2>2 DEF MaxInstSet, Idle, At
  <1>18. ASSUME NEW w \in Writer, NEW n \in Name, CreateFind(w, n) \/ DestroyFind(w, n)
         PROVE  TenantInv'
    <2>1. \A v \in Writer : At(v, {"files", "clean", "rmdir"})' => call'[v] = call[v]
      BY <1>1, <1>18 DEF CreateFind, DestroyFind, TypeOK, At
    <2>. QED  BY <1>7, <1>18, <2>1 DEF CreateFind, DestroyFind
  <1>19. ASSUME NEW w \in Writer, NEW n \in 1 .. NInst, MaxInstCheck(w, n)
         PROVE  TenantInv'
    <2>1. \A v \in Writer : At(v, {"files", "clean", "rmdir"})' => call'[v] = call[v]
      BY <1>1, <1>19 DEF MaxInstCheck, TypeOK, At
    <2>. QED  BY <1>7, <1>19, <2>1 DEF MaxInstCheck
  <1>20. CASE UNCHANGED vars  BY <1>7, <1>20 DEF vars, At
  <1>. QED  BY <1>8, <1>9, <1>10, <1>11, <1>12, <1>13, <1>14, <1>15, <1>16, <1>17, <1>18,
               <1>19, <1>20 DEF Next

-----------------------------------------------------------------------------
(* What holds of every reachable state: the claims, the names' bound, and  *)
(* the tenants.                                                            *)
NodesInv == ClaimInv /\ NamesBelow /\ TenantInv

(* It holds at the start and every step of every writer keeps it.          *)
THEOREM Invariance == Spec => []NodesInv
  <1>1. Init => NodesInv
    <2>. SUFFICES ASSUME Init PROVE NodesInv  OBVIOUS
    <2>1. TypeOK  BY NodesAssumption DEF Init, TypeOK, CallStates
    <2>2. ClaimParts
      BY NodesAssumption DEF Init, ClaimParts, ClaimsHeld, ClaimsApart, DirsNamed,
         NamesBacked, FilesMade, DropsHeld, DropsApart, DropsUnnamed, MakesFresh, Claiming,
         At, Idle
    <2>3. DirsUnique /\ NamesBelow  BY DEF Init, DirsUnique, NamesBelow
    <2>4. TenantInv  BY DEF Init, TenantInv, TenantsApart, At, Idle, Without
    <2>. QED  BY <2>1, <2>2, <2>3, <2>4 DEF NodesInv, ClaimInv
  <1>2. NodesInv /\ [Next]_vars => NodesInv'
    BY ClaimInductive, BelowInductive, TenantsInductive DEF NodesInv, ClaimInv
  <1>. QED  BY <1>1, <1>2, PTL DEF Spec

(* Every variable has its type.                                            *)
THEOREM TypeCorrect == Spec => []TypeOK
  <1>1. NodesInv => TypeOK  BY DEF NodesInv, ClaimInv
  <1>. QED  BY <1>1, Invariance, PTL

(* Two containers never share an instance, but for a directory whose       *)
(* removal is under way, unless one claim was written over another or      *)
(* removed half built.                                                     *)
THEOREM InstancesSeparate == Spec => []SeparateInstances
  <1>1. NodesInv => SeparateInstances  BY ClaimsSeparate DEF NodesInv
  <1>. QED  BY <1>1, Invariance, PTL

(* Every directory is that of the instance its container_id leads to,      *)
(* unless there was a clash or max_inst moved under it.                    *)
THEOREM DirectoriesFound == Spec => []DirectoryIsFound
  <1>1. NodesInv => DirectoryIsFound  BY DirsFound DEF NodesInv
  <1>. QED  BY <1>1, Invariance, PTL

(* An instance that is named has its directory, or a writer at work on it. *)
THEOREM NoInstanceLost == Spec => []NoLostInstance
  <1>1. NodesInv => NoLostInstance  BY ClaimsNotLost DEF NodesInv
  <1>. QED  BY <1>1, Invariance, PTL

(* The tasks of an instance are those of the container whose directory is  *)
(* there, and a removal cleans the tasks of its own container only, under  *)
(* the exclusions TenantsApart names.                                      *)
THEOREM TenantsStayApart == Spec => []TenantsApart
  <1>1. NodesInv => TenantsApart  BY DEF NodesInv, TenantInv, TenantsApart
  <1>. QED  BY <1>1, Invariance, PTL

-----------------------------------------------------------------------------
(* The homes.  Only the steps of a removal change who leaves.              *)
Leaves == {"unname", "clean", "rmdir"}

LEMMA LeavingStays ==
    ASSUME NEW w \in Writer, \A v \in Writer \ {w} : call'[v] = call[v],
           At(w, Leaves)' <=> At(w, Leaves),
           At(w, Leaves) => call'[w].id = call[w].id
    PROVE  \A n \in Name : Leaving(n)' <=> Leaving(n)
  <1>1. \A v \in Writer : At(v, Leaves)' <=> At(v, Leaves)  BY DEF At
  <1>2. \A v \in Writer : At(v, Leaves) => call'[v].id = call[v].id  OBVIOUS
  <1>. QED  BY <1>1, <1>2 DEF Leaving, Leaves

LEMMA SettledStays ==
    ASSUME TypeOK, dir' = dir, \A n \in Name : Leaving(n)' <=> Leaving(n)
    PROVE  Settled' = Settled
  <1>1. \A d \in dir : d[1] \in Name  BY DEF TypeOK
  <1>. QED  BY <1>1 DEF Settled

(* The call of w goes on, or it returns, outside a removal.                *)
LEMMA SettledBeside ==
    ASSUME TypeOK, NEW w \in Writer, At(w, {"name", "mkdir", "files", "clear", "setmax"}),
           Return(w) \/ \E place \in {"mkdir", "files", "clear"} :
                            At(w, Stages) /\ Goto(w, place)
    PROVE  \A n \in Name : Leaving(n)' <=> Leaving(n)
  <1>1. ~At(w, Leaves)  BY DEF At, Leaves
  <1>2. CASE Return(w)
    <2>1. call'[w] = Idle /\ \A v \in Writer \ {w} : call'[v] = call[v]
      BY <1>2 DEF Return, TypeOK
    <2>2. ~At(w, Leaves)'  BY <2>1 DEF At, Leaves, Idle
    <2>. QED  BY <1>1, <2>1, <2>2, LeavingStays
  <1>3. ASSUME NEW place \in {"mkdir", "files", "clear"}, At(w, Stages), Goto(w, place)
        PROVE  \A n \in Name : Leaving(n)' <=> Leaving(n)
    <2>1. call'[w].at = place /\ \A v \in Writer \ {w} : call'[v] = call[v]
      BY <1>3, StageMoves DEF Stages
    <2>2. ~At(w, Leaves)'  BY <2>1 DEF At, Leaves
    <2>. QED  BY <1>1, <2>1, <2>2, LeavingStays
  <1>. QED  BY <1>2, <1>3

(* A new directory settles its container on an instance nobody has.        *)
LEMMA HomeGiven ==
    ASSUME ClaimInv, TenantInv, TaskBound, NEW w \in Writer, CreateMkdir(w)
    PROVE  UNCHANGED <<Settled, tasks>> \/ Tenancy!Settle
  <1>. DEFINE n == call[w].id
              i == call[w].inst
  <1>1. TypeOK /\ DirsUnique /\ ClaimParts /\ TenantsApart
    BY DEF ClaimInv, TenantInv, TaskBound, Without
  <1>2. At(w, {"mkdir"}) /\ At(w, Stages) /\ n \in Name /\ i \in Inst
    BY <1>1, CallFields DEF CreateMkdir, At, Stages
  <1>3. \A m \in Name : Leaving(m)' <=> Leaving(m)
    BY <1>1, <1>2, SettledBeside DEF CreateMkdir, At
  <1>4. CASE dir' = dir  BY <1>1, <1>3, <1>4, SettledStays DEF CreateMkdir
  <1>5. CASE n \notin DirNames /\ dir' = dir \cup {<<n, i>>}
    <2>1. \A d \in dir : d \in Name \X Inst /\ d[1] # n  BY <1>1, <1>5 DEF DirNames, TypeOK
    <2>2. CASE Leaving(n)
      <3>1. Settled' = Settled  BY <1>2, <1>3, <1>5, <2>1, <2>2 DEF Settled
      <3>. QED  BY <3>1 DEF CreateMkdir
    <2>3. CASE ~Leaving(n)
      <3>1. Settled' = Settled \cup {<<n, i>>}  BY <1>2, <1>3, <1>5, <2>1, <2>3 DEF Settled
      <3>2. name[i] = n  BY <1>1, <1>2 DEF ClaimParts, ClaimsHeld, Claiming, At
      <3>3. \A m \in Name : <<m, i>> \in dir => Dropping(m)
        <4>. SUFFICES ASSUME NEW m \in Name, <<m, i>> \in dir  PROVE Dropping(m)
          OBVIOUS
        <4>1. m # n  BY <2>1
        <4>. QED  BY <1>1, <1>2, <3>2, <4>1 DEF ClaimParts, DirsNamed
      <3>4. \A d \in Settled : d[1] # n /\ d[2] # i
        <4>. SUFFICES ASSUME NEW d \in Settled  PROVE d[1] # n /\ d[2] # i
          OBVIOUS
        <4>1. d \in dir /\ ~Leaving(d[1]) /\ d[1] \in Name /\ d[1] # n /\ d = <<d[1], d[2]>>
          BY <2>1 DEF Settled
        <4>2. ~Dropping(d[1])  BY <4>1 DEF Dropping, Leaving, At
        <4>. QED  BY <3>3, <4>1, <4>2
      <3>5. tasks[i] = {}
        <4>. SUFFICES ASSUME NEW m \in tasks[i]  PROVE FALSE  OBVIOUS
        <4>1. m \in Name /\ <<m, i>> \in dir
          BY <1>1, <1>2 DEF TypeOK, TenantsApart, TaskBound
        <4>2. PICK v \in Writer : At(v, {"clean", "rmdir"}) /\ call[v].id = m
          BY <3>3, <4>1 DEF Dropping
        <4>3. call[v].inst = i
          BY <1>1, <1>2, <4>1, <4>2, CallFields
             DEF ClaimParts, DropsHeld, DirsUnique, At, Stages
        <4>4. CASE At(v, {"clean"})
          BY <1>2, <3>2, <4>3, <4>4, NodesAssumption DEF TenantInv
        <4>5. CASE At(v, {"rmdir"})  BY <4>2, <4>3, <4>5 DEF TenantInv, At
        <4>. QED  BY <4>2, <4>4, <4>5 DEF At
      <3>. QED  BY <1>2, <3>1, <3>4, <3>5 DEF Tenancy!Settle, CreateMkdir
    <2>. QED  BY <2>2, <2>3
  <1>. QED  BY <1>4, <1>5 DEF CreateMkdir

(* A directory taken back, or one whose removal begins, is a home lost.    *)
LEMMA HomeTakenBack ==
    ASSUME ClaimInv, TaskBound, NEW w \in Writer, CreateFiles(w)
    PROVE  UNCHANGED <<Settled, tasks>> \/ Tenancy!Expel
  <1>. DEFINE n == call[w].id
              i == call[w].inst
  <1>1. TypeOK /\ DirsUnique /\ ClaimParts  BY DEF ClaimInv, TaskBound, Without
  <1>2. At(w, {"files"}) /\ At(w, Stages) /\ n \in Name /\ i \in Inst
    BY <1>1, CallFields DEF CreateFiles, At, Stages
  <1>3. \A m \in Name : Leaving(m)' <=> Leaving(m)
    BY <1>1, <1>2, SettledBeside DEF CreateFiles, At
  <1>4. CASE dir' = dir  BY <1>1, <1>3, <1>4, SettledStays DEF CreateFiles
  <1>5. CASE dir' = dir \ {<<n, i>>}
    <2>1. <<n, i>> \in dir  BY <1>1, <1>2 DEF ClaimParts, FilesMade
    <2>2. \A d \in dir : d[1] = n <=> d = <<n, i>>
      <3>. SUFFICES ASSUME NEW d \in dir  PROVE d[1] = n <=> d = <<n, i>>
        OBVIOUS
      <3>1. PICK m \in Name, j \in Inst : d = <<m, j>>  BY <1>1 DEF TypeOK
      <3>. QED  BY <1>1, <1>2, <2>1, <3>1 DEF DirsUnique
    <2>3. \A d \in dir : d[1] \in Name  BY <1>1 DEF TypeOK
    <2>4. Settled' = {d \in Settled : d[1] # n}  BY <1>3, <1>5, <2>2, <2>3 DEF Settled
    <2>. QED  BY <1>2, <2>4 DEF Tenancy!Expel, CreateFiles
  <1>. QED  BY <1>4, <1>5 DEF CreateFiles

LEMMA HomeLost ==
    ASSUME TypeOK, NEW w \in Writer, NEW n \in Name, DestroyFind(w, n)
    PROVE  Tenancy!Expel
  <1>1. Lookup(n) \in Inst  BY LookupMatches DEF DestroyFind, Matches
  <1>. DEFINE next == [at |-> "unname", id |-> n, inst |-> Lookup(n)]
  <1>2. next \in CallStates  BY <1>1 DEF CallStates
  <1>3. call'[w] = next /\ \A v \in Writer \ {w} : call'[v] = call[v]
    BY <1>2, CallSet DEF DestroyFind
  <1>4. call[w] = Idle  BY DEF DestroyFind, Begins
  <1>5. \A m \in Name : Leaving(m)' <=> Leaving(m) \/ m = n
    BY <1>3, <1>4 DEF Leaving, At, Idle
  <1>6. \A d \in dir : d[1] \in Name  BY DEF TypeOK
  <1>7. Settled' = {d \in Settled : d[1] # n}  BY <1>5, <1>6 DEF Settled, DestroyFind
  <1>. QED  BY <1>7 DEF Tenancy!Expel, DestroyFind

(* The tasks that are cleaned are those of the container that leaves.      *)
LEMMA HomeSwept ==
    ASSUME ClaimInv, TenantInv, TaskBound, NEW w \in Writer, DestroyClean(w)
    PROVE  Tenancy!Sweep
  <1>. DEFINE n == call[w].id
              i == call[w].inst
  <1>1. TypeOK /\ At(w, {"clean"}) /\ At(w, Stages)
    BY DEF ClaimInv, DestroyClean, At, Stages
  <1>2. n \in Name /\ i \in Inst  BY <1>1, CallFields
  <1>3. /\ call'[w].at = "rmdir" /\ call'[w].id = n
        /\ \A v \in Writer \ {w} : call'[v] = call[v]
    BY <1>1, StageMoves DEF DestroyClean, Stages
  <1>4. At(w, Leaves) /\ At(w, Leaves)'  BY <1>1, <1>3 DEF At, Leaves
  <1>5. Settled' = Settled
    BY <1>1, <1>3, <1>4, LeavingStays, SettledStays DEF DestroyClean
  <1>6. Leaving(n)  BY <1>1 DEF Leaving, At
  <1>7. tasks[i] \subseteq {n}  BY <1>1 DEF TenantInv
  <1>8. <<n, i>> \notin Settled  BY <1>6 DEF Settled
  <1>9. {m \in tasks[i] : <<m, i>> \in Settled} = {}  BY <1>7, <1>8
  <1>10. tasks' = [tasks EXCEPT ![i] = {}]  BY DEF DestroyClean
  <1>. QED  BY <1>2, <1>5, <1>9, <1>10 DEF Tenancy!Sweep

(* The other steps of a removal: the home was lost before.                 *)
LEMMA HomeGone ==
    ASSUME TypeOK, NEW w \in Writer, DestroyUnname(w) \/ DestroyRmdir(w)
    PROVE  UNCHANGED <<Settled, tasks>>
  <1>1. At(w, Stages) /\ At(w, Leaves)
    BY DEF DestroyUnname, DestroyRmdir, At, Stages, Leaves
  <1>2. CASE DestroyUnname(w)
    <2>1. /\ call'[w].at = "clean" /\ call'[w].id = call[w].id
          /\ \A v \in Writer \ {w} : call'[v] = call[v]
      BY <1>1, <1>2, StageMoves DEF DestroyUnname, Stages
    <2>2. At(w, Leaves)'  BY <2>1 DEF At, Leaves
    <2>3. \A n \in Name : Leaving(n)' <=> Leaving(n)  BY <1>1, <2>1, <2>2, LeavingStays
    <2>. QED  BY <1>2, <2>3, SettledStays DEF DestroyUnname
  <1>3. CASE DestroyRmdir(w)
    <2>1. call'[w] = Idle /\ \A v \in Writer \ {w} : call'[v] = call[v]
      BY <1>3 DEF DestroyRmdir, Return, TypeOK
    <2>2. \A m \in Name : m # call[w].id => (Leaving(m)' <=> Leaving(m))
      BY <2>1 DEF Leaving, At, Idle
    <2>3. Leaving(call[w].id)  BY <1>1 DEF Leaving, At, Leaves
    <2>4. dir' = {d \in dir : d[1] # call[w].id}  BY <1>3 DEF DestroyRmdir, Removed
    <2>5. \A d \in dir : d[1] \in Name  BY DEF TypeOK
    <2>6. Settled' = Settled  BY <2>2, <2>3, <2>4, <2>5 DEF Settled
    <2>. QED  BY <1>3, <2>6 DEF DestroyRmdir
  <1>. QED  BY <1>2, <1>3

(* Processes come to the home of their container.                          *)
LEMMA HomeVisited ==
    ASSUME TypeOK, TaskBound', NEW n \in Name, NEW i \in Inst,
           TaskOpen(n, i) \/ TaskClose(n, i)
    PROVE  Tenancy!Enter \/ Tenancy!Exit
  <1>1. dir' = dir /\ call' = call  BY DEF TaskOpen, TaskClose
  <1>2. Settled' = Settled  BY <1>1 DEF Settled, Leaving, At
  <1>3. CASE TaskOpen(n, i)
    <2>1. ~Leaving(n)  BY <1>3 DEF TaskOpen, Note, If, TaskBound, Without
    <2>2. <<n, i>> \in Settled  BY <1>3, <2>1 DEF TaskOpen, Settled
    <2>. QED  BY <1>2, <1>3, <2>2 DEF TaskOpen, Tenancy!Enter
  <1>4. CASE TaskClose(n, i)  BY <1>2, <1>4 DEF TaskClose, Tenancy!Exit
  <1>. QED  BY <1>3, <1>4

(* Every step of the writers of inst_ctl and max_inst and of the processes *)
(* keeps the promise of ContainerHomes or, by one of the three situations  *)
(* TenantsApart names, ends it.                                            *)
THEOREM HomesKept == Spec => HomesRefined
  <1>1. Init => Tenancy!HomesInit
    BY DEF Init, Tenancy!HomesInit, Settled, TaskBound, Without
  <1>2. NodesInv /\ [Next]_vars => [Tenancy!HomesNext]_Tenancy!homeVars
    <2>. SUFFICES ASSUME NodesInv, [Next]_vars, TaskBound'
                  PROVE  Tenancy!HomesNext \/ UNCHANGED Tenancy!homeVars
      BY DEF Tenancy!HomesNext
    <2>1. TaskBound  BY TroubleGrows DEF TaskBound, Without
    <2>2. ClaimInv /\ TenantInv /\ TypeOK  BY DEF NodesInv, ClaimInv
    <2>3. ASSUME NEW w \in Writer, CreateName(w) \/ CreateClear(w) \/ MaxInstSet(w)
          PROVE  UNCHANGED <<Settled, tasks>>
      <3>1. dir' = dir /\ tasks' = tasks  BY <2>3 DEF CreateName, CreateClear, MaxInstSet
      <3>2. \A n \in Name : Leaving(n)' <=> Leaving(n)
        BY <2>2, <2>3, SettledBeside DEF CreateName, CreateClear, MaxInstSet, At, Stages
      <3>. QED  BY <2>2, <3>1, <3>2, SettledStays
    <2>4. ASSUME NEW w \in Writer,
                 \/ \E n \in Name : CreateFind(w, n)
                 \/ \E n \in 1 .. NInst : MaxInstCheck(w, n)
          PROVE  UNCHANGED <<Settled, tasks>>
      <3>1. dir' = dir /\ tasks' = tasks  BY <2>4 DEF CreateFind, MaxInstCheck
      <3>2. /\ ~At(w, Leaves) /\ ~At(w, Leaves)'
            /\ \A v \in Writer \ {w} : call'[v] = call[v]
        BY <2>2, <2>4 DEF CreateFind, MaxInstCheck, Begins, TypeOK, At, Leaves, Idle
      <3>3. \A n \in Name : Leaving(n)' <=> Leaving(n)  BY <3>2, LeavingStays
      <3>. QED  BY <2>2, <3>1, <3>3, SettledStays
    <2>5. ASSUME UNCHANGED vars  PROVE UNCHANGED <<Settled, tasks>>
      <3>1. dir' = dir /\ call' = call /\ tasks' = tasks  BY <2>5 DEF vars
      <3>2. Settled' = Settled  BY <3>1 DEF Settled, Leaving, At
      <3>. QED  BY <3>1, <3>2
    <2>6. \/ UNCHANGED <<Settled, tasks>>
          \/ Tenancy!Settle \/ Tenancy!Expel \/ Tenancy!Enter
          \/ Tenancy!Exit \/ Tenancy!Sweep
      <3>1. ASSUME NEW w \in Writer, CreateMkdir(w)
            PROVE  UNCHANGED <<Settled, tasks>> \/ Tenancy!Settle
        BY <2>1, <2>2, <3>1, HomeGiven
      <3>2. ASSUME NEW w \in Writer, CreateFiles(w)
            PROVE  UNCHANGED <<Settled, tasks>> \/ Tenancy!Expel
        BY <2>1, <2>2, <3>2, HomeTakenBack
      <3>3. ASSUME NEW w \in Writer, NEW n \in Name, DestroyFind(w, n)
            PROVE  Tenancy!Expel
        BY <2>2, <3>3, HomeLost
      <3>4. ASSUME NEW w \in Writer, DestroyClean(w)  PROVE Tenancy!Sweep
        BY <2>1, <2>2, <3>4, HomeSwept
      <3>5. ASSUME NEW w \in Writer, DestroyUnname(w) \/ DestroyRmdir(w)
            PROVE  UNCHANGED <<Settled, tasks>>
        BY <2>2, <3>5, HomeGone
      <3>6. ASSUME NEW n \in Name, NEW i \in Inst, TaskOpen(n, i) \/ TaskClose(n, i)
            PROVE  Tenancy!Enter \/ Tenancy!Exit
        BY <2>2, <3>6, HomeVisited
      <3>. QED
        BY <2>3, <2>4, <2>5, <3>1, <3>2, <3>3, <3>4, <3>5, <3>6 DEF Next
    <2>7. (~TaskBound)' = ~TaskBound  BY <2>1
    <2>. QED  BY <2>6, <2>7 DEF Tenancy!HomesNext, Tenancy!homeVars
  <1>. QED  BY <1>1, <1>2, Invariance, PTL DEF Spec, HomesRefined, Tenancy!HomesSpec
=============================================================================
