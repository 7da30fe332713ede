--------------------------- MODULE SgpuIoctl_proofs ---------------------------
(***************************************************************************)
(* The timeline redirection of SgpuIoctl, for any number of threads,       *)
(* descriptors and files.                                                  *)
(***************************************************************************)
EXTENDS SgpuIoctl, TLAPS

(* A call that is somewhere is a record with every field.                  *)
CallAt(places) ==
    [at : places, kind : Kind, via : File, line : Fd, swapped : SUBSET File]

(* A call in flight goes on to another place, perhaps having swapped.      *)
LEMMA CallMoves ==
    ASSUME TypeOK, NEW t \in Thread, call[t] # Idle,
           NEW place \in {"pre", "driver", "post"}, NEW files \in SUBSET File,
           \/ call' = [call EXCEPT ![t].at = place] /\ files = call[t].swapped
           \/ call' = [call EXCEPT ![t] = [@ EXCEPT !.at = place, !.swapped = files]]
    PROVE  /\ call' \in [Thread -> CallStates]
           /\ \A u \in Thread \ {t} : call'[u] = call[u]
           /\ call'[t] = [at |-> place, kind |-> call[t].kind, via |-> call[t].via,
                          line |-> call[t].line, swapped |-> files]
  <1>1. call[t] \in CallAt({"pre", "driver", "post"})
    BY DEF TypeOK, CallStates, CallAt
  <1>. DEFINE next == [at |-> place, kind |-> call[t].kind, via |-> call[t].via,
                       line |-> call[t].line, swapped |-> files]
  <1>2. next \in CallStates  BY <1>1 DEF CallAt, CallStates
  <1>. DEFINE moved == [call[t] EXCEPT !.at = place]
  <1>3. moved = [at |-> place, kind |-> call[t].kind, via |-> call[t].via,
                 line |-> call[t].line, swapped |-> call[t].swapped]
    BY <1>1 DEF CallAt
  <1>4. [moved EXCEPT !.swapped = files] = next
    <2>. HIDE DEF moved
    <2>. QED  BY <1>3
  <1>5. call' = [call EXCEPT ![t] = next]
    <2>1. CASE call' = [call EXCEPT ![t].at = place] /\ files = call[t].swapped
      BY <1>3, <2>1
    <2>2. CASE call' = [call EXCEPT ![t] = [@ EXCEPT !.at = place, !.swapped = files]]
      BY <1>4, <2>2
    <2>. QED  BY <2>1, <2>2
  <1>6. call' = [u \in Thread |-> IF u = t THEN next ELSE call[u]]
    BY <1>5 DEF TypeOK
  <1>. QED  BY <1>2, <1>6 DEF TypeOK

(* The files a command names are files.                                    *)
LEMMA TimelineFiles ==
    ASSUME TypeOK, NEW t \in Thread, call[t] # Idle
    PROVE  Timeline(t) \subseteq File
  <1>1. call[t].line \in Fd  BY DEF TypeOK, CallStates
  <1>. QED  BY <1>1 DEF TypeOK, Timeline, Named

(* So are those of the command as post-ioctl reads it, and unless it was   *)
(* rewritten after a swap they are the same.                               *)
LEMMA NamedFiles ==
    ASSUME TypeOK, NEW kind \in Kind, NEW line \in Fd
    PROVE  Named(kind, line) \subseteq File
  BY DEF TypeOK, Named

LEMMA NotRewritten ==
    ASSUME NEW t \in Thread, NEW kind \in Kind, NEW line \in Fd,
           ~Rewritten(t, kind, line), call[t].swapped # {}
    PROVE  Timeline(t) \subseteq Named(kind, line)
  BY DEF Rewritten, Named, Timeline

(* The variables stay in their sets.                                       *)
LEMMA TypeInductive == TypeOK /\ [Next]_vars => TypeOK'
  <1>. SUFFICES ASSUME TypeOK, [Next]_vars PROVE TypeOK'  OBVIOUS
  <1>. USE IoctlAssumption DEF TypeOK
  <1>1. ASSUME NEW d \in Fd, Open(d)  PROVE TypeOK'
    BY <1>1 DEF Open, Tabled, Note, If
  <1>2. ASSUME NEW d \in Fd, Close(d)  PROVE TypeOK'
    BY <1>2 DEF Close, Note, If
  <1>3. ASSUME NEW t \in Thread, NEW d \in Fd, Enter(t, d)  PROVE TypeOK'
    BY <1>3 DEF Enter, CallStates, Idle, Note, If
  <1>4. ASSUME NEW t \in Thread, Return(t)
        PROVE  call' \in [Thread -> CallStates] /\ oops' \in BOOLEAN
    BY <1>4 DEF Return, CallStates
  <1>5. ASSUME NEW t \in Thread, PreUnread(t)  PROVE TypeOK'
    <2>1. CASE Return(t) /\ UNCHANGED fop  BY <1>4, <1>5, <2>1 DEF PreUnread
    <2>2. CASE call' = [call EXCEPT ![t].at = "driver"] /\ UNCHANGED <<oops, fop>>
      <3>1. call[t] # Idle  BY <1>5 DEF PreUnread, Idle
      <3>2. call[t].swapped \in SUBSET File  BY <3>1 DEF CallStates
      <3>3. call' \in [Thread -> CallStates]  BY <2>2, <3>1, <3>2, CallMoves
      <3>. QED  BY <1>5, <2>2, <3>3 DEF PreUnread
    <2>. QED  BY <1>5, <2>1, <2>2 DEF PreUnread
  <1>6. ASSUME NEW t \in Thread, PreSwap(t)  PROVE TypeOK'
    <2>1. call[t] # Idle /\ Timeline(t) \subseteq File
      BY <1>6, TimelineFiles DEF PreSwap, Idle
    <2>2. fop' \in [File -> {"sgpu", NULL}] /\ table' = table
      BY <1>6 DEF PreSwap
    <2>3. CASE Return(t) /\ Note(If("failed", Timeline(t) # {}))
      BY <1>4, <2>2, <2>3 DEF Note, If
    <2>4. CASE call' = [call EXCEPT ![t] = [@ EXCEPT !.at = "driver", !.swapped = Timeline(t)]]
               /\ UNCHANGED <<oops, trouble>>
      BY <2>1, <2>2, <2>4, CallMoves
    <2>. QED  BY <1>6, <2>3, <2>4 DEF PreSwap
  <1>7. ASSUME NEW t \in Thread, DriverAccepts(t)  PROVE TypeOK'
    <2>1. call[t] # Idle  BY <1>7 DEF DriverAccepts, Idle
    <2>2. call[t].swapped \in SUBSET File  BY <2>1 DEF CallStates
    <2>3. call' \in [Thread -> CallStates]
      BY <1>7, <2>1, <2>2, CallMoves DEF DriverAccepts
    <2>. QED  BY <1>7, <2>3 DEF DriverAccepts
  <1>8. ASSUME NEW t \in Thread, DriverFails(t)  PROVE TypeOK'
    BY <1>4, <1>8 DEF DriverFails, Note, If
  <1>9. ASSUME NEW t \in Thread, PostRestore(t)  PROVE TypeOK'
    <2>1. call[t].via \in File  BY <1>9 DEF PostRestore, CallStates, Idle
    <2>2. PICK kind \in Kind, line \in Fd :
            /\ fop' = [f \in File |-> IF f \in Named(kind, line) THEN fop[call[t].via] ELSE fop[f]]
            /\ trouble' \subseteq trouble \cup {"own", "shared", "rewritten"}
      BY <1>9 DEF PostRestore, Note, If
    <2>3. fop' \in [File -> {"sgpu", NULL}]  BY <2>1, <2>2
    <2>4. trouble' \subseteq {"failed", "moved", "own", "shared", "overlap", "rewritten"}
      BY <2>2
    <2>. QED  BY <1>4, <1>9, <2>3, <2>4 DEF PostRestore
  <1>10. ASSUME NEW t \in Thread, PostUnread(t)  PROVE TypeOK'
    BY <1>4, <1>10 DEF PostUnread, Note, If
  <1>11. CASE UNCHANGED vars  BY <1>11 DEF vars
  <1>. QED  BY <1>1, <1>2, <1>3, <1>5, <1>6, <1>7, <1>8, <1>9, <1>10, <1>11 DEF Next

-----------------------------------------------------------------------------
(* Before its swap a call has swapped nothing, and after it the files it   *)
(* swapped are those it still names, unless a descriptor was closed or     *)
(* opened anew under it.  This is what lets PostRestore, which looks the   *)
(* descriptor up again, put back what PreSwap took.                        *)
Paired ==
    \A t \in InFlight :
       /\ call[t].at = "pre" => call[t].swapped = {}
       /\ "moved" \notin trouble => call[t].swapped \subseteq Timeline(t)

(* A step in which every call in flight either stays as it is, or has      *)
(* swapped what it names, keeps the pairing.                               *)
LEMMA PairedInductive == TypeOK /\ Paired /\ [Next]_vars => Paired'
  <1>. SUFFICES ASSUME TypeOK, Paired, [Next]_vars PROVE Paired'  OBVIOUS
  <1>1. ASSUME NEW t \in Thread, Return(t), UNCHANGED table, trouble \subseteq trouble'
        PROVE  Paired'
    BY <1>1 DEF TypeOK, Return, Timeline, Named, Paired, InFlight
  <1>2. ASSUME NEW t \in Thread, call[t] # Idle,
               NEW place \in {"driver", "post"}, NEW files \in {call[t].swapped, Timeline(t)},
               \/ call' = [call EXCEPT ![t].at = place] /\ files = call[t].swapped
               \/ call' = [call EXCEPT ![t] = [@ EXCEPT !.at = place, !.swapped = files]],
               UNCHANGED <<table, trouble>>
        PROVE  Paired'
    <2>1. files \in SUBSET File  BY <1>2, TimelineFiles DEF TypeOK, CallStates
    <2>2. /\ \A u \in Thread \ {t} : call'[u] = call[u]
          /\ call'[t] = [at |-> place, kind |-> call[t].kind, via |-> call[t].via,
                         line |-> call[t].line, swapped |-> files]
      BY <1>2, <2>1, CallMoves
    <2>3. "moved" \notin trouble => files \subseteq Timeline(t)
      BY <1>2 DEF Paired, InFlight
    <2>. QED  BY <1>2, <2>2, <2>3 DEF Paired, InFlight, Timeline, Named
  <1>3. ASSUME NEW d \in Fd, Open(d) \/ Close(d)  PROVE Paired'
    <2>1. call' = call /\ \A e \in Fd \ {d} : table'[e] = table[e]
      BY <1>3 DEF Open, Close, TypeOK
    <2>2. trouble \subseteq trouble'  BY <1>3 DEF Open, Close, Note
    <2>3. ASSUME NEW t \in InFlight, "moved" \notin trouble'
          PROVE  Timeline(t)' = Timeline(t)
      <3>1. call[t].line \in Fd  BY <2>3 DEF InFlight, TypeOK, CallStates
      <3>2. call[t].line # d  BY <1>3, <2>3 DEF Open, Close, Note, If
      <3>. QED  BY <2>1, <3>1, <3>2 DEF Timeline, Named
    <2>. QED  BY <2>1, <2>2, <2>3 DEF Paired, InFlight
  <1>4. ASSUME NEW t \in Thread, NEW d \in Fd, Enter(t, d)  PROVE Paired'
    <2>1. PICK kind, line :
            call' = [call EXCEPT ![t] = [at |-> "pre", kind |-> kind, via |-> table[d],
                                         line |-> line, swapped |-> {}]]
      BY <1>4 DEF Enter
    <2>2. call'[t].swapped = {} /\ \A u \in Thread \ {t} : call'[u] = call[u]
      BY <2>1 DEF TypeOK
    <2>3. table' = table /\ trouble \subseteq trouble'  BY <1>4 DEF Enter, Note
    <2>. QED  BY <2>2, <2>3 DEF Paired, InFlight, Timeline, Named
  <1>5. ASSUME NEW t \in Thread, PreUnread(t)  PROVE Paired'
    <2>1. call[t] # Idle /\ UNCHANGED <<table, trouble>>
      BY <1>5 DEF PreUnread, Idle
    <2>2. CASE Return(t)  BY <1>1, <2>1, <2>2
    <2>3. CASE call' = [call EXCEPT ![t].at = "driver"]  BY <1>2, <2>1, <2>3
    <2>. QED  BY <1>5, <2>2, <2>3 DEF PreUnread
  <1>6. ASSUME NEW t \in Thread, PreSwap(t)  PROVE Paired'
    <2>1. call[t] # Idle /\ UNCHANGED table  BY <1>6 DEF PreSwap, Idle
    <2>2. CASE Return(t) /\ Note(If("failed", Timeline(t) # {}))
      BY <1>1, <2>1, <2>2 DEF Note
    <2>3. CASE /\ call' = [call EXCEPT ![t] = [@ EXCEPT !.at = "driver", !.swapped = Timeline(t)]]
               /\ UNCHANGED <<oops, trouble>>
      BY <1>2, <2>1, <2>3
    <2>. QED  BY <1>6, <2>2, <2>3 DEF PreSwap
  <1>7. ASSUME NEW t \in Thread, DriverAccepts(t)  PROVE Paired'
    <2>1. call[t] # Idle /\ UNCHANGED <<table, trouble>>
      BY <1>7 DEF DriverAccepts, Idle
    <2>. QED  BY <1>2, <1>7, <2>1 DEF DriverAccepts
  <1>8. ASSUME NEW t \in Thread, DriverFails(t) \/ PostRestore(t) \/ PostUnread(t)
        PROVE  Paired'
    <2>1. Return(t) /\ UNCHANGED table /\ trouble \subseteq trouble'
      BY <1>8 DEF DriverFails, PostRestore, PostUnread, Note
    <2>. QED  BY <1>1, <2>1
  <1>9. CASE UNCHANGED vars  BY <1>9 DEF vars, Paired, InFlight, Timeline, Named
  <1>. QED  BY <1>3, <1>4, <1>5, <1>6, <1>7, <1>8, <1>9 DEF Next

-----------------------------------------------------------------------------
RedirectInv == TypeOK /\ Paired /\ RedirectedByCall /\ RedirectedInDriver
Redirected == RedirectedByCall /\ RedirectedInDriver

(* Steps that leave the files alone: calls keep what they swapped, or end  *)
(* having swapped nothing or with the failure noted.                       *)
LEMMA FilesKept ==
    ASSUME RedirectInv, NEW t \in Thread, UNCHANGED <<table, fop>>,
           trouble \subseteq trouble',
           \A u \in Thread \ {t} : call'[u] = call[u],
           \/ call[t] # Idle /\ call'[t] # Idle /\ call'[t].swapped = call[t].swapped
           \/ call[t] = Idle /\ call'[t] # Idle /\ call'[t].swapped = {}
           \/ call'[t] = Idle /\ (call[t].swapped # {} => "failed" \in trouble')
    PROVE  Redirected'
  <1>1. ASSUME trouble' \cap {"failed", "moved", "own", "rewritten"} = {}
        PROVE  \A f \in Tabled : fop'[f] = NULL => \E u \in InFlight' : f \in call'[u].swapped
    <2>. SUFFICES ASSUME NEW f \in Tabled, fop[f] = NULL
                  PROVE  \E u \in InFlight' : f \in call'[u].swapped
      OBVIOUS
    <2>1. PICK u \in InFlight : f \in call[u].swapped
      BY <1>1 DEF RedirectInv, RedirectedByCall
    <2>2. u \in InFlight' /\ f \in call'[u].swapped
      BY <1>1, <2>1 DEF InFlight
    <2>. QED  BY <2>2
  <1>2. RedirectedByCall'  BY <1>1 DEF RedirectedByCall, Tabled
  <1>3. RedirectedInDriver'  BY DEF RedirectInv, RedirectedInDriver, InFlight
  <1>. QED  BY <1>2, <1>3 DEF Redirected

(* What Return does to the calls.                                          *)
LEMMA Returns ==
    ASSUME TypeOK, NEW t \in Thread, Return(t)
    PROVE  call'[t] = Idle /\ \A u \in Thread \ {t} : call'[u] = call[u]
  BY DEF TypeOK, Return

(* The swap redirects what its own call names.                             *)
LEMMA SwapKeeps ==
    ASSUME RedirectInv, NEW t \in Thread, PreSwap(t)
    PROVE  Redirected'
  <1>1. call[t] # Idle /\ call[t].swapped = {} /\ Timeline(t) \subseteq File
    BY TimelineFiles DEF RedirectInv, Paired, InFlight, PreSwap, Idle
  <1>2. CASE Return(t) /\ Note(If("failed", Timeline(t) # {}))
    <2>1. call'[t] = Idle /\ \A u \in Thread \ {t} : call'[u] = call[u]
      BY <1>2, Returns DEF RedirectInv
    <2>2. CASE Timeline(t) = {}
      <3>1. fop' = fop  BY <2>2 DEF PreSwap, RedirectInv, TypeOK
      <3>. QED  BY <1>1, <1>2, <2>1, <3>1, FilesKept DEF PreSwap, Note
    <2>3. CASE Timeline(t) # {}
      <3>1. "failed" \in trouble' /\ trouble \subseteq trouble'
        BY <1>2, <2>3 DEF Note, If
      <3>2. \A f \in File : fop[f] = NULL => fop'[f] = NULL
        BY DEF PreSwap
      <3>3. \A u \in InFlight' : call'[u] = call[u] /\ u \in InFlight
        BY <2>1 DEF InFlight
      <3>4. \A u \in InFlight : call[u].swapped \subseteq File
        BY DEF InFlight, RedirectInv, TypeOK, CallStates
      <3>. QED  BY <3>1, <3>2, <3>3, <3>4
              DEF Redirected, RedirectedByCall, RedirectedInDriver, RedirectInv
    <2>. QED  BY <2>2, <2>3
  <1>3. CASE /\ call' = [call EXCEPT ![t] = [@ EXCEPT !.at = "driver", !.swapped = Timeline(t)]]
             /\ UNCHANGED <<oops, trouble>>
    <2>1. /\ \A u \in Thread \ {t} : call'[u] = call[u]
          /\ call'[t] # Idle /\ call'[t].swapped = Timeline(t)
      <3>1. Timeline(t) \in SUBSET File /\ TypeOK  BY <1>1 DEF RedirectInv
      <3>2. /\ \A u \in Thread \ {t} : call'[u] = call[u]
            /\ call'[t] = [at |-> "driver", kind |-> call[t].kind, via |-> call[t].via,
                           line |-> call[t].line, swapped |-> Timeline(t)]
        BY <1>1, <1>3, <3>1, CallMoves
      <3>. QED  BY <3>2 DEF Idle
    <2>2. \A f \in File : fop'[f] = IF f \in Timeline(t) THEN NULL ELSE fop[f]
      BY DEF PreSwap
    <2>3. InFlight' = InFlight  BY <1>1, <2>1 DEF InFlight
    <2>4. \A u \in InFlight : call[u].swapped \subseteq File
      BY DEF InFlight, RedirectInv, TypeOK, CallStates
    <2>5. Tabled' = Tabled /\ Tabled \subseteq File
      BY DEF PreSwap, Tabled, RedirectInv, TypeOK
    <2>6. t \in InFlight  BY <1>1 DEF InFlight
    <2>7. RedirectedByCall'
      <3>. SUFFICES ASSUME trouble \cap {"failed", "moved", "own", "rewritten"} = {},
                           NEW f \in Tabled, fop'[f] = NULL
                    PROVE  \E u \in InFlight : f \in call'[u].swapped
        BY <1>3, <2>3, <2>5 DEF RedirectedByCall
      <3>1. CASE f \in Timeline(t)  BY <2>1, <2>6, <3>1
      <3>2. CASE f \notin Timeline(t)
        <4>1. PICK u \in InFlight : f \in call[u].swapped
          BY <2>2, <2>5, <3>2 DEF RedirectInv, RedirectedByCall
        <4>. QED  BY <1>1, <2>1, <4>1 DEF InFlight
      <3>. QED  BY <3>1, <3>2
    <2>8. RedirectedInDriver'
      BY <1>1, <1>3, <2>1, <2>2, <2>3, <2>4 DEF RedirectedInDriver, RedirectInv, InFlight
    <2>. QED  BY <2>7, <2>8 DEF Redirected
  <1>. QED  BY <1>2, <1>3 DEF PreSwap

(* The restore takes back what its own call swapped, and no other call's.  *)
LEMMA RestoreKeeps ==
    ASSUME RedirectInv, NEW t \in Thread, PostRestore(t)
    PROVE  Redirected'
  <1>1. call[t] # Idle  BY DEF PostRestore, Idle
  <1>2. call'[t] = Idle /\ \A u \in Thread \ {t} : call'[u] = call[u]
    BY Returns DEF RedirectInv, PostRestore
  <1>3. InFlight' = InFlight \ {t}  BY <1>1, <1>2 DEF InFlight
  <1>4. trouble \subseteq trouble'  BY DEF PostRestore, Note
  <1>0. PICK kind \in Kind, line \in Fd :
          /\ fop' = [f \in File |-> IF f \in Named(kind, line) THEN fop[call[t].via] ELSE fop[f]]
          /\ Note(If("own", Named(kind, line) # {} /\ fop[call[t].via] = NULL)
                  \cup If("shared", \E u \in Swapping(t) :
                                        call[u].swapped \cap Named(kind, line) # {})
                  \cup If("rewritten", Rewritten(t, kind, line)))
    BY DEF PostRestore
  <1>. DEFINE files == Named(kind, line)
  <1>5. \A f \in File : fop'[f] = IF f \in files THEN fop[call[t].via] ELSE fop[f]
    BY <1>0
  <1>9. /\ files # {} /\ fop[call[t].via] = NULL => "own" \in trouble'
        /\ \A u \in Swapping(t) : call[u].swapped \cap files # {} => "shared" \in trouble'
        /\ Rewritten(t, kind, line) => "rewritten" \in trouble'
    BY <1>0 DEF Note, If
  <1>. HIDE DEF files
  <1>6. Tabled' = Tabled /\ Tabled \subseteq File
    BY DEF PostRestore, Tabled, RedirectInv, TypeOK
  <1>7. RedirectedByCall'
    <2>. SUFFICES ASSUME trouble' \cap {"failed", "moved", "own", "rewritten"} = {},
                         NEW f \in Tabled, fop'[f] = NULL
                  PROVE  \E u \in InFlight' : f \in call'[u].swapped
      BY <1>6 DEF RedirectedByCall
    <2>1. f \notin files
      <3>. SUFFICES ASSUME f \in files PROVE FALSE  OBVIOUS
      <3>1. fop[call[t].via] = NULL  BY <1>5, <1>6
      <3>2. "own" \in trouble'  BY <1>9, <3>1
      <3>. QED  BY <3>2
    <2>2. fop[f] = NULL  BY <1>5, <1>6, <2>1
    <2>3. trouble \cap {"failed", "moved", "own", "rewritten"} = {}  BY <1>4
    <2>4. PICK u \in InFlight : f \in call[u].swapped
      BY <2>2, <2>3 DEF RedirectInv, RedirectedByCall
    <2>5. u # t
      <3>. SUFFICES ASSUME u = t PROVE FALSE  OBVIOUS
      <3>1. ~Rewritten(t, kind, line)  BY <1>9
      <3>2. Timeline(t) \subseteq files  BY <2>4, <3>1, NotRewritten DEF files
      <3>3. f \in Timeline(t)  BY <2>3, <2>4 DEF RedirectInv, Paired
      <3>. QED  BY <2>1, <3>2, <3>3
    <2>. QED  BY <1>2, <1>3, <2>4, <2>5 DEF InFlight
  <1>8. RedirectedInDriver'
    <2>. SUFFICES ASSUME trouble' \cap {"moved", "shared"} = {},
                         NEW u \in InFlight', NEW f \in call'[u].swapped
                  PROVE  fop'[f] = NULL
      BY DEF RedirectedInDriver
    <2>1. u \in InFlight \ {t} /\ f \in call[u].swapped  BY <1>2, <1>3 DEF InFlight
    <2>2. fop[f] = NULL
      BY <1>4, <2>1 DEF RedirectInv, RedirectedInDriver
    <2>3. f \in File  BY <2>1 DEF InFlight, RedirectInv, TypeOK, CallStates
    <2>4. f \notin files
      <3>. SUFFICES ASSUME f \in files PROVE FALSE  OBVIOUS
      <3>1. u \in Swapping(t)  BY <2>1 DEF Swapping
      <3>2. "shared" \in trouble'  BY <1>9, <2>1, <3>1
      <3>. QED  BY <3>2
    <2>. QED  BY <1>5, <2>2, <2>3, <2>4
  <1>. QED  BY <1>7, <1>8 DEF Redirected

(* A new file has the module's f_op, and none that a call has swapped is   *)
(* given out anew: such a file has its descriptor still.                   *)
LEMMA OpenCloseKeep ==
    ASSUME RedirectInv, NEW d \in Fd, Open(d) \/ Close(d)
    PROVE  Redirected'
  <1>1. call' = call /\ trouble \subseteq trouble' /\ InFlight' = InFlight
    BY DEF Open, Close, Note, InFlight
  <1>2. CASE Close(d)
    <2>1. fop' = fop /\ Tabled' \subseteq Tabled
      BY <1>2 DEF Close, Tabled, RedirectInv, TypeOK
    <2>. QED  BY <1>1, <2>1 DEF Redirected, RedirectInv, RedirectedByCall, RedirectedInDriver
  <1>3. CASE Open(d)
    <2>1. PICK f \in File \ Tabled : /\ table' = [table EXCEPT ![d] = f]
                                     /\ fop' = [fop EXCEPT ![f] = "sgpu"]
      BY <1>3 DEF Open
    <2>2. /\ fop'[f] = "sgpu" /\ \A g \in File \ {f} : fop'[g] = fop[g]
          /\ Tabled' \subseteq Tabled \cup {f} /\ Tabled \subseteq File
      BY <2>1 DEF RedirectInv, TypeOK, Tabled
    <2>3. RedirectedByCall'
      BY <1>1, <2>2, IoctlAssumption DEF RedirectInv, RedirectedByCall
    <2>4. ASSUME "moved" \notin trouble, NEW u \in InFlight
          PROVE  call[u].swapped \subseteq Tabled
      <3>1. call[u].line \in Fd  BY DEF InFlight, RedirectInv, TypeOK, CallStates
      <3>. QED  BY <2>4, <3>1 DEF RedirectInv, Paired, Timeline, Named, Tabled
    <2>5. RedirectedInDriver'
      BY <1>1, <2>2, <2>4 DEF RedirectInv, RedirectedInDriver
    <2>. QED  BY <2>3, <2>5 DEF Redirected
  <1>. QED  BY <1>2, <1>3

(* Every step is one of these.                                             *)
LEMMA RedirectInductive == RedirectInv /\ [Next]_vars => RedirectInv'
  <1>. SUFFICES ASSUME RedirectInv, [Next]_vars PROVE Redirected'
    BY TypeInductive, PairedInductive DEF RedirectInv, Redirected
  <1>1. TypeOK  BY DEF RedirectInv
  <1>2. ASSUME NEW t \in Thread, NEW d \in Fd, Enter(t, d)  PROVE Redirected'
    <2>1. PICK kind, line :
            call' = [call EXCEPT ![t] = [at |-> "pre", kind |-> kind, via |-> table[d],
                                         line |-> line, swapped |-> {}]]
      BY <1>2 DEF Enter
    <2>2. /\ call'[t].swapped = {} /\ call'[t] # Idle
          /\ \A u \in Thread \ {t} : call'[u] = call[u]
      BY <1>1, <2>1 DEF TypeOK, Idle
    <2>. QED  BY <1>2, <2>2, FilesKept DEF Enter, Note
  <1>3. ASSUME NEW t \in Thread, NEW place \in {"driver", "post"}, call[t] # Idle,
               call' = [call EXCEPT ![t].at = place], UNCHANGED <<table, fop, trouble>>
        PROVE  Redirected'
    <2>1. call[t] \in CallAt({"pre", "driver", "post"})
      BY <1>1, <1>3 DEF TypeOK, CallStates, CallAt
    <2>2. /\ call'[t] = [call[t] EXCEPT !.at = place]
          /\ \A u \in Thread \ {t} : call'[u] = call[u]
      BY <1>1, <1>3 DEF TypeOK
    <2>3. call'[t] # Idle /\ call'[t].swapped = call[t].swapped  BY <2>1, <2>2 DEF Idle, CallAt
    <2>. QED  BY <1>3, <2>2, <2>3, FilesKept
  <1>4. ASSUME NEW t \in Thread, Return(t), UNCHANGED <<table, fop>>,
               trouble \subseteq trouble', call[t].swapped # {} => "failed" \in trouble'
        PROVE  Redirected'
    BY <1>1, <1>4, Returns, FilesKept
  <1>5. ASSUME NEW t \in Thread, PreUnread(t)  PROVE Redirected'
    <2>1. call[t] # Idle /\ call[t].swapped = {} /\ UNCHANGED <<table, fop, trouble>>
      BY <1>5 DEF PreUnread, Idle, RedirectInv, Paired, InFlight
    <2>2. CASE Return(t)  BY <1>4, <2>1, <2>2
    <2>3. CASE call' = [call EXCEPT ![t].at = "driver"]  BY <1>3, <2>1, <2>3
    <2>. QED  BY <1>5, <2>2, <2>3 DEF PreUnread
  <1>6. ASSUME NEW t \in Thread, DriverAccepts(t)  PROVE Redirected'
    <2>1. call[t] # Idle  BY <1>6 DEF DriverAccepts, Idle
    <2>. QED  BY <1>3, <1>6, <2>1 DEF DriverAccepts
  <1>7. ASSUME NEW t \in Thread, DriverFails(t) \/ PostUnread(t)  PROVE Redirected'
    <2>1. trouble \subseteq trouble' /\ (call[t].swapped # {} => "failed" \in trouble')
      BY <1>7 DEF DriverFails, PostUnread, Note, If
    <2>. QED  BY <1>4, <1>7, <2>1 DEF DriverFails, PostUnread
  <1>8. CASE UNCHANGED vars
    BY <1>8 DEF vars, Redirected, RedirectInv, RedirectedByCall, RedirectedInDriver,
                Tabled, InFlight
  <1>. QED  BY <1>2, <1>5, <1>6, <1>7, <1>8, SwapKeeps, RestoreKeeps, OpenCloseKeep DEF Next

(* The first of the two invariants holds always.                           *)
LEMMA RedirectInvariant == Spec => []RedirectInv
  <1>1. Init => RedirectInv
    <2>. SUFFICES ASSUME Init PROVE RedirectInv  OBVIOUS
    <2>1. TypeOK
      BY IoctlAssumption DEF Init, TypeOK, CallStates, Idle
    <2>2. InFlight = {} /\ Tabled = {}  BY DEF Init, InFlight, Tabled
    <2>. QED  BY <2>1, <2>2 DEF RedirectInv, Paired, RedirectedByCall, RedirectedInDriver
  <1>. QED  BY <1>1, RedirectInductive, PTL DEF Spec

-----------------------------------------------------------------------------
(* A process whose calls never overlap has one in flight at most; its file *)
(* and its timeline keep their descriptors, and only the timeline may be   *)
(* redirected.                                                             *)
Solo ==
    trouble \cap {"failed", "own", "overlap", "rewritten"} = {} =>
        /\ ~oops
        /\ \A t, u \in InFlight : t = u
        /\ \A t \in InFlight : call[t].via \in Tabled /\ call[t].swapped \subseteq Timeline(t)
        /\ \A f \in Tabled : fop[f] = NULL => \E t \in InFlight : f \in call[t].swapped

(* The one call returns.                                                   *)
LEMMA SoloReturns ==
    ASSUME TypeOK, Solo, NEW t \in Thread, call[t] # Idle, Return(t), UNCHANGED table,
           trouble \subseteq trouble',
           trouble' \cap {"failed", "own", "overlap", "rewritten"} = {} =>
               \A f \in Tabled : fop'[f] = NULL => fop[f] = NULL /\ f \notin call[t].swapped
    PROVE  Solo'
  <1>. SUFFICES ASSUME trouble' \cap {"failed", "own", "overlap", "rewritten"} = {} PROVE Solo'
    BY DEF Solo
  <1>1. InFlight' = {}
    <2>1. InFlight = {t}  BY DEF Solo, InFlight
    <2>. QED  BY <2>1, Returns DEF InFlight
  <1>2. ~oops'  BY DEF Return, Solo, InFlight
  <1>3. \A f \in Tabled : fop'[f] # NULL
    <2>1. InFlight = {t}  BY DEF Solo, InFlight
    <2>. QED  BY <2>1 DEF Solo
  <1>4. Tabled' = Tabled  BY DEF Tabled
  <1>. QED  BY <1>1, <1>2, <1>3, <1>4 DEF Solo

(* No step of a process that makes one call at a time breaks it.           *)
LEMMA SoloInductive == RedirectInv /\ Solo /\ [Next]_vars => Solo'
  <1>. SUFFICES ASSUME RedirectInv, Solo, [Next]_vars PROVE Solo'  OBVIOUS
  <1>0. TypeOK /\ Tabled \subseteq File  BY DEF RedirectInv, TypeOK, Tabled
  <1>1. ASSUME NEW d \in Fd, Open(d)  PROVE Solo'
    <2>. SUFFICES ASSUME trouble \cap {"failed", "own", "overlap", "rewritten"} = {} PROVE Solo'
      BY <1>1 DEF Open, Note, Solo
    <2>1. PICK f \in File \ (Tabled \cup Held) : /\ table' = [table EXCEPT ![d] = f]
                                               /\ fop' = [fop EXCEPT ![f] = "sgpu"]
      BY <1>1 DEF Open
    <2>2. Tabled' = Tabled \cup {f}
      BY <1>0, <1>1, <2>1, IoctlAssumption DEF Open, Tabled, TypeOK
    <2>3. fop'[f] # NULL /\ \A g \in Tabled : fop'[g] = fop[g]
      BY <1>0, <2>1, IoctlAssumption DEF TypeOK
    <2>4. call' = call /\ InFlight' = InFlight /\ ~oops'
      BY <1>1 DEF Open, InFlight, Solo
    <2>5. ASSUME NEW t \in InFlight  PROVE Timeline(t) \subseteq Timeline(t)'
      <3>1. call[t].line \in Fd /\ table[d] = NULL
        BY <1>0, <1>1 DEF Open, InFlight, TypeOK, CallStates
      <3>2. table[call[t].line] # NULL => table'[call[t].line] = table[call[t].line]
        BY <1>0, <2>1, <3>1 DEF TypeOK
      <3>. QED  BY <2>4, <3>2 DEF Timeline, Named
    <2>. QED  BY <2>2, <2>3, <2>4, <2>5 DEF Solo
  <1>2. ASSUME NEW d \in Fd, Close(d)  PROVE Solo'
    <2>. SUFFICES ASSUME trouble \cap {"failed", "own", "overlap", "rewritten"} = {}, InFlight = {}
                  PROVE  Solo'
      BY <1>2 DEF Close, Note, If, Solo
    <2>1. Tabled' \subseteq Tabled /\ table[d] \in Tabled
      BY <1>0, <1>2 DEF Close, Tabled, TypeOK
    <2>2. call' = call /\ fop' = fop /\ InFlight' = {} /\ ~oops'
      BY <1>2, <2>1 DEF Close, InFlight, Solo
    <2>. QED  BY <2>1, <2>2 DEF Solo
  <1>3. ASSUME NEW t \in Thread, NEW d \in Fd, Enter(t, d)  PROVE Solo'
    <2>. SUFFICES ASSUME trouble \cap {"failed", "own", "overlap", "rewritten"} = {}, InFlight = {}
                  PROVE  Solo'
      BY <1>3 DEF Enter, Note, If, Solo
    <2>1. PICK kind, line :
            call' = [call EXCEPT ![t] = [at |-> "pre", kind |-> kind, via |-> table[d],
                                         line |-> line, swapped |-> {}]]
      BY <1>3 DEF Enter
    <2>2. call'[t].swapped = {} /\ call'[t].via = table[d] /\ call'[t] # Idle
      BY <1>0, <2>1 DEF TypeOK, Idle
    <2>3. InFlight' = {t}  BY <1>0, <2>1, <2>2 DEF InFlight, TypeOK
    <2>4. table[d] \in Tabled /\ Tabled' = Tabled /\ fop' = fop
      BY <1>3 DEF Enter, Tabled
    <2>5. ~oops'  BY <1>3, <2>4 DEF Enter, Solo
    <2>. QED  BY <2>2, <2>3, <2>4, <2>5 DEF Solo
  <1>4. ASSUME NEW t \in Thread, call[t] # Idle, call'[t] # Idle,
               \A u \in Thread \ {t} : call'[u] = call[u],
               call'[t].via = call[t].via, call'[t].line = call[t].line,
               call'[t].kind = call[t].kind, UNCHANGED <<table, oops, trouble>>,
               call[t].swapped \subseteq call'[t].swapped,
               call'[t].swapped \subseteq call[t].swapped \cup Timeline(t),
               \A f \in Tabled : fop'[f] = NULL => fop[f] = NULL \/ f \in call'[t].swapped
        PROVE  Solo'
    <2>1. InFlight' = InFlight /\ Tabled' = Tabled  BY <1>4 DEF InFlight, Tabled
    <2>2. \A u \in InFlight : Timeline(u)' = Timeline(u)  BY <1>4 DEF Timeline, Named, InFlight
    <2>3. t \in InFlight  BY <1>4 DEF InFlight
    <2>4. \A u \in InFlight : u # t => call'[u] = call[u]  BY <1>4 DEF InFlight
    <2>. QED  BY <1>4, <2>1, <2>2, <2>3, <2>4 DEF Solo
  <1>5. ASSUME NEW t \in Thread, NEW place \in {"driver", "post"}, call[t] # Idle,
               call' = [call EXCEPT ![t].at = place], UNCHANGED <<table, fop, oops, trouble>>
        PROVE  Solo'
    <2>1. call[t] \in CallAt({"pre", "driver", "post"})
      BY <1>0, <1>5 DEF TypeOK, CallStates, CallAt
    <2>2. /\ call'[t] = [call[t] EXCEPT !.at = place]
          /\ \A u \in Thread \ {t} : call'[u] = call[u]
      BY <1>0, <1>5 DEF TypeOK
    <2>3. /\ call'[t] # Idle /\ call'[t].swapped = call[t].swapped
          /\ call'[t].via = call[t].via /\ call'[t].line = call[t].line
          /\ call'[t].kind = call[t].kind
      BY <2>1, <2>2 DEF Idle, CallAt
    <2>. QED  BY <1>4, <1>5, <2>2, <2>3
  <1>6. ASSUME NEW t \in Thread, PreUnread(t)  PROVE Solo'
    <2>1. /\ call[t] # Idle /\ call[t].swapped = {} /\ UNCHANGED <<table, fop, trouble>>
      BY <1>6 DEF PreUnread, Idle, RedirectInv, Paired, InFlight
    <2>2. CASE Return(t)  BY <1>0, <2>1, <2>2, SoloReturns
    <2>3. CASE call' = [call EXCEPT ![t].at = "driver"] /\ UNCHANGED oops
      BY <1>5, <2>1, <2>3
    <2>. QED  BY <1>6, <2>2, <2>3 DEF PreUnread
  <1>7. ASSUME NEW t \in Thread, PreSwap(t)  PROVE Solo'
    <2>1. call[t] # Idle /\ call[t].swapped = {} /\ Timeline(t) \in SUBSET File
      BY <1>0, <1>7, TimelineFiles DEF RedirectInv, Paired, InFlight, PreSwap, Idle
    <2>2. UNCHANGED table /\ \A f \in File : fop'[f] = IF f \in Timeline(t) THEN NULL ELSE fop[f]
      BY <1>7 DEF PreSwap
    <2>3. CASE Return(t) /\ Note(If("failed", Timeline(t) # {}))
      <3>1. trouble \subseteq trouble'  BY <2>3 DEF Note
      <3>2. "failed" \notin trouble' => Timeline(t) = {}  BY <2>3 DEF Note, If
      <3>. QED  BY <1>0, <2>1, <2>2, <2>3, <3>1, <3>2, SoloReturns
    <2>4. CASE /\ call' = [call EXCEPT ![t] = [@ EXCEPT !.at = "driver", !.swapped = Timeline(t)]]
               /\ UNCHANGED <<oops, trouble>>
      <3>1. /\ \A u \in Thread \ {t} : call'[u] = call[u]
            /\ call'[t] = [at |-> "driver", kind |-> call[t].kind, via |-> call[t].via,
                           line |-> call[t].line, swapped |-> Timeline(t)]
        BY <1>0, <2>1, <2>4, CallMoves
      <3>2. /\ call'[t] # Idle /\ call'[t].swapped = Timeline(t)
            /\ call'[t].via = call[t].via /\ call'[t].line = call[t].line
            /\ call'[t].kind = call[t].kind
        BY <3>1 DEF Idle
      <3>3. \A f \in Tabled : fop'[f] = NULL => fop[f] = NULL \/ f \in call'[t].swapped
        BY <1>0, <2>2, <3>2
      <3>. QED  BY <1>4, <2>1, <2>2, <2>4, <3>1, <3>2, <3>3
    <2>. QED  BY <1>7, <2>3, <2>4 DEF PreSwap
  <1>8. ASSUME NEW t \in Thread, DriverAccepts(t)  PROVE Solo'
    <2>1. call[t] # Idle  BY <1>8 DEF DriverAccepts, Idle
    <2>. QED  BY <1>5, <1>8, <2>1 DEF DriverAccepts
  <1>9. ASSUME NEW t \in Thread, DriverFails(t) \/ PostUnread(t)  PROVE Solo'
    <2>1. call[t] # Idle /\ Return(t) /\ UNCHANGED <<table, fop>>
      BY <1>9 DEF DriverFails, PostUnread, Idle
    <2>2. trouble \subseteq trouble' /\ (call[t].swapped # {} => "failed" \in trouble')
      BY <1>9 DEF DriverFails, PostUnread, Note, If
    <2>3. trouble' \cap {"failed", "own", "overlap", "rewritten"} = {} => call[t].swapped = {}
      BY <2>2
    <2>4. trouble' \cap {"failed", "own", "overlap", "rewritten"} = {} =>
            \A f \in Tabled : fop'[f] = NULL => fop[f] = NULL /\ f \notin call[t].swapped
      BY <2>1, <2>3
    <2>. QED  BY <1>0, <2>1, <2>2, <2>4, SoloReturns
  <1>10. ASSUME NEW t \in Thread, PostRestore(t)  PROVE Solo'
    <2>1. /\ call[t] # Idle /\ Return(t) /\ UNCHANGED table
          /\ trouble \subseteq trouble'
      <3>1. call[t] # Idle  BY <1>10 DEF PostRestore, Idle
      <3>2. trouble \subseteq trouble'  BY <1>10 DEF PostRestore, Note
      <3>. QED  BY <1>10, <3>1, <3>2 DEF PostRestore
    <2>2. PICK kind \in Kind, line \in Fd :
            /\ fop' = [f \in File |-> IF f \in Named(kind, line) THEN fop[call[t].via] ELSE fop[f]]
            /\ "own" \notin trouble' => Named(kind, line) = {} \/ fop[call[t].via] # NULL
            /\ "rewritten" \notin trouble' => ~Rewritten(t, kind, line)
      BY <1>10 DEF PostRestore, Note, If
    <2>3. ASSUME trouble' \cap {"failed", "own", "overlap", "rewritten"} = {}
          PROVE  call[t].swapped \subseteq Named(kind, line)
      <3>1. call[t].swapped \subseteq Timeline(t)  BY <2>1, <2>3 DEF Solo, InFlight
      <3>2. CASE call[t].swapped = {}  BY <3>2
      <3>3. CASE call[t].swapped # {}  BY <2>2, <2>3, <3>1, <3>3, NotRewritten
      <3>. QED  BY <3>2, <3>3
    <2>4. ASSUME trouble' \cap {"failed", "own", "overlap", "rewritten"} = {}
          PROVE  \A f \in Tabled : fop'[f] = NULL => fop[f] = NULL /\ f \notin call[t].swapped
      BY <1>0, <2>2, <2>3, <2>4
    <2>. QED  BY <1>0, <2>1, <2>4, SoloReturns
  <1>11. CASE UNCHANGED vars  BY <1>11 DEF vars, Solo, InFlight, Tabled, Timeline, Named
  <1>. QED  BY <1>1, <1>2, <1>3, <1>6, <1>7, <1>8, <1>9, <1>10, <1>11 DEF Next

(* Every variable stays in its set.                                        *)
THEOREM TypeCorrect == Spec => []TypeOK
  BY RedirectInvariant, PTL DEF RedirectInv

(* sgpu_ioctl.c:303-352 and 556-566: however the calls, opens and closes   *)
(* of a process interleave, a file with a NULL f_op has a call in flight   *)
(* that put it there, but for the exceptions the property names.           *)
THEOREM AlwaysRedirectedByCall == Spec => []RedirectedByCall
  BY RedirectInvariant, PTL DEF RedirectInv

(* A driver that works for a call finds the timeline of that call          *)
(* redirected, but for the exceptions the property names.                  *)
THEOREM AlwaysRedirectedInDriver == Spec => []RedirectedInDriver
  BY RedirectInvariant, PTL DEF RedirectInv

(* Of the paths of sgpu_km_pre_ioctl and sgpu_km_post_ioctl, only a failed *)
(* call, a call through its own timeline, overlapping calls or a command   *)
(* rewritten during its call can leave a process with a file whose NULL    *)
(* f_op kills it.                                                          *)
THEOREM AlwaysSurvives == Spec => []Survives
  <1>1. Init => Solo
    BY DEF Init, Solo, InFlight, Tabled
  <1>2. RedirectInv /\ Solo /\ [Next]_vars => Solo'  BY SoloInductive
  <1>3. Solo => Survives  BY DEF Solo, Survives
  <1>. QED  BY <1>1, <1>2, <1>3, RedirectInvariant, PTL DEF Spec
=============================================================================
