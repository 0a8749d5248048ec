--------------------------- MODULE NeighborProofs ---------------------------
(***************************************************************************)
(* Safety of Neighbor, proved for any number of threads, neighbours,       *)
(* addresses and ports.                                                    *)
(*                                                                         *)
(* A handler releases the FDB lock between its steps but holds the FIB     *)
(* lock throughout (Locks), so that what it has established about the      *)
(* neighbour it works on (Work, NewListed, NewOnPort) survives what the    *)
(* FDB and the notification thread do meanwhile.                           *)
(***************************************************************************)
EXTENDS Neighbor, TLAPS

---------------------------------------------------------------------------
(* The inductive invariant                                                 *)

(* Labels of a creation, and those at which op.new is the new content.     *)
Creating == {"nbrResolve", "nbrCreate"}
HasNew == {"nbrRemove", "setResolve", "setResolved", "setNpu", "setLink"}

Locks == \A t \in Thread : pc[t] \in NbrPc => fibLock = t

(* What the holder of the FIB lock works on, and what it has told the NPU. *)
Work ==
  \A t \in Thread :
    /\ pc[t] \in NbrPc => op.nbr \in Nbr /\ nbrs[op.nbr] \in Info
    /\ pc[t] \in Creating => npuNbrs[op.nbr] = NoInfo
    /\ pc[t] \in HasNew => op.new \in Info
    /\ pc[t] = "setLink" => npuNbrs[op.nbr] = Image(op.new)

Agree(n) == npuNbrs[n] = IF Exists(n) THEN Image(nbrs[n]) ELSE NoInfo

(* NodeIsProgrammed also inside the handlers.                              *)
Programmed ==
  \A n \in Nbr :
    \/ Agree(n)
    \/ \E t \in Thread : op.nbr = n /\ pc[t] \in Creating \cup {"setLink"}

(* RegisteredIffListed holds of every step, of a broken list too.          *)
Registration == registered = {m \in Mac : listed[m] # {}}

(* A list has nothing but neighbours, until it is broken...                *)
ListedExist ==
  ~listBroken => \A m \in Mac : \A n \in listed[m] : nbrs[n] \in Info

(* ... and a neighbour under creation is in the list of its address alone. *)
NewListed ==
  ~listBroken => \A t \in Thread : pc[t] \in Creating =>
    \A m \in Mac : op.nbr \in listed[m] <=>
                     nbrs[op.nbr].forward /\ m = nbrs[op.nbr].mac

(* The notification thread has nothing left when it takes events.          *)
BatchDone == notifPc # "report" => batch = NoEvents

(* The port a new neighbour was resolved to is current, or an event will   *)
(* correct it.                                                             *)
NewOnPort ==
  ~listBroken => \A t \in Thread :
    pc[t] = "nbrCreate" /\ nbrs[op.nbr].forward =>
      LET m == nbrs[op.nbr].mac
      IN nbrs[op.nbr].port = fdb[m] \/ pending[m] # NoEvent \/ batch[m] # NoEvent

IInv ==
  /\ TypeOK /\ Locks /\ Work /\ Programmed
  /\ Registration /\ ListedExist /\ NewListed
  /\ BatchDone /\ NewOnPort /\ WakeNotLost
---------------------------------------------------------------------------
(* What the helpers do                                                     *)

(* Looking for events leaves a byte in the pipe if there are any.          *)
LEMMA WakeUp ==
  ASSUME TypeOK, WakeNotificationThread
  PROVE  /\ wakes' \in 0..MaxWakes
         /\ wakes > 0 => wakes' > 0
         /\ pending # NoEvents => wakes' > 0
BY MaxWakesAssumption DEF TypeOK, FdbTypeOK, WakeNotificationThread

LEMMA WakeUpAfterLookup ==
  ASSUME TypeOK, NEW info, WakeAfterLookup(info)
  PROVE  /\ wakes' \in 0..MaxWakes
         /\ wakes > 0 => wakes' > 0
         /\ pending # NoEvents /\ info.forward /\ info.port # NullPort => wakes' > 0
BY WakeUp DEF WakeAfterLookup, TypeOK, FdbTypeOK

LEMMA FdbUpdate ==
  ASSUME TypeOK, NEW new \in [Mac -> Where], ChangeFdb(new)
  PROVE  /\ fdb' \in [Mac -> Where]
         /\ pending' \in Events
         /\ \A m \in registered : fdb'[m] = fdb[m] \/ pending'[m] # NoEvent
         /\ \A m \in Mac : pending[m] # NoEvent => pending'[m] # NoEvent
         /\ new = fdb => pending' = pending
BY NullAssumption DEF TypeOK, FdbTypeOK, ChangeFdb, Where, Events

(* Only a lookup that found a port can have left an event.                 *)
LEMMA LookupResult ==
  ASSUME TypeOK, NEW info \in Info, NEW new \in Info, Resolved(info, new)
  PROVE  /\ fdb' \in [Mac -> Where]
         /\ pending' \in Events
         /\ new.mac = info.mac /\ new.forward = info.forward
         /\ new.forward => new.port = fdb'[new.mac]
         /\ pending' = pending \/ (new.forward /\ new.port # NullPort)
<1>1. CASE ~info.forward  BY <1>1 DEF Resolved, TypeOK, FdbTypeOK
<1>2. CASE info.forward
  <2>1. PICK p \in Found(info.mac) : FdbLookup(info.mac, p) /\ new = On(info, p)
    BY <1>2 DEF Resolved
  <2>2. info.mac \in Mac /\ p \in Where
    BY <2>1 DEF Info, Found, Where, TypeOK, FdbTypeOK
  <2>3. /\ new.mac = info.mac /\ new.forward = info.forward
        /\ new.port = p
    BY <2>1 DEF On, Info
  <2>4. [fdb EXCEPT ![info.mac] = p] \in [Mac -> Where]
    BY <2>2 DEF TypeOK, FdbTypeOK
  <2>5. fdb' = [fdb EXCEPT ![info.mac] = p]
    BY <2>1 DEF FdbLookup, ChangeFdb
  <2>6. fdb'[info.mac] = p  BY <2>2, <2>5 DEF TypeOK, FdbTypeOK
  <2>7. p = NullPort => [fdb EXCEPT ![info.mac] = p] = fdb
    BY <2>1, <2>2 DEF Found, TypeOK, FdbTypeOK
  <2>8. fdb' \in [Mac -> Where] /\ pending' \in Events
    BY <2>1, <2>4, FdbUpdate DEF FdbLookup
  <2>9. p = NullPort => pending' = pending
    BY <2>1, <2>4, <2>7, FdbUpdate DEF FdbLookup
  <2> QED BY <1>2, <2>3, <2>6, <2>8, <2>9
<1> QED BY <1>1, <1>2

(* An address is registered exactly while its list is not empty; linking   *)
(* and unlinking leave no event behind that was not there.                 *)
LEMMA ListUpdate ==
  ASSUME TypeOK, Registration, NEW n \in Nbr, NEW info \in Info,
         \/ Link(n, info) \/ LinkFails(n, info)
         \/ Unlink(n) /\ nbrs[n] \in Info
  PROVE  /\ fdb' = fdb
         /\ registered' \in SUBSET Mac
         /\ pending' \in Events
         /\ listed' \in [Mac -> SUBSET Nbr]
         /\ listBroken' \in BOOLEAN
         /\ Registration'
         /\ \A m \in Mac : listed'[m] \subseteq listed[m] \cup {n}
         /\ pending' # NoEvents => pending # NoEvents
<1> USE DEF TypeOK, FdbTypeOK, Registration, Linked
<1>1. CASE Link(n, info)
  <2>1. info.mac \in Mac  BY DEF Info
  <2>2. CASE ~info.forward  BY <1>1, <2>2 DEF Link, fdbData
  <2>3. CASE info.forward /\ listed[info.mac] = {}
    BY <1>1, <2>1, <2>3 DEF Link, RegisterFdbEntry
  <2>4. CASE info.forward /\ listed[info.mac] # {}
    BY <1>1, <2>1, <2>4 DEF Link, fdbData
  <2> QED BY <2>2, <2>3, <2>4
<1>2. CASE LinkFails(n, info)  BY <1>2 DEF LinkFails, fdbData
<1>3. CASE Unlink(n) /\ nbrs[n] \in Info
  <2> DEFINE m == nbrs[n].mac
             rest == listed[m] \ {n}
  <2>1. m \in Mac  BY <1>3 DEF Info
  <2>2. CASE ~(nbrs[n].forward /\ listed[m] # {})
    BY <1>3, <2>2 DEF Unlink, fdbData
  <2>3. CASE nbrs[n].forward /\ listed[m] # {}
    <3>1. listed' = [listed EXCEPT ![m] = rest] /\ listBroken' \in BOOLEAN
      BY <1>3, <2>3 DEF Unlink
    <3>2. CASE rest = {}
      <4>1. DeregisterFdbEntry(m)  BY <1>3, <2>3, <3>2 DEF Unlink
      <4>2. pending' \in Events
        BY <2>1, <4>1 DEF DeregisterFdbEntry, Events
      <4>3. pending = NoEvents => pending' = NoEvents
        BY <2>1, <4>1 DEF DeregisterFdbEntry, NoEvents
      <4> QED BY <2>1, <3>1, <3>2, <4>1, <4>2, <4>3 DEF DeregisterFdbEntry
    <3>3. CASE rest # {}
      <4>1. UNCHANGED fdbData  BY <1>3, <2>3, <3>3 DEF Unlink
      <4> QED BY <2>1, <3>1, <3>3, <4>1 DEF fdbData
    <3> QED BY <3>2, <3>3
  <2> QED BY <2>2, <2>3
<1> QED BY <1>1, <1>2, <1>3

(* Nothing the FDB or its thread does touches a neighbour.                 *)
LEMMA FdbFrame ==
  ASSUME TypeOK,
         \/ \E t \in Thread : FdbPart(t) \/ FdbWakePart(t)
         \/ NotifPart \/ UNCHANGED vars
  PROVE  /\ TypeOK'
         /\ UNCHANGED <<nbrVars, registered>>
         /\ \A t \in Thread : pc[t] \in NbrPc \/ pc'[t] \in NbrPc => pc'[t] = pc[t]
<1> USE DEF TypeOK, FdbTypeOK, FdbPc, NbrPc, nbrVars, fdbData, notifVars
<1>1. ASSUME NEW t \in Thread, NEW new \in [Mac -> Where], FdbChange(t, new),
             UNCHANGED nbrVars
      PROVE  /\ TypeOK'
             /\ UNCHANGED <<nbrVars, registered>>
             /\ \A u \in Thread : pc[u] \in NbrPc \/ pc'[u] \in NbrPc => pc'[u] = pc[u]
  <2>1. fdb' \in [Mac -> Where] /\ pending' \in Events
    BY <1>1, FdbUpdate DEF FdbChange
  <2> QED BY <1>1, <2>1 DEF FdbChange, Goto
<1>2. ASSUME NEW t \in Thread, FdbPart(t)
      PROVE  /\ TypeOK'
             /\ UNCHANGED <<nbrVars, registered>>
             /\ \A u \in Thread : pc[u] \in NbrPc \/ pc'[u] \in NbrPc => pc'[u] = pc[u]
  <2>1. FdbCall(t) /\ UNCHANGED nbrVars  BY <1>2 DEF FdbPart
  <2>2. ASSUME NEW m \in Mac, NEW p \in Port, FdbInsert(t, m, p)
        PROVE  \E new \in [Mac -> Where] : FdbChange(t, new)
    BY <2>2 DEF FdbInsert, Where
  <2>3. ASSUME NEW m \in Mac, FdbDelete(t, m)
        PROVE  \E new \in [Mac -> Where] : FdbChange(t, new)
    BY <2>3 DEF FdbDelete, Where
  <2>4. ASSUME NEW ports, NEW kept, FdbFlush(t, ports, kept)
        PROVE  \E new \in [Mac -> Where] : FdbChange(t, new)
    BY <2>4 DEF FdbFlush, Where
  <2>5. ASSUME NEW m \in Mac, NEW p \in Port, FdbSetPortUndone(t, m, p)
        PROVE  /\ TypeOK'
               /\ UNCHANGED <<nbrVars, registered>>
               /\ \A u \in Thread : pc[u] \in NbrPc \/ pc'[u] \in NbrPc => pc'[u] = pc[u]
    <3>1. PICK q \in Found(m) \ {NullPort} : fdb' = [fdb EXCEPT ![m] = q]
      BY <2>5 DEF FdbSetPortUndone
    <3>2. q \in Where  BY <3>1 DEF Found, Where
    <3>3. fdb' \in [Mac -> Where]  BY <3>1, <3>2
    <3>4. pending' \in Events  BY <2>5 DEF FdbSetPortUndone, Events, Where
    <3> QED BY <2>1, <2>5, <3>3, <3>4 DEF FdbSetPortUndone, Goto
  <2> QED BY <1>1, <2>1, <2>2, <2>3, <2>4, <2>5 DEF FdbCall
<1>3. ASSUME NEW t \in Thread, FdbWakePart(t)
      PROVE  /\ TypeOK'
             /\ UNCHANGED <<nbrVars, registered>>
             /\ \A u \in Thread : pc[u] \in NbrPc \/ pc'[u] \in NbrPc => pc'[u] = pc[u]
  BY <1>3, WakeUp DEF FdbWakePart, FdbWake, Goto
<1>4. CASE NotifPart
  <2>1. NoEvents \in Events  BY DEF NoEvents, Events
  <2> QED BY <1>4, <2>1, MaxWakesAssumption
        DEF NotifPart, NotifStep, NotifRead, NotifTake, NotifDone
<1>5. CASE UNCHANGED vars  BY <1>5 DEF vars
<1> QED BY <1>2, <1>3, <1>4, <1>5
---------------------------------------------------------------------------
(* The handlers preserve the invariant                                     *)

(* While a handler moves, no other thread is in one.                       *)
LEMMA Alone ==
  ASSUME TypeOK, Locks, NEW t \in Thread, NEW label \in FdbPc \cup NbrPc,
         pc[t] \in NbrPc \/ fibLock = NoThread, Goto(t, label)
  PROVE  /\ pc' \in [Thread -> FdbPc \cup NbrPc]
         /\ pc'[t] = label
         /\ \A u \in Thread : u # t => pc'[u] = pc[u] /\ pc[u] \notin NbrPc
BY NoThreadAssumption DEF TypeOK, Locks, Goto

LEMMA Images ==
  /\ \A info \in Info : Image(info) \in NpuInfo /\ Image(info) # NoInfo
  /\ NoInfo \notin Info
BY NoInfoAssumption DEF Info, NpuInfo, Image

LEMMA CreateLockStep ==
  ASSUME IInv, NEW t \in Thread, NEW n \in Nbr, NEW m \in Mac,
         NEW forward \in BOOLEAN, ~listBroken, NbrCreateLock(t, n, m, forward)
  PROVE  IInv'
<1> DEFINE info == [mac |-> m, forward |-> forward, port |-> NullPort, unresolved |-> FALSE]
<1>1. info \in Info  BY DEF Info, Where
<1>2. /\ ~Exists(n) /\ FibLock(t, "nbrResolve", n, NoInfo)
      /\ nbrs' = [nbrs EXCEPT ![n] = info] /\ Link(n, info)
      /\ UNCHANGED <<wakes, notifVars, npuNbrs>>
  BY DEF NbrCreateLock
<1>3. /\ fdb' = fdb
      /\ registered' \in SUBSET Mac
      /\ pending' \in Events
      /\ listed' \in [Mac -> SUBSET Nbr]
      /\ listBroken' \in BOOLEAN
      /\ Registration'
      /\ \A x \in Mac : listed'[x] \subseteq listed[x] \cup {n}
      /\ pending' # NoEvents => pending # NoEvents
  BY <1>1, <1>2, ListUpdate DEF IInv
<1>4. /\ pc' \in [Thread -> FdbPc \cup NbrPc]
      /\ pc'[t] = "nbrResolve" /\ pc[t] = "idle"
      /\ \A u \in Thread : pc[u] \notin NbrPc
      /\ \A u \in Thread : u # t => pc'[u] = pc[u]
  BY <1>2, Alone DEF IInv, FibLock, NbrPc
<1>5. fibLock' = t /\ op' = [nbr |-> n, new |-> NoInfo]  BY <1>2 DEF FibLock
<1>6. nbrs'[n] = info /\ \A x \in Nbr : x # n => nbrs'[x] = nbrs[x]
  BY <1>2 DEF IInv, TypeOK
<1>7. TypeOK'
  BY <1>1, <1>2, <1>3, <1>4, <1>5 DEF IInv, TypeOK, FdbTypeOK, notifVars
<1>8. Locks'  BY <1>4, <1>5 DEF Locks, NbrPc
<1>9. npuNbrs[n] = NoInfo /\ \A x \in Nbr : Agree(x)
  BY <1>2, <1>4 DEF IInv, Programmed, Agree, Creating, NbrPc
<1>10. Work'
  BY <1>1, <1>2, <1>4, <1>5, <1>6, <1>9 DEF Work, Creating, HasNew, NbrPc
<1>11. Programmed'
  BY <1>2, <1>4, <1>5, <1>6, <1>9 DEF Programmed, Agree, Exists, Creating
<1>12. ListedExist'
  BY <1>1, <1>3, <1>6 DEF IInv, ListedExist
<1>13. \A x \in Mac : n \notin listed[x]
  BY <1>2, NoInfoAssumption DEF IInv, ListedExist, Exists
<1>14. NewListed'
  <2>1. \A x \in Mac : n \in listed'[x] <=> forward /\ x = m
    BY <1>2, <1>13 DEF Link, IInv, TypeOK
  <2> QED BY <1>4, <1>5, <1>6, <2>1 DEF NewListed, Creating, NbrPc
<1>15. BatchDone' /\ NewOnPort'
  BY <1>2, <1>4 DEF IInv, BatchDone, NewOnPort, notifVars, NbrPc
<1>16. WakeNotLost'
  BY <1>2, <1>3, <1>4 DEF IInv, WakeNotLost, WillWake, notifVars, NbrPc
<1> QED BY <1>3, <1>7, <1>8, <1>10, <1>11, <1>12, <1>14, <1>15, <1>16 DEF IInv
(* A step of the handler of thread t.                                      *)
LEMMA Holder ==
  ASSUME IInv, NEW t \in Thread, pc[t] \in NbrPc, NEW label \in FdbPc \cup NbrPc,
         Goto(t, label)
  PROVE  /\ op.nbr \in Nbr /\ nbrs[op.nbr] \in Info /\ Image(nbrs[op.nbr]) \in NpuInfo
         /\ fibLock = t
         /\ pc' \in [Thread -> FdbPc \cup NbrPc]
         /\ pc'[t] = label
         /\ \A u \in Thread : u # t => pc'[u] = pc[u] /\ pc[u] \notin NbrPc
         /\ \A x \in Nbr : x # op.nbr => Agree(x)
BY Alone, Images DEF IInv, Work, Locks, Programmed

LEMMA ResolveStep ==
  ASSUME IInv, NEW t \in Thread, ~listBroken, NbrResolve(t)
  PROVE  IInv'
<1> DEFINE n == op.nbr
<1>1. /\ pc[t] = "nbrResolve" /\ FibStep(t, "nbrCreate")
      /\ UNCHANGED <<registered, wakes, notifVars, npuNbrs, listed, listBroken>>
  BY DEF NbrResolve
<1>2. PICK new \in Info : Resolved(nbrs[n], new) /\ nbrs' = [nbrs EXCEPT ![n] = new]
  BY DEF NbrResolve
<1>3. /\ n \in Nbr /\ nbrs[n] \in Info /\ fibLock = t
      /\ pc' \in [Thread -> FdbPc \cup NbrPc]
      /\ pc'[t] = "nbrCreate"
      /\ \A u \in Thread : u # t => pc'[u] = pc[u] /\ pc[u] \notin NbrPc
      /\ \A x \in Nbr : x # n => Agree(x)
      /\ UNCHANGED <<fibLock, op>>
  BY <1>1, Holder DEF NbrPc, FibStep
<1>4. /\ fdb' \in [Mac -> Where]
      /\ pending' \in Events
      /\ new.mac = nbrs[n].mac /\ new.forward = nbrs[n].forward
      /\ new.forward => new.port = fdb'[new.mac]
      /\ pending' = pending \/ (new.forward /\ new.port # NullPort)
  BY <1>2, <1>3, LookupResult DEF IInv
<1>5. nbrs'[n] = new /\ \A x \in Nbr : x # n => nbrs'[x] = nbrs[x]
  BY <1>2, <1>3 DEF IInv, TypeOK
<1>6. TypeOK'
  BY <1>1, <1>2, <1>3, <1>4 DEF IInv, TypeOK, FdbTypeOK, notifVars
<1>7. Locks' /\ Work'
  BY <1>1, <1>3, <1>5 DEF IInv, Locks, Work, NbrPc, Creating, HasNew
<1>8. Programmed'
  BY <1>1, <1>3, <1>5 DEF Programmed, Agree, Exists, Creating
<1>9. Registration' /\ ListedExist' /\ BatchDone'
  BY <1>1, <1>5 DEF IInv, Registration, ListedExist, BatchDone, notifVars, TypeOK
<1>10. NewListed'
  BY <1>1, <1>3, <1>4, <1>5 DEF IInv, NewListed, Creating, NbrPc
<1>11. NewOnPort'
  BY <1>1, <1>3, <1>4, <1>5 DEF NewOnPort, NbrPc
<1>12. WakeNotLost'
  BY <1>1, <1>3, <1>4, <1>5 DEF IInv, WakeNotLost, WillWake, notifVars, NbrPc
<1> QED BY <1>6, <1>7, <1>8, <1>9, <1>10, <1>11, <1>12 DEF IInv

LEMMA CreateStep ==
  ASSUME IInv, NEW t \in Thread, ~listBroken, NbrCreate(t)
  PROVE  IInv'
<1>0. PICK n \in Nbr : n = op.nbr  BY DEF IInv, Work, NbrCreate, NbrPc
<1>1. /\ pc[t] = "nbrCreate" /\ FibUnlock(t) /\ WakeAfterLookup(nbrs[n])
      /\ npuNbrs' = [npuNbrs EXCEPT ![n] = Image(nbrs[n])]
      /\ UNCHANGED <<fdbData, notifVars, nbrs, listed, listBroken>>
  BY <1>0 DEF NbrCreate
<1>2. /\ nbrs[n] \in Info /\ Image(nbrs[n]) \in NpuInfo
      /\ pc' \in [Thread -> FdbPc \cup NbrPc]
      /\ pc'[t] = "idle"
      /\ \A u \in Thread : u # t => pc'[u] = pc[u] /\ pc[u] \notin NbrPc
      /\ \A x \in Nbr : x # n => Agree(x)
  BY <1>0, <1>1, Holder DEF NbrPc, FdbPc, FibUnlock
<1>3. \A u \in Thread : pc'[u] \notin NbrPc  BY <1>2 DEF NbrPc
<1>4. /\ wakes' \in 0..MaxWakes
      /\ wakes > 0 => wakes' > 0
      /\ pending # NoEvents /\ nbrs[n].forward /\ nbrs[n].port # NullPort => wakes' > 0
  BY <1>1, WakeUpAfterLookup DEF IInv
<1>5. TypeOK'
  BY <1>1, <1>2, <1>4
     DEF IInv, TypeOK, FdbTypeOK, notifVars, fdbData, FibUnlock, NoOp
<1>6. Locks' /\ Work' /\ NewListed' /\ NewOnPort'
  BY <1>3 DEF Locks, Work, NewListed, NewOnPort, NbrPc, Creating, HasNew
<1>7. \A x \in Nbr : Agree(x)'
  <2>1. Agree(n)'  BY <1>1, <1>2, Images DEF IInv, TypeOK, Agree, Exists
  <2>2. ASSUME NEW x \in Nbr, x # n  PROVE Agree(x)'
    BY <1>1, <1>2, <2>2 DEF IInv, TypeOK, Agree, Exists
  <2> QED BY <2>1, <2>2
<1>8. Programmed'  BY <1>7 DEF Programmed
<1>9. Registration' /\ ListedExist' /\ BatchDone'
  BY <1>1 DEF IInv, Registration, ListedExist, BatchDone, notifVars, fdbData
<1>10. WakeNotLost'
  BY <1>0, <1>1, <1>2, <1>4 DEF IInv, WakeNotLost, WillWake, notifVars, fdbData, NbrPc
<1> QED BY <1>5, <1>6, <1>8, <1>9, <1>10 DEF IInv
(* A step that ends its handler leaves nothing to establish of one.        *)
LEMMA Ended ==
  ASSUME \A u \in Thread : pc'[u] \notin NbrPc, \A x \in Nbr : Agree(x)'
  PROVE  Locks' /\ Work' /\ Programmed' /\ NewListed' /\ NewOnPort'
BY DEF Locks, Work, Programmed, NewListed, NewOnPort, NbrPc, Creating, HasNew

LEMMA CreateFailStep ==
  ASSUME IInv, NEW t \in Thread, ~listBroken, NbrCreateFail(t)
  PROVE  IInv'
<1>0. PICK n \in Nbr : n = op.nbr  BY DEF IInv, Work, NbrCreateFail, NbrPc
<1>1. /\ pc[t] = "nbrCreate" /\ FibUnlock(t)
      /\ WakeAfterLookup(nbrs[n]) /\ Unlink(n)
      /\ nbrs' = [nbrs EXCEPT ![n] = NoInfo]
      /\ UNCHANGED <<notifVars, npuNbrs>>
  BY <1>0 DEF NbrCreateFail
<1>2. /\ nbrs[n] \in Info
      /\ pc' \in [Thread -> FdbPc \cup NbrPc]
      /\ pc'[t] = "idle"
      /\ \A u \in Thread : u # t => pc'[u] = pc[u] /\ pc[u] \notin NbrPc
      /\ \A x \in Nbr : x # n => Agree(x)
  BY <1>0, <1>1, Holder DEF NbrPc, FdbPc, FibUnlock
<1>3. /\ fdb' = fdb
      /\ registered' \in SUBSET Mac
      /\ pending' \in Events
      /\ listed' \in [Mac -> SUBSET Nbr]
      /\ listBroken' \in BOOLEAN
      /\ Registration'
      /\ \A x \in Mac : listed'[x] \subseteq listed[x] \cup {n}
      /\ pending' # NoEvents => pending # NoEvents
  BY <1>1, <1>2, ListUpdate DEF IInv
<1>4. /\ wakes' \in 0..MaxWakes
      /\ wakes > 0 => wakes' > 0
      /\ pending # NoEvents /\ nbrs[n].forward /\ nbrs[n].port # NullPort => wakes' > 0
  BY <1>1, WakeUpAfterLookup DEF IInv
<1>5. TypeOK'
  BY <1>1, <1>2, <1>3, <1>4
     DEF IInv, TypeOK, FdbTypeOK, notifVars, FibUnlock, NoOp
<1>6. \A x \in Nbr : Agree(x)'
  <2>1. npuNbrs[n] = NoInfo  BY <1>0, <1>1 DEF IInv, Work, Creating
  <2> QED BY <1>1, <1>2, <2>1 DEF IInv, TypeOK, Agree, Exists
<1>7. Locks' /\ Work' /\ Programmed' /\ NewListed' /\ NewOnPort'
  <2>1. \A u \in Thread : pc'[u] \notin NbrPc  BY <1>2 DEF NbrPc
  <2> QED BY <1>6, <2>1, Ended
<1>8. ListedExist'
  <2>1. \A m \in Mac : n \in listed[m] <=> nbrs[n].forward /\ m = nbrs[n].mac
    BY <1>0, <1>1 DEF IInv, NewListed, Creating
  <2>2. \A m \in Mac : n \notin listed'[m]
    BY <1>1, <1>2, <2>1 DEF Unlink, Info, IInv, TypeOK
  <2> QED BY <1>1, <1>3, <2>2 DEF IInv, TypeOK, ListedExist
<1>9. BatchDone'  BY <1>1 DEF IInv, BatchDone, notifVars
<1>10. WakeNotLost'
  BY <1>0, <1>1, <1>2, <1>3, <1>4 DEF IInv, WakeNotLost, WillWake, notifVars, NbrPc
<1> QED BY <1>3, <1>5, <1>7, <1>8, <1>9, <1>10 DEF IInv

LEMMA RemoveLockStep ==
  ASSUME IInv, NEW t \in Thread, NEW n \in Nbr, ~listBroken, NbrRemoveLock(t, n)
  PROVE  IInv'
<1>1. /\ Exists(n) /\ FibLock(t, "nbrRemove", n, nbrs[n]) /\ Unlink(n)
      /\ UNCHANGED <<wakes, notifVars, nbrs, npuNbrs>>
  BY DEF NbrRemoveLock
<1>2. /\ nbrs[n] \in Info
      /\ pc' \in [Thread -> FdbPc \cup NbrPc]
      /\ pc'[t] = "nbrRemove" /\ pc[t] = "idle"
      /\ \A u \in Thread : pc[u] \notin NbrPc
      /\ \A u \in Thread : u # t => pc'[u] = pc[u]
      /\ fibLock' = t /\ op' = [nbr |-> n, new |-> nbrs[n]]
  BY <1>1, Alone DEF IInv, TypeOK, Exists, FibLock, NbrPc
<1>3. /\ fdb' = fdb
      /\ registered' \in SUBSET Mac
      /\ pending' \in Events
      /\ listed' \in [Mac -> SUBSET Nbr]
      /\ listBroken' \in BOOLEAN
      /\ Registration'
      /\ \A x \in Mac : listed'[x] \subseteq listed[x] \cup {n}
      /\ pending' # NoEvents => pending # NoEvents
  BY <1>1, <1>2, ListUpdate DEF IInv
<1>4. TypeOK'
  BY <1>1, <1>2, <1>3 DEF IInv, TypeOK, FdbTypeOK, notifVars
<1>5. Locks' /\ Work' /\ NewListed' /\ NewOnPort'
  BY <1>1, <1>2 DEF Locks, Work, NewListed, NewOnPort, NbrPc, Creating, HasNew
<1>6. Programmed'
  BY <1>1, <1>2 DEF IInv, Programmed, Agree, Exists, Creating, NbrPc
<1>7. ListedExist' /\ BatchDone'
  BY <1>1, <1>2, <1>3 DEF IInv, ListedExist, BatchDone, notifVars, TypeOK
<1>8. WakeNotLost'
  BY <1>1, <1>2, <1>3 DEF IInv, WakeNotLost, WillWake, notifVars, NbrPc
<1> QED BY <1>3, <1>4, <1>5, <1>6, <1>7, <1>8 DEF IInv
LEMMA RemoveStep ==
  ASSUME IInv, NEW t \in Thread, ~listBroken, NbrRemove(t)
  PROVE  IInv'
<1>0. PICK n \in Nbr : n = op.nbr  BY DEF IInv, Work, NbrRemove, NbrPc
<1>1. /\ pc[t] = "nbrRemove" /\ FibUnlock(t)
      /\ npuNbrs' = [npuNbrs EXCEPT ![n] = NoInfo]
      /\ nbrs' = [nbrs EXCEPT ![n] = NoInfo]
      /\ listBroken' = Linked(n)
      /\ UNCHANGED <<fdbData, wakes, notifVars, listed>>
  BY <1>0 DEF NbrRemove, Free
<1>2. /\ pc' \in [Thread -> FdbPc \cup NbrPc]
      /\ pc'[t] = "idle"
      /\ \A u \in Thread : u # t => pc'[u] = pc[u] /\ pc[u] \notin NbrPc
      /\ \A x \in Nbr : x # n => Agree(x)
  BY <1>0, <1>1, Holder DEF NbrPc, FdbPc, FibUnlock
<1>3. TypeOK'
  BY <1>1, <1>2 DEF IInv, TypeOK, FdbTypeOK, notifVars, fdbData, FibUnlock, NoOp, Linked
<1>4. \A x \in Nbr : Agree(x)'
  BY <1>1, <1>2 DEF IInv, TypeOK, Agree, Exists
<1>5. Locks' /\ Work' /\ Programmed' /\ NewListed' /\ NewOnPort'
  <2>1. \A u \in Thread : pc'[u] \notin NbrPc  BY <1>2 DEF NbrPc
  <2> QED BY <1>4, <2>1, Ended
<1>6. Registration' /\ ListedExist' /\ BatchDone'
  BY <1>1 DEF IInv, TypeOK, Registration, ListedExist, BatchDone, notifVars, fdbData, Linked
<1>7. WakeNotLost'
  BY <1>1, <1>2 DEF IInv, WakeNotLost, WillWake, notifVars, fdbData, NbrPc
<1> QED BY <1>3, <1>5, <1>6, <1>7 DEF IInv

LEMMA RemoveFailStep ==
  ASSUME IInv, NEW t \in Thread, ~listBroken, NbrRemoveFail(t)
  PROVE  IInv'
<1>0. PICK n \in Nbr, info \in Info : n = op.nbr /\ info = op.new
  BY DEF IInv, Work, NbrRemoveFail, NbrPc, HasNew
<1>1. /\ pc[t] = "nbrRemove" /\ FibUnlock(t)
      /\ Link(n, info) \/ LinkFails(n, info)
      /\ UNCHANGED <<wakes, notifVars, nbrs, npuNbrs>>
  BY <1>0 DEF NbrRemoveFail
<1>2. /\ nbrs[n] \in Info
      /\ pc' \in [Thread -> FdbPc \cup NbrPc]
      /\ pc'[t] = "idle"
      /\ \A u \in Thread : u # t => pc'[u] = pc[u] /\ pc[u] \notin NbrPc
  BY <1>0, <1>1, Holder DEF NbrPc, FdbPc, FibUnlock
<1>3. /\ fdb' = fdb
      /\ registered' \in SUBSET Mac
      /\ pending' \in Events
      /\ listed' \in [Mac -> SUBSET Nbr]
      /\ listBroken' \in BOOLEAN
      /\ Registration'
      /\ \A x \in Mac : listed'[x] \subseteq listed[x] \cup {n}
      /\ pending' # NoEvents => pending # NoEvents
  BY <1>1, ListUpdate DEF IInv
<1>4. TypeOK'
  BY <1>1, <1>2, <1>3 DEF IInv, TypeOK, FdbTypeOK, notifVars, FibUnlock, NoOp
<1>5. \A u \in Thread : pc[u] \notin Creating \cup {"setLink"} /\ pc'[u] \notin NbrPc
  BY <1>1, <1>2 DEF NbrPc, Creating
<1>6. \A x \in Nbr : Agree(x)'
  BY <1>1, <1>5 DEF IInv, Programmed, Agree, Exists
<1>7. Locks' /\ Work' /\ Programmed' /\ NewListed' /\ NewOnPort'
  BY <1>5, <1>6, Ended
<1>8. ListedExist' /\ BatchDone'
  BY <1>1, <1>2, <1>3 DEF IInv, ListedExist, BatchDone, notifVars, TypeOK
<1>9. WakeNotLost'
  BY <1>1, <1>2, <1>3 DEF IInv, WakeNotLost, WillWake, notifVars, NbrPc
<1> QED BY <1>3, <1>4, <1>7, <1>8, <1>9 DEF IInv

(* The handler of an attribute begins.                                     *)
LEMMA SetLockStep ==
  ASSUME IInv, NEW t \in Thread, NEW n \in Nbr, NEW new \in Info,
         NEW label \in {"setResolve", "setNpu"}, FibLock(t, label, n, new), Exists(n),
         UNCHANGED <<fdbData, wakes, notifVars, nbrs, npuNbrs, listed, listBroken>>
  PROVE  IInv'
<1>1. /\ nbrs[n] \in Info
      /\ pc' \in [Thread -> FdbPc \cup NbrPc]
      /\ pc'[t] = label /\ pc[t] = "idle"
      /\ \A u \in Thread : pc[u] \notin NbrPc
      /\ \A u \in Thread : u # t => pc'[u] = pc[u]
      /\ fibLock' = t /\ op' = [nbr |-> n, new |-> new]
  BY Alone DEF IInv, TypeOK, Exists, FibLock, NbrPc
<1>2. TypeOK'
  BY <1>1 DEF IInv, TypeOK, FdbTypeOK, notifVars, fdbData
<1>3. Locks' /\ Work' /\ NewListed' /\ NewOnPort'
  BY <1>1 DEF Locks, Work, NewListed, NewOnPort, NbrPc, Creating, HasNew
<1>4. Programmed'
  BY <1>1 DEF IInv, Programmed, Agree, Exists, Creating, NbrPc
<1>5. Registration' /\ ListedExist' /\ BatchDone'
  BY DEF IInv, Registration, ListedExist, BatchDone, notifVars, fdbData
<1>6. WakeNotLost'
  BY <1>1 DEF IInv, WakeNotLost, WillWake, notifVars, fdbData, NbrPc
<1> QED BY <1>2, <1>3, <1>4, <1>5, <1>6 DEF IInv

LEMMA SetResolveStep ==
  ASSUME IInv, NEW t \in Thread, ~listBroken, NbrSetResolve(t)
  PROVE  IInv'
<1>1. /\ pc[t] = "setResolve" /\ Goto(t, "setResolved")
      /\ UNCHANGED <<registered, wakes, notifVars, fibLock, nbrs, npuNbrs, listed,
                     listBroken>>
      /\ op.new \in Info
  BY DEF NbrSetResolve, IInv, Work, HasNew
<1>2. PICK new \in Info : Resolved(op.new, new) /\ op' = [op EXCEPT !.new = new]
  BY DEF NbrSetResolve
<1>3. /\ op.nbr \in Nbr /\ nbrs[op.nbr] \in Info /\ fibLock = t
      /\ pc' \in [Thread -> FdbPc \cup NbrPc]
      /\ pc'[t] = "setResolved"
      /\ \A u \in Thread : u # t => pc'[u] = pc[u] /\ pc[u] \notin NbrPc
  BY <1>1, Holder DEF NbrPc
<1>4. /\ fdb' \in [Mac -> Where]
      /\ pending' \in Events
      /\ pending' = pending \/ (new.forward /\ new.port # NullPort)
  BY <1>1, <1>2, LookupResult DEF IInv
<1>5. op'.nbr = op.nbr /\ op'.new = new
  BY <1>2 DEF IInv, TypeOK
<1>6. TypeOK'
  BY <1>1, <1>2, <1>3, <1>4 DEF IInv, TypeOK, FdbTypeOK, notifVars
<1>7. Locks' /\ Work' /\ NewListed' /\ NewOnPort'
  BY <1>1, <1>3, <1>5 DEF Locks, Work, NewListed, NewOnPort, NbrPc, Creating, HasNew
<1>8. Programmed'
  BY <1>1, <1>3 DEF IInv, Programmed, Agree, Exists, Creating, NbrPc
<1>9. Registration' /\ ListedExist' /\ BatchDone'
  BY <1>1 DEF IInv, Registration, ListedExist, BatchDone, notifVars
<1>10. WakeNotLost'
  BY <1>1, <1>3, <1>4, <1>5 DEF IInv, WakeNotLost, WillWake, notifVars, NbrPc
<1> QED BY <1>6, <1>7, <1>8, <1>9, <1>10 DEF IInv
LEMMA SetFailStep ==
  ASSUME IInv, NEW t \in Thread, ~listBroken, NbrSetFail(t)
  PROVE  IInv'
<1>1. /\ pc[t] \in {"setNpu", "setResolved"} /\ FibUnlock(t)
      /\ IF pc[t] = "setResolved" THEN WakeAfterLookup(op.new) ELSE UNCHANGED wakes
      /\ UNCHANGED <<fdbData, notifVars, nbrs, npuNbrs, listed, listBroken>>
  BY DEF NbrSetFail
<1>2. /\ pc' \in [Thread -> FdbPc \cup NbrPc]
      /\ pc'[t] = "idle"
      /\ \A u \in Thread : u # t => pc'[u] = pc[u] /\ pc[u] \notin NbrPc
  BY <1>1, Holder DEF NbrPc, FdbPc, FibUnlock
<1>3. /\ wakes' \in 0..MaxWakes
      /\ wakes > 0 => wakes' > 0
      /\ pending # NoEvents /\ WillWake(t) => wakes' > 0
  BY <1>1, WakeUpAfterLookup DEF IInv, TypeOK, FdbTypeOK, WillWake
<1>4. TypeOK'
  BY <1>1, <1>2, <1>3 DEF IInv, TypeOK, FdbTypeOK, notifVars, fdbData, FibUnlock, NoOp
<1>5. \A u \in Thread : pc[u] \notin Creating \cup {"setLink"} /\ pc'[u] \notin NbrPc
  BY <1>1, <1>2 DEF NbrPc, Creating
<1>6. \A x \in Nbr : Agree(x)'
  BY <1>1, <1>5 DEF IInv, Programmed, Agree, Exists
<1>7. Locks' /\ Work' /\ Programmed' /\ NewListed' /\ NewOnPort'
  BY <1>5, <1>6, Ended
<1>8. Registration' /\ ListedExist' /\ BatchDone'
  BY <1>1 DEF IInv, Registration, ListedExist, BatchDone, notifVars, fdbData
<1>9. ASSUME NEW u \in Thread, u # t  PROVE ~WillWake(u)
  BY <1>2, <1>9 DEF WillWake, NbrPc
<1>10. WakeNotLost'
  BY <1>1, <1>2, <1>3, <1>9 DEF IInv, WakeNotLost, notifVars, fdbData
<1> QED BY <1>4, <1>7, <1>8, <1>10 DEF IInv

LEMMA SetAloneStep ==
  ASSUME IInv, NEW t \in Thread, ~listBroken, NbrSetAlone(t)
  PROVE  IInv'
<1>0. PICK n \in Nbr, info \in Info : n = op.nbr /\ info = op.new
  BY DEF IInv, Work, NbrSetAlone, NbrPc, HasNew
<1>1. /\ pc[t] = "setNpu" /\ FibUnlock(t)
      /\ npuNbrs' = [npuNbrs EXCEPT ![n] = Image(info)]
      /\ nbrs' = [nbrs EXCEPT ![n] = info]
      /\ UNCHANGED <<fdbData, wakes, notifVars, listed, listBroken>>
  BY <1>0 DEF NbrSetAlone
<1>2. /\ pc' \in [Thread -> FdbPc \cup NbrPc]
      /\ pc'[t] = "idle"
      /\ \A u \in Thread : u # t => pc'[u] = pc[u] /\ pc[u] \notin NbrPc
      /\ \A x \in Nbr : x # n => Agree(x)
  BY <1>0, <1>1, Holder DEF NbrPc, FdbPc, FibUnlock
<1>3. TypeOK'
  BY <1>1, <1>2, Images
     DEF IInv, TypeOK, FdbTypeOK, notifVars, fdbData, FibUnlock, NoOp
<1>4. \A x \in Nbr : Agree(x)'
  BY <1>1, <1>2, Images DEF IInv, TypeOK, Agree, Exists
<1>5. Locks' /\ Work' /\ Programmed' /\ NewListed' /\ NewOnPort'
  <2>1. \A u \in Thread : pc'[u] \notin NbrPc  BY <1>2 DEF NbrPc
  <2> QED BY <1>4, <2>1, Ended
<1>6. Registration' /\ ListedExist' /\ BatchDone'
  BY <1>1 DEF IInv, TypeOK, Registration, ListedExist, BatchDone, notifVars, fdbData
<1>7. WakeNotLost'
  BY <1>1, <1>2 DEF IInv, WakeNotLost, WillWake, notifVars, fdbData, NbrPc
<1> QED BY <1>3, <1>5, <1>6, <1>7 DEF IInv

LEMMA SetUnlinkStep ==
  ASSUME IInv, NEW t \in Thread, ~listBroken, NbrSetUnlink(t)
  PROVE  IInv'
<1>0. PICK n \in Nbr, info \in Info : n = op.nbr /\ info = op.new
  BY DEF IInv, Work, NbrSetUnlink, NbrPc, HasNew
<1>1. /\ pc[t] = "setResolved" /\ FibStep(t, "setLink")
      /\ WakeAfterLookup(info) /\ Unlink(n)
      /\ npuNbrs' = [npuNbrs EXCEPT ![n] = Image(info)]
      /\ UNCHANGED <<notifVars, nbrs>>
  BY <1>0 DEF NbrSetUnlink
<1>2. /\ nbrs[n] \in Info /\ fibLock = t
      /\ pc' \in [Thread -> FdbPc \cup NbrPc]
      /\ pc'[t] = "setLink"
      /\ \A u \in Thread : u # t => pc'[u] = pc[u] /\ pc[u] \notin NbrPc
      /\ \A x \in Nbr : x # n => Agree(x)
      /\ UNCHANGED <<fibLock, op>>
  BY <1>0, <1>1, Holder DEF NbrPc, FibStep
<1>3. /\ fdb' = fdb
      /\ registered' \in SUBSET Mac
      /\ pending' \in Events
      /\ listed' \in [Mac -> SUBSET Nbr]
      /\ listBroken' \in BOOLEAN
      /\ Registration'
      /\ \A x \in Mac : listed'[x] \subseteq listed[x] \cup {n}
      /\ pending' # NoEvents => pending # NoEvents
  BY <1>1, <1>2, ListUpdate DEF IInv
<1>4. /\ wakes' \in 0..MaxWakes
      /\ wakes > 0 => wakes' > 0
      /\ pending # NoEvents /\ info.forward /\ info.port # NullPort => wakes' > 0
  BY <1>1, WakeUpAfterLookup DEF IInv
<1>5. npuNbrs'[n] = Image(info) /\ \A x \in Nbr : x # n => npuNbrs'[x] = npuNbrs[x]
  BY <1>1 DEF IInv, TypeOK
<1>6. TypeOK'
  BY <1>1, <1>2, <1>3, <1>4, Images DEF IInv, TypeOK, FdbTypeOK, notifVars
<1>7. Locks' /\ Work' /\ NewListed' /\ NewOnPort'
  BY <1>0, <1>1, <1>2, <1>5
     DEF Locks, Work, NewListed, NewOnPort, NbrPc, Creating, HasNew
<1>8. Programmed'
  BY <1>0, <1>1, <1>2, <1>5 DEF Programmed, Agree, Exists
<1>9. ListedExist' /\ BatchDone'
  BY <1>1, <1>2, <1>3 DEF IInv, ListedExist, BatchDone, notifVars, TypeOK
<1>10. WakeNotLost'
  BY <1>0, <1>1, <1>2, <1>3, <1>4 DEF IInv, WakeNotLost, WillWake, notifVars, NbrPc
<1> QED BY <1>3, <1>6, <1>7, <1>8, <1>9, <1>10 DEF IInv

LEMMA SetLinkStep ==
  ASSUME IInv, NEW t \in Thread, ~listBroken, NbrSetLink(t)
  PROVE  IInv'
<1>0. PICK n \in Nbr, info \in Info : n = op.nbr /\ info = op.new
  BY DEF IInv, Work, NbrSetLink, NbrPc, HasNew
<1>1. /\ pc[t] = "setLink" /\ FibUnlock(t)
      /\ nbrs' = [nbrs EXCEPT ![n] = info]
      /\ Link(n, info) \/ LinkFails(n, info)
      /\ UNCHANGED <<wakes, notifVars, npuNbrs>>
  BY <1>0 DEF NbrSetLink
<1>2. /\ npuNbrs[n] = Image(info)
      /\ pc' \in [Thread -> FdbPc \cup NbrPc]
      /\ pc'[t] = "idle"
      /\ \A u \in Thread : u # t => pc'[u] = pc[u] /\ pc[u] \notin NbrPc
      /\ \A x \in Nbr : x # n => Agree(x)
  BY <1>0, <1>1, Holder DEF NbrPc, FdbPc, FibUnlock, IInv, Work
<1>3. /\ fdb' = fdb
      /\ registered' \in SUBSET Mac
      /\ pending' \in Events
      /\ listed' \in [Mac -> SUBSET Nbr]
      /\ listBroken' \in BOOLEAN
      /\ Registration'
      /\ \A x \in Mac : listed'[x] \subseteq listed[x] \cup {n}
      /\ pending' # NoEvents => pending # NoEvents
  BY <1>1, ListUpdate DEF IInv
<1>4. TypeOK'
  BY <1>1, <1>2, <1>3 DEF IInv, TypeOK, FdbTypeOK, notifVars, FibUnlock, NoOp
<1>5. \A x \in Nbr : Agree(x)'
  BY <1>1, <1>2, Images DEF IInv, TypeOK, Agree, Exists
<1>6. Locks' /\ Work' /\ Programmed' /\ NewListed' /\ NewOnPort'
  <2>1. \A u \in Thread : pc'[u] \notin NbrPc  BY <1>2 DEF NbrPc
  <2> QED BY <1>5, <2>1, Ended
<1>7. ListedExist' /\ BatchDone'
  BY <1>1, <1>3 DEF IInv, ListedExist, BatchDone, notifVars, TypeOK
<1>8. WakeNotLost'
  BY <1>1, <1>2, <1>3 DEF IInv, WakeNotLost, WillWake, notifVars, NbrPc
<1> QED BY <1>3, <1>4, <1>6, <1>7, <1>8 DEF IInv
LEMMA MovedNode ==
  ASSUME NEW info \in Info, NEW p \in Where
  PROVE  /\ On(info, p) \in Info
         /\ MovedBut(info, p) \in Info
         /\ Image(MovedBut(info, p)) = Image(info)
BY DEF On, MovedBut, Info, Image

LEMMA CallbackStep ==
  ASSUME IInv, NEW m \in Mac, ~listBroken, NEW refused \in SUBSET Nbr,
         NbrPortIdSet(m, refused)
  PROVE  IInv'
<1> DEFINE p == batch[m]
           moved == {n \in listed[m] : nbrs[n].port # p}
<1>1. /\ fibLock = NoThread /\ Reported(m)
      /\ refused \subseteq moved
      /\ nbrs' = [n \in Nbr |->
           IF n \in refused THEN MovedBut(nbrs[n], p)
           ELSE IF n \in moved THEN On(nbrs[n], p) ELSE nbrs[n]]
      /\ npuNbrs' = [n \in Nbr |->
           IF n \in moved \ refused THEN Image(nbrs'[n]) ELSE npuNbrs[n]]
      /\ UNCHANGED <<pc, fibLock, op, listed, listBroken>>
  BY DEF NbrPortIdSet
<1>2. p \in Where
  BY <1>1 DEF Reported, IInv, TypeOK, FdbTypeOK, Events
<1>3. \A n \in moved : n \in Nbr /\ nbrs[n] \in Info
  BY DEF IInv, ListedExist, TypeOK
<1>4. \A u \in Thread : pc[u] \notin NbrPc
  BY <1>1, NoThreadAssumption DEF IInv, Locks
<1>5. ASSUME NEW n \in Nbr
      PROVE  /\ nbrs'[n] \in Info \cup {NoInfo}
             /\ npuNbrs'[n] \in NpuInfo \cup {NoInfo}
             /\ nbrs[n] \in Info => nbrs'[n] \in Info
             /\ Agree(n)'
  <2>1. Agree(n)
    BY <1>4 DEF IInv, Programmed, Creating, NbrPc
  <2>2. CASE n \in refused
    <3>1. nbrs'[n] = MovedBut(nbrs[n], p) /\ npuNbrs'[n] = npuNbrs[n] /\ nbrs[n] \in Info
      BY <1>1, <1>3, <2>2
    <3>2. nbrs'[n] \in Info /\ Image(nbrs'[n]) = Image(nbrs[n])
      BY <1>2, <3>1, MovedNode
    <3> QED BY <2>1, <3>1, <3>2, Images DEF Agree, Exists, IInv, TypeOK
  <2>3. CASE n \in moved \ refused
    <3>1. nbrs'[n] = On(nbrs[n], p) /\ npuNbrs'[n] = Image(nbrs'[n]) /\ nbrs[n] \in Info
      BY <1>1, <1>3, <2>3
    <3>2. nbrs'[n] \in Info  BY <1>2, <3>1, MovedNode
    <3> QED BY <3>1, <3>2, Images DEF Agree, Exists
  <2>4. CASE n \notin moved
    <3>1. nbrs'[n] = nbrs[n] /\ npuNbrs'[n] = npuNbrs[n]
      BY <1>1, <2>4
    <3> QED BY <2>1, <3>1 DEF Agree, Exists, IInv, TypeOK
  <2> QED BY <2>2, <2>3, <2>4
<1>6. TypeOK'
  <2>1. nbrs' \in [Nbr -> Info \cup {NoInfo}] /\ npuNbrs' \in [Nbr -> NpuInfo \cup {NoInfo}]
    BY <1>1, <1>5
  <2>2. FdbTypeOK'
    BY <1>1 DEF IInv, TypeOK, FdbTypeOK, Reported, fdbData, Events
  <2> QED BY <1>1, <2>1, <2>2 DEF IInv, TypeOK
<1>7. Locks' /\ Work' /\ Programmed' /\ NewListed' /\ NewOnPort'
  <2>1. \A u \in Thread : pc'[u] \notin NbrPc  BY <1>1, <1>4
  <2> QED BY <1>5, <2>1, Ended
<1>8. Registration' /\ ListedExist' /\ BatchDone'
  BY <1>1, <1>5
     DEF IInv, Registration, ListedExist, BatchDone, Reported, fdbData, TypeOK
<1>9. WakeNotLost'
  BY <1>1, <1>4 DEF IInv, WakeNotLost, WillWake, Reported, fdbData, NbrPc
<1> QED BY <1>6, <1>7, <1>8, <1>9 DEF IInv

(* A change of the FDB that a new neighbour must hear of leaves an event.  *)
LEMMA FdbEvent ==
  ASSUME TypeOK, NEW t \in Thread, FdbCall(t)
  PROVE  /\ pc[t] = "idle" /\ pc' = [pc EXCEPT ![t] = "wake"]
         /\ UNCHANGED <<wakes, notifVars>>
         /\ \A m \in registered : fdb'[m] = fdb[m] \/ pending'[m] # NoEvent
         /\ \A m \in Mac : pending[m] # NoEvent => pending'[m] # NoEvent
<1>1. ASSUME NEW new \in [Mac -> Where], FdbChange(t, new)
      PROVE  /\ pc[t] = "idle" /\ pc' = [pc EXCEPT ![t] = "wake"]
             /\ UNCHANGED <<wakes, notifVars>>
             /\ \A m \in registered : fdb'[m] = fdb[m] \/ pending'[m] # NoEvent
             /\ \A m \in Mac : pending[m] # NoEvent => pending'[m] # NoEvent
  BY <1>1, FdbUpdate DEF FdbChange, Goto
<1>2. ASSUME NEW m \in Mac, NEW p \in Port, FdbInsert(t, m, p)
      PROVE  \E new \in [Mac -> Where] : FdbChange(t, new)
  BY <1>2 DEF FdbInsert, Where, TypeOK, FdbTypeOK
<1>3. ASSUME NEW m \in Mac, FdbDelete(t, m)
      PROVE  \E new \in [Mac -> Where] : FdbChange(t, new)
  BY <1>3 DEF FdbDelete, Where, TypeOK, FdbTypeOK
<1>4. ASSUME NEW ports, NEW kept, FdbFlush(t, ports, kept)
      PROVE  \E new \in [Mac -> Where] : FdbChange(t, new)
  BY <1>4 DEF FdbFlush, Where, TypeOK, FdbTypeOK
<1>5. ASSUME NEW m \in Mac, NEW p \in Port, FdbSetPortUndone(t, m, p)
      PROVE  /\ pc[t] = "idle" /\ pc' = [pc EXCEPT ![t] = "wake"]
             /\ UNCHANGED <<wakes, notifVars>>
             /\ \A x \in registered : fdb'[x] = fdb[x] \/ pending'[x] # NoEvent
             /\ \A x \in Mac : pending[x] # NoEvent => pending'[x] # NoEvent
  BY <1>5, NullAssumption
     DEF FdbSetPortUndone, TypeOK, FdbTypeOK, Events, Goto
<1> QED BY <1>1, <1>2, <1>3, <1>4, <1>5 DEF FdbCall

LEMMA FdbStep ==
  ASSUME IInv,
         \/ \E t \in Thread : FdbPart(t) \/ FdbWakePart(t)
         \/ NotifPart \/ UNCHANGED vars
  PROVE  IInv'
<1>1. /\ TypeOK'
      /\ UNCHANGED <<nbrVars, registered>>
      /\ \A t \in Thread : pc[t] \in NbrPc \/ pc'[t] \in NbrPc => pc'[t] = pc[t]
  BY FdbFrame DEF IInv
<1>2. /\ UNCHANGED <<fibLock, op, nbrs, npuNbrs, listed, listBroken, registered>>
      /\ \A t \in Thread, label \in NbrPc : pc'[t] = label <=> pc[t] = label
  BY <1>1 DEF nbrVars
<1>3. Locks' /\ Work' /\ Programmed'
  BY <1>2 DEF IInv, Locks, Work, Programmed, Agree, Exists, Creating, HasNew, NbrPc
<1>4. Registration' /\ ListedExist' /\ NewListed'
  BY <1>2 DEF IInv, Registration, ListedExist, NewListed, Creating, NbrPc
<1>5. BatchDone'
  BY FdbEvent DEF IInv, BatchDone, FdbPart, FdbWakePart, FdbWake, NotifPart, NotifStep,
     NotifRead, NotifTake, NotifDone, notifVars, vars
<1>6. NewOnPort'
  <2> SUFFICES ASSUME ~listBroken, NEW t \in Thread,
                      pc[t] = "nbrCreate", nbrs[op.nbr].forward
               PROVE  LET m == nbrs[op.nbr].mac
                      IN nbrs[op.nbr].port = fdb'[m] \/ pending'[m] # NoEvent
                                                    \/ batch'[m] # NoEvent
    BY <1>2 DEF NewOnPort, NbrPc
  <2> DEFINE m == nbrs[op.nbr].mac
  <2>1. op.nbr \in Nbr /\ nbrs[op.nbr] \in Info /\ m \in Mac
    BY DEF IInv, Work, NbrPc, Info
  <2>2. op.nbr \in listed[m]
    BY <2>1 DEF IInv, NewListed, Creating
  <2>3. m \in registered  BY <2>1, <2>2 DEF IInv, Registration
  <2>4. nbrs[op.nbr].port = fdb[m] \/ pending[m] # NoEvent \/ batch[m] # NoEvent
    BY DEF IInv, NewOnPort
  <2>5. ASSUME NEW u \in Thread, FdbPart(u)
        PROVE  nbrs[op.nbr].port = fdb'[m] \/ pending'[m] # NoEvent \/ batch'[m] # NoEvent
    BY <2>1, <2>3, <2>4, <2>5, FdbEvent DEF IInv, FdbPart, notifVars
  <2>6. CASE NotifPart
    <3>1. CASE NotifTake
      <4>1. batch[m] = NoEvent
        BY <2>1, <3>1 DEF IInv, BatchDone, NotifTake, NoEvents
      <4> QED BY <2>4, <3>1, <4>1 DEF NotifTake
    <3>2. CASE NotifRead \/ NotifDone
      BY <2>4, <3>2 DEF NotifRead, NotifDone, fdbData
    <3> QED BY <2>6, <3>1, <3>2 DEF NotifPart, NotifStep
  <2>7. CASE UNCHANGED vars \/ \E u \in Thread : FdbWakePart(u)
    BY <2>4, <2>7 DEF vars, FdbWakePart, FdbWake, fdbData, notifVars
  <2> QED BY <2>5, <2>6, <2>7
<1>7. WakeNotLost'
  <2>1. \A t \in Thread : WillWake(t) => WillWake(t)'
    BY <1>2 DEF WillWake, NbrPc
  <2>2. ASSUME NEW u \in Thread, FdbPart(u)  PROVE WakeNotLost'
    BY <2>2, FdbEvent DEF IInv, TypeOK, WakeNotLost, FdbPart
  <2>3. ASSUME NEW u \in Thread, FdbWakePart(u)  PROVE WakeNotLost'
    BY <2>1, <2>3, WakeUp
       DEF IInv, TypeOK, WakeNotLost, FdbWakePart, FdbWake, Goto, fdbData, notifVars
  <2>4. CASE NotifPart
    BY <2>1, <2>4
       DEF IInv, WakeNotLost, NotifPart, NotifStep, NotifRead, NotifTake, NotifDone, fdbData
  <2>5. CASE UNCHANGED vars
    BY <2>1, <2>5 DEF IInv, WakeNotLost, vars, fdbData, notifVars
  <2> QED BY <2>2, <2>3, <2>4, <2>5
<1> QED BY <1>1, <1>3, <1>4, <1>5, <1>6, <1>7 DEF IInv
---------------------------------------------------------------------------
(* The theorems                                                            *)

LEMMA InitInv == Init => IInv
<1> SUFFICES ASSUME Init  PROVE IInv
  OBVIOUS
<1>1. \A t \in Thread : pc[t] = "idle"  BY DEF Init, FdbInit
<1>2. TypeOK
  <2>1. NoEvents \in Events  BY DEF NoEvents, Events
  <2>2. FdbTypeOK
    BY <2>1, MaxWakesAssumption DEF Init, FdbInit, FdbTypeOK, Where
  <2> QED BY <2>2 DEF Init, FdbInit, TypeOK, NoOp, FdbPc
<1>3. Locks /\ Work /\ NewListed /\ NewOnPort
  BY <1>1 DEF Locks, Work, NewListed, NewOnPort, NbrPc, Creating, HasNew
<1>4. Programmed  BY DEF Init, Programmed, Agree, Exists
<1>5. Registration /\ ListedExist
  BY DEF Init, FdbInit, Registration, ListedExist
<1>6. BatchDone /\ WakeNotLost
  BY DEF Init, FdbInit, BatchDone, WakeNotLost
<1> QED BY <1>2, <1>3, <1>4, <1>5, <1>6 DEF IInv

LEMMA StepInv == IInv /\ [Next]_vars => IInv'
<1> SUFFICES ASSUME IInv, [Next]_vars  PROVE IInv'
  OBVIOUS
<1>1. ASSUME NEW t \in Thread, NbrStep(t)  PROVE IInv'
  BY <1>1, ResolveStep, CreateStep, CreateFailStep, RemoveStep, RemoveFailStep,
     SetResolveStep, SetFailStep, SetAloneStep, SetUnlinkStep, SetLinkStep DEF NbrStep
<1>2. ASSUME NEW t \in Thread, NbrCall(t)  PROVE IInv'
  <2>1. ~listBroken  BY <1>2 DEF NbrCall
  <2>2. ASSUME NEW n \in Nbr, NEW m \in Mac, NbrSetMac(t, n, m)  PROVE IInv'
    <3>1. [nbrs[n] EXCEPT !.mac = m] \in Info
      BY <2>2 DEF NbrSetMac, Exists, IInv, TypeOK, Info
    <3> QED BY <2>2, <3>1, SetLockStep DEF NbrSetMac
  <2>3. ASSUME NEW n \in Nbr, NEW forward \in BOOLEAN, NbrSetAction(t, n, forward)
        PROVE  IInv'
    <3>1. [nbrs[n] EXCEPT !.forward = forward] \in Info
      BY <2>3 DEF NbrSetAction, Exists, IInv, TypeOK, Info
    <3> QED BY <2>3, <3>1, SetLockStep DEF NbrSetAction
  <2> QED BY <1>2, <2>1, <2>2, <2>3, CreateLockStep, RemoveLockStep DEF NbrCall
<1>3. ASSUME NEW m \in Mac, Callback(m)  PROVE IInv'
  BY <1>3, CallbackStep DEF Callback
<1> QED BY <1>1, <1>2, <1>3, FdbStep DEF Next

(* The inductive invariant: between the steps of a handler, what it has    *)
(* established about its neighbour survives the FDB.                       *)
THEOREM Invariance == Spec => []IInv
BY InitInv, StepInv, PTL DEF Spec

(* Every variable of the FDB and of the neighbours keeps its type.         *)
THEOREM TypeCorrectness == Spec => []TypeOK
BY Invariance, PTL DEF IInv

(* Whatever fails, the NPU has of every neighbour what its node says while *)
(* no handler is at work (sai_l3_neighbor.c, every handler).               *)
THEOREM Programming == Spec => []NodeIsProgrammed
<1>1. IInv => NodeIsProgrammed
  BY NoThreadAssumption
     DEF IInv, NodeIsProgrammed, AtRest, Locks, Programmed, Agree, Creating, NbrPc
<1> QED BY <1>1, Invariance, PTL

(* An address is registered exactly while a neighbour is listed under it   *)
(* (sai_fib_neighbor_mac_entry_insert and _remove).                        *)
THEOREM RegistrationExact == Spec => []RegisteredIffListed
<1>1. IInv => RegisteredIffListed
  BY DEF IInv, RegisteredIffListed, Registration
<1> QED BY <1>1, Invariance, PTL

(* No pending event is ever stranded, though threads look for events with  *)
(* no lock held (sai_fdb_wake_notification_thread).                        *)
THEOREM NoLostWake == Spec => []WakeNotLost
BY Invariance, PTL DEF IInv

(* A neighbour is created on the port its address is on, or an event that  *)
(* will move it is under way (sai_fib_neighbor_create).                    *)
THEOREM BornOnFdbPort == Spec => CreatedOnFdbPort
<1> DEFINE Born ==
      \A n \in Nbr :
        npuNbrs[n] = NoInfo /\ npuNbrs'[n] # NoInfo /\ npuNbrs'[n].forward =>
          LET m == npuNbrs'[n].mac
          IN \/ npuNbrs'[n].port = fdb[m]
             \/ pending[m] # NoEvent
             \/ batch[m] # NoEvent
<1>1. ASSUME IInv, [Next]_vars  PROVE [Born]_vars
  <2>1. ASSUME NEW t \in Thread, ~listBroken, NbrCreate(t)  PROVE Born
    <3> SUFFICES ASSUME NEW n \in Nbr, npuNbrs[n] = NoInfo, npuNbrs'[n] # NoInfo,
                        npuNbrs'[n].forward
                 PROVE  LET m == npuNbrs'[n].mac
                        IN npuNbrs'[n].port = fdb[m] \/ pending[m] # NoEvent
                                                    \/ batch[m] # NoEvent
      OBVIOUS
    <3>1. n = op.nbr /\ npuNbrs'[n] = Image(nbrs[n])
      BY <1>1, <2>1 DEF NbrCreate, IInv, TypeOK
    <3>2. /\ Image(nbrs[n]).mac = nbrs[n].mac
          /\ Image(nbrs[n]).port = nbrs[n].port
          /\ Image(nbrs[n]).forward = nbrs[n].forward
      BY DEF Image
    <3> QED BY <1>1, <2>1, <3>1, <3>2 DEF IInv, NewOnPort, NbrCreate
  <2>2. ASSUME NEW t \in Thread, ~listBroken, NbrSetAlone(t) \/ NbrSetUnlink(t)
        PROVE  Born
    <3>1. npuNbrs[op.nbr] # NoInfo
      <4>1. /\ op.nbr \in Nbr /\ nbrs[op.nbr] \in Info
            /\ pc[t] \in {"setNpu", "setResolved"} /\ fibLock = t
        BY <1>1, <2>2 DEF NbrSetAlone, NbrSetUnlink, IInv, Work, Locks, NbrPc
      <4>2. \A u \in Thread : pc[u] \notin Creating \cup {"setLink"}
        BY <1>1, <4>1 DEF IInv, Locks, NbrPc, Creating
      <4> QED BY <1>1, <4>1, <4>2, Images DEF IInv, Programmed, Agree, Exists
    <3>2. \A n \in Nbr : n # op.nbr => npuNbrs'[n] = npuNbrs[n]
      BY <1>1, <2>2 DEF NbrSetAlone, NbrSetUnlink, IInv, TypeOK
    <3> QED BY <3>1, <3>2
  <2>3. ASSUME NEW m \in Mac, Callback(m)  PROVE Born
    <3>1. PICK refused \in SUBSET Nbr : NbrPortIdSet(m, refused)
      BY <2>3 DEF Callback
    <3>2. \A n \in Nbr : nbrs[n] \in Info => npuNbrs[n] # NoInfo
      BY <1>1, <3>1, Images, NoThreadAssumption
         DEF NbrPortIdSet, IInv, Locks, Programmed, Agree, Exists, Creating, NbrPc
    <3>3. \A n \in listed[m] : n \in Nbr /\ nbrs[n] \in Info
      BY <1>1, <2>3 DEF Callback, IInv, ListedExist, TypeOK
    <3>4. \A n \in Nbr : n \notin listed[m] => npuNbrs'[n] = npuNbrs[n]
      BY <3>1 DEF NbrPortIdSet
    <3> QED BY <3>2, <3>3, <3>4
  <2>4. ASSUME NEW t \in Thread, NbrRemove(t)  PROVE Born
    BY <1>1, <2>4 DEF NbrRemove, IInv, TypeOK
  <2>5. ASSUME UNCHANGED npuNbrs  PROVE Born
    BY <2>5
  <2>6. ASSUME NEW t \in Thread,
               \/ FdbPart(t) \/ FdbWakePart(t) \/ NbrCall(t)
               \/ NbrResolve(t) \/ NbrCreateFail(t) \/ NbrRemoveFail(t)
               \/ NbrSetResolve(t) \/ NbrSetFail(t) \/ NbrSetLink(t)
        PROVE  UNCHANGED npuNbrs
    BY <2>6 DEF FdbPart, FdbWakePart, nbrVars, NbrCall, NbrCreateLock, NbrRemoveLock,
       NbrSetMac, NbrSetAction, NbrResolve, NbrCreateFail, NbrRemoveFail,
       NbrSetResolve, NbrSetFail, NbrSetLink
  <2>7. CASE NotifPart \/ UNCHANGED vars
    BY <2>5, <2>7 DEF NotifPart, nbrVars, vars
  <2> QED BY <1>1, <2>1, <2>2, <2>3, <2>4, <2>5, <2>6, <2>7 DEF Next, NbrStep
<1> QED BY <1>1, Invariance, PTL DEF Spec, CreatedOnFdbPort
=============================================================================
