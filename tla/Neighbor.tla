------------------------------ MODULE Neighbor ------------------------------
(***************************************************************************)
(* Neighbours on VLAN interfaces: src/src/routing/sai_l3_neighbor.c,       *)
(* composed with the forwarding database of Fdb.tla.                       *)
(*                                                                         *)
(* Every handler runs under sai_fib_lock and calls the FDB, which takes    *)
(* its own lock, inside it: to register the MAC address of a neighbour, to *)
(* ask for the port it is on, and to deregister it.  A neighbour that      *)
(* forwards is linked into the list of its MAC address, so that the        *)
(* callback of the notification thread can move it to another port.        *)
(*                                                                         *)
(* A node has one link: linking a linked node, unlinking from a list it is *)
(* not in, or freeing a linked node breaks the list.  What the code does   *)
(* with a broken list is undefined, and the model stops there.             *)
(*                                                                         *)
(* A neighbour on a port interface has that port for good, and none of     *)
(* this.  The record a neighbour shares with a next hop is left out.       *)
(***************************************************************************)
EXTENDS Fdb

CONSTANTS
  Nbr,         \* the neighbours: an interface and an IP address each
  NoThread,    \* owner of a lock that is free
  NoInfo       \* content of the node of a neighbour that does not exist

VARIABLES
  fibLock,     \* the thread that holds sai_fib_lock
  op,          \* what that thread works on
  nbrs,        \* the node of each neighbour
  npuNbrs,     \* what the NPU has of each neighbour
  listed,      \* the list of each MAC address
  listBroken   \* has a list become undefined?

nbrVars == <<fibLock, op, nbrs, npuNbrs, listed, listBroken>>
vars == <<pc, fdbData, wakes, notifVars, nbrVars>>

(* forward stands for the packet actions FORWARD and LOG.                  *)
Info == [mac : Mac, forward : BOOLEAN, port : Where, unresolved : BOOLEAN]

(* The attributes of a node that the NPU is given.                         *)
NpuInfo == [mac : Mac, forward : BOOLEAN, port : Where]
Image(info) == [mac |-> info.mac, forward |-> info.forward, port |-> info.port]

ASSUME NoThreadAssumption == NoThread \notin Thread
ASSUME NoInfoAssumption == NoInfo \notin Nbr \cup Info \cup NpuInfo

NoOp == [nbr |-> NoInfo, new |-> NoInfo]

Exists(n) == nbrs[n] # NoInfo
Linked(n) == \E m \in Mac : n \in listed[m]

NbrPc == {"nbrResolve", "nbrCreate", "nbrRemove",
          "setResolve", "setResolved", "setNpu", "setLink"}

TypeOK ==
  /\ FdbTypeOK
  /\ pc \in [Thread -> FdbPc \cup NbrPc]
  /\ fibLock \in Thread \cup {NoThread}
  /\ op \in [nbr : Nbr \cup {NoInfo}, new : Info \cup {NoInfo}]
  /\ nbrs \in [Nbr -> Info \cup {NoInfo}]
  /\ npuNbrs \in [Nbr -> NpuInfo \cup {NoInfo}]
  /\ listed \in [Mac -> SUBSET Nbr]
  /\ listBroken \in BOOLEAN

Init ==
  /\ FdbInit
  /\ fibLock = NoThread
  /\ op = NoOp
  /\ nbrs = [n \in Nbr |-> NoInfo]
  /\ npuNbrs = [n \in Nbr |-> NoInfo]
  /\ listed = [m \in Mac |-> {}]
  /\ listBroken = FALSE

---------------------------------------------------------------------------
(* Helpers                                                                 *)

FibLock(t, label, n, info) ==
  /\ pc[t] = "idle"
  /\ fibLock = NoThread
  /\ fibLock' = t
  /\ op' = [nbr |-> n, new |-> info]
  /\ Goto(t, label)

FibUnlock(t) ==
  /\ fibLock' = NoThread
  /\ op' = NoOp
  /\ Goto(t, "idle")

(* The thread keeps the FIB lock and what it works on.                     *)
FibStep(t, label) == Goto(t, label) /\ UNCHANGED <<fibLock, op>>

(* Mutant: the address is deregistered though others are on it.            *)
UnlinkDeregister(n) ==
  LET m == nbrs[n].mac
  IN IF nbrs[n].forward /\ listed[m] # {}
     THEN /\ listed' = [listed EXCEPT ![m] = @ \ {n}]
          /\ listBroken' = (n \notin listed[m])
          /\ DeregisterFdbEntry(m)
     ELSE UNCHANGED <<listed, listBroken, fdbData>>

(* sai_fib_neighbor_mac_entry_remove: an address without neighbours is     *)
(* deregistered.  It does nothing to a neighbour that does not forward,    *)
(* linked or not.                                                          *)
Unlink(n) ==
  LET m == nbrs[n].mac
      rest == listed[m] \ {n}
  IN IF nbrs[n].forward /\ listed[m] # {}
     THEN /\ listed' = [listed EXCEPT ![m] = rest]
          /\ listBroken' = (n \notin listed[m])
          /\ IF rest = {} THEN DeregisterFdbEntry(m) ELSE UNCHANGED fdbData
     ELSE UNCHANGED <<listed, listBroken, fdbData>>

(* sai_fib_neighbor_mac_entry_insert when nothing fails: an address with   *)
(* its first neighbour is registered.                                      *)
Link(n, info) ==
  IF info.forward
  THEN /\ listed' = [listed EXCEPT ![info.mac] = @ \cup {n}]
       /\ listBroken' = Linked(n)
       /\ IF listed[info.mac] = {} THEN RegisterFdbEntry(info.mac)
                                   ELSE UNCHANGED fdbData
  ELSE UNCHANGED <<listed, listBroken, fdbData>>

(* The same when the new list cannot be allocated or registered.           *)
LinkFails(n, info) ==
  /\ NpuMayFail
  /\ info.forward
  /\ listed[info.mac] = {}
  /\ listBroken' = Linked(n)
  /\ UNCHANGED <<listed, fdbData>>

(* A neighbour on port p, or unresolved when the lookup found none.        *)
On(info, p) == [info EXCEPT !.port = p, !.unresolved = (p = NullPort)]

(* sai_fib_neighbor_port_id_resolve: a forwarding neighbour asks the FDB,  *)
(* any other stays as it is.                                               *)
Resolved(info, new) ==
  IF info.forward
  THEN \E p \in Found(info.mac) : FdbLookup(info.mac, p) /\ new = On(info, p)
  ELSE new = info /\ UNCHANGED <<fdb, pending>>

(* Mutant: the lookup leaves its event to others.                          *)
WakeAfterLookupNever(info) == UNCHANGED wakes

(* A lookup that found a port ends by waking the notification thread.      *)
WakeAfterLookup(info) ==
  IF info.forward /\ info.port # NullPort
  THEN WakeNotificationThread
  ELSE UNCHANGED wakes

Free(n) ==
  /\ nbrs' = [nbrs EXCEPT ![n] = NoInfo]
  /\ listBroken' = Linked(n)

---------------------------------------------------------------------------
(* Creation: sai_fib_neighbor_create.  The address is registered first and *)
(* looked up then, so that no move of it in between is lost.  When it      *)
(* cannot be registered nothing is left of the call.                       *)

NbrCreateLock(t, n, m, forward) ==
  LET info == [mac |-> m, forward |-> forward, port |-> NullPort, unresolved |-> FALSE]
  IN /\ ~Exists(n)
     /\ FibLock(t, "nbrResolve", n, NoInfo)
     /\ nbrs' = [nbrs EXCEPT ![n] = info]
     /\ Link(n, info)
     /\ UNCHANGED <<wakes, notifVars, npuNbrs>>

NbrResolve(t) ==
  /\ pc[t] = "nbrResolve"
  /\ \E new \in Info :
       /\ Resolved(nbrs[op.nbr], new)
       /\ nbrs' = [nbrs EXCEPT ![op.nbr] = new]
  /\ FibStep(t, "nbrCreate")
  /\ UNCHANGED <<registered, wakes, notifVars, npuNbrs, listed, listBroken>>

NbrCreate(t) ==
  /\ pc[t] = "nbrCreate"
  /\ WakeAfterLookup(nbrs[op.nbr])
  /\ npuNbrs' = [npuNbrs EXCEPT ![op.nbr] = Image(nbrs[op.nbr])]
  /\ FibUnlock(t)
  /\ UNCHANGED <<fdbData, notifVars, nbrs, listed, listBroken>>

(* The NPU refuses the neighbour.                                          *)
NbrCreateFail(t) ==
  /\ pc[t] = "nbrCreate"
  /\ NpuMayFail
  /\ WakeAfterLookup(nbrs[op.nbr])
  /\ Unlink(op.nbr)
  /\ nbrs' = [nbrs EXCEPT ![op.nbr] = NoInfo]
  /\ FibUnlock(t)
  /\ UNCHANGED <<notifVars, npuNbrs>>

---------------------------------------------------------------------------
(* Removal: sai_fib_neighbor_remove                                        *)

(* A forwarding neighbour without a list is refused: it stays for good.    *)
NbrRemoveLock(t, n) ==
  /\ Exists(n)
  /\ nbrs[n].forward => listed[nbrs[n].mac] # {}
  /\ FibLock(t, "nbrRemove", n, nbrs[n])
  /\ Unlink(n)
  /\ UNCHANGED <<wakes, notifVars, nbrs, npuNbrs>>

NbrRemove(t) ==
  /\ pc[t] = "nbrRemove"
  /\ npuNbrs' = [npuNbrs EXCEPT ![op.nbr] = NoInfo]
  /\ Free(op.nbr)
  /\ FibUnlock(t)
  /\ UNCHANGED <<fdbData, wakes, notifVars, listed>>

(* The NPU keeps the neighbour: the node is what it was, and is linked and *)
(* registered again, if that succeeds.                                     *)
NbrRemoveFail(t) ==
  /\ pc[t] = "nbrRemove"
  /\ NpuMayFail
  /\ Link(op.nbr, op.new) \/ LinkFails(op.nbr, op.new)
  /\ FibUnlock(t)
  /\ UNCHANGED <<wakes, notifVars, nbrs, npuNbrs>>

---------------------------------------------------------------------------
(* Attributes: sai_fib_neighbor_attribute_set                              *)

(* A new MAC address, or a packet action that makes the neighbour forward, *)
(* is resolved first; another packet action is not.                        *)
NbrSetMac(t, n, m) ==
  /\ Exists(n)
  /\ FibLock(t, "setResolve", n, [nbrs[n] EXCEPT !.mac = m])
  /\ UNCHANGED <<fdbData, wakes, notifVars, nbrs, npuNbrs, listed, listBroken>>

NbrSetAction(t, n, forward) ==
  /\ Exists(n)
  /\ FibLock(t, IF nbrs[n].forward THEN "setNpu" ELSE "setResolve",
             n, [nbrs[n] EXCEPT !.forward = forward])
  /\ UNCHANGED <<fdbData, wakes, notifVars, nbrs, npuNbrs, listed, listBroken>>

NbrSetResolve(t) ==
  /\ pc[t] = "setResolve"
  /\ \E new \in Info :
       /\ Resolved(op.new, new)
       /\ op' = [op EXCEPT !.new = new]
  /\ Goto(t, "setResolved")
  /\ UNCHANGED <<registered, wakes, notifVars, fibLock, nbrs, npuNbrs, listed,
                 listBroken>>

NbrSetFail(t) ==
  /\ pc[t] \in {"setNpu", "setResolved"}
  /\ NpuMayFail
  /\ IF pc[t] = "setResolved" THEN WakeAfterLookup(op.new) ELSE UNCHANGED wakes
  /\ FibUnlock(t)
  /\ UNCHANGED <<fdbData, notifVars, nbrs, npuNbrs, listed, listBroken>>

(* Only the packet action changed: the list of the address stays as it is. *)
NbrSetAlone(t) ==
  /\ pc[t] = "setNpu"
  /\ npuNbrs' = [npuNbrs EXCEPT ![op.nbr] = Image(op.new)]
  /\ nbrs' = [nbrs EXCEPT ![op.nbr] = op.new]
  /\ FibUnlock(t)
  /\ UNCHANGED <<fdbData, wakes, notifVars, listed, listBroken>>

(* The neighbour leaves the list of its old address...                     *)
NbrSetUnlink(t) ==
  /\ pc[t] = "setResolved"
  /\ WakeAfterLookup(op.new)
  /\ npuNbrs' = [npuNbrs EXCEPT ![op.nbr] = Image(op.new)]
  /\ Unlink(op.nbr)
  /\ FibStep(t, "setLink")
  /\ UNCHANGED <<notifVars, nbrs>>

(* ... and joins the list of the new one, if that succeeds.                *)
NbrSetLink(t) ==
  /\ pc[t] = "setLink"
  /\ nbrs' = [nbrs EXCEPT ![op.nbr] = op.new]
  /\ Link(op.nbr, op.new) \/ LinkFails(op.nbr, op.new)
  /\ FibUnlock(t)
  /\ UNCHANGED <<wakes, notifVars, npuNbrs>>

---------------------------------------------------------------------------
(* The callback: sai_neighbor_fdb_callback, sai_fib_neighbor_port_id_set.  *)
(* It takes the FIB lock for each event, and moves every neighbour of the  *)
(* list that is not on port p already.                                     *)

(* Mutant: the port is not set back.                                       *)
MovedButKept(info, p) == On(info, p)

(* The NPU refuses: the port is set back, port_unresolved is not.          *)
MovedBut(info, p) == [On(info, p) EXCEPT !.port = info.port]

NbrPortIdSet(m, refused) ==
  LET p == batch[m]
      moved == {n \in listed[m] : nbrs[n].port # p}
  IN /\ fibLock = NoThread
     /\ Reported(m)
     /\ refused \subseteq moved
     /\ refused # {} => NpuMayFail
     /\ nbrs' = [n \in Nbr |->
          IF n \in refused THEN MovedBut(nbrs[n], p)
          ELSE IF n \in moved THEN On(nbrs[n], p) ELSE nbrs[n]]
     /\ npuNbrs' = [n \in Nbr |->
          IF n \in moved \ refused THEN Image(nbrs'[n]) ELSE npuNbrs[n]]
     /\ UNCHANGED <<pc, fibLock, op, listed, listBroken>>

---------------------------------------------------------------------------
(* Specification                                                           *)

(* Nothing is said of what follows a broken list.                          *)
FdbPart(t) == ~listBroken /\ FdbCall(t) /\ UNCHANGED nbrVars

FdbWakePart(t) == ~listBroken /\ FdbWake(t) /\ UNCHANGED nbrVars

NotifPart == ~listBroken /\ NotifStep /\ UNCHANGED nbrVars

NbrCall(t) ==
  /\ ~listBroken
  /\ \E n \in Nbr :
       \/ \E m \in Mac, forward \in BOOLEAN : NbrCreateLock(t, n, m, forward)
       \/ NbrRemoveLock(t, n)
       \/ \E m \in Mac : NbrSetMac(t, n, m)
       \/ \E forward \in BOOLEAN : NbrSetAction(t, n, forward)

NbrStep(t) ==
  /\ ~listBroken
  /\ \/ NbrResolve(t) \/ NbrCreate(t) \/ NbrCreateFail(t)
     \/ NbrRemove(t) \/ NbrRemoveFail(t)
     \/ NbrSetResolve(t) \/ NbrSetFail(t) \/ NbrSetAlone(t)
     \/ NbrSetUnlink(t) \/ NbrSetLink(t)

Callback(m) == ~listBroken /\ \E refused \in SUBSET Nbr : NbrPortIdSet(m, refused)

Next ==
  \/ \E t \in Thread : FdbPart(t) \/ FdbWakePart(t) \/ NbrCall(t) \/ NbrStep(t)
  \/ NotifPart
  \/ \E m \in Mac : Callback(m)

Spec == Init /\ [][Next]_vars

---------------------------------------------------------------------------
(* Properties                                                              *)

(* The FIB lock's owner has found a port and has yet to wake the thread.   *)
WillWake(t) ==
  \/ pc[t] = "nbrCreate" /\ nbrs[op.nbr].forward /\ nbrs[op.nbr].port # NullPort
  \/ pc[t] = "setResolved" /\ op.new.forward /\ op.new.port # NullPort

AtRest == fibLock = NoThread /\ ~listBroken

(* Whatever failed on the way, the NPU has of every neighbour what its     *)
(* node says while no handler is at work (the order of the node, the list  *)
(* and the NPU in each handler, and what it takes back).                   *)
NodeIsProgrammed ==
  AtRest => \A n \in Nbr :
    npuNbrs[n] = IF Exists(n) THEN Image(nbrs[n]) ELSE NoInfo

(* An address is registered exactly while neighbours are listed under it:  *)
(* no neighbour is deaf to the FDB because another one left the list, and  *)
(* no registration is left behind.                                         *)
RegisteredIffListed ==
  AtRest => \A m \in Mac : m \in registered <=> listed[m] # {}

(* A neighbour is created on the port its address is on, or an event that  *)
(* will move it there is under way (the address is registered before it is *)
(* looked up).                                                             *)
CreatedOnFdbPort ==
  [][\A n \in Nbr :
       npuNbrs[n] = NoInfo /\ npuNbrs'[n] # NoInfo /\ npuNbrs'[n].forward =>
         LET m == npuNbrs'[n].mac
         IN \/ npuNbrs'[n].port = fdb[m]
            \/ pending[m] # NoEvent
            \/ batch[m] # NoEvent]_vars

(* No event is stranded: while one is pending, a byte is in the pipe, or   *)
(* the notification thread is about to take it, or a thread has yet to     *)
(* look for events (the wake after the FDB lock is released, with no lock).*)
WakeNotLost ==
  pending # NoEvents =>
    \/ wakes > 0 \/ notifPc = "take"
    \/ \E t \in Thread : pc[t] = "wake" \/ WillWake(t)

(* The lists of neighbours stay well formed.                               *)
ListsIntact == ~listBroken

=============================================================================
