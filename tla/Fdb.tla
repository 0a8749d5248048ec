-------------------------------- MODULE Fdb --------------------------------
(***************************************************************************)
(* The forwarding database: src/src/switching/sai_fdb.c.                   *)
(*                                                                         *)
(* Every handler, and the handler of the events of the NPU, changes the    *)
(* cache in one critical section of sai_fdb_lock: one action.  Other       *)
(* components register MAC addresses; the cache keeps one pending event    *)
(* for each registered address.  After it has released the lock a handler  *)
(* looks whether events are pending, without a lock, and writes a byte to  *)
(* a pipe.  A thread of this component reads the pipe, takes all pending   *)
(* events and calls the registered callback, with no FDB lock held.        *)
(*                                                                         *)
(* A member of Mac is an address within a VLAN, a member of Port is a port *)
(* or a LAG.  An entry is its port: its type, action and metadata take     *)
(* part in nothing modelled here.                                          *)
(***************************************************************************)
EXTENDS Naturals, FiniteSets

CONSTANTS
  Thread,       \* the threads that call the API, or report NPU events
  Mac,          \* MAC addresses, each in a VLAN
  Port,         \* ports and LAGs
  NullPort,     \* SAI_NULL_OBJECT_ID: no entry
  NoEvent,      \* no event for an address
  MaxWakes,     \* bound on the bytes in the pipe
  NpuMayFail    \* may calls of the NPU (or allocations) fail?

ASSUME NullAssumption == NullPort \notin Port /\ NoEvent \notin Port /\ NoEvent # NullPort
ASSUME MaxWakesAssumption == MaxWakes \in Nat \ {0}
ASSUME NpuMayFailAssumption == NpuMayFail \in BOOLEAN

VARIABLES
  pc,          \* where each thread is
  fdb,         \* the port of each address in the cache
  registered,  \* the registered addresses
  pending,     \* the event each registered address has yet to report
  wakes,       \* bytes in the pipe
  notifPc,     \* where the notification thread is
  batch        \* the events it has taken and not yet reported

fdbData == <<fdb, registered, pending>>
notifVars == <<notifPc, batch>>

Where == Port \cup {NullPort}
Events == [Mac -> Where \cup {NoEvent}]
NoEvents == [m \in Mac |-> NoEvent]

FdbPc == {"idle", "wake"}

FdbTypeOK ==
  /\ fdb \in [Mac -> Where]
  /\ registered \in SUBSET Mac
  /\ pending \in Events
  /\ wakes \in 0..MaxWakes
  /\ notifPc \in {"read", "take", "report"}
  /\ batch \in Events

FdbInit ==
  /\ pc = [t \in Thread |-> "idle"]
  /\ fdb = [m \in Mac |-> NullPort]
  /\ registered = {}
  /\ pending = NoEvents
  /\ wakes = 0
  /\ notifPc = "read"
  /\ batch = NoEvents

---------------------------------------------------------------------------
(* Helpers                                                                 *)

Goto(t, label) == pc' = [pc EXCEPT ![t] = label]

(* Mutant: only the appearance of an address is an event.                  *)
ChangeFdbLearnOnly(new) ==
  /\ fdb' = new
  /\ pending' = [m \in Mac |-> IF m \in registered /\ fdb[m] = NullPort /\ new[m] # fdb[m]
                               THEN new[m] ELSE pending[m]]

(* sai_insert_fdb_entry_node, sai_update_fdb_entry_node and                *)
(* sai_remove_fdb_entry_node: the last change of a registered address is   *)
(* its pending event, a port when it is LEARNED, none when it is FLUSHED.  *)
ChangeFdb(new) ==
  /\ fdb' = new
  /\ pending' = [m \in Mac |-> IF m \in registered /\ new[m] # fdb[m]
                               THEN new[m] ELSE pending[m]]

(* sai_fdb_wake_notification_thread.  More bytes than MaxWakes make the    *)
(* thread look once more at what it has already taken.                     *)
WakeNotificationThread ==
  wakes' = IF pending # NoEvents /\ wakes < MaxWakes THEN wakes + 1 ELSE wakes

RegisterFdbEntry(m) ==
  /\ registered' = registered \cup {m}
  /\ UNCHANGED <<fdb, pending>>

(* The event that is pending goes with the registered entry.               *)
DeregisterFdbEntry(m) ==
  /\ registered' = registered \ {m}
  /\ pending' = [pending EXCEPT ![m] = NoEvent]
  /\ UNCHANGED fdb

(* What a lookup finds: the cached port, or what the hardware has learned  *)
(* and not reported yet.                                                   *)
Found(m) == IF fdb[m] # NullPort THEN {fdb[m]} ELSE Where

(* A lookup that found port p.                                             *)
FdbLookup(m, p) ==
  /\ p \in Found(m)
  /\ ChangeFdb([fdb EXCEPT ![m] = p])

---------------------------------------------------------------------------
(* The handlers                                                            *)

FdbChange(t, new) ==
  /\ pc[t] = "idle"
  /\ ChangeFdb(new)
  /\ Goto(t, "wake")
  /\ UNCHANGED <<registered, wakes, notifVars>>

(* The API creates an entry or sets the port of one, which it looks up     *)
(* first, or the NPU reports that it learned or moved one.  An event for a *)
(* port that may not learn changes nothing here.                           *)
FdbInsert(t, m, p) == FdbChange(t, [fdb EXCEPT ![m] = p])

(* The API removes an entry, or the NPU reports that it aged.              *)
FdbDelete(t, m) == FdbChange(t, [fdb EXCEPT ![m] = NullPort])

(* A flush of all entries, or of those of a port, removes them one by one  *)
(* and keeps those the NPU refuses.                                        *)
FdbFlush(t, ports, kept) ==
  /\ kept # {} => NpuMayFail
  /\ FdbChange(t, [m \in Mac |->
       IF fdb[m] \in ports /\ m \notin kept THEN NullPort ELSE fdb[m]])

(* The NPU refuses the new port: the entry gets its old content back, but  *)
(* the event that the change left pending is not taken back.               *)
FdbSetPortUndone(t, m, p) ==
  /\ NpuMayFail
  /\ pc[t] = "idle"
  /\ \E q \in Found(m) \ {NullPort} : fdb' = [fdb EXCEPT ![m] = q]
  /\ pending' = IF m \in registered THEN [pending EXCEPT ![m] = p] ELSE pending
  /\ Goto(t, "wake")
  /\ UNCHANGED <<registered, wakes, notifVars>>

FdbWake(t) ==
  /\ pc[t] = "wake"
  /\ WakeNotificationThread
  /\ Goto(t, "idle")
  /\ UNCHANGED <<fdbData, notifVars>>

---------------------------------------------------------------------------
(* The notification thread: _sai_fdb_internal_notif.  What the callback    *)
(* does with an event is up to the module that listens.                    *)

(* Mutant: the pipe does not block its reader.                             *)
NotifReadNonBlocking ==
  /\ notifPc = "read"
  /\ wakes' = wakes - 1
  /\ notifPc' = "take"
  /\ UNCHANGED <<pc, fdbData, batch>>

NotifRead ==
  /\ notifPc = "read"
  /\ wakes > 0
  /\ wakes' = wakes - 1
  /\ notifPc' = "take"
  /\ UNCHANGED <<pc, fdbData, batch>>

NotifTake ==
  /\ notifPc = "take"
  /\ batch' = pending
  /\ pending' = NoEvents
  /\ notifPc' = "report"
  /\ UNCHANGED <<pc, fdb, registered, wakes>>

NotifDone ==
  /\ notifPc = "report"
  /\ batch = NoEvents
  /\ notifPc' = "read"
  /\ UNCHANGED <<pc, fdbData, wakes, batch>>

(* The callback has handled the event of address m.                        *)
Reported(m) ==
  /\ notifPc = "report"
  /\ batch[m] # NoEvent
  /\ batch' = [batch EXCEPT ![m] = NoEvent]
  /\ UNCHANGED <<notifPc, wakes, fdbData>>

---------------------------------------------------------------------------
FdbCall(t) ==
  \/ \E m \in Mac, p \in Port :
       FdbInsert(t, m, p) \/ FdbSetPortUndone(t, m, p)
  \/ \E m \in Mac : FdbDelete(t, m)
  \/ \E ports \in {{p} : p \in Port} \cup {Port} :
       \E kept \in SUBSET {m \in Mac : fdb[m] \in ports} : FdbFlush(t, ports, kept)

NotifStep == NotifRead \/ NotifTake \/ NotifDone
=============================================================================
