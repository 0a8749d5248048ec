# A TLA+ model of opx-sai-common

`opx-sai-common` is the vendor-independent half of the OpenSwitch SAI adapter:
it implements the SAI function tables (`create`, `remove`, `set`, `get` for
each kind of object), validates what a caller asks, keeps the objects it made
in tables, and programs a switching chip through the function tables of an NPU
plug-in. It has two threads of its own, which sleep on a pipe: one tells the
neighbour code of FDB events (`sai_fdb.c`), the other re-resolves tunnel encap
next hops after routes changed (`sai_l3_encap_next_hop.c:960`). Every handler
runs in the thread of its caller, and what keeps callers apart is a mutex per
component. The modules here model the components whose state is
shared, at the grain of what another thread can see: a lock taken or released,
a call of the NPU that can fail, a callback.

The lock primitives, the caches (`sai_lag_node_get`, `sai_bridge_*_cache`,
...), the map library (`sai_map_*`) and the NPU plug-ins are not in this
repository; they are modelled from the way `src/` calls them, and marked
external in `PROJECT.json`.

## 1. Inventory

| component | source | state | operations |
|---|---|---|---|
| LAG | `switching/sai_lag.c` | LAG nodes with `ref_count`, members with two disable flags; RIF and bridge callbacks | create, remove, add/remove member, set member flag, notify |
| Router interfaces | `routing/sai_l3_router_interface.c`, `sai_l3_rif_utils.c` | RIF tree, list and count of the RIFs of a VRF, forwarding mode of ports and LAGs, LAG to RIF map | create, remove, set attribute, reference counts, LAG callback |
| Virtual routers | `routing/sai_l3_vrf.c` | VRF tree, `num_rif`, list of RIFs | create, remove, set attribute |
| Next hops, groups | `routing/sai_l3_next_hop*.c` | next hop tree keyed by RIF and address, groups with weights, double links, counts, member ids | create, remove, add/remove members |
| Encap next hops | `routing/sai_l3_encap_next_hop.c` | per next hop the route or neighbour it resolves to; dependent lists in routes, neighbours, groups; list of changed routes, pipe | resolve, route and neighbour updates, walker thread |
| Neighbours | `routing/sai_l3_neighbor.c` | the next hop record, MAC entry tree (VLAN, MAC, port, neighbours) | create, remove, set attribute, FDB callback |
| Routes | `routing/sai_l3_route.c` | a radix tree per VRF; the object a route forwards to | create, remove, set attribute |
| Spanning tree | `switching/sai_stp.c` | instances (VLANs, STP ports, `num_ports`), global tree of STP ports, VLAN to instance map | create/remove instance, VLAN add/remove, create/remove STP port, set state |
| VLAN | `switching/sai_vlan.c` | VLAN cache, members | create, remove, set (STP instance, limits), add/remove member |
| FDB | `switching/sai_fdb.c`, `sai_fdb_*` | MAC cache, registered entries, pending notifications | create, remove, flush, NPU events, notification thread |
| L2 multicast | `switching/sai_l2mc*.c` | groups, members, LAG to member map | create, remove, LAG callback |
| Bridge | `bridge/sai_bridge*.c` | bridges and bridge ports with `ref_count`, default bridge port per attachment, maps from LAG and (port, VLAN) | create, remove, set, LAG callback |
| Tunnels | `tunnel/*.c` | tunnels, terminations, maps and entries, counts | create, remove |
| ACL | `acl/*.c` | tables, rules by priority, counters, policers, ranges, groups | create, remove, set |
| QoS | `qos/*.c` | maps, WRED, policers, schedulers, scheduler groups, queues, buffer pools and profiles, counts | create, remove, set, hierarchy links |
| Mirror, samplepacket | `mirroring/*.c`, `samplepacket/*.c` | sessions, the ports that use each, counts | create, remove, set, port attach |
| Host interface | `hostintf/*.c` | trap groups, traps, user traps | create, remove, set |
| Hash, UDF | `hash/*.c`, `udf/*.c` | fields and UDF groups of a hash; groups, matches, UDFs, counts | create, remove, set |
| Port | `port/*.c` | dispatch of attributes; state is outside | get, set, events |
| Switch, query, shell | `switchinfra/*.c`, `shell/*.c` | initialisation order, function tables, debug output | init, query |

How they interact:

* **References.** A RIF is counted by next hops, a VRF by its RIFs, a LAG by
  bridge ports, a bridge by its ports, an instance by STP ports and VLANs. An
  object is removed only when its count is 0. The count is taken in one handler
  and given back in another, under the lock of the component that owns it; a
  failing step in between must undo what was counted.
* **Locks inside locks.** fib > lag (RIF), fib > fdb (neighbour), bridge > lag,
  port, fib or tunnel (bridge port), vlan > stp (VLAN), l2mc > lag, tunnel > fib,
  tunnel > bridge (tunnel maps), port or ACL > mirror, QoS or samplepacket, hash >
  UDF. Nothing in the code states this order; the pair bridge/tunnel is taken in
  both. `LockOrder` has the whole table.
* **Callbacks.** LAG tells RIF, bridge and L2 multicast of a change of members,
  after it has released its own lock. The FDB tells the neighbour code that a
  MAC moved, from its own thread. The VLAN code is told of new ports.
* **NPU.** Every operation programs the chip, most often before the cache is
  updated, and may fail there. What is undone, and in which order, is different
  in every handler.

What makes each right: the cache lists what the NPU has and nothing else
whenever its lock is free; counts equal the number of users; an object in use
outlives its users; a view derived from another component's state (the ports of
a RIF, of a bridge port) follows it; whatever is called returns.

The hard part is therefore interleaving of callers between two locks, partial
failure, and stale values carried across an unlock. There is no persistence
(warm boot is outside), no time, and no message loss. `PROJECT.json` lists each
hazard at its line.

## 2. Modules

| module | models | composes |
|---|---|---|
| `Lag` | LAG handlers, one action per critical section or NPU call | |
| `LagRif` | RIF handlers under the FIB lock with the LAG lock inside, VRF counts, LAG callback | extends `Lag` |
| `RifTable` | abstract: what the RIF table promises | implemented by `LagRif` |
| `Stp` | instances, VLANs on them, STP ports and their counters | |
| `VlanStp` | VLAN handlers under the VLAN lock, moving VLANs between instances | extends `Stp` |
| `VlanTree` | abstract: VLANs in trees | implemented by `VlanStp` |
| `BridgePort` | bridges and bridge ports on ports and LAGs | extends `Lag` |
| `BridgeTree` | abstract: 1D bridges and their sub ports | implemented by `BridgePort` |
| `Fdb` | MAC table, registered addresses, pending events, notification thread | |
| `Neighbor` | neighbours on VLAN interfaces, lists of MAC addresses, FDB callback | extends `Fdb` |
| `Fib` | virtual routers, routes, next hops and groups, and the counts between them | |
| `ObjectGraph` | abstract: objects are deleted only when nothing points to them | implemented by `Fib` |
| `QosWred`, `QosBuffer`, `QosSched`, `QosMaps`, `QosPolicer` | one QoS component each | |
| `Qos` | one of them at a time | extends the five |
| `AclTable` | tables, groups, members | |
| `Sample` | sampling sessions and the ports they sample | |
| `Acl` | rules and counters with all they hold on to | extends `AclTable`, `QosPolicer`, `Sample` |
| `Tunnel` | maps, tunnels, termination entries, encapsulating next hops | |
| `Encap` | what encapsulating next hops resolve to, and the thread that writes overlay routes again | |
| `Mirror` | sessions and ports that list each other | |
| `HashUdf` | hash objects, UDF groups, fields and masks | |
| `L2mc` | L2 multicast groups, members that follow a LAG, entries | |
| `LockOrder` | which lock each call takes inside which other | |
| `Services` | one of STP, tunnels, encap hops, mirroring, hash, UDF, L2 multicast and locks at a time | extends the seven |
| `*Proofs` | invariants and theorems (section 4) | extend the module proved |
| `MC*` | symmetry for TLC | |

### Lag, LagRif

`pc[t]` is where a caller is, named after the next thing its handler does.
`lagLock` and `fibLock` hold the owner of the mutex. A handler is cut where
another thread can run: between taking a lock, each NPU call, and the update of
a cache that other code reads without the lock. `lagReq`/`rifOp` are the locals
a handler carries across these points. `lags`, `members`, `disabled`, `lagRef`
are the LAG cache; `npuLags`, `npuLag` the chip. A LAG is removed in two steps
(`RemoveLagCheck`: `sai_lag_get_ref_count` and the NPU, `RemoveLag`: the node),
since the bridge counts into it under another lock. `rifs`, `rifRef`, `vrfRifs`
are the FIB; `lagMap` is the LAG to RIF map, which is read outside every lock;
`npuRifs`/`npuRifPorts` is what the chip has. `RifCallback` reads the map,
`RifLagMemberUpdate` then takes the FIB lock and acts on what was read. A member
update that fails in the NPU is only logged by the code, and is modelled so.

### Stp, VlanStp

An STP handler is one critical section of the STP lock and one action, but for
`sai_stp_port_create`, which looks its instance up before it locks
(`portCall`; `fresh` says the node it found still exists, `tainted` that a creation
ran on a freed one). `VlanStp` cuts the VLAN handlers at every
STP call. `todo` is the list of attributes a creation still has to apply: it
runs the code's own `set` handler for each, the VLAN id included, which fails.
`sai_vlan_remove` of a VLAN with members returns with the VLAN lock held
(`sai_vlan.c:305-307`); the model keeps it, which is why `vlan_stp` does not
check deadlock.

### BridgePort

The bridge lock is held for the whole handler; inside it `bpOp.lagLocked` says
whether the LAG lock is taken as well, which the code derives from the wrong
attribute when a port is created (`sai_bridge.c:890`). Counts are bumped in
`BpAttach`; `BpAttachLeak` is the creation that fails after the reference on the
bridge is taken. `BridgeLagNotify` is the LAG callback.

### Fdb, Neighbor

An FDB handler is one critical section of the FDB lock (`FdbChange`), followed
by an unlocked look for pending events and a byte to the pipe (`FdbWake`). The
cache outside `src/` keeps one pending event per registered address, the last
(`ChangeFdb`; `sai_fdb_unit_test_internal.cpp` relies on it). The notification
thread reads a byte, takes all events, and calls the L3 callback for each, with
no lock of the FDB held. A lookup of an address that is not cached asks the
hardware, which may know it: any port or none.

A neighbour handler holds the FIB lock throughout and is cut at every FDB call
and before the NPU call. `op.new` is the copy of the node that
`sai_fib_neighbor_attribute_set` works on. `listed[m]` is the list of MAC entry
`m`; a node has one link, so linking it twice, unlinking it from a list it is
not in, or freeing it while linked is undefined: `listBroken`, and the model
goes no further. The wake that ends a lookup is joined to the NPU call after it:
nothing lies between them but the pipe. The pipe is bounded by `MaxWakes`, where
a further byte is dropped: a byte too many only makes the thread look again.
(That a thread could block on a full pipe with the FIB lock held is not in the
model.)

### Fib

Every handler of the forwarding table holds the FIB lock from its first look to
its last change, so a handler is one action, and a failure inside it an action
of its own when it leaves a trace (`NhCreateFail`, `MemberCreateFail`,
`MemberCreateLeak`, `VrRemoveRefused`). `routes[v][p]` is the radix tree of a
virtual router, `hw` its `hw_info` (the NPU has it); `nodes` the next hop tree,
where a next hop and a neighbour of the same interface and address share a node
(`owners`) that counts once in its interface; `links` the double links of groups
and next hops, kept as weights, with `nh_count` and both `ref_count`s; `members`
the id map. Counts change through `Incr`, `Decr`, `AddInLists` and
`RemoveFromLists`, as in the code, which never counts below 0.

The exception to the single action is a default route. It exists from the
creation of its router on (`EmptyDefault`); when its creation fails, the old
content is copied back after the lock is released (`sai_l3_route.c:641-649`):
`DefaultCreateFail`, then `RestoreDefault`, with `restore[t]` the copy on the
caller's stack. `raced` records that the route was created, removed or freed in
between. An object that is deleted leaves bad pointers where a route outside the
NPU points to it (`Forget` puts `Stale` there). Using one, or counting as a next
hop a node that only a neighbour still has, is `wild`, and the model goes no
further.

Assumed: an id names the node it was made for; router interfaces are there and
stay (`LagRif` has them; `RoutedVrf` are the routers that have some); allocations
and tree insertions succeed; the NPU may refuse anything, and does refuse to
change a route it does not have. There is one address family; encap next hops
are in `Encap`. Not in the model, and wrong on inspection: a route that cannot be inserted
into its tree is freed twice (`sai_l3_route.c:490` and 642); a group that cannot
be inserted is reported as created (`sai_l3_next_hop_group.c:872`);
`sai_fib_nh_group_add_in_lists` reports success when its first allocation fails
(462); reading back a member's attributes counts up the wrong variable and spins
on the first of them, with the FIB lock held, until it wraps (1452).

### QosWred, QosBuffer, QosSched, QosMaps, QosPolicer, Qos

Every QoS handler holds the one QoS lock and is an action; what is hard is what
it leaves when the NPU refuses in the middle. A handler that touches several
users of an object picks the set that was reached before the refusal (`Reached`,
`Reapplied`, `PortListUpdate`), and the undo picks what it could set back.

* `QosWred`: `lk` holds both ends of every link (`of`, `list`), what the NPU
  marks with and which pools wait for their first queue (`cached`).
* `QosBuffer`: `pools[p].shared` is what is left of a pool. `Charge` is what a user
  of a profile reserves, `Recalc` books it; the NPU may refuse a booking and the
  callers do not look (`unbooked`). A profile is checked before the lock (`req`).
* `QosSched`: `tree` is level, parent and children; a hierarchy that is built or
  torn down is a job of which no other call sees the middle, since the lock is
  held, but which may stop at any node.
* `QosMaps`: a map's list is indexed by key and bank, `Place` finds where an entry
  goes and what is stored there.
* `QosPolicer`: policers with the ports of storm control, and with ACL rules,
  which join and leave without the QoS lock.

No QoS component changes another's state but where a module says so, so `Qos`
lets each behaviour stay with one of them.

### AclTable, Acl, Sample

ACL handlers hold the ACL lock. What a creation looks up before it (the priority
of a table, the table of a rule) is a step of its own (`ValidateTable`,
`LookupTable`), and `CreateOrphan` is the rule whose table went in between. A rule
holds its table, a counter, a policer and a sampling session; `CreateRule` and
`FailRule` differ in where the creation stops, `DeleteRule`/`FailDelete` and the
`Set*` actions likewise. `attaching` is a rule between the lookup of its policer
and its entry into the policer's list, with the QoS lock in neither; `PolicerCall` is
a call on policers, then too, and marks the rule it leaves with a freed one
(`stray`). In `Sample`
an operation maps a state record to the next (`PortAdded`, `PortRemoved`), since
a rule on all ports runs one per port. A node of a session has `ref`, an unsigned
count that wraps (`Less`, `More`; here at `MaxFlow`), and modes; `in` says it is in the
tree, `torn` that one was freed while still there.

### Tunnel

Tunnel handlers hold the tunnel lock, with the FIB or the bridge lock inside. The
exceptions are steps of their own: `CheckMap`/`FreeMap`, since a map is removed
without a lock (`sai_tunnel_map_obj.c:240`), and `UndoTerm`, since the hop of a
failed termination entry is given back after the unlock
(`sai_tunnel_term_obj.c:301`). Histories say which state a race or a refusal put
out: `racedMap`, `unsure` (hops whose count is off), `strayHop` (hops freed under an
id the application has). A hop is shared by its key; the application, each
termination entry and the plug-in's underlay count in it.

### Encap

What a hop of type TUNNEL_ENCAP resolves to in the underlay router
(`sai_l3_encap_next_hop.c`), together with the calls that routes, neighbours and
groups make of it: each handler, and each walk of the thread, holds the FIB lock
and is one action. `ehops[e]` is the route or neighbour a hop follows, what the NPU
was last told, and on which next hops' and groups' lists it is. A hop that
follows a group is linked by a node inside itself, so a second link or a missing
one breaks the lists (`broken`). `AttrSet` keeps the code's order: the packet action is
changed before the NPU is asked, and a refused update therefore looks done to
the next one (`off`). `off` is also set where a default route is created on a group
(hops on it are taken off a list they are not on), and where one is removed (it is
set to drop before its hops look at what to leave, so they stay on the old
lists). `left` is a hop that was moved to a route by the removal of one
of two neighbours with its address (`sai_l3_encap_next_hop.c:876`). The thread reads a
byte without the lock (`ReadSignal`), then writes the listed routes (`Walk`).

Assumed: the underlay and the overlay are different routers; neighbours forward and
keep their attributes; allocations succeed; next hops and groups stay. The
prefixes are a path from the default route to an address; `Bits[x]` says how far
along it an address goes, since a sibling prefix never matches it.

### Mirror

A session lists its ports under the mirror lock, a port its sessions under the
port lock; a call on a port takes the mirror lock once per session, so it is a
loop (`setCall`) whose rounds are actions (`AddOne`, `DropOne`, `DropNode`, ...), and
sessions change in between. A port comes and goes without a lock
(`TogglePort`).

### HashUdf

One action per handler; only the creation of a hash object is cut: the index is
chosen before the hash lock (`PickIndex`) and marked after it (`MarkIndex`).
`SetHash` programs the object for each switch attribute that names it, in order,
and sets back those before a refusal.

### L2mc

One action per handler, but for what is looked up before the locks: whether the
bridge port of a new member is on a LAG (`McJudge`), and the group of a new entry
(`McFindGroup`). A change of the LAG is four steps of the thread that makes it, as
in the code: the LAG (`McLagChange`), the bridge, which lists its bridge ports
(`McBridgeHears`), and L2 multicast, once for each (`McTold`); anything may come
between. `mcHw` is what the NPU floods a member to. `mcParted` remembers which
member and port a named event has parted: a refusal of the NPU, a change told
after its opposite, a member that missed the map because its bridge port was not on
the LAG when looked up, a bridge port that went. `mcLeft` is what a
removal left in the map, `mcLoose` an entry whose group went in between.

### LockOrder

`Calls` is a table: which locks each kind of call takes, in which order, and what
it does after giving them back. It is read off the handlers of all components,
those that are not modelled otherwise included. `ReturnEarly` is a return that
forgets a lock; `MaxLost` bounds how many are lost.

### Services

STP (`Stp` alone), tunnels, mirroring, hash, UDF, L2 multicast and the locks have no
state in common; each behaviour stays with one of them (`focus`). Tunnel maps and
termination entries do not meet either, nor these with what hops resolve to, so
tunnels are three focuses; the initial maps, UDF groups and members are those that
matter to the focus: hash objects find all groups there and of their type, since they
could not list others, and fields make and remove theirs. L2 multicast is two: its entries know nothing of the LAG.

## 3. Runs

| run | question | bounds |
|---|---|---|
| `lag_rif` | do two callers keep LAG cache and RIF table consistent, and implement `RifTable`? | 2 threads, 1 LAG, 1 port, 1 other attachment, 2 RIFs, 2 VRFs, 2 MACs, one next hop per RIF, calls fail |
| `lag_rif_live` | does every call return? | 2 threads, 1 LAG, 1 port, 1 RIF |
| `lag_rif_sync` | is a RIF on the ports of its LAG? (refuted) | 2 threads, nothing fails |
| `vlan_stp` | are VLANs in one instance and found by the map while created, moved and deleted; implements `VlanTree`? | 2 threads, 2 VLANs, 2 instances, 1 port, calls fail |
| `bridge_port` | are bridge ports counted, is the tree right; implements `BridgeTree`? | 2 threads, 1 LAG, 1 port, 2 bridges, 2 bridge ports, 1 VLAN, calls fail |
| `nbr_fdb` | do neighbours, their registrations and the NPU stay consistent while the FDB changes? | 2 neighbours, 2 addresses, 1 port, 1 byte in the pipe, calls fail |
| `nbr_list` | do the lists of neighbours stay well formed? (refuted) | 1 neighbour, nothing fails |
| `fib` | do counts cover users and keep their surplus, are members linked, is a freed node used by a race only; implements `ObjectGraph`? | 2 threads, 1 router without RIFs, 2 prefixes, 1 next hop, 1 group, 2 member ids, calls fail; 417,080 states |
| `qos` | are links two-sided, is space booked once, does what runs follow its profile? | per component 2 profiles, pools or maps with 1 or 2 users, `MaxFault` 1 |
| `acl` | are tables, counters, policers and sessions held by the rules that name them? | 2 of each, 2 callers for the tables, 1 port, counts wrap at 2; 432,527 states |
| `acl_session` | is a session kept by the ports that use it? (refuted) | same |
| `services` | what is counted, listed and programmed agrees; do threads stop only at the known locks? | 2 of each object, 2 hash indices, 1 encap hop over 2 neighbours, 2 prefixes and a group, 2 threads for the locks and 1 lost, 2 members on 2 bridge ports of a LAG; 1.6 million states |

Why the bounds are enough. Each handler holds at most two locks and each race
in this code is between a handler and one other: two threads produce every
pairwise interleaving, and the second one can start any number of calls while
the first is stopped. Two RIFs (bridge ports, VLANs) are what it takes to share
an attachment; two VRFs to disagree on it; two MACs to differ on it; one LAG and
one `Other` attachment to have both code paths. `MaxRef` bounds the next hops of
a RIF, `MaxBridgeRef` the count of a bridge, which failures leak without bound;
both only stop a counter that is compared with 0. In `fib`, `MaxRef` 3 lets two
routes and a member, or two members and a route, count in one object; `MaxPaths`
2 lets a group fill up with one next hop of weight 2; the router without
interfaces is the one that can be removed, and its default route the one two
callers race on; the next hop is on an interface of another router, as a route
leaked between routers has it. Two neighbours can share an address and
two addresses exchange a neighbour; with one port an address still appears and
disappears, which is what an event tells.

In `qos` two of each are an object left and an object joined. A pool of 2 takes two
users of size 1 and refuses a third or the XOFF of a user; two levels of the
scheduler tree have a top group, which is treated apart, and one that is not.
`MaxFault` only bounds what refusals leave behind (counts that leak). In `acl` a
behaviour is about groups, or about rules with one kind of object they hold,
since an action on one kind leaves the others alone; one priority suffices but
where two tables differ in it. The count of a port's rules is unsigned;
`MaxFlow` 2 wraps it early, so that one too many and one less than 0 both happen.

In `services`, two tunnels with two maps, two entries and two
bridges have a bridge reached twice or once; two termination entries share a hop,
`MaxHopRef` 2, at most `MaxTPorts` 2 bridge ports are on tunnels, and `MaxUnsure` 1 says that an error puts the count of one hop out,
so that the other is still counted beside it. Two hash attributes and two
indices give a change that is refused for the second; `Thread` of `Stp` is one
thread, as the one race there (lookup, then lock) is with handlers that are
atomic. Two threads and `MaxLost` 1 close every circle of two locks and every wait
for a lost one, the only ones the table of locks can; the proof (section 4) is
for any number. One encapsulating hop has a prefix, the default route, two
neighbours with its address and a group to follow, and one overlay route;
`EKept` are the targets of routes that do not forward, of which a group and none
suffice to tell a change of the action from one of the target; `MaxWalks` is the
size of the pipe. Two L2 multicast members and two bridge ports on one LAG of at most one port
give an id used again elsewhere, a loop cut short and a change that overtakes another;
`McMaxLeft` is how many pairs removals leave in the map. While a hop is `off`, only removals and the thread go on
(`EncapEnd`): nothing is claimed of it until it is made anew.

Deadlock is not checked where the code really stops: in `vlan_stp` and `services`
(leaked locks), in `qos` and `acl` (objects at their bounds, a freed node in a tree),
and in the model when the code is past a freed node: in `nbr_fdb` (the broken
list) and `fib` (`wild`). Model values are symmetric where the code never compares
them except for equality; symmetry is used only in runs without liveness.

Fairness (`lag_rif_live`). A caller between two locks keeps running: weak
fairness of every step that waits for nothing. A waiter for a mutex gets it if
it is free again and again: strong fairness of the steps that take one, which
is what a POSIX mutex under a fair scheduler gives. No caller is obliged to
begin a call.

What the refuted properties show is in section 5.

## 4. Proofs

`LagRifProofs` proves for every number of threads, LAGs, ports, RIFs, virtual
routers and MACs, whether calls fail or not:

* `TypeCorrectness`, `CachedProgrammed`, `LagSafety` (`NoOrphanState` and that no
  port is in two LAGs), `TableSafety` (`TableSound`): safety invariants of `lag_rif`;
* `BornInSync`, `MemberUpdate`: its action properties;
* `Refinement`: `LagRif` implements `RifTable`.

None of these is inductive by itself. `OneVrfPerAttachment` holds since a RIF is
searched for duplicates and inserted under one hold of the FIB lock, `CachedIsProgrammed`
since the LAG lock is held over NPU and cache. The inductive invariant `IInv`
says so: `Types`; `Locks` (a thread in a critical section owns the lock, so there
is one of them); `LagWork` and `RifWork` (what the owner has established by the
point it has reached: the port it adds is in no LAG, the RIF it inserts has no
duplicate and is in the NPU, the members were read under the lock); `Programmed`
(the cache agrees with the NPU up to what the owner is doing); and the
properties themselves. Each `...Step` lemma shows one conjunct is preserved, with
a step per action that touches it; `LagEffect` and `RifEffect` summarise which
variables an action can change, so the frame cases are one step each.

`NeighborProofs` proves for every number of threads, neighbours, addresses and
ports: `TypeCorrectness`, `Programming` (`NodeIsProgrammed`), `RegistrationExact`
(`RegisteredIffListed`), `NoLostWake` (`WakeNotLost`) and `BornOnFdbPort`
(`CreatedOnFdbPort`), the properties of `nbr_fdb`. A handler releases the FDB lock
between its steps, so that API calls, NPU events and the notification thread
come in between. The inductive invariant says what survives them: `Locks` and
`Work` (the FIB lock's owner is alone, and has told the NPU nothing, or all, of the
neighbour it works on); `Programmed` (nodes and NPU agree but for that neighbour);
`Registration`; `ListedExist` and `NewListed` (until a list is broken, lists hold
neighbours only, and a new neighbour is in the list of its address alone, which
is therefore registered); hence `NewOnPort` (any change of that address since the
lookup has left an event, and the callback that would consume it waits for the
FIB lock); `BatchDone` (the thread never takes events over those it has not
reported); `WakeNotLost` itself. There is one lemma per action, with a step per
conjunct; `FdbStep` covers everything that leaves the neighbours alone. The
proofs cover the steps up to the one that breaks a list, where the model stops:
`ListsIntact` is false of the code (section 5).

`FibProofs` proves for every number of threads, virtual routers, interfaces, next
hops, groups, member ids and prefixes, and for every size limit:
`TypeCorrectness`, `CountsCovered` (`CountsCover`), `MembersSafe`
(`MembersLinked`), `RaceOnly` (`UndefinedOnlyByRace`) and `Surplus`
(`SurplusConserved`), all the properties of `fib` but one, which is the theorem
`Refinement` (`ImplementsObjectGraph`). A removal goes by a
count and not by the pointers, so the heart is that a count covers its users.
They are counted as a set: a link of weight w is w slots, `Slots`, and the
cardinality of a union of slots adds the weights without recursion. `IInv` is
`TypeOK`, `CountsCover`, `MembersLinked`, and two parts of what a default route
can be: `Routers` (a router has a default route as long as it exists, and
nothing when it does not; what a caller will copy back was not in the NPU) and
`Undisturbed` (until a race, at most one caller has to restore a route, to the
empty one, and it is not in the NPU meanwhile). The lemmas about data say what one
more slot, route or node does to users and counts (`Counting`, `MoreLinks`,
`OwnEffect`, ...), `AddConserved`, `RemoveConserved`, `RouteConserved`,
`DropConserved` that the difference is kept; then one lemma per action shows
`IInv' /\ Conserved`, whose second half is `Surplus` and, with the first state,
gives the covering. For the refinement, the lemmas read alive objects and edges off a state
(`Alive`, `Edge`); `Ends` has both ends of an edge alive by the invariant, and
`GraphStep` reduces a step of the graph to one object that changes.

`VlanStpProofs` first proves of `Stp` alone, for every number of instances, ports and
threads, `PortsCounted` (an instance counts its STP ports, unless a creation ran on a freed instance) and
`StrayOnlyByRace` (an STP port outlives its instance only so); the run `services`
checks both, inside `ServicesCounts` and `ServicesAgree`. The inductive `StpInv` adds
that a lookup that is still fresh names an instance that exists (`FreshExists`),
that a port is in one place per instance (`PortOnce`), and that the counters of
live, untainted instances are exact (`AllCounted`).

On it builds, for every number of threads, VLANs and instances, `VlanTypeCorrect`
(`TypeOK`), `OneInstance` (`VlanInOneInstance`), `MapExact` (`VlanMapExact`), `InUseNotDeleted` (`VlanInUseNotDeleted`) and `TreeRefinement`
(`ImplementsVlanTree`): all the properties of `vlan_stp`. The map of VLANs and the lists
of instances are changed one after the other, under two locks, with refusals in
between, so they do not agree at all times. `VlanInv` has the half that does
(`MapSound`: what an instance lists, the map puts there), and for the owner of the
VLAN lock, at each label, what is missing from the other half (`AtLabel`). `InstanceIs` and
`InstanceKept` read the abstract instance of a VLAN off the lists.

`BridgePortProofs` proves for every number of threads, LAGs, ports, bridges, bridge
ports and VLANs `BridgeTypeCorrect` (`TypeOK`), `AttachmentsAgree`
(`AttachmentsSound`) and `TreeRefinement` (`ImplementsBridgeTree`): all the properties
of `bridge_port`. What makes them inductive is `Work` (only the owner of the bridge
lock is in a handler, and what it has validated, `Checked`, or looked up, still
holds when it writes the cache), `Connected` (a sub port is the one the map of its
place leads to, so a place has one) and `BridgeCounts` (a 1D bridge counts at least
its sub ports: failures leak counts, they never lose one). Of the LAG handlers,
which hold another lock, `LagEffect` says all that matters: a LAG keeps its count or
starts again at zero. Most steps are `Kept`, which keeps `Sound` whatever else they
do; `OneMore` and `OneLess` count for the two that change the cache, and `PlaceKept`,
`ConnectPlace` and `DisconnectPlace` read the abstract tree off it.

`QosProofs` proves for every number of profiles, pools, users, nodes, maps, policers and
ports `QosTypes` (`QosTypeOK`), `QosLinked` (`QosLinks`), `BuffersSound` (`BufferSound`) and
`QosFollows` (`QosRuns`): all the properties of `qos`. Each component has an invariant
of its own (`WredInv`, `BufInv`, `SchedInv`, `MapInv`, `PolInv`), and a step of `Qos` is a step
of one of them and leaves the others alone. What the properties lack to be
inductive:

* WRED: both ends of every link agree for any links, not only the present ones
  (`GoodLinks(l)`), since a refusal is set back through intermediate ones;
* schedulers: the default profile lists nobody (`DefaultUnlisted`), and nothing on
  top of the tree is the child of a group (`NoTopChild`), so that the removal of a top
  group, which looks at no list of children, leaves none behind;
* maps: a port names a map of its type that exists (`NamedMapsExist`), without which
  an id could come back under a port that still names it; and an entry goes to an
  index below the size of its bank (`QueuesInBank`), where the list is an array;
* buffers: what freed profiles left in a pool is gone with the pool (`LeakGone`).
  What is booked is a sum over users, written as the cardinality of a set of
  slots (one for each user and unit of its charge), so that a user that moves
  takes its slots along and no sum has to be unfolded.

`ServicesProofs` proves for every number of objects and threads `ServicesTypes`
(`ServicesTypeOK`), `CountsAreUsers` (`ServicesCounts`), `ObjectsAgree`
(`ServicesAgree`), `BridgesStayMapped` (`BridgeStaysMapped`) and `LockOrderSound`
(`LocksSound`): all the properties of `services`. Again each component has its own
invariant and a step of `Services` is one of one component.

* Tunnels (`TunInv`): the counts of maps, bridges, router interfaces and hops are
  the cardinalities of their users; a termination entry whose creation is being
  undone still counts in its hop (`Pending`); a map freed in a race does not come back
  (`RacedGone`); and only hops of the application leave a stray id (`StrayPlain`), so
  that a hop made for a termination entry cannot be taken for one.
* Encapsulating hops (`EncInv`): a hop that is not `off` is `Right`: it has exactly the
  content of the neighbour it follows, or of the best route to its address, and is on
  the lists of just those next hops and groups (`On`), as every handler takes it
  off those lists by what the route says now. The default route is empty while it is
  not in the NPU (`DefaultEmpty`), which is why its removal has no list to leave; and
  hops of overlay routes exist (`OverlayHops`). That a best route exists is a
  well-founded descent from the address (`Greatest`).
* Mirroring (`MirInv`): a port and a session name each other but for the pair a call
  is at, and the node a call is about to free is one no list has (`GoneUnlisted`).
* Hash and UDF (`HashInv`, `UdfInv`): an index belongs to a hash object or to the one
  creation that has chosen it (`IndicesRight`), until two choose the same; a group
  counts its fields, a hash object the switch attributes that name it.
* L2 multicast (`McInv`): no two members of a group are on one bridge port and their
  group exists (`GroupsKept`), the map leads to members (`MapHolds`), and a member is
  flooded to what a change of the LAG still on its way leaves it (`Flooded`).
* Locks (`LockInv`): `HoldsTaken` says a thread holds what its section has taken so far;
  `OnlyLosableLost` which locks an early return can lose. From the table of calls it
  follows which locks can be waited for inside which, and a circle would need a
  chain of these that does not exist but for the bridge and the tunnel lock.

`AclProofs` proves of `AclSpec`, for every number of tables, groups, members, counters,
rules, policers, sessions, ports and callers: `AclTypes` (`AclTypeOK`), `AclCountsExact`
(`AclCounts`), `PolicersListTheirRules` (`PolicersListRules`) and `RuleSamplesAreHeld`
(`RuleSamplesHeld`), all the properties of `acl`. A step of the run is a step of
`AclSpec`, which lets all kinds of objects be used in one behaviour, so the theorems
also cover the rules that hold several kinds at once, which the run leaves out. The
inductive invariant `AclInv` has five parts.

* Tables (`TabInv`): counts are the cardinalities of the rules and counters of a table
  (`RulesOf`, `CountersOf`), and a call that has found a table holds one that is there
  or is marked as freed (`CallRight`). Hence a rule goes into a table that counts it,
  or becomes an orphan.
* Groups (`GrpInv`): members and lists name each other.
* Counters (`CntInv`): a rule is counted by the counter it names, a counter of its
  table, unless it is `loose`. Failures leave a counter with too many rules, never
  too few, so `DeleteCounter` cannot free one that a rule names.
* Policers (`PolInv`): a rule between the two steps of joining a policer names it, and
  the policer exists or the rule is known to be late (`AttachingRight`). What an
  action does to lists is always one rule's doing (`PolEffect`).
* Sessions (`SampleInv`): the node of a port that a rule samples is in use and counts at
  least one (`Held`); a node in use is in the tree of a session that exists
  (`NodesIn`). It is stated of the record a call works on, so that the steps of a
  call (`UpdatedOk`, `RemovedOk`: any number of ports, each with its own answer of the
  NPU) are put together as the handlers put them: removed, added, or restored.

The last needs that a count does not wrap upwards: a call that samples starts with
every count below `MaxFlow` (`FlowsBounded`), which is 2^32 - 1 in the code. That it
does not wrap downwards while a rule samples the port is `Held`.

Assumptions of `FibProofs`: the sets counted are finite (`FiniteAssumption`); next hops,
groups, routes, `None` and `Stale` are distinct (`TargetAssumption`,
`ObjectAssumption`, `NoneAssumption`); routers with interfaces are routers, the
default prefix is a prefix (`RouterAssumption`), a next hop key has an interface
(`RifOfAssumption`), bounds are natural numbers (`BoundAssumption`).

Assumptions of `LagRifProofs`: a free lock's owner is no thread; `NoLag`, `NoPort`, `NoRif`,
`NoInfo` are no LAG, port, RIF, RIF content; an `Other` attachment is no LAG;
`Rif` is finite (cardinality of the RIFs of a VRF); `MaxRef` is a natural number;
`NpuMayFail` is Boolean. Nothing is assumed of `Thread`, `Lag`, `Port`, `Vrf`,
`Mac`. Of `NeighborProofs`: `NullPort`, `NoEvent`, `NoThread` and `NoInfo` are none of
the ports, threads, nodes or NPU records they stand beside; `MaxWakes` is a positive
number.

Of `BridgePortProofs`: the default bridge is a bridge, ports are not LAGs, bridge port
ids are finite, and the null values are none of the values they stand beside.

Of `VlanStpProofs`: the defaults are a VLAN and an instance, the null
values are none of the values they stand beside, and STP port ids are finite
(`FiniteAssumption`; cardinalities).

Of `QosProofs`, `ServicesProofs` and `AclProofs`: null values are none of the values they
stand beside, and the sets counted are finite (`PolicerAssumption`, `WredAssumption`,
`SchedAssumption`, `BufferAssumption`, `QosMapsAssumption`; `MirrorAssumption`,
`HashNullAssumption`, `McAssumption`, `TunnelFinite`, `TunnelAssumption`, `EncapAssumption`,
`LockAssumption`; `AclTableAssumption`, `SampleAssumption`, `AclAssumption`). Besides: sizes and limits are natural numbers; there is an index for
each of the two hash objects of the start (`HashAssumption`); prefixes are lengths
of which 0 is the default route, and a route that does not forward may have no
target (`EncapAssumption`); tunnels are VXLAN or IP in IP.

Only model-checked: liveness (`EveryCallReturns`), since the prover has neither
`ENABLED` nor fairness. Every other property of a passing run is a theorem.
`WakeNotLost` is the safety half of "every event is reported".

## 5. Where the code disagrees with itself

Shown by a run that refutes what the code says:

* **A RIF misses a member of its LAG** (`lag_rif_sync`, `QuietRifMatchesLag`).
  A comment at `sai_l3_router_interface.c:958-961` takes the LAG lock so that the
  LAG is not modified while the RIF is made; it is released (line 1032) before
  the map entry that the callback needs (line 1033) exists.
* **A freed neighbour stays linked** (`nbr_list`, `ListsIntact`). A neighbour that
  stops forwarding stays in the list of its MAC address, and
  `sai_fib_neighbor_mac_entry_remove` skips a node that does not forward
  (`sai_l3_neighbor.c:584`): its removal frees a linked node, and forwarding
  again links it twice.
* **A session is removed while a port uses it** (`acl_session`,
  `SessionKeptByPorts`). One node stands for a port sampled by its attribute and by
  rules; the end of the last rule frees it (`sai_samplepacket_common.c:460`), and the
  removal of the session, which is to "check if any source port is still attached"
  (224), goes by the nodes.

Stated as exceptions of the properties that pass, so that TLC shows nothing else
breaks them:

* *Virtual routers.* A refused removal frees the default route first
  (`sai_l3_vrf.c:614`) and makes an empty one after; what it forwarded to stays
  counted for ever (`SurplusConserved`). A default route that failed is restored
  after the unlock (`sai_l3_route.c:646`, `UndefinedOnlyByRace`).
* *STP.* The lookup at `sai_stp.c:657` precedes the lock, so a port can outlive its
  instance (`StrayPortOnlyByRace`).
* *Bridge ports.* `sai_bridge.c:890` compares the attribute's id with an attribute
  value and takes the port lock for a LAG, which can therefore be removed under
  the new bridge port (`AttachmentsSound` keeps what is left true).
* *Locks.* Four returns forget a lock (`sai_vlan.c:306`, `sai_mirror_common.c:764`,
  `sai_hash_obj.c:643`, 1030), and bridge and tunnel are taken in both orders
  (`sai_bridge.c:916`, `sai_tunnel_map_obj.c:428`): `LocksSound`.
* *QoS.* A refused creation leaves a freed profile counted in its pool
  (`sai_qos_buffer.c:446-474`, `leaked`); bookings the NPU refuses are not noticed
  (948-955, `unbooked`); a scheduler group on top is not in the list of the profile
  it was created with, and stays in it when removed (`sai_qos_sched_group.c:81`, 562).
  Two statements of comments are defined and not run, as they are false:
  `CachedPoolHasNoQueue` (`sai_qos_wred.c:880`) and `IngressMapsApplied`
  (`sai_qos_map_utils.c:128`).
* *ACL.* A rule is created in a table freed after the lookup (`orphans`), a policer
  is freed between its lookup and the rule's entry into its list (`stray`), a
  counter refused to a rule stays named by it (`loose`), and so does a policer.
* *Tunnels.* A map is freed after an unlocked check (`racedMap`). A refusal while a
  termination entry is torn down keeps the hop counted (`unsure`); such an entry is
  out of its tree and in the list of its tunnel. A termination entry of a tunnel that
  is not VXLAN, but says it is, frees a hop of the application (`strayHop`). A
  tunnel can be removed under its bridge port. `create_map` reports success when
  it failed.
* *Mirroring.* A session type that is refused is stored as invalid
  (`sai_mirror_common.c:673`); rules of access lists do not count in a session; no
  memory between the two lists leaves a source no port has recorded (`orphans`); a
  port that leaves strands its sources.
* *Hash, UDF.* Two creations can get one id (`sai_hash_obj.c:369`, 428, `racedIdx`); the
  removal of a group does not ask whether a hash object has it, and always
  reports success (`sai_udf_group.c:413`); a mask is set by means of a "temporary node"
  (`sai_udf.c:544`) that shares the list of the field.
* *L2 multicast.* A bridge port can be removed under its members, which stay in the
  map. The handler's list is allocated for 0 members (`sai_l2mc_group.c:69`) and
  written all the same. A member that is gone from the tree, or that the NPU refuses,
  ends the loop for those after it (line 92).
* *Neighbours.* A new MAC address is looked up at `sai_l3_neighbor.c:963` and
  registered at 998: a move in between is missed. Creation has the right order
  (`CreatedOnFdbPort`).

## 6. What is not modelled

* **Host interfaces.** A trap group counts its traps; nothing else is shared.
* **Ports.** What a port stores is in the plug-in; ports come and go in `Mirror`, and
  in `Stp`, `VlanStp`, `BridgePort` as attachments.
* **Switch, query, shell.** Initialisation, tables of function pointers, text.
* **Getters** change nothing but the FDB's cache. Attribute parsing and
  validation are modelled where a wrong attribute takes a path of its own.
* **Unit tests** (a third of the repository) are clients; they were read for what
  the code is expected to do.
* Within modelled components: IPv6 twins, port pools, RIFs on ports and VLANs,
  meta data, statistics. Each component's note in `PROJECT.json` says what is left
  out.
