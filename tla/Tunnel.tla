------------------------------- MODULE Tunnel -------------------------------
(* Tunnels, their maps, their termination entries and the encapsulating    *)
(* next hops: src/src/tunnel, and what sai_l3_next_hop.c and               *)
(* sai_l3_encap_next_hop.c do for them.  The handlers run under the tunnel *)
(* lock (with the FIB or the bridge lock inside) and are one action each.  *)
(* The exceptions: a map is removed without a lock, in two steps; and the  *)
(* creation of a termination entry that fails is undone after the unlock.  *)
(*                                                                         *)
(* A tunnel's lists of entries and hops are the ones that name it; ids of  *)
(* maps that were freed too early are not given again.                     *)
EXTENDS Integers, FiniteSets

CONSTANTS TMap, TEntry, TBridge, Vni,        \* ids and values
          Tunnel, Term, TRif, Ip,
          TType,                             \* types a new tunnel may have
          MaxHopRef,                         \* bound: uses of one hop
          MaxTPorts,                         \* bound: bridge ports on tunnels
          MaxUnsure,                         \* bound: hops an error has put out
          NoMap, NoEntry, NoTunnel, NoTerm, NoHop, NoUndo

VARIABLES
  maps,      \* kind of the maps in the tree
  mapRef,    \* ref_count of a map
  seenFree,  \* maps a removal has found unused and will free
  racedMap,  \* history: maps freed while something named them
  entries,   \* map entries
  brRef,     \* what the entries count in ref_count of a bridge
  tunnels,   \* type, router interfaces and maps of the tunnels in the tree
  tports,    \* bridge ports of type TUNNEL: bridge and tunnel
  rifRef,    \* what tunnels and hops count in ref_count of a RIF
  terms,     \* termination entries
  termTree,  \* the ones that are in the tree
  hops,      \* encapsulating next hops
  underlay,  \* hops the NPU plug-in holds for a tunnel
  undo,      \* the creation of a termination entry that is to be undone
  unsure,    \* history: hops whose count an error has put out
  strayHop   \* history: freed hops that are still in the id tree

mapVarsT == <<maps, mapRef, seenFree, racedMap, entries, brRef>>
hopVars == <<hops, underlay, undo, unsure, strayHop>>
termVars == <<terms, termTree>>
tunVars == <<mapVarsT, tunnels, tports, rifRef, termVars, hopVars>>

(* Bound: MaxUnsure hops at most become unsure.                            *)
UnsureWith(h) == /\ unsure' = unsure \cup {h}
                 /\ Cardinality(unsure') <= MaxUnsure

Hop == [rif : TRif, ip : Ip, type : {"vxlan", "ipinip"}]
HopKey(t, ip) == [rif |-> tunnels[t].under, ip |-> ip, type |-> tunnels[t].type]

IsMap(m) == maps[m] # "none"
IsTunnel(t) == tunnels[t] # NoTunnel
MapsOf(t) == {tunnels[t].encap, tunnels[t].decap} \ {NoMap}
OnMap(m) == {x \in TEntry : entries[x] # NoEntry /\ entries[x].map = m}
WithMap(m) == {t \in Tunnel : IsTunnel(t) /\ m \in MapsOf(t)}
TermsOf(t) == {x \in Term : terms[x] # NoTerm /\ terms[x].tunnel = t}
HopsOf(t) == {h \in Hop : hops[h] # NoHop /\ hops[h].owner = t}

(* The VXLAN termination entries that use a hop                            *)
TermsOn(h) == {x \in Term : /\ terms[x] # NoTerm /\ terms[x].vxlan
                            /\ h = HopKey(terms[x].tunnel, terms[x].ip)}

---------------------------------------------------------------------------
(* Maps and map entries                                                    *)

(* dn_sai_create_tunnel_map *)
CreateMap(m) ==
  /\ ~IsMap(m) /\ m \notin racedMap
  /\ \E k \in {"encap", "decap"} : maps' = [maps EXCEPT ![m] = k]
  /\ mapRef' = [mapRef EXCEPT ![m] = 0]
  /\ UNCHANGED <<seenFree, racedMap, entries, brRef, tunnels, tports, rifRef, termVars, hopVars>>

(* dn_sai_remove_tunnel_map looks at ref_count ...                         *)
CheckMap(m) ==
  /\ IsMap(m) /\ mapRef[m] = 0
  /\ seenFree' = seenFree \cup {m}
  /\ UNCHANGED <<maps, mapRef, racedMap, entries, brRef, tunnels, tports, rifRef, termVars, hopVars>>

(* ... and frees the map, whatever has come to use it.                     *)
FreeMap(m) ==
  /\ m \in seenFree
  /\ seenFree' = seenFree \ {m}
  /\ maps' = [maps EXCEPT ![m] = "none"]
  /\ racedMap' = IF mapRef[m] = 0 THEN racedMap ELSE racedMap \cup {m}
  /\ UNCHANGED <<mapRef, entries, brRef, tunnels, tports, rifRef, termVars, hopVars>>

(* dn_sai_tunnel_map_entry_validate: the bridge of an encap entry and the  *)
(* VNI of a decap entry are its key                                        *)
SameKey(e, f) == /\ e.map = f.map
                 /\ IF maps[e.map] = "encap" THEN e.bridge = f.bridge ELSE e.vni = f.vni

CreateMapEntry(x, e) ==
  /\ entries[x] = NoEntry
  /\ IsMap(e.map)
  /\ \A y \in OnMap(e.map) : ~SameKey(entries[y], e)
  /\ entries' = [entries EXCEPT ![x] = e]
  /\ mapRef' = [mapRef EXCEPT ![e.map] = @ + 1]
  /\ brRef' = [brRef EXCEPT ![e.bridge] = @ + 1]
  /\ UNCHANGED <<maps, seenFree, racedMap, tunnels, tports, rifRef, termVars, hopVars>>

(* Mutant: any other entry of the bridge, also of the other map, will do   *)
MapEntryInUseAny(x) ==
  LET e == entries[x]
  IN /\ \E t \in WithMap(e.map) : <<e.bridge, t>> \in tports
     /\ \A y \in TEntry \ {x} : entries[y] = NoEntry \/ entries[y].bridge # e.bridge

(* dn_sai_is_tunnel_map_entry_in_use: a tunnel with the map is on the      *)
(* bridge, and no other decap entry leads there                            *)
MapEntryInUse(x) ==
  LET e == entries[x]
  IN /\ \E t \in WithMap(e.map) : <<e.bridge, t>> \in tports
     /\ maps[e.map] = "decap" => \A y \in OnMap(e.map) \ {x} : entries[y].bridge # e.bridge

(* On an entry whose map is gone the code would follow a null pointer.     *)
RemoveMapEntry(x) ==
  LET e == entries[x] IN
  /\ e # NoEntry /\ IsMap(e.map)
  /\ ~MapEntryInUse(x)
  /\ entries' = [entries EXCEPT ![x] = NoEntry]
  /\ mapRef' = [mapRef EXCEPT ![e.map] = @ - 1]
  /\ brRef' = [brRef EXCEPT ![e.bridge] = @ - 1]
  /\ UNCHANGED <<maps, seenFree, racedMap, tunnels, tports, rifRef, termVars, hopVars>>

(* Mutant: only the new bridge is counted                                  *)
MovedEntryCounted(old, new) == [brRef EXCEPT ![new] = @ + 1]
MovedEntry(old, new) == LET less == [brRef EXCEPT ![old] = @ - 1] IN [less EXCEPT ![new] = @ + 1]

(* dn_sai_set_tunnel_map_entry_attr: the bridge of a decap entry, the VNI  *)
(* of an encap entry                                                       *)
SetMapEntry(x) ==
  LET e == entries[x] IN
  /\ e # NoEntry /\ IsMap(e.map)
  /\ \/ /\ maps[e.map] = "decap" /\ ~MapEntryInUse(x)
        /\ \E b \in TBridge : /\ entries' = [entries EXCEPT ![x].bridge = b]
                              /\ brRef' = MovedEntry(e.bridge, b)
     \/ /\ maps[e.map] = "encap"
        /\ \E v \in Vni : entries' = [entries EXCEPT ![x].vni = v]
        /\ UNCHANGED brRef
  /\ UNCHANGED <<maps, mapRef, seenFree, racedMap, tunnels, tports, rifRef, termVars, hopVars>>

---------------------------------------------------------------------------
(* Tunnels                                                                 *)

(* Mutant: only the first map is given back                                *)
MapperCleanFirst(ref, ms) ==
  [m \in TMap |-> IF m \in ms /\ IsMap(m) /\ m = (CHOOSE n \in ms : TRUE) THEN ref[m] - 1 ELSE ref[m]]

(* dn_sai_tunnel_mapper_set and dn_sai_tunnel_mapper_clean, of the counts  *)
MapperSet(ref, ms) == [m \in TMap |-> IF m \in ms THEN ref[m] + 1 ELSE ref[m]]
MapperClean(ref, ms) ==
  [m \in TMap |-> IF m \in ms /\ IsMap(m) /\ ref[m] > 0 THEN ref[m] - 1 ELSE ref[m]]

(* The attributes of a new tunnel: maps of the right kind, at most one of  *)
(* each, and both for VXLAN                                                *)
GoodTunnel(a) ==
  /\ a.encap # NoMap => maps[a.encap] = "encap"
  /\ a.decap # NoMap => maps[a.decap] = "decap"
  /\ a.type = "vxlan" => NoMap \notin {a.encap, a.decap}

(* A tunnel counts on both of its router interfaces.                       *)
TunnelOn(r) == [r2 \in TRif |-> (IF r.under = r2 THEN 1 ELSE 0) + (IF r.over = r2 THEN 1 ELSE 0)]

(* dn_sai_tunnel_create: the maps are counted first and given back when    *)
(* the NPU or the tree refuses.                                            *)
CreateTunnel(t, a) ==
  LET ms == {a.encap, a.decap} \ {NoMap} IN
  /\ ~IsTunnel(t)
  /\ GoodTunnel(a)
  /\ \/ /\ tunnels' = [tunnels EXCEPT ![t] = a]
        /\ mapRef' = MapperSet(mapRef, ms)
        /\ rifRef' = [r \in TRif |-> rifRef[r] + TunnelOn(a)[r]]
     \/ /\ mapRef' = MapperClean(MapperSet(mapRef, ms), ms)
        /\ UNCHANGED <<tunnels, rifRef>>
  /\ UNCHANGED <<maps, seenFree, racedMap, entries, brRef, tports, termVars, hopVars>>

(* Mutant: termination entries do not keep a tunnel                        *)
TunnelFreeOfHops(t) == HopsOf(t) = {}
TunnelFree(t) == HopsOf(t) = {} /\ TermsOf(t) = {}

(* dn_sai_tunnel_remove; bridge ports on the tunnel do not keep it.        *)
RemoveTunnel(t) ==
  /\ IsTunnel(t)
  /\ TunnelFree(t)
  /\ tunnels' = [tunnels EXCEPT ![t] = NoTunnel]
  /\ mapRef' = MapperClean(mapRef, MapsOf(t))
  /\ rifRef' = [r \in TRif |-> rifRef[r] - TunnelOn(tunnels[t])[r]]
  /\ undo' = IF undo # NoUndo /\ undo.tunnel = t THEN [undo EXCEPT !.live = FALSE] ELSE undo
  /\ UNCHANGED <<maps, seenFree, racedMap, entries, brRef, tports, termVars,
                 hops, underlay, unsure, strayHop>>

(* The bridge ports of type TUNNEL (sai_bridge.c); one whose tunnel is     *)
(* gone may be refused its removal.                                        *)
AddTunnelPort(b, t) ==
  /\ IsTunnel(t) /\ <<b, t>> \notin tports
  /\ tports' = tports \cup {<<b, t>>}
  /\ Cardinality(tports') <= MaxTPorts
  /\ UNCHANGED <<mapVarsT, tunnels, rifRef, termVars, hopVars>>

RemoveTunnelPort(b, t) ==
  /\ <<b, t>> \in tports
  /\ tports' = tports \ {<<b, t>>}
  /\ UNCHANGED <<mapVarsT, tunnels, rifRef, termVars, hopVars>>

---------------------------------------------------------------------------
(* Encapsulating next hops                                                 *)

(* sai_tunnel_encap_nh_setup: the hop is found, or made and listed in the  *)
(* tunnel, and counted                                                     *)
NhSetup(t, h) ==
  IF hops[h] = NoHop
  THEN /\ hops' = [hops EXCEPT ![h] = [ref |-> 1, owner |-> t, api |-> FALSE]]
       /\ rifRef' = [rifRef EXCEPT ![h.rif] = @ + 1]
  ELSE /\ hops[h].ref < MaxHopRef
       /\ hops' = [hops EXCEPT ![h].ref = @ + 1]
       /\ UNCHANGED rifRef

(* Mutant: the last user does not remove the hop                           *)
NhTeardownKeeps(h) ==
  /\ hops[h] # NoHop
  /\ hops' = [hops EXCEPT ![h].ref = 0]
  /\ UNCHANGED <<rifRef, strayHop>>

(* sai_tunnel_encap_nh_teardown: the last user removes the hop, also one   *)
(* that a next hop of the application stands for, whose id then leads to   *)
(* freed memory                                                            *)
NhTeardown(h) ==
  /\ hops[h] # NoHop
  /\ IF hops[h].ref > 1
     THEN /\ hops' = [hops EXCEPT ![h].ref = @ - 1]
          /\ UNCHANGED <<rifRef, strayHop>>
     ELSE /\ hops' = [hops EXCEPT ![h] = NoHop]
          /\ rifRef' = [rifRef EXCEPT ![h.rif] = @ - 1]
          /\ strayHop' = IF hops[h].api THEN strayHop \cup {h} ELSE strayHop

(* It fails when there is no hop, or the NPU keeps the last user's, which  *)
(* is then counted again.                                                  *)
NhTeardownFail(h) ==
  /\ \/ hops[h] = NoHop /\ UNCHANGED hops
     \/ /\ hops[h] # NoHop /\ hops[h].ref <= 1
        /\ hops' = [hops EXCEPT ![h].ref = 1]
  /\ UNCHANGED <<rifRef, strayHop>>

(* sai_tunnel_underlay_setup, sai_tunnel_underlay_teardown: by the plug-in *)
UnderlaySetup(t, ip) ==
  /\ IsTunnel(t) /\ <<HopKey(t, ip), t>> \notin underlay
  /\ NhSetup(t, HopKey(t, ip))
  /\ underlay' = underlay \cup {<<HopKey(t, ip), t>>}
  /\ UNCHANGED <<mapVarsT, tunnels, tports, termVars, undo, unsure, strayHop>>

UnderlayTeardown(t, ip) ==
  /\ IsTunnel(t) /\ <<HopKey(t, ip), t>> \in underlay
  /\ \/ /\ NhTeardown(HopKey(t, ip))
        /\ underlay' = underlay \ {<<HopKey(t, ip), t>>}
     \/ NhTeardownFail(HopKey(t, ip)) /\ UNCHANGED underlay
  /\ UNCHANGED <<mapVarsT, tunnels, tports, termVars, undo, unsure>>

(* sai_fib_next_hop_create and sai_fib_next_hop_remove of the application: *)
(* the type of tunnel in the key stays 0, IP in IP.                        *)
CreateHop(h, t) ==
  /\ IsTunnel(t) /\ h.type = "ipinip" /\ h \notin strayHop
  /\ hops[h] = NoHop
  /\ hops' = [hops EXCEPT ![h] = [ref |-> 0, owner |-> t, api |-> TRUE]]
  /\ rifRef' = [rifRef EXCEPT ![h.rif] = @ + 1]
  /\ UNCHANGED <<mapVarsT, tunnels, tports, termVars, underlay, undo, unsure, strayHop>>

(* Mutant: a hop in use is removed                                         *)
HopRemovableAny(h) == hops[h] # NoHop /\ hops[h].api
HopRemovable(h) == hops[h] # NoHop /\ hops[h].api /\ hops[h].ref = 0

RemoveHop(h) ==
  /\ HopRemovable(h) /\ h \notin strayHop
  /\ hops' = [hops EXCEPT ![h] = NoHop]
  /\ rifRef' = [rifRef EXCEPT ![h.rif] = @ - 1]
  /\ UNCHANGED <<mapVarsT, tunnels, tports, termVars, underlay, undo, unsure, strayHop>>

---------------------------------------------------------------------------
(* Termination entries                                                     *)

(* dn_sai_tunnel_term_create; the type of the entry, which decides whether *)
(* it has a hop, is its own attribute.                                     *)
CreateTerm(x, t, ip, vxlan) ==
  /\ terms[x] = NoTerm
  /\ IsTunnel(t)
  /\ IF vxlan THEN NhSetup(t, HopKey(t, ip)) ELSE UNCHANGED <<hops, rifRef>>
  /\ \/ /\ terms' = [terms EXCEPT ![x] = [tunnel |-> t, ip |-> ip, vxlan |-> vxlan]]
        /\ termTree' = termTree \cup {x}
        /\ UNCHANGED undo
     \/ /\ vxlan /\ undo = NoUndo    \* the NPU or the tree refuses the entry
        /\ undo' = [tunnel |-> t, hop |-> HopKey(t, ip), live |-> TRUE]
        /\ UNCHANGED termVars
  /\ UNCHANGED <<mapVarsT, tunnels, tports, underlay, unsure, strayHop>>

(* The hop is given back after the unlock, through a tunnel that may be    *)
(* freed by then: its key is then found as it was, or not at all.          *)
UndoTerm ==
  /\ undo # NoUndo
  /\ undo' = NoUndo
  /\ \/ NhTeardown(undo.hop) /\ UNCHANGED unsure
     \/ /\ NhTeardownFail(undo.hop) \/ (~undo.live /\ UNCHANGED <<hops, rifRef, strayHop>>)
        /\ UnsureWith(undo.hop)
  /\ UNCHANGED <<mapVarsT, tunnels, tports, termVars, underlay>>

(* dn_sai_tunnel_term_remove: the entry leaves the tree first.  It stays   *)
(* out of it when the hop is not given back, and comes back when the NPU   *)
(* keeps the entry, without its hop.                                       *)
RemoveTerm(x) ==
  LET h == HopKey(terms[x].tunnel, terms[x].ip)
      gone == /\ terms' = [terms EXCEPT ![x] = NoTerm]
              /\ termTree' = termTree \ {x}
  IN
  /\ x \in termTree
  /\ \/ ~terms[x].vxlan /\ gone /\ UNCHANGED <<hops, rifRef, unsure, strayHop>>
     \/ terms[x].vxlan /\ NhTeardown(h) /\ gone /\ UNCHANGED unsure
     \/ /\ terms[x].vxlan /\ NhTeardown(h)
        /\ UnsureWith(h)
        /\ UNCHANGED termVars
     \/ /\ terms[x].vxlan /\ NhTeardownFail(h)
        /\ termTree' = termTree \ {x}
        /\ UNCHANGED <<terms, unsure>>
  /\ UNCHANGED <<mapVarsT, tunnels, tports, underlay, undo>>

---------------------------------------------------------------------------
(* After sai_tunnel_init; some maps may have been created.                 *)
TunInit ==
  /\ maps \in [TMap -> {"none", "encap", "decap"}] /\ mapRef = [m \in TMap |-> 0]
  /\ seenFree = {} /\ racedMap = {}
  /\ entries = [x \in TEntry |-> NoEntry] /\ brRef = [b \in TBridge |-> 0]
  /\ tunnels = [t \in Tunnel |-> NoTunnel] /\ tports = {}
  /\ rifRef = [r \in TRif |-> 0]
  /\ terms = [x \in Term |-> NoTerm] /\ termTree = {}
  /\ hops = [h \in Hop |-> NoHop] /\ underlay = {}
  /\ undo = NoUndo /\ unsure = {} /\ strayHop = {}

MapEntry == [map : TMap, bridge : TBridge, vni : Vni]
TunnelInfo == [type : TType, under : TRif, over : TRif,
               encap : TMap \cup {NoMap}, decap : TMap \cup {NoMap}]
TermInfo == [tunnel : Tunnel, ip : Ip, vxlan : BOOLEAN]
HopInfo == [ref : Nat, owner : Tunnel, api : BOOLEAN]
UndoInfo == [tunnel : Tunnel, hop : Hop, live : BOOLEAN]

ASSUME TunnelFinite ==
  IsFiniteSet(TEntry) /\ IsFiniteSet(Tunnel) /\ IsFiniteSet(Term) /\ IsFiniteSet(Hop)
ASSUME TunnelAssumption ==
  /\ TType \subseteq {"vxlan", "ipinip"}
  /\ NoMap \notin TMap /\ NoEntry \notin MapEntry /\ NoTunnel \notin TunnelInfo
  /\ NoTerm \notin TermInfo /\ NoHop \notin HopInfo /\ NoUndo \notin UndoInfo

(* Where maps matter the type does not, and the other way round.           *)
MapTunnelInfo == {a \in TunnelInfo : a.type # "vxlan"}
PlainTunnelInfo == {a \in TunnelInfo : a.type # "vxlan" => {a.encap, a.decap} = {NoMap}}

TunnelStep(A) == \E t \in Tunnel : (\E a \in A : CreateTunnel(t, a)) \/ RemoveTunnel(t)

TunnelMapStep ==
  \/ \E m \in TMap : CreateMap(m) \/ CheckMap(m) \/ FreeMap(m)
  \/ \E x \in TEntry : (\E e \in MapEntry : CreateMapEntry(x, e)) \/ RemoveMapEntry(x) \/ SetMapEntry(x)
  \/ \E b \in TBridge, t \in Tunnel : AddTunnelPort(b, t) \/ RemoveTunnelPort(b, t)

TunnelHopStep ==
  \/ \E t \in Tunnel, ip \in Ip : UnderlaySetup(t, ip) \/ UnderlayTeardown(t, ip)
  \/ \E h \in Hop : RemoveHop(h) \/ \E t \in Tunnel : CreateHop(h, t)
  \/ \E x \in Term : \/ \E t \in Tunnel, ip \in Ip, vxlan \in BOOLEAN : CreateTerm(x, t, ip, vxlan)
                     \/ RemoveTerm(x)
  \/ UndoTerm

TunNext == TunnelStep(TunnelInfo) \/ TunnelMapStep \/ TunnelHopStep

TunSpec == TunInit /\ [][TunNext]_tunVars

---------------------------------------------------------------------------
TunTypeOK ==
  /\ maps \in [TMap -> {"none", "encap", "decap"}]
  /\ mapRef \in [TMap -> Nat]
  /\ seenFree \subseteq TMap /\ racedMap \subseteq TMap
  /\ entries \in [TEntry -> MapEntry \cup {NoEntry}]
  /\ brRef \in [TBridge -> Nat]
  /\ tunnels \in [Tunnel -> TunnelInfo \cup {NoTunnel}]
  /\ tports \subseteq TBridge \X Tunnel
  /\ rifRef \in [TRif -> Nat]
  /\ terms \in [Term -> TermInfo \cup {NoTerm}]
  /\ termTree \subseteq {x \in Term : terms[x] # NoTerm}
  /\ hops \in [Hop -> HopInfo \cup {NoHop}]
  /\ underlay \subseteq Hop \X Tunnel
  /\ undo \in UndoInfo \cup {NoUndo}
  /\ unsure \subseteq Hop /\ strayHop \subseteq Hop

(* ref_count of a map is the number of its entries and of the tunnels with *)
(* it, unless it was freed in a race; ref_count of a bridge counts the     *)
(* entries on it; a RIF counts the tunnels and hops on it; and a hop       *)
(* counts its termination entries, the plug-in's uses and the creation     *)
(* that is to be undone, unless the NPU refused to take an entry back      *)
(* (sai_tunnel_map_obj.c:481-621, sai_tunnel_obj.c:433-459,                *)
(* sai_tunnel_encap_nh.c:67-112).                                          *)
TunnelCounts ==
  /\ \A m \in TMap \ racedMap :
       IsMap(m) => mapRef[m] = Cardinality(OnMap(m)) + Cardinality(WithMap(m))
  /\ \A b \in TBridge :
       brRef[b] = Cardinality({x \in TEntry : entries[x] # NoEntry /\ entries[x].bridge = b})
  /\ \A r \in TRif :
       rifRef[r] = Cardinality({t \in Tunnel : IsTunnel(t) /\ tunnels[t].under = r})
                   + Cardinality({t \in Tunnel : IsTunnel(t) /\ tunnels[t].over = r})
                   + Cardinality({h \in Hop : hops[h] # NoHop /\ h.rif = r})
  /\ \A h \in Hop \ unsure :
       LET users == Cardinality(TermsOn(h)) + Cardinality({u \in underlay : u[1] = h})
                    + (IF undo # NoUndo /\ undo.hop = h THEN 1 ELSE 0)
       IN IF hops[h] = NoHop THEN users = 0 ELSE hops[h].ref = users

(* What a tunnel owns or is needed by exists: the tunnel of a termination  *)
(* entry and of a hop, and the maps of a tunnel or an entry that were not  *)
(* freed in a race.  A tunnel is freed under a creation that is still to   *)
(* be undone only if the hop of it is listed in another tunnel; and a hop  *)
(* of the application is freed under its id only where an entry calls a    *)
(* tunnel VXLAN that is not (sai_tunnel_obj.c:818,                         *)
(* sai_tunnel_term_obj.c:301, sai_tunnel_encap_nh.c:102).                  *)
TunnelOwned ==
  /\ \A x \in Term : terms[x] # NoTerm => IsTunnel(terms[x].tunnel)
  /\ \A h \in Hop : hops[h] # NoHop => IsTunnel(hops[h].owner)
  /\ \A t \in Tunnel : IsTunnel(t) => \A m \in MapsOf(t) \ racedMap : IsMap(m)
  /\ \A x \in TEntry : entries[x] # NoEntry =>
       entries[x].map \in racedMap \/ IsMap(entries[x].map)
  /\ undo # NoUndo /\ ~undo.live /\ undo.hop \notin unsure =>
       hops[undo.hop] # NoHop /\ (undo.tunnel # hops[undo.hop].owner \/ IsTunnel(undo.tunnel))
  /\ \A h \in strayHop : h.type = "ipinip"

(* A bridge that a tunnel is connected to stays reachable through it: no   *)
(* change of the maps takes the last decap entry to the bridge or its      *)
(* encap entry away (sai_tunnel_map_obj.c:499-567).                        *)
Reaches(t, b, k) == \E x \in TEntry : /\ entries[x] # NoEntry /\ entries[x].bridge = b
                                      /\ entries[x].map \in MapsOf(t)
                                      /\ maps[entries[x].map] = k
BridgeStaysMapped ==
  [][\A b \in TBridge, t \in Tunnel, k \in {"encap", "decap"} :
       /\ IsTunnel(t) /\ <<b, t>> \in tports
       /\ MapsOf(t) \intersect (racedMap \cup seenFree) = {}
       /\ Reaches(t, b, k)
       => ~IsTunnel(t)' \/ <<b, t>> \notin tports' \/ Reaches(t, b, k)']_tunVars
===========================================================================
