------------------------------ MODULE Services ------------------------------
(* The components that serve the others and share nothing but the order of *)
(* the locks: STP, tunnels, what their hops resolve to, mirror sessions,   *)
(* hash objects and user defined fields, L2 multicast, and the locks       *)
(* themselves.  Each behaviour stays with one of them, its focus, and the  *)
(* others keep their initial state.  Tunnels are split: their maps do not  *)
(* matter to termination entries and hops, nor these to what hops resolve  *)
(* to; and so is L2 multicast, whose entries know nothing of the LAG.      *)
EXTENDS Stp, Tunnel, Encap, Mirror, HashUdf, L2mc, LockOrder

VARIABLE focus

svcVars == <<focus, stpVars, tunVars, encVars, mirVars, huVars, mcVars, lockVars>>

Focus == {"stp", "tunnel maps", "tunnel hops", "encap", "mirror", "hash", "udf",
         "l2mc members", "l2mc entries", "locks"}

(* Only behaviours about maps, hops or hash objects start with some maps,  *)
(* or groups, created, or hops in a group.  Hash objects find all groups   *)
(* there and of their type: they could not list the others.                *)
ServicesInit ==
  /\ focus \in Focus
  /\ StpInit /\ TunInit /\ EncapInit /\ MirInit /\ HashUdfInit /\ McInit /\ LockInit
  /\ focus = "tunnel hops" =>
       maps = [m \in TMap |-> IF m = (CHOOSE n \in TMap : TRUE) THEN "encap" ELSE "decap"]
  /\ focus \notin {"tunnel maps", "tunnel hops"} => \A m \in TMap : maps[m] = "none"
  /\ focus # "encap" => \A g \in EGroup : groupNhs[g] = {}
  /\ \A g \in UGroup : groups[g] = IF focus = "hash" THEN "hash" ELSE NoGroup

ServicesNext ==
  /\ UNCHANGED focus
  /\ \/ /\ focus = "stp" /\ StpNext
        /\ UNCHANGED <<tunVars, encVars, mirVars, huVars, mcVars, lockVars>>
     \/ /\ focus = "tunnel maps" /\ (TunnelStep(MapTunnelInfo) \/ TunnelMapStep)
        /\ UNCHANGED <<stpVars, encVars, mirVars, huVars, mcVars, lockVars>>
     \/ /\ focus = "tunnel hops" /\ (TunnelStep(PlainTunnelInfo) \/ TunnelHopStep)
        /\ UNCHANGED <<stpVars, encVars, mirVars, huVars, mcVars, lockVars>>
     \/ /\ focus = "encap" /\ EncapNext
        /\ UNCHANGED <<stpVars, tunVars, mirVars, huVars, mcVars, lockVars>>
     \/ /\ focus = "mirror" /\ MirNext
        /\ UNCHANGED <<stpVars, tunVars, encVars, huVars, mcVars, lockVars>>
     \/ /\ focus = "hash" /\ HashStep
        /\ UNCHANGED <<stpVars, tunVars, encVars, mirVars, mcVars, lockVars>>
     \/ /\ focus = "udf" /\ UdfStep
        /\ UNCHANGED <<stpVars, tunVars, encVars, mirVars, mcVars, lockVars>>
     \/ /\ focus = "l2mc members" /\ (McGroupStep \/ McMemberStep \/ McLagStep)
        /\ UNCHANGED <<stpVars, tunVars, encVars, mirVars, huVars, lockVars>>
     \/ /\ focus = "l2mc entries" /\ (McGroupStep \/ McMemberStep \/ McEntryStep)
        /\ UNCHANGED <<stpVars, tunVars, encVars, mirVars, huVars, lockVars>>
     \/ /\ focus = "locks" /\ LockNext
        /\ UNCHANGED <<stpVars, tunVars, encVars, mirVars, huVars, mcVars>>

ServicesSpec == ServicesInit /\ [][ServicesNext]_svcVars

---------------------------------------------------------------------------
(* Types of all components; no count of a tunnel map, a bridge, a router   *)
(* interface, a next hop, a hash object or a group goes below 0.           *)
ServicesTypeOK ==
  /\ StpTypeOK /\ TunTypeOK /\ EncapTypeOK /\ MirTypeOK /\ HashUdfTypeOK
  /\ McTypeOK /\ LockTypeOK

(* Every count that decides whether an object can be removed is the number *)
(* of its users, except where a named race or refusal has put it out: the  *)
(* ports of an STP instance (sai_stp.c:759), the users of tunnel maps,     *)
(* bridges, router interfaces and hops (sai_tunnel_map_obj.c:481,          *)
(* sai_tunnel_encap_nh.c:67), of hash objects (sai_hash_obj.c:1064) and of *)
(* UDF groups (sai_udf.c:316).                                             *)
ServicesCounts == StpPortsCounted /\ TunnelCounts /\ HashUdfCounts

(* What one object says of another is true of it: an STP port's instance,  *)
(* a tunnel's maps, entries and hops exist (sai_stp.c:711,                 *)
(* sai_tunnel_obj.c:818); a hop follows the neighbour or route that it     *)
(* should and is listed by it, and an overlay route is written as its hop  *)
(* resolves or waits for the thread (sai_l3_encap_next_hop.c:358, 690); a  *)
(* port and a session agree on what is mirrored (sai_mirror_port.c:176);   *)
(* the NPU runs what a session, a hash object or a field stores            *)
(* (sai_hash_obj.c:537); and the groups, members, entries and map of L2    *)
(* multicast agree, and the NPU floods a member on a LAG to the ports the  *)
(* LAG has (sai_l2mc_group.c:94, 391), except where a named race or        *)
(* refusal has parted them.                                                *)
ServicesAgree ==
  /\ StrayPortOnlyByRace /\ TunnelOwned
  /\ EncapResolved /\ OverlayFollows
  /\ MirrorAgree /\ HashUdfRuns /\ McAgree
=============================================================================
