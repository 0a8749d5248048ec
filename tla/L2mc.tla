-------------------------------- MODULE L2mc --------------------------------
(* L2 multicast: groups, their members on bridge ports and the entries     *)
(* that name them, src/src/switching/sai_l2mc*.c.  A member on a LAG is    *)
(* programmed on the ports of the LAG, which is looked at under the LAG    *)
(* lock, and follows its changes: the thread that changed the LAG tells    *)
(* the bridge, which tells this module of each of its bridge ports.  Three *)
(* modules are told under three locks, and other calls come between.       *)
(*                                                                         *)
(* The node trees and the map are in a library: a member or an entry that  *)
(* is there twice is refused, and what was found can be taken out.  The    *)
(* NPU refuses an entry it has, and to remove a group that an entry names  *)
(* (the unit test expects so).  One LAG stands for all: bridge ports do    *)
(* not change from one to another but through their removal, and are of    *)
(* type PORT, the one this module subscribes to.  The list of the LAG      *)
(* handler, allocated for 0 members (line 69), is taken to hold the few    *)
(* members of an instance, as the smallest chunk of an allocator does.     *)
EXTENDS Naturals, FiniteSets

CONSTANTS McThread, McGroup, McMember, McBport, McPort, McKey,  \* ids
          McMaxLeft,  \* bound: what removals leave in the map at a time
          McNone   \* no member, no entry, no call

VARIABLES
  mcGroups,   \* the groups
  mcMembers,  \* each member: its group and its bridge port
  mcMap,      \* bridge port to l2mc member map, of LAG bridge ports
  mcEntries,  \* the group of each entry
  mcOnLag,    \* the bridge ports that are on the LAG
  mcLag,      \* the ports of the LAG
  mcHw,       \* the ports a member on the LAG is programmed on
  mcCall,     \* the call of each thread
  mcParted,   \* history: members and ports whose programming went astray
  mcLeft,     \* history: what a removal left in the map
  mcLoose     \* history: entries made after their group had gone

mcNodes == <<mcGroups, mcMembers, mcMap, mcEntries>>
mcHistory == <<mcParted, mcLeft, mcLoose>>
mcVars == <<mcNodes, mcOnLag, mcLag, mcHw, mcCall, mcHistory>>

McMemberOf == [grp : McGroup, bport : McBport]
McJob ==
  [op : {"member"}, of : McMemberOf, isLag : BOOLEAN]
    \cup [op : {"entry"}, key : McKey, grp : McGroup]
    \cup [op : {"changed"}, port : McPort, add : BOOLEAN]
    \cup [op : {"told"}, port : McPort, add : BOOLEAN, todo : SUBSET McBport]

ASSUME McAssumption == McNone \notin McMemberOf \cup McGroup \cup McJob

McIs(m) == mcMembers[m] # McNone
OnLag(b) == b \in mcOnLag
Doing(t, op) == mcCall[t] # McNone /\ mcCall[t].op = op
Begins(t, job) == mcCall[t] = McNone /\ mcCall' = [mcCall EXCEPT ![t] = job]
Ends(t) == mcCall' = [mcCall EXCEPT ![t] = McNone]

---------------------------------------------------------------------------
(* sai_l2mc_create_group; a failure leaves nothing behind                  *)
McCreateGroup(g) ==
  /\ g \notin mcGroups
  /\ mcGroups' = mcGroups \cup {g}
  /\ UNCHANGED <<mcMembers, mcMap, mcEntries, mcOnLag, mcLag, mcHw, mcCall, mcHistory>>

(* Mutant: the members are not looked for                                  *)
McUnusedByEntries(g) == \A k \in McKey : mcEntries[k] # g
(* port_count, then the NPU's own refusal *)
McUnused(g) ==
  /\ \A m \in McMember : McIs(m) => mcMembers[m].grp # g
  /\ \A k \in McKey : mcEntries[k] # g

McRemoveGroup(g) ==
  /\ g \in mcGroups /\ McUnused(g)
  /\ mcGroups' = mcGroups \ {g}
  /\ UNCHANGED <<mcMembers, mcMap, mcEntries, mcOnLag, mcLag, mcHw, mcCall, mcHistory>>

(* Whether the bridge port is on a LAG is looked up before the locks ...   *)
McJudge(t, info) ==
  /\ Begins(t, [op |-> "member", of |-> info, isLag |-> OnLag(info.bport)])
  /\ UNCHANGED <<mcNodes, mcOnLag, mcLag, mcHw, mcHistory>>

(* Mutant: a group may have a bridge port twice, and need not exist        *)
McAcceptsAll(info) == TRUE
McAccepts(info) ==
  info.grp \in mcGroups /\ \A m \in McMember : mcMembers[m] # info

(* ... and decides which locks are taken, and whether the member enters    *)
(* the map, where nobody looks at the result.                              *)
McCreateMember(t) ==
  LET info == mcCall[t].of IN
  /\ Doing(t, "member") /\ McAccepts(info)
  /\ \E m \in {x \in McMember : ~ McIs(x)} :
       /\ mcMembers' = [mcMembers EXCEPT ![m] = info]
       /\ mcHw' = [mcHw EXCEPT ![m] = IF OnLag(info.bport) THEN mcLag ELSE {}]
       /\ LET pair == <<info.bport, m>> IN
          \/ /\ mcCall[t].isLag
             /\ mcMap' = mcMap \cup {pair} /\ mcLeft' = mcLeft \ {pair}
             /\ mcParted' = {x \in mcParted : x[1] # m}
          \/ mcParted' = mcParted \cup {m} \X McPort /\ UNCHANGED <<mcMap, mcLeft>>
  /\ Ends(t)
  /\ UNCHANGED <<mcGroups, mcEntries, mcOnLag, mcLag, mcLoose>>

(* The group, the cache or the NPU refuses an entry or a member.           *)
McRefused(t) ==
  /\ Doing(t, "member") \/ Doing(t, "entry")
  /\ Ends(t)
  /\ UNCHANGED <<mcNodes, mcOnLag, mcLag, mcHw, mcHistory>>

(* Mutant: the map is left as it is                                        *)
McTakenOutNever(b, m) == {}
McTakenOut(b, m) == IF OnLag(b) THEN {<<b, m>>} ELSE {}

(* sai_l2mc_remove_group_member: the bridge port is looked at again.       *)
McRemoveMember(m) ==
  /\ McIs(m)
  /\ LET b == mcMembers[m].bport IN
       /\ mcMap' = mcMap \ McTakenOut(b, m)
       /\ mcLeft' = IF OnLag(b) THEN mcLeft \ {<<b, m>>} ELSE mcLeft \cup ({<<b, m>>} \cap mcMap)
       /\ Cardinality(mcLeft') <= McMaxLeft
  /\ mcMembers' = [mcMembers EXCEPT ![m] = McNone]
  /\ mcHw' = [mcHw EXCEPT ![m] = {}]
  /\ mcParted' = {x \in mcParted : x[1] # m}
  /\ UNCHANGED <<mcGroups, mcEntries, mcOnLag, mcLag, mcCall, mcLoose>>

---------------------------------------------------------------------------
(* Entries: the group is looked for before the locks are taken.            *)
McFindGroup(t, k, g) ==
  /\ g \in mcGroups
  /\ Begins(t, [op |-> "entry", key |-> k, grp |-> g])
  /\ UNCHANGED <<mcNodes, mcOnLag, mcLag, mcHw, mcHistory>>

McCreateEntry(t) ==
  LET k == mcCall[t].key
      g == mcCall[t].grp
  IN /\ Doing(t, "entry") /\ mcEntries[k] = McNone
     /\ mcEntries' = [mcEntries EXCEPT ![k] = g]
     /\ mcLoose' = IF g \in mcGroups THEN mcLoose \ {k} ELSE mcLoose \cup {k}
     /\ Ends(t)
     /\ UNCHANGED <<mcGroups, mcMembers, mcMap, mcOnLag, mcLag, mcHw, mcParted, mcLeft>>

McRemoveEntry(k) ==
  /\ mcEntries[k] # McNone
  /\ mcEntries' = [mcEntries EXCEPT ![k] = McNone]
  /\ UNCHANGED <<mcGroups, mcMembers, mcMap, mcOnLag, mcLag, mcHw, mcCall, mcHistory>>

---------------------------------------------------------------------------
(* The LAG and the bridge                                                  *)

(* A port joins or leaves the LAG; the thread goes on to the modules.      *)
McLagChange(t, p) ==
  /\ Begins(t, [op |-> "changed", port |-> p, add |-> p \notin mcLag])
  /\ mcLag' = IF p \in mcLag THEN mcLag \ {p} ELSE mcLag \cup {p}
  /\ UNCHANGED <<mcNodes, mcOnLag, mcHw, mcHistory>>

(* sai_bridge_lag_notification_handler.  A bridge port that the NPU        *)
(* refuses keeps the change from all of them.                              *)
McBridgeHears(t) ==
  LET job == mcCall[t]
      lost == {m \in McMember : McIs(m)} \X {job.port}
  IN /\ Doing(t, "changed")
     /\ \/ /\ mcOnLag = {} /\ Ends(t)
           /\ UNCHANGED mcParted
        \/ /\ mcOnLag # {}
           /\ mcCall' = [mcCall EXCEPT ![t] =
                [op |-> "told", port |-> job.port, add |-> job.add, todo |-> mcOnLag]]
           /\ UNCHANGED mcParted
        \/ /\ mcOnLag # {}
           /\ Ends(t) /\ mcParted' = mcParted \cup lost
     /\ UNCHANGED <<mcNodes, mcOnLag, mcLag, mcHw, mcLeft, mcLoose>>

(* Mutant: what joins the LAG is added, what leaves it stays               *)
McFollowedAddsOnly(hw, job) == hw \cup {job.port}
McFollowed(hw, job) == IF job.add THEN hw \cup {job.port} ELSE hw \ {job.port}

(* sai_l2mc_handle_lag_change_notification for one bridge port.  A member  *)
(* of the map that is gone, or one that the NPU refuses, ends the loop     *)
(* over the map, whose order is the library's; what a removal has left in  *)
(* the map may be the id of a member elsewhere now, which is told instead. *)
(* A change that another has overtaken parts the members from the LAG,     *)
(* until they are told again.                                              *)
McTold(t, b) ==
  LET job == mcCall[t]
      live == {m \in McMember : <<b, m>> \in mcMap /\ McIs(m)}
  IN /\ Doing(t, "told") /\ b \in job.todo
     /\ \E done \in SUBSET live :
          LET right == IF job.add # (job.port \in mcLag) THEN {}
                       ELSE {m \in done : mcMembers[m].bport = b} \X {job.port}
          IN /\ mcHw' = [m \in McMember |-> IF m \in done THEN McFollowed(mcHw[m], job) ELSE mcHw[m]]
             /\ mcParted' = (mcParted \ right) \cup ((live \X {job.port}) \ right)
     /\ IF job.todo = {b} THEN Ends(t) ELSE mcCall' = [mcCall EXCEPT ![t].todo = @ \ {b}]
     /\ UNCHANGED <<mcNodes, mcOnLag, mcLag, mcLeft, mcLoose>>

(* A bridge port comes and goes whatever members are on it: they do not    *)
(* count in its ref_count.  What the NPU makes of them is its own affair.  *)
McBportChange(b) ==
  LET on == {m \in McMember : McIs(m) /\ mcMembers[m].bport = b} IN
  /\ mcOnLag' = IF OnLag(b) THEN mcOnLag \ {b} ELSE mcOnLag \cup {b}
  /\ mcHw' = [m \in McMember |-> IF m \in on THEN {} ELSE mcHw[m]]
  /\ mcParted' = mcParted \cup on \X McPort
  /\ UNCHANGED <<mcNodes, mcLag, mcCall, mcLeft, mcLoose>>

---------------------------------------------------------------------------
(* sai_l2mc_init *)
McInit ==
  /\ mcGroups = {} /\ mcMembers = [m \in McMember |-> McNone] /\ mcMap = {}
  /\ mcEntries = [k \in McKey |-> McNone]
  /\ mcOnLag = {} /\ mcLag = {} /\ mcHw = [m \in McMember |-> {}]
  /\ mcCall = [t \in McThread |-> McNone]
  /\ mcParted = {} /\ mcLeft = {} /\ mcLoose = {}

(* Entries have nothing to do with the bridge and the LAG: the steps are   *)
(* taken apart for TLC.                                                    *)
McGroupStep == \E g \in McGroup : McCreateGroup(g) \/ McRemoveGroup(g)

McMemberStep ==
  \/ \E m \in McMember : McRemoveMember(m)
  \/ \E t \in McThread : \/ \E info \in McMemberOf : McJudge(t, info)
                        \/ McCreateMember(t) \/ McRefused(t)

McEntryStep ==
  \/ \E k \in McKey : McRemoveEntry(k)
  \/ \E t \in McThread : \/ \E k \in McKey, g \in McGroup : McFindGroup(t, k, g)
                        \/ McCreateEntry(t) \/ McRefused(t)

McLagStep ==
  \/ \E b \in McBport : McBportChange(b)
  \/ \E t \in McThread : \/ \E p \in McPort : McLagChange(t, p)
                        \/ McBridgeHears(t)
                        \/ \E b \in McBport : McTold(t, b)

McNext == McGroupStep \/ McMemberStep \/ McEntryStep \/ McLagStep

McSpec == McInit /\ [][McNext]_mcVars

---------------------------------------------------------------------------
McTypeOK ==
  /\ mcGroups \subseteq McGroup
  /\ mcMembers \in [McMember -> McMemberOf \cup {McNone}]
  /\ mcMap \subseteq McBport \X McMember
  /\ mcEntries \in [McKey -> McGroup \cup {McNone}]
  /\ mcOnLag \subseteq McBport
  /\ mcLag \subseteq McPort /\ mcHw \in [McMember -> SUBSET McPort]
  /\ mcCall \in [McThread -> McJob \cup {McNone}]
  /\ mcParted \subseteq McMember \X McPort
  /\ mcLeft \subseteq McBport \X McMember /\ mcLoose \subseteq McKey

(* The thread that changed the port has still to tell b of it.             *)
Untold(b, p) ==
  \E t \in McThread : \/ Doing(t, "changed") /\ mcCall[t].port = p
                      \/ Doing(t, "told") /\ mcCall[t].port = p /\ b \in mcCall[t].todo

(* A group that members or entries name exists, and has a bridge port once *)
(* (sai_l2mc_group.c:267, 371); what the map holds of a bridge port is a   *)
(* member on it (sai_l2mc_group.c:391, 484); and a member on a LAG is      *)
(* programmed on exactly the ports of the LAG, once everyone who changed   *)
(* it has told (sai_l2mc_group.c:94), except where a named race or refusal *)
(* has parted them.                                                        *)
McAgree ==
  /\ \A m \in McMember : McIs(m) =>
       /\ mcMembers[m].grp \in mcGroups
       /\ \A n \in McMember \ {m} : mcMembers[n] # mcMembers[m]
  /\ \A k \in McKey \ mcLoose : mcEntries[k] \in mcGroups \cup {McNone}
  /\ \A pair \in mcMap \ mcLeft : McIs(pair[2]) /\ mcMembers[pair[2]].bport = pair[1]
  /\ \A m \in McMember, p \in McPort :
       McIs(m) /\ OnLag(mcMembers[m].bport) /\ <<m, p>> \notin mcParted
         => Untold(mcMembers[m].bport, p) \/ (p \in mcHw[m] <=> p \in mcLag)
=============================================================================
