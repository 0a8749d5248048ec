--------------------------- MODULE ServicesProofs ---------------------------
(* What the serving components keep of each other, for any number of       *)
(* objects and threads: every count is the number of users it stands for,  *)
(* and what one object says of another is true of it (Services.tla).  Each *)
(* component has an invariant of its own that each of its steps keeps; a   *)
(* step of Services is a step of one component, and leaves the variables   *)
(* of all the others alone.                                                *)
EXTENDS Services, VlanStpProofs, WellFoundedInduction, TLAPS

---------------------------------------------------------------------------
(* Mirror sessions and ports                                             *)

(* The session whose node is about to be freed is still named by the port, *)
(* no longer wanted, and does not list the port.                           *)
GoneUnlisted ==
  setCall # MirNoCall /\ setCall.gone # NoSess =>
    /\ setCall.phase = "drop" /\ setCall.gone \notin setCall.want
    /\ <<setCall.gone, setCall.dir>> \in named[setCall.port]
    /\ <<setCall.port, setCall.dir>> \notin sources[setCall.gone]

Freeing(p, d, s) ==
  setCall # MirNoCall /\ p = setCall.port /\ d = setCall.dir /\ s = setCall.gone
Listed(p, d, s) == s \in sessions /\ <<p, d>> \in sources[s]
Names(p, d, s) == <<s, d>> \in named[p]

ParamsRun == \A s \in sessions : params[s].val = npuParams[s]
BothWays ==
  \A p \in MPortM, d \in Dir, s \in Session :
    /\ Names(p, d, s) /\ ~Freeing(p, d, s) => Listed(p, d, s)
    /\ Listed(p, d, s) => Names(p, d, s) \/ <<s, p, d>> \in orphans

MirInv == MirTypeOK /\ ParamsRun /\ BothWays /\ GoneUnlisted

LEMMA MirInvMeans == MirInv => MirrorAgree
BY DEF MirInv, ParamsRun, BothWays, MirrorAgree, Freeing, Listed, Names

LEMMA MirInvInit == MirInit => MirInv
<1> SUFFICES ASSUME MirInit  PROVE MirInv
  OBVIOUS
<1>1. (CHOOSE v \in MVal : TRUE) \in MVal
  BY MirrorAssumption
<1>2. MirTypeOK
  BY <1>1 DEF MirInit, MirTypeOK
<1> QED BY <1>2 DEF MirInit, MirInv, ParamsRun, BothWays, GoneUnlisted, Names, Listed

(* Steps of the API that touch no list of sources or sessions              *)
LEMMA MirSessionInv ==
  ASSUME MirInv, NEW s \in Session, CreateSession(s) \/ RemoveSession(s) \/ SetSession(s)
  PROVE  MirInv'
<1> USE DEF MirInv
<1>1. CASE CreateSession(s)
  <2>1. PICK v \in MVal : /\ params' = [params EXCEPT ![s] = [valid |-> TRUE, val |-> v]]
                          /\ npuParams' = [npuParams EXCEPT ![s] = v]
    BY <1>1 DEF CreateSession
  <2>2. MirTypeOK'
    BY <1>1, <2>1 DEF CreateSession, MirTypeOK
  <2>3. ParamsRun'
    BY <1>1, <2>1 DEF CreateSession, MirTypeOK, ParamsRun
  <2>4. GoneUnlisted'
    BY <1>1, MirrorAssumption DEF CreateSession, MirTypeOK, GoneUnlisted, SetCall
  <2>5. ASSUME NEW p \in MPortM, NEW d \in Dir, NEW r \in Session
        PROVE  /\ Names(p, d, r)' /\ ~Freeing(p, d, r)' => Listed(p, d, r)'
               /\ Listed(p, d, r)' => Names(p, d, r)' \/ <<r, p, d>> \in orphans'
    BY <1>1 DEF CreateSession, MirTypeOK, BothWays, Names, Freeing, Listed
  <2> QED BY <2>2, <2>3, <2>4, <2>5 DEF BothWays
<1>2. CASE RemoveSession(s)
  <2>1. MirTypeOK' /\ ParamsRun' /\ GoneUnlisted'
    BY <1>2 DEF RemoveSession, MirTypeOK, ParamsRun, GoneUnlisted
  <2>2. BothWays'
    BY <1>2 DEF RemoveSession, MirTypeOK, BothWays, Names, Freeing, Listed, Unused
  <2> QED BY <2>1, <2>2
<1>3. CASE SetSession(s)
  <2>1. params' \in [Session -> [valid : BOOLEAN, val : MVal]] /\ npuParams' \in [Session -> MVal]
        /\ params'[s].val = npuParams'[s]
        /\ \A r \in Session \ {s} : params'[r] = params[r] /\ npuParams'[r] = npuParams[r]
    <3>1. params[s] \in [valid : BOOLEAN, val : MVal] /\ params[s].val = npuParams[s]
      BY <1>3 DEF SetSession, MirTypeOK, ParamsRun
    <3>2. ASSUME NEW v \in MVal, params' = [params EXCEPT ![s] = [params[s] EXCEPT !.val = v]],
                 npuParams' = [npuParams EXCEPT ![s] = v]
          PROVE  <2>1!1
      BY <3>1, <3>2 DEF MirTypeOK
    <3>3. ASSUME NEW v \in MVal, params' = [params EXCEPT ![s] = params[s]], npuParams' = npuParams
          PROVE  <2>1!1
      BY <3>1, <3>3 DEF MirTypeOK
    <3>4. ASSUME NEW w \in BOOLEAN, params' = [params EXCEPT ![s].valid = w], npuParams' = npuParams
          PROVE  <2>1!1
      BY <3>1, <3>4 DEF MirTypeOK
    <3> QED BY <1>3, <3>2, <3>3, <3>4 DEF SetSession, Restored
  <2>2. sessions' = sessions /\ UNCHANGED <<sources, named, portValid, setCall, orphans>>
    BY <1>3 DEF SetSession
  <2>3. MirTypeOK' /\ ParamsRun' /\ GoneUnlisted'
    BY <2>1, <2>2 DEF MirTypeOK, ParamsRun, GoneUnlisted
  <2>4. BothWays'
    BY <2>2 DEF BothWays, Names, Freeing, Listed
  <2> QED BY <2>3, <2>4
<1> QED BY <1>1, <1>2, <1>3

LEMMA MirToggleInv ==
  ASSUME MirInv, NEW p \in MPortM, TogglePort(p)
  PROVE  MirInv'
BY DEF MirInv, TogglePort, sessVars, MirTypeOK, ParamsRun, GoneUnlisted, BothWays, Names, Freeing, Listed

LEMMA MirCallInv ==
  ASSUME MirInv, NEW p \in MPortM, NEW d \in Dir, NEW want \in SUBSET Session,
         SetPortSessions(p, d, want)
  PROVE  MirInv'
<1> USE DEF MirInv, SetPortSessions, sessVars
<1>1. MirTypeOK'
  BY DEF MirTypeOK, SetCall
<1>2. ParamsRun' /\ GoneUnlisted'
  BY DEF ParamsRun, GoneUnlisted
<1>3. BothWays'
  BY MirrorAssumption DEF BothWays, Names, Freeing, Listed
<1> QED BY <1>1, <1>2, <1>3

(* A call that ends while it frees nothing leaves all lists as they are.   *)
LEMMA MirEndInv ==
  ASSUME MirInv, setCall # MirNoCall => setCall.gone = NoSess, setCall' = MirNoCall,
         UNCHANGED <<sessVars, sources, named, portValid, orphans>>
  PROVE  MirInv'
BY MirrorAssumption DEF MirInv, sessVars, MirTypeOK, ParamsRun, GoneUnlisted, BothWays, Names, Freeing, Listed

LEMMA MirAddInv ==
  ASSUME MirInv, AddRefused \/ AddDone \/ \E s \in Session : AddOne(s)
  PROVE  MirInv'
<1> USE DEF MirInv
<1>1. setCall \in SetCall /\ setCall.phase = "add" /\ setCall.gone = NoSess
  BY DEF AddRefused, AddDone, AddOne, MirTypeOK, GoneUnlisted
<1>2. CASE AddRefused
  BY <1>1, <1>2, MirEndInv DEF AddRefused, EndCall
<1>3. CASE AddDone
  <2>1. MirTypeOK'
    BY <1>1, <1>3 DEF AddDone, sessVars, MirTypeOK, SetCall
  <2>2. ParamsRun' /\ GoneUnlisted'
    BY <1>1, <1>3 DEF AddDone, sessVars, ParamsRun, GoneUnlisted, SetCall
  <2>3. BothWays'
    BY <1>1, <1>3, MirrorAssumption DEF AddDone, sessVars, BothWays, Names, Freeing, Listed, SetCall
  <2> QED BY <2>1, <2>2, <2>3
<1>4. ASSUME NEW s \in Session, AddOne(s)  PROVE MirInv'
  <2>1. PICK q \in MPortM, d \in Dir : q = setCall.port /\ d = setCall.dir
    BY <1>1 DEF SetCall
  <2>2. /\ s \in sessions /\ sources' = [sources EXCEPT ![s] = @ \cup {<<q, d>>}]
        /\ UNCHANGED <<sessVars, portValid>>
    BY <1>4, <2>1 DEF AddOne, Src
  <2>3. CASE named' = [named EXCEPT ![q] = @ \cup {<<s, d>>}] /\ UNCHANGED <<setCall, orphans>>
    <3>1. MirTypeOK'
      BY <2>2, <2>3 DEF sessVars, MirTypeOK
    <3>2. ParamsRun' /\ GoneUnlisted'
      BY <1>1, <2>2, <2>3 DEF sessVars, ParamsRun, GoneUnlisted
    <3>3. BothWays'
      BY <1>1, <2>2, <2>3, MirrorAssumption DEF sessVars, MirTypeOK, BothWays, Names, Freeing, Listed
    <3> QED BY <3>1, <3>2, <3>3
  <2>4. CASE orphans' = orphans \cup {<<s, q, d>>} /\ setCall' = MirNoCall /\ UNCHANGED named
    <3>1. MirTypeOK'
      BY <2>2, <2>4 DEF sessVars, MirTypeOK
    <3>2. ParamsRun' /\ GoneUnlisted'
      BY <2>2, <2>4 DEF sessVars, ParamsRun, GoneUnlisted
    <3>3. BothWays'
      BY <1>1, <2>2, <2>4, MirrorAssumption DEF sessVars, MirTypeOK, BothWays, Names, Freeing, Listed
    <3> QED BY <3>1, <3>2, <3>3
  <2> QED BY <1>4, <2>1, <2>3, <2>4 DEF AddOne, EndCall
<1> QED BY <1>2, <1>3, <1>4

LEMMA MirDropInv ==
  ASSUME MirInv, DropRefused \/ DropNode \/ DropDone \/ \E s \in Session : DropOne(s)
  PROVE  MirInv'
<1> USE DEF MirInv
<1>1. setCall \in SetCall /\ setCall # MirNoCall
  BY DEF DropRefused, DropNode, DropDone, DropOne, MirTypeOK
<1>2. PICK q \in MPortM, d \in Dir, g \in Session \cup {NoSess} :
         q = setCall.port /\ d = setCall.dir /\ g = setCall.gone
  BY <1>1 DEF SetCall
<1>3. CASE DropRefused
  BY <1>1, <1>3, MirEndInv DEF DropRefused, EndCall
<1>4. CASE DropDone
  <2>1. setCall.gone = NoSess
    BY <1>1, <1>2, <1>4 DEF DropDone, Surplus, Has, GoneUnlisted
  <2> QED BY <1>4, <2>1, MirEndInv DEF DropDone, EndCall
<1>5. CASE DropNode
  <2>1. /\ g \in Session /\ named' = [named EXCEPT ![q] = @ \ {<<g, d>>}]
        /\ setCall' = [setCall EXCEPT !.gone = NoSess]
        /\ UNCHANGED <<sessVars, sources, portValid, orphans>>
    BY <1>2, <1>5 DEF DropNode
  <2>2. setCall' \in SetCall /\ setCall' # MirNoCall /\ setCall'.gone = NoSess
    BY <1>1, <2>1, MirrorAssumption DEF SetCall
  <2>3. MirTypeOK'
    BY <2>1, <2>2 DEF sessVars, MirTypeOK
  <2>4. ParamsRun' /\ GoneUnlisted'
    BY <2>1, <2>2 DEF sessVars, ParamsRun, GoneUnlisted
  <2>5. g # NoSess /\ <<q, d>> \notin sources[g]
    BY <1>1, <1>2, <2>1, MirrorAssumption DEF GoneUnlisted
  <2>6. BothWays'
    BY <1>1, <1>2, <2>1, <2>2, <2>5, MirrorAssumption DEF sessVars, MirTypeOK, BothWays, Names, Freeing, Listed
  <2> QED BY <2>3, <2>4, <2>6
<1>6. ASSUME NEW s \in Session, DropOne(s)  PROVE MirInv'
  <2>1. /\ g = NoSess /\ setCall.phase = "drop" /\ sources' = [sources EXCEPT ![s] = @ \ {<<q, d>>}]
        /\ setCall' = [setCall EXCEPT !.gone = s]
        /\ UNCHANGED <<sessVars, named, portValid, orphans>>
        /\ <<s, d>> \in named[q] /\ s \notin setCall.want
    BY <1>2, <1>6 DEF DropOne, Src, Surplus, Has
  <2>2. /\ setCall' \in SetCall /\ setCall' # MirNoCall /\ setCall'.gone = s
        /\ setCall'.port = q /\ setCall'.dir = d /\ setCall'.phase = "drop"
        /\ setCall'.want = setCall.want
    BY <1>1, <1>2, <2>1, MirrorAssumption DEF SetCall
  <2>3. MirTypeOK'
    BY <2>1, <2>2 DEF sessVars, MirTypeOK
  <2>4. ParamsRun' /\ GoneUnlisted'
    BY <2>1, <2>2 DEF sessVars, MirTypeOK, ParamsRun, GoneUnlisted
  <2>5. ASSUME NEW p \in MPortM, NEW e \in Dir, NEW r \in Session
        PROVE  /\ Names(p, e, r)' /\ ~Freeing(p, e, r)' => Listed(p, e, r)'
               /\ Listed(p, e, r)' => Names(p, e, r)' \/ <<r, p, e>> \in orphans'
    <3>1. /\ Names(p, e, r) => Freeing(p, e, r) \/ Listed(p, e, r)
          /\ Listed(p, e, r) => Names(p, e, r) \/ <<r, p, e>> \in orphans
      BY DEF BothWays
    <3>2. ~ Freeing(p, e, r) /\ (Names(p, e, r)' <=> Names(p, e, r))
      BY <1>2, <2>1, MirrorAssumption DEF Freeing, Names
    <3>3. Freeing(p, e, r)' <=> <<p, e, r>> = <<q, d, s>>
      BY <2>2 DEF Freeing
    <3>4. Listed(p, e, r)' <=> Listed(p, e, r) /\ <<p, e, r>> # <<q, d, s>>
      BY <2>1 DEF Listed, sessVars, MirTypeOK
    <3>5. orphans' = orphans
      BY <2>1
    <3> QED BY <3>1, <3>2, <3>3, <3>4, <3>5
  <2>6. BothWays'
    BY <2>5 DEF BothWays
  <2> QED BY <2>3, <2>4, <2>6
<1> QED BY <1>3, <1>4, <1>5, <1>6

LEMMA MirInvNext == MirInv /\ [MirNext]_mirVars => MirInv'
<1> SUFFICES ASSUME MirInv, [MirNext]_mirVars  PROVE MirInv'
  OBVIOUS
<1>1. CASE UNCHANGED mirVars
  BY <1>1 DEF mirVars, MirInv, MirTypeOK, ParamsRun, GoneUnlisted, BothWays, Names, Freeing, Listed
<1>2. CASE MirNext
  BY <1>2, MirSessionInv, MirToggleInv, MirCallInv, MirAddInv, MirDropInv, Zenon DEF MirNext
<1> QED BY <1>1, <1>2
---------------------------------------------------------------------------
(* L2 multicast                                                          *)

(* Two members are not on one bridge port of a group, and their group      *)
(* exists; and so does the group of an entry.                              *)
GroupsKept ==
  /\ \A m \in McMember : McIs(m) =>
       /\ mcMembers[m].grp \in mcGroups
       /\ \A n \in McMember \ {m} : mcMembers[n] # mcMembers[m]
  /\ \A k \in McKey \ mcLoose : mcEntries[k] \in mcGroups \cup {McNone}

MapHolds ==
  \A pair \in mcMap \ mcLeft : McIs(pair[2]) /\ mcMembers[pair[2]].bport = pair[1]

(* A member that is not given up for a port can be told of it.             *)
Mapped ==
  \A m \in McMember, p \in McPort :
    McIs(m) /\ <<m, p>> \notin mcParted => <<mcMembers[m].bport, m>> \in mcMap

Agrees(m, p) ==
  McIs(m) /\ OnLag(mcMembers[m].bport) /\ <<m, p>> \notin mcParted
    => Untold(mcMembers[m].bport, p) \/ (p \in mcHw[m] <=> p \in mcLag)
Flooded == \A m \in McMember, p \in McPort : Agrees(m, p)

McInv == McTypeOK /\ GroupsKept /\ MapHolds /\ Mapped /\ Flooded

LEMMA McInvMeans == McInv => McAgree
BY DEF McInv, GroupsKept, MapHolds, Flooded, Agrees, McAgree

LEMMA McInvInit == McInit => McInv
BY DEF McInit, McInv, McTypeOK, GroupsKept, MapHolds, Mapped, Flooded, Agrees, McIs

(* What a call is, by its operation                                        *)
LEMMA McJobs ==
  ASSUME McTypeOK, NEW t \in McThread
  PROVE  /\ Doing(t, "member") => mcCall[t].of \in McMemberOf /\ mcCall[t].isLag \in BOOLEAN
         /\ Doing(t, "entry") => mcCall[t].key \in McKey /\ mcCall[t].grp \in McGroup
         /\ Doing(t, "changed") => mcCall[t].port \in McPort /\ mcCall[t].add \in BOOLEAN
         /\ Doing(t, "told") => /\ mcCall[t] \in McJob /\ mcCall[t].port \in McPort
                                /\ mcCall[t].add \in BOOLEAN /\ mcCall[t].todo \in SUBSET McBport
<1>1. mcCall[t] \in McJob \cup {McNone}
  BY DEF McTypeOK
<1> QED BY <1>1 DEF McJob, Doing

(* A call that has nothing to tell may begin or end.                       *)
LEMMA UntoldKept ==
  ASSUME NEW t \in McThread, NEW j, mcCall' = [mcCall EXCEPT ![t] = j], McTypeOK,
         ~ Doing(t, "changed"), ~ Doing(t, "told"),
         NEW b, NEW p, Untold(b, p)
  PROVE  Untold(b, p)'
BY DEF Untold, Doing, McTypeOK

(* Steps that leave members, map, LAG and programming alone                *)
LEMMA McSameInv ==
  ASSUME McInv, UNCHANGED <<mcMembers, mcMap, mcOnLag, mcLag, mcHw, mcParted, mcLeft>>,
         McTypeOK', GroupsKept',
         \A b \in McBport, p \in McPort : Untold(b, p) => Untold(b, p)'
  PROVE  McInv'
<1>1. MapHolds' /\ Mapped'
  BY DEF McInv, MapHolds, Mapped, McIs
<1>2. ASSUME NEW m \in McMember, NEW p \in McPort  PROVE Agrees(m, p)'
  <2>1. McIs(m) => mcMembers[m].bport \in McBport
    BY DEF McInv, McTypeOK, McIs, McMemberOf
  <2>2. Agrees(m, p)
    BY DEF McInv, Flooded
  <2> QED BY <2>1, <2>2 DEF Agrees, McIs, OnLag
<1> QED BY <1>1, <1>2 DEF McInv, Flooded

LEMMA McGroupInv ==
  ASSUME McInv, McGroupStep
  PROVE  McInv'
<1>1. PICK g \in McGroup : McCreateGroup(g) \/ McRemoveGroup(g)
  BY DEF McGroupStep
<1>2. /\ UNCHANGED <<mcMembers, mcMap, mcEntries, mcOnLag, mcLag, mcHw, mcCall, mcHistory>>
      /\ mcGroups' \subseteq McGroup
  BY <1>1 DEF McCreateGroup, McRemoveGroup, McInv, McTypeOK
<1>3. McTypeOK'
  BY <1>2 DEF McInv, McTypeOK, mcHistory
<1>4. GroupsKept'
  BY <1>1, <1>2, McAssumption DEF McInv, McTypeOK, GroupsKept, mcHistory, McCreateGroup, McRemoveGroup, McUnused, McIs
<1>5. \A b \in McBport, p \in McPort : Untold(b, p) => Untold(b, p)'
  BY <1>2 DEF Untold, Doing
<1> QED BY <1>2, <1>3, <1>4, <1>5, McSameInv DEF mcHistory

(* A call begins, or is refused.                                           *)
LEMMA McCallInv ==
  ASSUME McInv, NEW t \in McThread,
         \/ \E info \in McMemberOf : McJudge(t, info)
         \/ \E k \in McKey, g \in McGroup : McFindGroup(t, k, g)
         \/ McRefused(t)
  PROVE  McInv'
<1>1. UNCHANGED <<mcNodes, mcOnLag, mcLag, mcHw, mcHistory>>
  BY DEF McJudge, McFindGroup, McRefused
<1>2. ~ Doing(t, "changed") /\ ~ Doing(t, "told")
  BY DEF McJudge, McFindGroup, McRefused, Begins, Doing
<1>3. PICK j \in McJob \cup {McNone} : mcCall' = [mcCall EXCEPT ![t] = j]
  <2>1. ASSUME NEW info \in McMemberOf, McJudge(t, info)  PROVE \E j \in McJob \cup {McNone} : mcCall' = [mcCall EXCEPT ![t] = j]
    <3>1. [op |-> "member", of |-> info, isLag |-> OnLag(info.bport)] \in McJob
      BY DEF McJob, OnLag
    <3> QED BY <2>1, <3>1 DEF McJudge, Begins
  <2>2. ASSUME NEW k \in McKey, NEW g \in McGroup, McFindGroup(t, k, g)  PROVE \E j \in McJob \cup {McNone} : mcCall' = [mcCall EXCEPT ![t] = j]
    <3>1. [op |-> "entry", key |-> k, grp |-> g] \in McJob
      BY DEF McJob
    <3> QED BY <2>2, <3>1 DEF McFindGroup, Begins
  <2>3. CASE McRefused(t)
    BY <2>3 DEF McRefused, Ends
  <2> QED BY <2>1, <2>2, <2>3
<1>4. McTypeOK'
  BY <1>1, <1>3 DEF McInv, McTypeOK, mcNodes, mcHistory
<1>5. GroupsKept'
  BY <1>1 DEF McInv, GroupsKept, mcNodes, mcHistory, McIs
<1>6. \A b \in McBport, p \in McPort : Untold(b, p) => Untold(b, p)'
  BY <1>2, <1>3, UntoldKept DEF McInv
<1> QED BY <1>1, <1>4, <1>5, <1>6, McSameInv DEF mcNodes, mcHistory
LEMMA McCreateMemberInv ==
  ASSUME McInv, NEW t \in McThread, McCreateMember(t)
  PROVE  McInv'
<1> USE DEF McInv
<1>1. PICK info \in McMemberOf : info = mcCall[t].of
  BY McJobs DEF McCreateMember
<1>2. PICK m \in McMember :
        /\ ~ McIs(m) /\ mcMembers' = [mcMembers EXCEPT ![m] = info]
        /\ mcHw' = [mcHw EXCEPT ![m] = IF OnLag(info.bport) THEN mcLag ELSE {}]
        /\ \/ /\ mcMap' = mcMap \cup {<<info.bport, m>>}
              /\ mcLeft' = mcLeft \ {<<info.bport, m>>}
              /\ mcParted' = {x \in mcParted : x[1] # m}
           \/ mcParted' = mcParted \cup {m} \X McPort /\ UNCHANGED <<mcMap, mcLeft>>
  BY <1>1 DEF McCreateMember
<1>3. /\ UNCHANGED <<mcGroups, mcEntries, mcOnLag, mcLag, mcLoose>> /\ McAccepts(info)
      /\ mcCall' = [mcCall EXCEPT ![t] = McNone] /\ ~ Doing(t, "changed") /\ ~ Doing(t, "told")
  BY <1>1 DEF McCreateMember, Ends, Doing
<1>4. \A b, p : Untold(b, p) => Untold(b, p)'
  BY <1>3, UntoldKept
<1>5. /\ mcMembers'[m] = info /\ McIs(m)' /\ info.bport \in McBport /\ info.grp \in mcGroups
      /\ \A n \in McMember \ {m} : /\ mcMembers'[n] = mcMembers[n] /\ mcHw'[n] = mcHw[n]
                                  /\ McIs(n)' = McIs(n) /\ mcMembers[n] # info
      /\ mcHw'[m] = IF OnLag(info.bport) THEN mcLag ELSE {}
  BY <1>2, <1>3, McAssumption DEF McTypeOK, McIs, McMemberOf, McAccepts
<1>6. McTypeOK'
  BY <1>2, <1>3, <1>5 DEF McTypeOK
<1>7. GroupsKept'
  BY <1>3, <1>5 DEF GroupsKept
<1>8. MapHolds'
  <2> SUFFICES ASSUME NEW pair \in mcMap' \ mcLeft'
               PROVE  McIs(pair[2])' /\ mcMembers'[pair[2]].bport = pair[1]
    BY DEF MapHolds
  <2>1. CASE pair = <<info.bport, m>>
    BY <1>5, <2>1
  <2>2. CASE pair # <<info.bport, m>>
    <3>1. pair \in mcMap \ mcLeft
      BY <1>2, <2>2
    <3>2. McIs(pair[2]) /\ mcMembers[pair[2]].bport = pair[1] /\ pair[2] \in McMember
      BY <3>1 DEF MapHolds, McTypeOK
    <3> QED BY <1>2, <1>5, <3>2
  <2> QED BY <2>1, <2>2
<1>9. ASSUME NEW n \in McMember \ {m}, NEW p \in McPort
      PROVE  /\ (<<n, p>> \in mcParted' <=> <<n, p>> \in mcParted)
             /\ \A b : <<b, n>> \in mcMap => <<b, n>> \in mcMap'
  BY <1>2 DEF McTypeOK
<1>10. Mapped'
  <2> SUFFICES ASSUME NEW n \in McMember, NEW p \in McPort, McIs(n)', <<n, p>> \notin mcParted'
               PROVE  <<mcMembers'[n].bport, n>> \in mcMap'
    BY DEF Mapped
  <2>1. CASE n = m
    BY <1>2, <1>5, <2>1
  <2>2. CASE n # m
    BY <1>5, <1>9, <2>2 DEF Mapped
  <2> QED BY <2>1, <2>2
<1>11. ASSUME NEW n \in McMember, NEW p \in McPort  PROVE Agrees(n, p)'
  <2>1. CASE n = m
    BY <1>3, <1>5, <2>1 DEF Agrees, OnLag
  <2>2. CASE n # m
    BY <1>3, <1>4, <1>5, <1>9, <2>2 DEF Flooded, Agrees, OnLag
  <2> QED BY <2>1, <2>2
<1> QED BY <1>6, <1>7, <1>8, <1>10, <1>11 DEF Flooded

LEMMA McRemoveMemberInv ==
  ASSUME McInv, NEW m \in McMember, McRemoveMember(m)
  PROVE  McInv'
<1> USE DEF McInv
<1>1. PICK b \in McBport : b = mcMembers[m].bport
  BY DEF McRemoveMember, McTypeOK, McIs, McMemberOf
<1>2. /\ McIs(m) /\ mcMembers' = [mcMembers EXCEPT ![m] = McNone]
      /\ mcHw' = [mcHw EXCEPT ![m] = {}] /\ mcParted' = {x \in mcParted : x[1] # m}
      /\ UNCHANGED <<mcGroups, mcEntries, mcOnLag, mcLag, mcCall, mcLoose>>
      /\ \/ mcMap' = mcMap \ {<<b, m>>} /\ mcLeft' = mcLeft \ {<<b, m>>}
         \/ mcMap' = mcMap /\ mcLeft' = mcLeft \cup ({<<b, m>>} \cap mcMap)
  BY <1>1 DEF McRemoveMember, McTakenOut
<1>3. /\ ~ McIs(m)' /\ mcMembers'[m] = McNone
      /\ \A n \in McMember \ {m} : /\ mcMembers'[n] = mcMembers[n] /\ mcHw'[n] = mcHw[n]
                                  /\ McIs(n)' = McIs(n)
  BY <1>2 DEF McTypeOK, McIs
<1>4. McTypeOK'
  BY <1>2 DEF McTypeOK
<1>5. GroupsKept'
  <2>1. ASSUME NEW n \in McMember, McIs(n)'
        PROVE  mcMembers'[n].grp \in mcGroups' /\ \A o \in McMember \ {n} : mcMembers'[o] # mcMembers'[n]
    <3>1. n # m /\ McIs(n) /\ mcMembers'[n] = mcMembers[n] /\ mcMembers[n] # McNone
      BY <1>3, <2>1 DEF McIs
    <3> QED BY <1>2, <1>3, <3>1 DEF GroupsKept
  <2> QED BY <1>2, <2>1 DEF GroupsKept
<1>6. MapHolds'
  <2> SUFFICES ASSUME NEW pair \in mcMap' \ mcLeft'
               PROVE  McIs(pair[2])' /\ mcMembers'[pair[2]].bport = pair[1]
    BY DEF MapHolds
  <2>1. pair \in mcMap \ mcLeft /\ pair # <<b, m>>
    BY <1>2
  <2>2. McIs(pair[2]) /\ mcMembers[pair[2]].bport = pair[1] /\ pair = <<pair[1], pair[2]>> /\ pair[2] \in McMember
    BY <2>1 DEF MapHolds, McTypeOK
  <2>3. pair[2] # m
    BY <1>1, <2>1, <2>2
  <2> QED BY <1>3, <2>2, <2>3
<1>7. ASSUME NEW n \in McMember \ {m}, NEW p \in McPort
      PROVE  /\ (<<n, p>> \in mcParted' <=> <<n, p>> \in mcParted)
             /\ \A c : <<c, n>> \in mcMap => <<c, n>> \in mcMap'
  BY <1>2 DEF McTypeOK
<1>8. Mapped'
  BY <1>3, <1>7 DEF Mapped
<1>9. \A c, p : Untold(c, p)' <=> Untold(c, p)
  BY <1>2 DEF Untold, Doing
<1>10. ASSUME NEW n \in McMember, NEW p \in McPort  PROVE Agrees(n, p)'
  <2>1. CASE n = m
    BY <1>3, <2>1 DEF Agrees
  <2>2. CASE n # m
    BY <1>2, <1>3, <1>7, <1>9, <2>2 DEF Flooded, Agrees, OnLag
  <2> QED BY <2>1, <2>2
<1> QED BY <1>4, <1>5, <1>6, <1>8, <1>10 DEF Flooded

LEMMA McEntryInv ==
  ASSUME McInv, NEW t \in McThread, McCreateEntry(t)
  PROVE  McInv'
<1>1. PICK k \in McKey, g \in McGroup : k = mcCall[t].key /\ g = mcCall[t].grp
  BY McJobs DEF McInv, McCreateEntry
<1>2. /\ mcEntries' = [mcEntries EXCEPT ![k] = g]
      /\ mcLoose' = IF g \in mcGroups THEN mcLoose \ {k} ELSE mcLoose \cup {k}
      /\ mcCall' = [mcCall EXCEPT ![t] = McNone] /\ ~ Doing(t, "changed") /\ ~ Doing(t, "told")
      /\ UNCHANGED <<mcGroups, mcMembers, mcMap, mcOnLag, mcLag, mcHw, mcParted, mcLeft>>
  BY <1>1 DEF McCreateEntry, Ends, Doing
<1>3. McTypeOK'
  BY <1>2 DEF McInv, McTypeOK
<1>4. GroupsKept'
  BY <1>2 DEF McInv, McTypeOK, GroupsKept, McIs
<1>5. \A b \in McBport, p \in McPort : Untold(b, p) => Untold(b, p)'
  BY <1>2, UntoldKept DEF McInv
<1> QED BY <1>2, <1>3, <1>4, <1>5, McSameInv

LEMMA McRemoveEntryInv ==
  ASSUME McInv, NEW k \in McKey, McRemoveEntry(k)
  PROVE  McInv'
<1>1. McTypeOK' /\ GroupsKept'
  BY DEF McRemoveEntry, mcHistory, McInv, McTypeOK, GroupsKept, McIs
<1>2. \A b \in McBport, p \in McPort : Untold(b, p) => Untold(b, p)'
  BY DEF McRemoveEntry, Untold, Doing
<1> QED BY <1>1, <1>2, McSameInv DEF McRemoveEntry, mcHistory
LEMMA McLagChangeInv ==
  ASSUME McInv, NEW t \in McThread, NEW p \in McPort, McLagChange(t, p)
  PROVE  McInv'
<1> USE DEF McInv
<1>1. PICK job \in McJob : job = [op |-> "changed", port |-> p, add |-> p \notin mcLag]
  <2>1. PICK add \in BOOLEAN : add = (p \notin mcLag)
    OBVIOUS
  <2>2. [op |-> "changed", port |-> p, add |-> add] \in McJob
    BY DEF McJob
  <2> QED BY <2>1, <2>2
<1>2. /\ mcCall[t] = McNone /\ mcCall' = [mcCall EXCEPT ![t] = job]
      /\ mcLag' = IF p \in mcLag THEN mcLag \ {p} ELSE mcLag \cup {p}
      /\ UNCHANGED <<mcGroups, mcMembers, mcMap, mcEntries, mcOnLag, mcHw, mcParted, mcLeft, mcLoose>>
  BY <1>1 DEF McLagChange, Begins, mcNodes, mcHistory
<1>3. McTypeOK'
  BY <1>2 DEF McTypeOK
<1>4. GroupsKept' /\ MapHolds' /\ Mapped'
  BY <1>2 DEF GroupsKept, MapHolds, Mapped, McIs
<1>5. ASSUME NEW m \in McMember, NEW q \in McPort  PROVE Agrees(m, q)'
  <2>1. \A b : Untold(b, q) => Untold(b, q)'
    BY <1>2, UntoldKept DEF Doing
  <2>2. \A b : Untold(b, p)'
    <3>1. Doing(t, "changed")' /\ mcCall'[t].port = p
      BY <1>1, <1>2, McAssumption DEF McTypeOK, Doing
    <3> QED BY <3>1 DEF Untold
  <2>3. q # p => (q \in mcLag' <=> q \in mcLag)
    BY <1>2
  <2> QED BY <1>2, <2>1, <2>2, <2>3 DEF Flooded, Agrees, McIs, OnLag
<1> QED BY <1>3, <1>4, <1>5 DEF Flooded

(* The bridge hears of a port; other changes are told as before.           *)
LEMMA McBridgeHearsInv ==
  ASSUME McInv, NEW t \in McThread, McBridgeHears(t)
  PROVE  McInv'
<1> USE DEF McInv
<1>1. PICK p \in McPort, job \in McJob :
        /\ p = mcCall[t].port /\ Doing(t, "changed")
        /\ job = [op |-> "told", port |-> p, add |-> mcCall[t].add, todo |-> mcOnLag]
  <2>1. Doing(t, "changed") /\ mcOnLag \in SUBSET McBport
    BY DEF McBridgeHears, McTypeOK
  <2>2. mcCall[t].port \in McPort /\ mcCall[t].add \in BOOLEAN
    BY <2>1, McJobs
  <2> QED BY <2>1, <2>2 DEF McJob
<1>2. /\ UNCHANGED <<mcGroups, mcMembers, mcMap, mcEntries, mcOnLag, mcLag, mcHw, mcLeft, mcLoose>>
      /\ \/ mcOnLag = {} /\ mcCall' = [mcCall EXCEPT ![t] = McNone] /\ mcParted' = mcParted
         \/ mcCall' = [mcCall EXCEPT ![t] = job] /\ mcParted' = mcParted
         \/ /\ mcCall' = [mcCall EXCEPT ![t] = McNone]
            /\ mcParted' = mcParted \cup ({m \in McMember : McIs(m)} \X {p})
  BY <1>1 DEF McBridgeHears, Ends, mcNodes
<1>3. McTypeOK'
  BY <1>1, <1>2 DEF McTypeOK
<1>4. GroupsKept' /\ MapHolds' /\ Mapped'
  BY <1>2 DEF GroupsKept, MapHolds, Mapped, McIs
<1>5. ASSUME NEW b \in mcOnLag, NEW q \in McPort, Untold(b, q)
      PROVE  Untold(b, q)' \/ (q = p /\ \A m \in McMember : McIs(m) => <<m, q>> \in mcParted')
  <2>1. PICK u \in McThread :
          /\ mcCall[u].port = q
          /\ (Doing(u, "changed") \/ (Doing(u, "told") /\ b \in mcCall[u].todo))
    BY <1>5 DEF Untold
  <2>2. CASE u # t
    <3>1. mcCall'[u] = mcCall[u]
      BY <1>2, <2>2 DEF McTypeOK
    <3> QED BY <2>1, <3>1 DEF Untold, Doing
  <2>3. CASE u = t
    <3>1. q = p
      BY <1>1, <2>1, <2>3 DEF Doing
    <3>2. CASE mcCall' = [mcCall EXCEPT ![t] = job]
      <4>1. Doing(t, "told")' /\ mcCall'[t].port = p /\ b \in mcCall'[t].todo
        BY <1>1, <3>2, McAssumption DEF McTypeOK, Doing
      <4> QED BY <3>1, <4>1 DEF Untold
    <3> QED BY <1>2, <3>1, <3>2
  <2> QED BY <2>2, <2>3
<1>6. ASSUME NEW m \in McMember, NEW q \in McPort  PROVE Agrees(m, q)'
  <2>1. <<m, q>> \in mcParted => <<m, q>> \in mcParted'
    BY <1>2
  <2> QED BY <1>2, <1>5, <2>1 DEF Flooded, Agrees, McIs, OnLag
<1> QED BY <1>3, <1>4, <1>6 DEF Flooded

(* The members on one bridge port are told: each of them is programmed, or *)
(* given up for the port.                                                  *)
LEMMA McToldInv ==
  ASSUME McInv, NEW t \in McThread, NEW b \in McBport, McTold(t, b)
  PROVE  McInv'
<1> USE DEF McInv
<1>1. PICK p \in McPort, add \in BOOLEAN, todo \in SUBSET McBport :
        /\ p = mcCall[t].port /\ add = mcCall[t].add /\ todo = mcCall[t].todo
        /\ mcCall[t] \in McJob /\ Doing(t, "told") /\ b \in todo
  BY McJobs DEF McTold
<1> DEFINE live == {m \in McMember : <<b, m>> \in mcMap /\ McIs(m)}
           right(done) == IF add # (p \in mcLag) THEN {}
                          ELSE {m \in done : mcMembers[m].bport = b} \X {p}
<1>2. PICK done \in SUBSET live :
        /\ mcHw' = [m \in McMember |-> IF m \in done THEN McFollowed(mcHw[m], mcCall[t]) ELSE mcHw[m]]
        /\ mcParted' = (mcParted \ right(done)) \cup ((live \X {p}) \ right(done))
  BY <1>1 DEF McTold
<1>3. /\ UNCHANGED <<mcGroups, mcMembers, mcMap, mcEntries, mcOnLag, mcLag, mcLeft, mcLoose>>
      /\ mcCall' = [mcCall EXCEPT ![t] = IF todo = {b} THEN McNone
                                         ELSE [mcCall[t] EXCEPT !.todo = todo \ {b}]]
  BY <1>1 DEF McTold, Ends, mcNodes
<1>4. mcHw' = [m \in McMember |-> IF m \notin done THEN mcHw[m]
                                ELSE IF add THEN mcHw[m] \cup {p} ELSE mcHw[m] \ {p}]
  BY <1>1, <1>2 DEF McFollowed
<1>5. McTypeOK'
  <2>1. [mcCall[t] EXCEPT !.todo = todo \ {b}] \in McJob
    <3>1. mcCall[t] \in [op : {"told"}, port : McPort, add : BOOLEAN, todo : SUBSET McBport]
      BY <1>1 DEF McJob, Doing
    <3> QED BY <3>1 DEF McJob
  <2>2. mcCall' \in [McThread -> McJob \cup {McNone}]
    BY <1>3, <2>1 DEF McTypeOK
  <2>3. mcHw' \in [McMember -> SUBSET McPort]
    BY <1>4 DEF McTypeOK
  <2>4. mcParted' \subseteq McMember \X McPort
    BY <1>2 DEF McTypeOK
  <2> QED BY <1>3, <2>2, <2>3, <2>4 DEF McTypeOK
<1>6. GroupsKept' /\ MapHolds'
  BY <1>3 DEF GroupsKept, MapHolds, McIs
<1>7. ASSUME NEW m \in McMember, NEW q \in McPort, <<m, q>> \notin mcParted'
      PROVE  \/ <<m, q>> \notin mcParted /\ ~ (q = p /\ m \in live)
             \/ q = p /\ m \in done /\ mcMembers[m].bport = b /\ (add <=> p \in mcLag)
  <2>1. <<m, q>> \in right(done) => q = p /\ m \in done /\ mcMembers[m].bport = b /\ (add <=> p \in mcLag)
    OBVIOUS
  <2>2. q = p /\ m \in live => <<m, q>> \in live \X {p}
    OBVIOUS
  <2> HIDE DEF live, right
  <2> QED BY <1>2, <1>7, <2>1, <2>2
<1>8. Mapped'
  BY <1>2, <1>3, <1>7 DEF Mapped, McIs
<1>9. ASSUME NEW c \in McBport, NEW q \in McPort, Untold(c, q), ~ (c = b /\ q = p)
      PROVE  Untold(c, q)'
  <2>1. PICK u \in McThread :
          /\ mcCall[u].port = q
          /\ (Doing(u, "changed") \/ (Doing(u, "told") /\ c \in mcCall[u].todo))
    BY <1>9 DEF Untold
  <2>2. CASE u # t
    <3>1. mcCall'[u] = mcCall[u]
      BY <1>3, <2>2 DEF McTypeOK
    <3> QED BY <2>1, <3>1 DEF Untold, Doing
  <2>3. CASE u = t
    <3>1. q = p /\ c \in todo \ {b}
      BY <1>1, <1>9, <2>1, <2>3 DEF Doing
    <3>2. mcCall[t] \in [op : {"told"}, port : McPort, add : BOOLEAN, todo : SUBSET McBport]
      BY <1>1 DEF McJob, Doing
    <3>3. PICK j \in McJob : j = [mcCall[t] EXCEPT !.todo = todo \ {b}]
      BY <3>2 DEF McJob
    <3>4. mcCall'[t] = j /\ j.op = "told" /\ j.port = p /\ j.todo = todo \ {b} /\ j # McNone
      BY <1>1, <1>3, <3>1, <3>2, <3>3, McAssumption DEF McTypeOK
    <3> QED BY <3>1, <3>4 DEF Untold, Doing
  <2> QED BY <2>2, <2>3
<1>10. ASSUME NEW m \in McMember, NEW q \in McPort  PROVE Agrees(m, q)'
  <2> SUFFICES ASSUME McIs(m), NEW c \in mcOnLag, c = mcMembers[m].bport, <<m, q>> \notin mcParted',
                      ~ Untold(c, q)'
               PROVE  q \in mcHw'[m] <=> q \in mcLag
    BY <1>3 DEF Agrees, McIs, OnLag
  <2>1. c \in McBport
    BY DEF McTypeOK
  <2>2. CASE q = p /\ m \in done /\ (add <=> p \in mcLag)
    BY <1>4, <2>2
  <2>3. CASE <<m, q>> \notin mcParted /\ ~ (q = p /\ m \in live)
    <3>1. <<c, m>> \in mcMap
      BY <2>3 DEF Mapped
    <3>2. ~ (q = p /\ c = b)
      BY <2>3, <3>1
    <3>3. ~ Untold(c, q)
      BY <1>9, <2>1, <3>2
    <3>4. q \in mcHw'[m] <=> q \in mcHw[m]
      BY <1>4, <2>3 DEF McTypeOK
    <3> QED BY <2>3, <3>3, <3>4 DEF Flooded, Agrees, OnLag
  <2> QED BY <1>7, <2>2, <2>3
<1> QED BY <1>5, <1>6, <1>8, <1>10 DEF Flooded

LEMMA McBportChangeInv ==
  ASSUME McInv, NEW b \in McBport, McBportChange(b)
  PROVE  McInv'
<1> USE DEF McInv
<1> DEFINE on == {m \in McMember : McIs(m) /\ mcMembers[m].bport = b}
<1>1. /\ mcOnLag' = IF OnLag(b) THEN mcOnLag \ {b} ELSE mcOnLag \cup {b}
      /\ mcHw' = [m \in McMember |-> IF m \in on THEN {} ELSE mcHw[m]]
      /\ mcParted' = mcParted \cup on \X McPort
      /\ UNCHANGED <<mcGroups, mcMembers, mcMap, mcEntries, mcLag, mcCall, mcLeft, mcLoose>>
  BY DEF McBportChange, mcNodes
<1>2. McTypeOK'
  BY <1>1 DEF McTypeOK, OnLag
<1>3. GroupsKept' /\ MapHolds' /\ Mapped'
  BY <1>1 DEF GroupsKept, MapHolds, Mapped, McIs
<1>4. \A c, p : Untold(c, p)' <=> Untold(c, p)
  BY <1>1 DEF Untold, Doing
<1>5. ASSUME NEW m \in McMember, NEW p \in McPort  PROVE Agrees(m, p)'
  <2>1. CASE m \in on
    BY <1>1, <2>1 DEF Agrees
  <2>2. CASE McIs(m) /\ m \notin on
    <3>1. mcMembers[m].bport # b /\ (OnLag(mcMembers[m].bport)' <=> OnLag(mcMembers[m].bport))
      BY <1>1, <2>2 DEF OnLag
    <3> QED BY <1>1, <1>4, <2>2, <3>1 DEF Flooded, Agrees
  <2>3. CASE ~ McIs(m)
    BY <1>1, <2>3 DEF Agrees, McIs
  <2> QED BY <2>1, <2>2, <2>3
<1> QED BY <1>2, <1>3, <1>5 DEF Flooded

LEMMA McInvNext == McInv /\ [McNext]_mcVars => McInv'
<1> SUFFICES ASSUME McInv, [McNext]_mcVars  PROVE McInv'
  OBVIOUS
<1>1. CASE UNCHANGED mcVars
  <2>1. McTypeOK' /\ GroupsKept'
    BY <1>1 DEF mcVars, mcNodes, mcHistory, McInv, McTypeOK, GroupsKept, McIs
  <2>2. \A b \in McBport, p \in McPort : Untold(b, p) => Untold(b, p)'
    BY <1>1 DEF mcVars, Untold, Doing
  <2> QED BY <1>1, <2>1, <2>2, McSameInv DEF mcVars, mcNodes, mcHistory
<1>2. CASE McMemberStep
  BY <1>2, McRemoveMemberInv, McCallInv, McCreateMemberInv, Zenon DEF McMemberStep
<1>3. CASE McEntryStep
  BY <1>3, McRemoveEntryInv, McCallInv, McEntryInv, Zenon DEF McEntryStep
<1>4. CASE McLagStep
  BY <1>4, McBportChangeInv, McLagChangeInv, McBridgeHearsInv, McToldInv, Zenon DEF McLagStep
<1> QED BY <1>1, <1>2, <1>3, <1>4, McGroupInv DEF McNext
---------------------------------------------------------------------------
(* Hash objects and user defined fields                                  *)

(* Hash objects: users are counted, an object with an index is free of     *)
(* creations, and the NPU hashes by what is stored.                        *)
UsedExists == \A a \in HAttr : attrHash[a] # NoHash => attrHash[a] \in hashes
UsersCounted == \A h \in hashes : hashRef[h] = Cardinality(Users(h))

Creating(t, i) == hashCall[t] # NoHCall /\ hashCall[t].idx = i
IndexRight(i) ==
  /\ (\A t \in HThread : ~ Creating(t, i)) => (i \in usedIdx <=> i \in hashes)
  /\ \A t \in HThread : Creating(t, i) =>
       /\ \A u \in HThread : Creating(u, i) => u = t
       /\ hashCall[t].phase = "insert" => i \notin usedIdx /\ i \notin hashes
       /\ hashCall[t].phase = "mark" => i \in hashes
IndicesRight == \A i \in HIndex \ racedIdx : IndexRight(i)

HashRuns ==
  \A a \in HAttr \ unsureHash :
    npuFields[a] = IF attrHash[a] = NoHash THEN NoFields ELSE fields[attrHash[a]]

HashTypeOK ==
  /\ hashes \subseteq HIndex /\ usedIdx \subseteq HIndex /\ racedIdx \subseteq HIndex
  /\ fields \in [HIndex -> Fields]
  /\ hashRef \in [HIndex -> Nat]
  /\ hashCall \in [HThread -> HashCall \cup {NoHCall}]
  /\ attrHash \in [HAttr -> HIndex \cup {NoHash}]
  /\ npuFields \in [HAttr -> Fields]
  /\ unsureHash \subseteq HAttr

HashInv == HashTypeOK /\ UsedExists /\ UsersCounted /\ IndicesRight /\ HashRuns

(* User defined fields                                                     *)
UdfsIn(g) == {u \in Udf : udfs[u] # NoUdf /\ udfs[u].group = g}
GroupExists == \A u \in Udf : udfs[u] # NoUdf => groups[udfs[u].group] # NoGroup
UdfsCounted == \A g \in UGroup : groups[g] # NoGroup => udfCount[g] = Cardinality(UdfsIn(g))
MasksRun == \A u \in Udf \ maskKept : udfs[u] # NoUdf => npuMask[u] = udfs[u].mask
UdfTypeOK ==
  /\ groups \in [UGroup -> {"generic", "hash", NoGroup}]
  /\ udfCount \in [UGroup -> Nat]
  /\ udfs \in [Udf -> UdfInfo \cup {NoUdf}]
  /\ npuMask \in [Udf -> UMask \cup {NoMask}]
  /\ maskKept \subseteq Udf

UdfInv == UdfTypeOK /\ GroupExists /\ UdfsCounted /\ MasksRun

LEMMA HuInvMeans == HashInv /\ UdfInv => HashUdfTypeOK /\ HashUdfCounts /\ HashUdfRuns
<1> SUFFICES ASSUME HashInv, UdfInv  PROVE HashUdfTypeOK /\ HashUdfCounts /\ HashUdfRuns
  OBVIOUS
<1>1. HashUdfTypeOK
  BY DEF HashInv, UdfInv, HashTypeOK, UdfTypeOK, HashUdfTypeOK
<1>2. HashUdfRuns
  BY DEF HashInv, UdfInv, HashRuns, MasksRun, HashUdfRuns
<1>3. ASSUME NEW i \in HIndex \ racedIdx, \A t \in HThread : hashCall[t] = NoHCall \/ hashCall[t].idx # i
      PROVE  i \in usedIdx <=> i \in hashes
  BY <1>3 DEF HashInv, IndicesRight, IndexRight, Creating
<1>4. \A g \in UGroup : groups[g] # NoGroup =>
        udfCount[g] = Cardinality({u \in Udf : udfs[u] # NoUdf /\ udfs[u].group = g})
  BY DEF UdfInv, UdfsCounted, UdfsIn
<1>5. HashUdfCounts
  BY <1>3, <1>4 DEF HashInv, UdfInv, UsedExists, UsersCounted, GroupExists, HashUdfCounts
<1> QED BY <1>1, <1>2, <1>5

LEMMA HashInvInit == HashUdfInit => HashInv
<1> SUFFICES ASSUME HashUdfInit  PROVE HashInv
  OBVIOUS
<1> USE HashAssumption, HashNullAssumption
<1>1. PICK first \in [HAttr -> HIndex \cup {NoHash}] : first = [a \in HAttr |-> IF a < 2 THEN a ELSE NoHash]
  <2>1. \A a \in HAttr : a < 2 => a \in HIndex
    BY DEF HIndex
  <2> QED BY <2>1
<1>2. PICK v \in HVal : fields = [h \in HIndex |-> [native |-> v, udf |-> {}]]
  BY DEF HashUdfInit
<1>3. /\ hashes = HIndex \cap {0, 1} /\ usedIdx = HIndex \cap {0, 1} /\ attrHash = first
      /\ npuFields = [a \in HAttr |-> IF first[a] = NoHash THEN NoFields ELSE fields[first[a]]]
      /\ hashRef = [h \in HIndex |-> Cardinality({a \in HAttr : first[a] = h})]
      /\ hashCall = [t \in HThread |-> NoHCall] /\ racedIdx = {} /\ unsureHash = {}
  BY <1>1 DEF HashUdfInit
<1>4. fields \in [HIndex -> Fields] /\ NoFields \in Fields
  BY <1>2 DEF Fields, NoFields
<1>5. ASSUME NEW h \in HIndex  PROVE Cardinality({a \in HAttr : first[a] = h}) \in Nat
  BY FS_Subset, FS_CardinalityType
<1>6. HashTypeOK
  BY <1>1, <1>3, <1>4, <1>5 DEF HashTypeOK
<1>7. UsedExists
  BY <1>1, <1>3 DEF UsedExists, HIndex
<1>8. UsersCounted /\ IndicesRight /\ HashRuns
  BY <1>1, <1>3, <1>6 DEF UsersCounted, Users, IndicesRight, IndexRight, Creating, HashRuns, HashTypeOK
<1> QED BY <1>6, <1>7, <1>8 DEF HashInv

LEMMA UsersFinite == \A h : IsFiniteSet(Users(h)) /\ Cardinality(Users(h)) \in Nat
<1> SUFFICES ASSUME NEW h  PROVE IsFiniteSet(Users(h)) /\ Cardinality(Users(h)) \in Nat
  OBVIOUS
<1>1. Users(h) \in SUBSET HAttr
  BY DEF Users
<1> QED BY <1>1, HashAssumption, FS_Subset, FS_CardinalityType

LEMMA PickIndexInv ==
  ASSUME HashInv, NEW t \in HThread, PickIndex(t)
  PROVE  HashInv'
<1> USE DEF HashInv
<1>1. PICK i \in HIndex \ usedIdx :
        /\ hashCall' = [hashCall EXCEPT ![t] = [idx |-> i, phase |-> "insert"]]
        /\ racedIdx' = IF \E u \in HThread : Creating(u, i) THEN racedIdx \cup {i} ELSE racedIdx
  BY DEF PickIndex, Creating
<1>2. hashCall[t] = NoHCall /\ UNCHANGED <<hashes, fields, hashRef, usedIdx, attrHash, npuFields, unsureHash>>
  BY DEF PickIndex
<1>3. [idx |-> i, phase |-> "insert"] \in HashCall
  BY DEF HashCall
<1>4. HashTypeOK' /\ UsedExists' /\ HashRuns' /\ UsersCounted'
  BY <1>1, <1>2, <1>3 DEF HashTypeOK, UsedExists, HashRuns, UsersCounted, Users
<1>5. ASSUME NEW j \in HIndex \ racedIdx'  PROVE IndexRight(j)'
  <2>1. IndexRight(j) /\ j \notin racedIdx
    BY <1>1, <1>5 DEF IndicesRight
  <2>2. \A u \in HThread : u # t => /\ hashCall'[u] = hashCall[u] /\ (Creating(u, j)' <=> Creating(u, j))
    BY <1>1 DEF HashTypeOK, Creating
  <2>3. hashCall'[t] = [idx |-> i, phase |-> "insert"] /\ (Creating(t, j)' <=> i = j) /\ ~ Creating(t, j)
    BY <1>1, <1>2, <1>3, HashNullAssumption DEF HashTypeOK, Creating
  <2>4. i = j => \A u \in HThread : ~ Creating(u, j)
    BY <1>1, <1>5
  <2> QED BY <1>1, <1>2, <2>1, <2>2, <2>3, <2>4 DEF IndexRight
<1> QED BY <1>4, <1>5 DEF IndicesRight

LEMMA InsertHashInv ==
  ASSUME HashInv, NEW t \in HThread, InsertHash(t)
  PROVE  HashInv'
<1> USE DEF HashInv
<1>1. PICK i \in HIndex, c \in HashCall :
        c = hashCall[t] /\ i = c.idx /\ c.phase = "insert" /\ c # NoHCall
  BY DEF InsertHash, HashTypeOK, HashCall
<1>2. UNCHANGED <<usedIdx, racedIdx, attrHash, npuFields, unsureHash>>
  BY DEF InsertHash
<1>3. CASE hashCall' = [hashCall EXCEPT ![t] = NoHCall] /\ UNCHANGED <<hashes, fields, hashRef>>
  <2>1. HashTypeOK' /\ UsedExists' /\ HashRuns' /\ UsersCounted'
    BY <1>2, <1>3 DEF HashTypeOK, UsedExists, HashRuns, UsersCounted, Users
  <2>2. ASSUME NEW j \in HIndex \ racedIdx  PROVE IndexRight(j)'
    <3>1. IndexRight(j)
      BY DEF IndicesRight
    <3>2. \A u \in HThread : u # t => /\ hashCall'[u] = hashCall[u] /\ (Creating(u, j)' <=> Creating(u, j))
      BY <1>3 DEF HashTypeOK, Creating
    <3>3. ~ Creating(t, j)' /\ (Creating(t, j) <=> i = j)
      BY <1>1, <1>3 DEF HashTypeOK, Creating
    <3> QED BY <1>1, <1>2, <1>3, <3>1, <3>2, <3>3 DEF IndexRight
  <2> QED BY <1>2, <2>1, <2>2 DEF IndicesRight
<1>4. CASE hashCall' = [hashCall EXCEPT ![t].phase = "mark"]
  <2>1. PICK d \in HashCall : d = [c EXCEPT !.phase = "mark"]
    BY DEF HashCall
  <2>2. d.idx = i /\ d.phase = "mark" /\ d # NoHCall /\ hashCall' = [hashCall EXCEPT ![t] = d]
    BY <1>1, <1>4, <2>1, HashNullAssumption DEF HashCall
  <2>3. /\ hashes' = hashes \cup {i}
        /\ \/ i \in hashes /\ UNCHANGED <<fields, hashRef>>
           \/ /\ i \notin hashes /\ hashRef' = [hashRef EXCEPT ![i] = 0]
              /\ \E f \in GoodFields : fields' = [fields EXCEPT ![i] = f]
    <3>1. hashCall'[t] # NoHCall /\ hashCall[t].idx = i
      BY <1>1, <2>2 DEF HashTypeOK
    <3>2. hashCall' # [hashCall EXCEPT ![t] = NoHCall]
      BY <3>1 DEF HashTypeOK
    <3>3. \E f \in GoodFields :
            IF i \in hashes THEN UNCHANGED <<hashes, fields, hashRef>>
            ELSE /\ hashes' = hashes \cup {i}
                 /\ fields' = [fields EXCEPT ![i] = f]
                 /\ hashRef' = [hashRef EXCEPT ![i] = 0]
      BY <3>1, <3>2 DEF InsertHash
    <3>4. CASE i \in hashes
      BY <3>3, <3>4
    <3>5. CASE i \notin hashes
      BY <3>3, <3>5
    <3> QED BY <3>4, <3>5
  <2>4. GoodFields \subseteq Fields
    BY DEF GoodFields, Fields, HashGroups
  <2>5. HashTypeOK' /\ UsedExists'
    BY <1>2, <2>2, <2>3, <2>4 DEF HashTypeOK, UsedExists
  <2>6. i \notin hashes => Users(i) = {}
    BY HashNullAssumption DEF UsedExists, Users
  <2>7. \A h : Users(h)' = Users(h)
    BY <1>2 DEF Users
  <2>8. UsersCounted'
    <3>1. Cardinality({}) = 0
      BY FS_EmptySet
    <3>2. CASE i \in hashes
      <4>1. hashes' = hashes /\ hashRef' = hashRef
        BY <2>3, <3>2
      <4> QED BY <2>7, <4>1 DEF UsersCounted
    <3>3. CASE i \notin hashes
      <4>1. hashes' = hashes \cup {i} /\ hashRef' = [hashRef EXCEPT ![i] = 0]
        BY <2>3, <3>3
      <4>2. Users(i)' = {}
        BY <2>6, <2>7, <3>3
      <4>3. hashRef'[i] = Cardinality(Users(i)')
        BY <3>1, <4>1, <4>2 DEF HashTypeOK
      <4>4. \A h \in hashes : hashRef'[h] = hashRef[h]
        BY <3>3, <4>1 DEF HashTypeOK
      <4> QED BY <2>7, <4>1, <4>3, <4>4 DEF UsersCounted
    <3> QED BY <3>2, <3>3
  <2>9. HashRuns'
    BY <1>2, <2>3, <2>6 DEF HashRuns, HashTypeOK, Users
  <2>10. ASSUME NEW j \in HIndex \ racedIdx  PROVE IndexRight(j)'
    <3>1. IndexRight(j)
      BY DEF IndicesRight
    <3>2. \A u \in HThread : u # t => /\ hashCall'[u] = hashCall[u] /\ (Creating(u, j)' <=> Creating(u, j))
      BY <2>2 DEF HashTypeOK, Creating
    <3>3. hashCall'[t] = d /\ (Creating(t, j)' <=> i = j) /\ (Creating(t, j) <=> i = j)
      BY <1>1, <2>2 DEF HashTypeOK, Creating
    <3>4. i \in hashes' /\ (j # i => (j \in hashes' <=> j \in hashes))
      BY <2>3
    <3> QED BY <1>1, <1>2, <2>2, <3>1, <3>2, <3>3, <3>4 DEF IndexRight
  <2> QED BY <1>2, <2>5, <2>8, <2>9, <2>10 DEF IndicesRight
<1> QED BY <1>3, <1>4 DEF InsertHash

LEMMA MarkIndexInv ==
  ASSUME HashInv, NEW t \in HThread, MarkIndex(t)
  PROVE  HashInv'
<1> USE DEF HashInv
<1>1. PICK i \in HIndex, c \in HashCall :
        c = hashCall[t] /\ i = c.idx /\ c.phase = "mark" /\ c # NoHCall
  BY DEF MarkIndex, HashTypeOK, HashCall
<1>2. /\ UNCHANGED <<hashes, fields, hashRef, racedIdx, attrHash, npuFields, unsureHash>>
      /\ usedIdx' = usedIdx \cup {i} /\ hashCall' = [hashCall EXCEPT ![t] = NoHCall]
  BY <1>1 DEF MarkIndex, Marked
<1>3. HashTypeOK' /\ UsedExists' /\ HashRuns' /\ UsersCounted'
  BY <1>2 DEF HashTypeOK, UsedExists, HashRuns, UsersCounted, Users
<1>4. ASSUME NEW j \in HIndex \ racedIdx  PROVE IndexRight(j)'
  <2>1. IndexRight(j)
    BY DEF IndicesRight
  <2>2. \A u \in HThread : u # t => /\ hashCall'[u] = hashCall[u] /\ (Creating(u, j)' <=> Creating(u, j))
    BY <1>2 DEF HashTypeOK, Creating
  <2>3. ~ Creating(t, j)' /\ (Creating(t, j) <=> i = j)
    BY <1>1, <1>2 DEF HashTypeOK, Creating
  <2>4. j # i => (j \in usedIdx' <=> j \in usedIdx)
    BY <1>2
  <2> QED BY <1>1, <1>2, <2>1, <2>2, <2>3, <2>4 DEF IndexRight
<1> QED BY <1>2, <1>3, <1>4 DEF IndicesRight

LEMMA RemoveHashInv ==
  ASSUME HashInv, NEW h \in HIndex, RemoveHash(h)
  PROVE  HashInv'
<1> USE DEF HashInv
<1>1. /\ h \in hashes /\ hashRef[h] = 0 /\ hashes' = hashes \ {h} /\ usedIdx' = usedIdx \ {h}
      /\ fields' = [fields EXCEPT ![h] = NoFields]
      /\ racedIdx' = IF \E t \in HThread : Creating(t, h) THEN racedIdx \cup {h} ELSE racedIdx
      /\ UNCHANGED <<hashRef, hashCall, attrHash, npuFields, unsureHash>>
  BY DEF RemoveHash, Creating
<1>2. Users(h) = {}
  BY <1>1, UsersFinite, FS_EmptySet DEF UsersCounted
<1>3. \A a \in HAttr : attrHash[a] # h
  BY <1>2 DEF Users
<1>4. HashTypeOK'
  BY <1>1 DEF HashTypeOK, Fields, NoFields
<1>5. UsedExists' /\ HashRuns'
  BY <1>1, <1>3 DEF UsedExists, HashRuns, HashTypeOK
<1>6. UsersCounted'
  BY <1>1 DEF UsersCounted, Users
<1>7. ASSUME NEW j \in HIndex \ racedIdx'  PROVE IndexRight(j)'
  <2>1. IndexRight(j) /\ j \notin racedIdx
    BY <1>1, <1>7 DEF IndicesRight
  <2>2. \A u : Creating(u, j)' <=> Creating(u, j)
    BY <1>1 DEF Creating
  <2>3. j = h => \A u \in HThread : ~ Creating(u, j)
    BY <1>1, <1>7
  <2> QED BY <1>1, <2>1, <2>2, <2>3 DEF IndexRight
<1> QED BY <1>4, <1>5, <1>6, <1>7 DEF IndicesRight

LEMMA IndicesSame ==
  ASSUME IndicesRight, UNCHANGED <<hashes, usedIdx, hashCall, racedIdx>>
  PROVE  IndicesRight'
BY DEF IndicesRight, IndexRight, Creating

LEMMA SetHashInv ==
  ASSUME HashInv, NEW h \in HIndex, SetHash(h)
  PROVE  HashInv'
<1> USE DEF HashInv
<1>1. UNCHANGED <<hashes, hashRef, usedIdx, hashCall, racedIdx, attrHash>>
  BY DEF SetHash
<1>2. PICK new \in Fields :
        \/ /\ npuFields' = [a \in HAttr |-> IF a \in Users(h) THEN new ELSE npuFields[a]]
           /\ \/ fields' = [fields EXCEPT ![h] = new] /\ unsureHash' = unsureHash \ Users(h)
              \/ unsureHash' = unsureHash \cup Users(h) /\ UNCHANGED fields
        \/ SetInHw(h, new) /\ UNCHANGED fields
  BY DEF SetHash, GoodFields, Fields, HashGroups
<1>3. UsedExists' /\ UsersCounted' /\ IndicesRight'
  BY <1>1, IndicesSame DEF UsedExists, UsersCounted, Users
<1>4. CASE SetInHw(h, new) /\ UNCHANGED fields
  <2>1. PICK stuck \in SUBSET HAttr :
          /\ npuFields' = [a \in HAttr |-> IF a \in stuck THEN new ELSE npuFields[a]]
          /\ unsureHash' = unsureHash \cup stuck
    BY <1>4 DEF SetInHw, Reset, Users
  <2>2. HashTypeOK' /\ HashRuns'
    BY <1>1, <1>4, <2>1 DEF HashTypeOK, HashRuns
  <2> QED BY <1>3, <2>2
<1>5. CASE npuFields' = [a \in HAttr |-> IF a \in Users(h) THEN new ELSE npuFields[a]]
           /\ fields' = [fields EXCEPT ![h] = new] /\ unsureHash' = unsureHash \ Users(h)
  <2>1. HashTypeOK'
    BY <1>1, <1>5 DEF HashTypeOK
  <2>2. HashRuns'
    BY <1>1, <1>5, HashNullAssumption DEF HashTypeOK, HashRuns, Users
  <2> QED BY <1>3, <2>1, <2>2
<1>6. CASE npuFields' = [a \in HAttr |-> IF a \in Users(h) THEN new ELSE npuFields[a]]
           /\ unsureHash' = unsureHash \cup Users(h) /\ UNCHANGED fields
  BY <1>1, <1>3, <1>6 DEF HashTypeOK, HashRuns, Users
<1> QED BY <1>2, <1>4, <1>5, <1>6

LEMMA SetSwitchHashInv ==
  ASSUME HashInv, NEW a \in HAttr, NEW h \in HIndex \cup {NoHash}, SetSwitchHash(a, h)
  PROVE  HashInv'
<1> USE DEF HashInv
<1>1. /\ h \in hashes \cup {NoHash}
      /\ npuFields' = [npuFields EXCEPT ![a] = IF h = NoHash THEN NoFields ELSE fields[h]]
      /\ unsureHash' = unsureHash \ {a} /\ attrHash' = [attrHash EXCEPT ![a] = h]
      /\ UNCHANGED <<hashes, fields, usedIdx, hashCall, racedIdx>>
  BY DEF SetSwitchHash
<1>2. PICK old \in HIndex \cup {NoHash} : old = attrHash[a]
  BY DEF HashTypeOK
<1>3. hashRef' = [g \in HIndex |-> hashRef[g] + (IF g = h THEN 1 ELSE 0) - (IF g = old THEN 1 ELSE 0)]
  BY <1>2 DEF SetSwitchHash, Recounted
<1>4. ASSUME NEW g \in HIndex  PROVE
        Users(g)' = IF g = h THEN Users(g) \cup {a} ELSE Users(g) \ {a}
  BY <1>1 DEF Users, HashTypeOK
<1>5. \A g \in HIndex : a \in Users(g) <=> g = old
  BY <1>2 DEF Users
<1>6. ASSUME NEW g \in hashes  PROVE hashRef'[g] = Cardinality(Users(g)') /\ hashRef'[g] \in Nat
  <2>1. g \in HIndex /\ hashRef[g] = Cardinality(Users(g)) /\ IsFiniteSet(Users(g)) /\ hashRef[g] \in Nat
    BY UsersFinite DEF HashTypeOK, UsersCounted
  <2>2. Cardinality(Users(g) \cup {a}) = IF g = old THEN hashRef[g] ELSE hashRef[g] + 1
    BY <1>5, <2>1, FS_AddElement
  <2>3. Cardinality(Users(g) \ {a}) = IF g = old THEN hashRef[g] - 1 ELSE hashRef[g]
    BY <1>5, <2>1, FS_RemoveElement
  <2>4. hashRef'[g] = hashRef[g] + (IF g = h THEN 1 ELSE 0) - (IF g = old THEN 1 ELSE 0)
    BY <1>3, <2>1
  <2>5. hashRef'[g] = Cardinality(Users(g)')
    <3>1. CASE g = h
      <4>1. Users(g)' = Users(g) \cup {a}
        BY <1>4, <2>1, <3>1
      <4>2. hashRef'[g] = IF g = old THEN hashRef[g] ELSE hashRef[g] + 1
        BY <2>1, <2>4, <3>1
      <4> QED BY <2>2, <4>1, <4>2
    <3>2. CASE g # h
      BY <1>4, <2>1, <2>3, <2>4, <3>2
    <3> QED BY <3>1, <3>2
  <2>6. Users(g)' \in SUBSET HAttr
    BY DEF Users
  <2> QED BY <2>5, <2>6, HashAssumption, FS_Subset, FS_CardinalityType
<1>7. ASSUME NEW g \in HIndex \ hashes  PROVE hashRef'[g] \in Nat
  <2>1. g # h /\ g # old
    BY <1>1, <1>2, HashNullAssumption DEF UsedExists
  <2> QED BY <1>3, <2>1 DEF HashTypeOK
<1>8. HashTypeOK'
  <2>1. hashRef' \in [HIndex -> Nat]
    BY <1>3, <1>6, <1>7
  <2>2. npuFields' \in [HAttr -> Fields]
    BY <1>1 DEF HashTypeOK, Fields, NoFields
  <2> QED BY <1>1, <2>1, <2>2 DEF HashTypeOK
<1>9. UsedExists' /\ HashRuns'
  BY <1>1 DEF UsedExists, HashRuns, HashTypeOK
<1>10. UsersCounted'
  BY <1>1, <1>6 DEF UsersCounted
<1> QED BY <1>1, <1>8, <1>9, <1>10, IndicesSame

LEMMA HashSame ==
  ASSUME HashInv, UNCHANGED hashVars  PROVE HashInv'
<1>1. HashTypeOK' /\ UsedExists' /\ HashRuns' /\ UsersCounted'
  BY DEF HashInv, hashVars, HashTypeOK, UsedExists, HashRuns, UsersCounted, Users
<1>2. IndicesRight'
  BY IndicesSame DEF HashInv, hashVars
<1> QED BY <1>1, <1>2 DEF HashInv

LEMMA HashInvNext ==
  ASSUME HashInv, HashStep  PROVE HashInv'
BY PickIndexInv, InsertHashInv, MarkIndexInv, RemoveHashInv, SetHashInv, SetSwitchHashInv, Zenon
   DEF HashStep
---------------------------------------------------------------------------
LEMMA UdfsInFinite == \A g : IsFiniteSet(UdfsIn(g)) /\ Cardinality(UdfsIn(g)) \in Nat
<1> SUFFICES ASSUME NEW g  PROVE IsFiniteSet(UdfsIn(g)) /\ Cardinality(UdfsIn(g)) \in Nat
  OBVIOUS
<1>1. UdfsIn(g) \in SUBSET Udf
  BY DEF UdfsIn
<1> QED BY <1>1, HashAssumption, FS_Subset, FS_CardinalityType

LEMMA UdfInvInit == HashUdfInit => UdfInv
<1> SUFFICES ASSUME HashUdfInit  PROVE UdfInv
  OBVIOUS
<1>1. \A g : UdfsIn(g) = {}
  BY DEF HashUdfInit, UdfsIn
<1> QED BY <1>1, FS_EmptySet, HashNullAssumption
        DEF HashUdfInit, UdfInv, UdfTypeOK, GroupExists, UdfsCounted, MasksRun

LEMMA UdfGroupInv ==
  ASSUME UdfInv, NEW g \in UGroup,
         RemoveUdfGroup(g) \/ \E k \in {"generic", "hash"} : CreateUdfGroup(g, k)
  PROVE  UdfInv'
<1> USE DEF UdfInv
<1>1. UNCHANGED <<udfs, npuMask, maskKept>>
  BY DEF RemoveUdfGroup, CreateUdfGroup
<1>2. \A f : UdfsIn(f)' = UdfsIn(f)
  BY <1>1 DEF UdfsIn
<1>3. CASE RemoveUdfGroup(g)
  <2>1. groups' = [groups EXCEPT ![g] = NoGroup] /\ udfCount' = udfCount /\ groups[g] # NoGroup /\ udfCount[g] = 0
    BY <1>3 DEF RemoveUdfGroup, GroupEmpty
  <2>2. UdfsIn(g) = {}
    BY <2>1, UdfsInFinite, FS_EmptySet DEF UdfsCounted
  <2>3. UdfTypeOK' /\ MasksRun'
    BY <1>1, <2>1 DEF UdfTypeOK, MasksRun
  <2>4. GroupExists'
    BY <1>1, <2>1, <2>2 DEF GroupExists, UdfsIn, UdfTypeOK
  <2>5. UdfsCounted'
    BY <1>2, <2>1 DEF UdfsCounted, UdfTypeOK
  <2> QED BY <2>3, <2>4, <2>5
<1>4. ASSUME NEW k \in {"generic", "hash"}, CreateUdfGroup(g, k)  PROVE UdfInv'
  <2>1. groups' = [groups EXCEPT ![g] = k] /\ udfCount' = [udfCount EXCEPT ![g] = 0] /\ groups[g] = NoGroup
    BY <1>4 DEF CreateUdfGroup
  <2>2. UdfsIn(g) = {}
    BY <2>1 DEF GroupExists, UdfsIn
  <2>3. UdfTypeOK' /\ MasksRun'
    BY <1>1, <2>1 DEF UdfTypeOK, MasksRun
  <2>4. GroupExists'
    BY <1>1, <2>1, HashNullAssumption DEF GroupExists, UdfTypeOK, UdfInfo
  <2>5. UdfsCounted'
    BY <1>2, <2>1, <2>2, FS_EmptySet DEF UdfsCounted, UdfTypeOK
  <2> QED BY <2>3, <2>4, <2>5
<1> QED BY <1>3, <1>4

LEMMA CreateUdfInv ==
  ASSUME UdfInv, NEW u \in Udf, NEW g \in UGroup, CreateUdf(u, g)
  PROVE  UdfInv'
<1> USE DEF UdfInv
<1>1. PICK m \in UMask \cup {NoMask} :
        udfs' = [udfs EXCEPT ![u] = [group |-> g, mask |-> m]] /\ npuMask' = [npuMask EXCEPT ![u] = m]
  BY DEF CreateUdf
<1>2. /\ udfs[u] = NoUdf /\ groups[g] # NoGroup /\ udfCount' = [udfCount EXCEPT ![g] = @ + 1]
      /\ maskKept' = maskKept \ {u} /\ groups' = groups
  BY DEF CreateUdf
<1>3. PICK new \in UdfInfo : new = [group |-> g, mask |-> m]
  BY DEF UdfInfo
<1>4. /\ new # NoUdf /\ new.group = g /\ new.mask = m /\ udfs'[u] = new
      /\ \A v \in Udf \ {u} : udfs'[v] = udfs[v] /\ npuMask'[v] = npuMask[v]
      /\ npuMask'[u] = m
  BY <1>1, <1>3, HashNullAssumption DEF UdfTypeOK
<1>5. UdfTypeOK'
  BY <1>1, <1>2, <1>3 DEF UdfTypeOK
<1>6. GroupExists' /\ MasksRun'
  BY <1>2, <1>4 DEF GroupExists, MasksRun
<1>7. ASSUME NEW f \in UGroup, groups[f] # NoGroup  PROVE udfCount'[f] = Cardinality(UdfsIn(f)')
  <2>1. CASE f = g
    <3>1. UdfsIn(f)' = UdfsIn(f) \cup {u} /\ u \notin UdfsIn(f)
      BY <1>2, <1>4, <2>1 DEF UdfsIn
    <3>2. Cardinality(UdfsIn(f)') = Cardinality(UdfsIn(f)) + 1
      BY <3>1, UdfsInFinite, FS_AddElement
    <3>3. udfCount[f] = Cardinality(UdfsIn(f)) /\ udfCount'[f] = udfCount[f] + 1
      BY <1>2, <1>7, <2>1 DEF UdfsCounted, UdfTypeOK
    <3> QED BY <3>2, <3>3
  <2>2. CASE f # g
    <3>1. UdfsIn(f)' = UdfsIn(f)
      BY <1>2, <1>4, <2>2 DEF UdfsIn
    <3> QED BY <1>2, <1>7, <2>2, <3>1 DEF UdfsCounted, UdfTypeOK
  <2> QED BY <2>1, <2>2
<1> QED BY <1>2, <1>5, <1>6, <1>7 DEF UdfsCounted

LEMMA RemoveUdfInv ==
  ASSUME UdfInv, NEW u \in Udf, RemoveUdf(u)
  PROVE  UdfInv'
<1> USE DEF UdfInv
<1>1. PICK g \in UGroup : g = udfs[u].group
  BY DEF RemoveUdf, UdfTypeOK, UdfInfo
<1>2. /\ udfs[u] # NoUdf /\ udfs' = [udfs EXCEPT ![u] = NoUdf]
      /\ udfCount' = [udfCount EXCEPT ![g] = @ - 1] /\ UNCHANGED <<groups, npuMask, maskKept>>
  BY <1>1 DEF RemoveUdf
<1>3. u \in UdfsIn(g) /\ UdfsIn(g)' = UdfsIn(g) \ {u} /\ groups[g] # NoGroup
  BY <1>1, <1>2 DEF UdfsIn, UdfTypeOK, GroupExists
<1>4. udfCount[g] = Cardinality(UdfsIn(g)) /\ udfCount[g] - 1 = Cardinality(UdfsIn(g)')
  BY <1>3, UdfsInFinite, FS_RemoveElement DEF UdfsCounted
<1>5. Cardinality(UdfsIn(g)') \in Nat
  <2>1. UdfsIn(g)' \in SUBSET Udf
    BY DEF UdfsIn
  <2> QED BY <2>1, HashAssumption, FS_Subset, FS_CardinalityType
<1>6. UdfTypeOK'
  BY <1>2, <1>4, <1>5 DEF UdfTypeOK
<1>7. GroupExists' /\ MasksRun'
  BY <1>2 DEF GroupExists, MasksRun, UdfTypeOK
<1>8. ASSUME NEW f \in UGroup \ {g}  PROVE UdfsIn(f)' = UdfsIn(f) /\ udfCount'[f] = udfCount[f]
  BY <1>1, <1>2 DEF UdfsIn, UdfTypeOK
<1>9. UdfsCounted'
  BY <1>2, <1>4, <1>8 DEF UdfsCounted, UdfTypeOK
<1> QED BY <1>6, <1>7, <1>9

LEMMA SetUdfMaskInv ==
  ASSUME UdfInv, NEW u \in Udf, NEW m \in UMask, SetUdfMask(u, m)
  PROVE  UdfInv'
<1> USE DEF UdfInv
<1>1. /\ udfs[u] # NoUdf /\ udfs' = [udfs EXCEPT ![u].mask = m] /\ UNCHANGED <<groups, udfCount>>
      /\ \/ npuMask' = [npuMask EXCEPT ![u] = m] /\ maskKept' = maskKept \ {u}
         \/ maskKept' = maskKept \cup {u} /\ npuMask' = npuMask
  BY DEF SetUdfMask
<1>2. PICK new \in UdfInfo : new = [udfs[u] EXCEPT !.mask = m]
  BY <1>1 DEF UdfTypeOK, UdfInfo
<1>3. /\ new # NoUdf /\ new.group = udfs[u].group /\ new.mask = m /\ udfs'[u] = new
      /\ \A v \in Udf \ {u} : udfs'[v] = udfs[v]
  BY <1>1, <1>2, HashNullAssumption DEF UdfTypeOK, UdfInfo
<1>4. UdfTypeOK'
  <2>1. udfs' \in [Udf -> UdfInfo \cup {NoUdf}]
    BY <1>1, <1>2 DEF UdfTypeOK
  <2> QED BY <1>1, <2>1 DEF UdfTypeOK
<1>5. \A f : UdfsIn(f)' = UdfsIn(f)
  BY <1>1, <1>3 DEF UdfsIn
<1>6. GroupExists' /\ UdfsCounted'
  BY <1>1, <1>3, <1>5 DEF GroupExists, UdfsCounted
<1>7. MasksRun'
  BY <1>1, <1>3 DEF MasksRun, UdfTypeOK
<1> QED BY <1>4, <1>6, <1>7

LEMMA UdfSame ==
  ASSUME UdfInv, UNCHANGED udfVars  PROVE UdfInv'
BY DEF UdfInv, udfVars, UdfTypeOK, GroupExists, UdfsCounted, UdfsIn, MasksRun

LEMMA UdfInvNext ==
  ASSUME UdfInv, UdfStep  PROVE UdfInv'
BY UdfGroupInv, CreateUdfInv, RemoveUdfInv, SetUdfMaskInv, Zenon DEF UdfStep

(* A step of hash objects leaves the fields alone, and the other way round.*)
LEMMA HuInvNext == HashInv /\ UdfInv /\ [HashUdfNext]_huVars => HashInv' /\ UdfInv'
<1> SUFFICES ASSUME HashInv, UdfInv, [HashUdfNext]_huVars  PROVE HashInv' /\ UdfInv'
  OBVIOUS
<1>1. HashStep => UNCHANGED udfVars
  BY DEF HashStep, PickIndex, InsertHash, MarkIndex, RemoveHash, SetHash, SetSwitchHash
<1>2. UdfStep => UNCHANGED hashVars
  BY DEF UdfStep, RemoveUdfGroup, CreateUdfGroup, RemoveUdf, CreateUdf, SetUdfMask
<1>3. UNCHANGED huVars => UNCHANGED hashVars /\ UNCHANGED udfVars
  BY DEF huVars
<1> QED BY <1>1, <1>2, <1>3, HashInvNext, UdfInvNext, HashSame, UdfSame DEF HashUdfNext
---------------------------------------------------------------------------
(* Tunnels                                                               *)

OnBridge(b) == {x \in TEntry : entries[x] # NoEntry /\ entries[x].bridge = b}
UnderOn(r) == {t \in Tunnel : IsTunnel(t) /\ tunnels[t].under = r}
OverOn(r) == {t \in Tunnel : IsTunnel(t) /\ tunnels[t].over = r}
HopsAt(r) == {h \in Hop : hops[h] # NoHop /\ h.rif = r}
UnderlayOf(h) == {u \in underlay : u[1] = h}
Pending(h) == IF undo # NoUndo /\ undo.hop = h THEN 1 ELSE 0
Uses(h) == Cardinality(TermsOn(h)) + Cardinality(UnderlayOf(h)) + Pending(h)
CountOf(h) == IF hops[h] = NoHop THEN 0 ELSE hops[h].ref

MapsCounted ==
  \A m \in TMap \ racedMap : IsMap(m) => mapRef[m] = Cardinality(OnMap(m)) + Cardinality(WithMap(m))
BridgesCounted == \A b \in TBridge : brRef[b] = Cardinality(OnBridge(b))
RifsCounted ==
  \A r \in TRif :
    rifRef[r] = Cardinality(UnderOn(r)) + Cardinality(OverOn(r)) + Cardinality(HopsAt(r))
HopsCounted == \A h \in Hop \ unsure : CountOf(h) = Uses(h)

MapsExist ==
  /\ \A t \in Tunnel : IsTunnel(t) => \A m \in MapsOf(t) \ racedMap : IsMap(m)
  /\ \A x \in TEntry : entries[x] # NoEntry => entries[x].map \in racedMap \/ IsMap(entries[x].map)
OwnersExist ==
  /\ \A x \in Term : terms[x] # NoTerm => IsTunnel(terms[x].tunnel)
  /\ \A h \in Hop : hops[h] # NoHop => IsTunnel(hops[h].owner)

(* A map that was freed in a race does not come back.                      *)
RacedGone == \A m \in racedMap : ~ IsMap(m)

MapPart == MapsCounted /\ BridgesCounted /\ MapsExist /\ RacedGone

(* Only the application's hops have an id to stay behind.                  *)
StrayPlain ==
  /\ \A h \in Hop : hops[h] # NoHop /\ hops[h].api => h.type = "ipinip"
  /\ \A h \in strayHop : h.type = "ipinip"

HopPart == RifsCounted /\ HopsCounted /\ OwnersExist /\ StrayPlain
TunInv == TunTypeOK /\ MapPart /\ HopPart

---------------------------------------------------------------------------
LEMMA SubsetCount ==
  ASSUME NEW T, IsFiniteSet(T), NEW S \in SUBSET T
  PROVE  IsFiniteSet(S) /\ Cardinality(S) \in Nat
BY FS_Subset, FS_CardinalityType

LEMMA MapSetsFinite ==
  ASSUME NEW m
  PROVE  /\ IsFiniteSet(OnMap(m)) /\ Cardinality(OnMap(m)) \in Nat
         /\ IsFiniteSet(WithMap(m)) /\ Cardinality(WithMap(m)) \in Nat
         /\ IsFiniteSet(OnBridge(m)) /\ Cardinality(OnBridge(m)) \in Nat
<1>1. OnMap(m) \in SUBSET TEntry /\ WithMap(m) \in SUBSET Tunnel /\ OnBridge(m) \in SUBSET TEntry
  BY DEF OnMap, WithMap, OnBridge
<1> QED BY <1>1, TunnelFinite, SubsetCount

LEMMA RifSetsFinite ==
  ASSUME NEW r
  PROVE  /\ IsFiniteSet(UnderOn(r)) /\ Cardinality(UnderOn(r)) \in Nat
         /\ IsFiniteSet(OverOn(r)) /\ Cardinality(OverOn(r)) \in Nat
         /\ IsFiniteSet(HopsAt(r)) /\ Cardinality(HopsAt(r)) \in Nat
<1>1. UnderOn(r) \in SUBSET Tunnel /\ OverOn(r) \in SUBSET Tunnel /\ HopsAt(r) \in SUBSET Hop
  BY DEF UnderOn, OverOn, HopsAt
<1> QED BY <1>1, TunnelFinite, SubsetCount

(* The plug-in holds a hop once per tunnel.                                *)
LEMMA UseSetsFinite ==
  ASSUME TunTypeOK, NEW h \in Hop
  PROVE  /\ IsFiniteSet(TermsOn(h)) /\ Cardinality(TermsOn(h)) \in Nat
         /\ IsFiniteSet(UnderlayOf(h)) /\ Cardinality(UnderlayOf(h)) \in Nat
<1>1. TermsOn(h) \in SUBSET Term
  BY DEF TermsOn
<1>2. UnderlayOf(h) \in SUBSET ({h} \X Tunnel)
  BY DEF UnderlayOf, TunTypeOK
<1>3. IsFiniteSet({h} \X Tunnel)
  <2> DEFINE f == [t \in Tunnel |-> <<h, t>>]
  <2>1. f \in [Tunnel -> {h} \X Tunnel]
    OBVIOUS
  <2>2. ASSUME NEW u \in {h} \X Tunnel  PROVE \E t \in Tunnel : f[t] = u
    <3>1. u[2] \in Tunnel /\ f[u[2]] = u
      OBVIOUS
    <3> QED BY <3>1
  <2>3. f \in Surjection(Tunnel, {h} \X Tunnel)
    BY <2>1, <2>2, Zenon DEF Surjection
  <2> QED BY <2>3, TunnelFinite, FS_Surjection
<1> QED BY <1>1, <1>2, <1>3, TunnelFinite, SubsetCount

LEMMA TunInvMeans == TunInv => TunTypeOK /\ TunnelCounts /\ TunnelOwned
<1> SUFFICES ASSUME TunInv  PROVE TunnelCounts /\ TunnelOwned
  BY DEF TunInv
<1>1. ASSUME NEW h \in Hop \ unsure
      PROVE IF hops[h] = NoHop THEN Uses(h) = 0 ELSE hops[h].ref = Uses(h)
  BY DEF TunInv, HopPart, HopsCounted, CountOf
<1>2. TunnelCounts
  BY <1>1 DEF TunInv, MapPart, HopPart, MapsCounted, BridgesCounted, RifsCounted, OnBridge,
              UnderOn, OverOn, HopsAt, Uses, UnderlayOf, Pending, TunnelCounts
<1>3. ASSUME undo # NoUndo, ~ undo.live, undo.hop \notin unsure
      PROVE  hops[undo.hop] # NoHop /\ (undo.tunnel # hops[undo.hop].owner \/ IsTunnel(undo.tunnel))
  <2>1. undo.hop \in Hop
    BY <1>3 DEF TunInv, TunTypeOK, UndoInfo
  <2>2. Pending(undo.hop) = 1
    BY <1>3 DEF Pending
  <2>3. Uses(undo.hop) # 0
    BY <2>1, <2>2, UseSetsFinite DEF TunInv, Uses
  <2>4. hops[undo.hop] # NoHop
    BY <1>1, <1>3, <2>1, <2>3
  <2> QED BY <2>1, <2>4 DEF TunInv, HopPart, OwnersExist
<1>4. TunnelOwned
  <2>1. MapsExist /\ OwnersExist /\ StrayPlain
    BY DEF TunInv, MapPart, HopPart
  <2> QED BY <1>3, <2>1, Zenon DEF MapsExist, OwnersExist, StrayPlain, TunnelOwned
<1> QED BY <1>2, <1>4

LEMMA TunInvInit == TunInit => TunInv
<1> SUFFICES ASSUME TunInit  PROVE TunInv
  OBVIOUS
<1>1. /\ \A m \in TMap : OnMap(m) = {} /\ WithMap(m) = {}
      /\ \A b : OnBridge(b) = {}
      /\ \A r : UnderOn(r) = {} /\ OverOn(r) = {} /\ HopsAt(r) = {}
      /\ \A h : TermsOn(h) = {} /\ UnderlayOf(h) = {} /\ Pending(h) = 0
  BY DEF TunInit, OnMap, WithMap, IsTunnel, OnBridge, UnderOn, OverOn, HopsAt, TermsOn, UnderlayOf, Pending
<1>2. TunTypeOK
  BY DEF TunInit, TunTypeOK
<1>3. MapPart
  <2>1. Cardinality({}) = 0 /\ mapRef = [m \in TMap |-> 0] /\ brRef = [b \in TBridge |-> 0]
    BY FS_EmptySet DEF TunInit
  <2>2. MapsCounted /\ BridgesCounted
    BY <1>1, <2>1 DEF MapsCounted, BridgesCounted
  <2>3. MapsExist /\ RacedGone
    BY DEF TunInit, MapsExist, RacedGone, IsTunnel
  <2> QED BY <2>2, <2>3 DEF MapPart
<1>4. HopPart
  <2>1. Cardinality({}) = 0 /\ rifRef = [r \in TRif |-> 0] /\ hops = [h \in Hop |-> NoHop]
    BY FS_EmptySet DEF TunInit
  <2>2. RifsCounted /\ HopsCounted
    BY <1>1, <2>1 DEF RifsCounted, HopsCounted, CountOf, Uses
  <2>3. OwnersExist /\ StrayPlain
    BY DEF TunInit, OwnersExist, StrayPlain
  <2> QED BY <2>2, <2>3 DEF HopPart
<1> QED BY <1>2, <1>3, <1>4 DEF TunInv

(* Steps that leave one half alone                                         *)
LEMMA MapPartSame ==
  ASSUME MapPart, UNCHANGED <<mapVarsT, tunnels>>
  PROVE  MapPart'
BY DEF MapPart, mapVarsT, MapsCounted, BridgesCounted, MapsExist, RacedGone, IsMap, OnMap, WithMap,
       OnBridge, IsTunnel, MapsOf

LEMMA HopPartSame ==
  ASSUME HopPart, UNCHANGED <<tunnels, rifRef, termVars, hopVars>>
  PROVE  HopPart'
<1>1. UNCHANGED <<tunnels, rifRef, terms, hops, underlay, undo, unsure, strayHop>>
  BY DEF termVars, hopVars
<1>2. RifsCounted' /\ OwnersExist' /\ StrayPlain'
  BY <1>1 DEF HopPart, RifsCounted, OwnersExist, StrayPlain, UnderOn, OverOn, HopsAt, IsTunnel
<1>3. \A h : CountOf(h)' = CountOf(h) /\ Uses(h)' = Uses(h)
  BY <1>1 DEF CountOf, Uses, TermsOn, HopKey, UnderlayOf, Pending
<1> QED BY <1>1, <1>2, <1>3 DEF HopPart, HopsCounted

---------------------------------------------------------------------------
(* Maps and map entries                                                    *)

LEMMA CreateMapInv ==
  ASSUME TunInv, NEW m \in TMap, CreateMap(m)
  PROVE  TunInv'
<1> USE DEF TunInv
<1>1. PICK k \in {"encap", "decap"} : maps' = [maps EXCEPT ![m] = k]
  BY DEF CreateMap
<1>2. /\ ~IsMap(m) /\ m \notin racedMap /\ mapRef' = [mapRef EXCEPT ![m] = 0]
      /\ UNCHANGED <<seenFree, racedMap, entries, brRef, tunnels, tports, rifRef, termVars, hopVars>>
  BY DEF CreateMap
<1>3. TunTypeOK'
  BY <1>1, <1>2 DEF TunTypeOK, termVars, hopVars
<1>4. OnMap(m) = {} /\ WithMap(m) = {}
  BY <1>2 DEF MapPart, MapsExist, OnMap, WithMap
<1>5. /\ \A n : OnMap(n)' = OnMap(n) /\ WithMap(n)' = WithMap(n) /\ OnBridge(n)' = OnBridge(n)
      /\ \A t : (IsTunnel(t)' <=> IsTunnel(t)) /\ MapsOf(t)' = MapsOf(t)
  BY <1>2 DEF OnMap, WithMap, IsTunnel, MapsOf, OnBridge
<1>6. IsMap(m)' /\ \A n \in TMap \ {m} : IsMap(n)' <=> IsMap(n)
  BY <1>1 DEF IsMap, TunTypeOK
<1>7. MapsCounted'
  <2> SUFFICES ASSUME NEW n \in TMap \ racedMap, IsMap(n)'
               PROVE  mapRef'[n] = Cardinality(OnMap(n)) + Cardinality(WithMap(n))
    BY <1>2, <1>5 DEF MapsCounted
  <2>1. CASE n = m
    <3>1. mapRef'[m] = 0
      BY <1>2 DEF TunTypeOK
    <3> QED BY <2>1, <3>1, <1>4, FS_EmptySet
  <2>2. CASE n # m
    BY <2>2, <1>2, <1>6 DEF MapPart, MapsCounted, TunTypeOK
  <2> QED BY <2>1, <2>2
<1>8. BridgesCounted'
  BY <1>2, <1>5 DEF MapPart, BridgesCounted
<1>9. MapsExist' /\ RacedGone'
  <2>1. ASSUME NEW t \in Tunnel, IsTunnel(t), NEW n \in MapsOf(t) \ racedMap  PROVE IsMap(n)'
    <3>1. n \in TMap /\ IsMap(n)
      BY <2>1 DEF MapPart, MapsExist, TunTypeOK, IsTunnel, MapsOf, TunnelInfo
    <3> QED BY <1>6, <3>1
  <2>2. ASSUME NEW x \in TEntry, entries[x] # NoEntry  PROVE entries[x].map \in racedMap \/ maps'[entries[x].map] # "none"
    <3>1. PICK n \in TMap : n = entries[x].map
      BY <2>2 DEF TunTypeOK, MapEntry
    <3>2. n \in racedMap \/ IsMap(n)
      BY <2>2, <3>1 DEF MapPart, MapsExist
    <3>3. n \in racedMap \/ IsMap(n)'
      BY <1>6, <3>2
    <3> QED BY <1>2, <3>1, <3>3 DEF IsMap
  <2>3. RacedGone'
    BY <1>2, <1>6 DEF MapPart, RacedGone, TunTypeOK
  <2> QED BY <1>2, <1>5, <2>1, <2>2, <2>3 DEF MapsExist, IsMap
<1> QED BY <1>2, <1>3, <1>7, <1>8, <1>9, HopPartSame DEF MapPart

LEMMA CheckMapInv ==
  ASSUME TunInv, NEW m \in TMap, CheckMap(m)
  PROVE  TunInv'
<1>1. /\ seenFree' = seenFree \cup {m}
      /\ UNCHANGED <<maps, mapRef, racedMap, entries, brRef, tunnels, tports, rifRef, termVars, hopVars>>
  BY DEF CheckMap
<1>2. TunTypeOK'
  BY <1>1 DEF TunInv, TunTypeOK, termVars, hopVars
<1>3. MapPart'
  BY <1>1 DEF TunInv, MapPart, MapsCounted, BridgesCounted, MapsExist, RacedGone, IsMap, OnMap, WithMap,
       OnBridge, IsTunnel, MapsOf
<1> QED BY <1>1, <1>2, <1>3, HopPartSame DEF TunInv

LEMMA FreeMapInv ==
  ASSUME TunInv, NEW m \in TMap, FreeMap(m)
  PROVE  TunInv'
<1> USE DEF TunInv
<1>1. /\ seenFree' = seenFree \ {m} /\ maps' = [maps EXCEPT ![m] = "none"]
      /\ racedMap' = IF mapRef[m] = 0 THEN racedMap ELSE racedMap \cup {m}
      /\ UNCHANGED <<mapRef, entries, brRef, tunnels, tports, rifRef, termVars, hopVars>>
  BY DEF FreeMap
<1>2. TunTypeOK'
  BY <1>1 DEF TunTypeOK, termVars, hopVars
<1>3. /\ \A n : OnMap(n)' = OnMap(n) /\ WithMap(n)' = WithMap(n) /\ OnBridge(n)' = OnBridge(n)
      /\ \A t : (IsTunnel(t)' <=> IsTunnel(t)) /\ MapsOf(t)' = MapsOf(t)
  BY <1>1 DEF OnMap, WithMap, IsTunnel, MapsOf, OnBridge
<1>4. ~ IsMap(m)' /\ \A n \in TMap \ {m} : IsMap(n)' <=> IsMap(n)
  BY <1>1 DEF IsMap, TunTypeOK
<1>5. m \notin racedMap' => OnMap(m) = {} /\ WithMap(m) = {}
  <2>1. CASE IsMap(m) /\ m \notin racedMap'
    <3>1. m \notin racedMap /\ mapRef[m] = 0
      BY <1>1, <2>1
    <3>2. Cardinality(OnMap(m)) = 0 /\ Cardinality(WithMap(m)) = 0
      BY <2>1, <3>1, MapSetsFinite DEF MapPart, MapsCounted
    <3> QED BY <3>2, MapSetsFinite, FS_EmptySet
  <2>2. CASE ~ IsMap(m)
    BY <1>1, <2>2 DEF MapPart, MapsExist, OnMap, WithMap
  <2> QED BY <2>1, <2>2
<1>6. MapsCounted'
  BY <1>1, <1>3, <1>4 DEF MapPart, MapsCounted, TunTypeOK
<1>7. BridgesCounted'
  BY <1>1, <1>3 DEF MapPart, BridgesCounted
<1>8. MapsExist' /\ RacedGone'
  <2>1. ASSUME NEW t \in Tunnel, IsTunnel(t), NEW n \in MapsOf(t) \ racedMap'  PROVE IsMap(n)'
    <3>1. n \in TMap /\ IsMap(n)
      BY <1>1, <2>1 DEF MapPart, MapsExist, TunTypeOK, IsTunnel, MapsOf, TunnelInfo
    <3>2. n # m
      BY <1>5, <2>1 DEF WithMap
    <3> QED BY <1>4, <3>1, <3>2
  <2>2. ASSUME NEW x \in TEntry, entries[x] # NoEntry  PROVE entries[x].map \in racedMap' \/ maps'[entries[x].map] # "none"
    <3>1. PICK n \in TMap : n = entries[x].map
      BY <2>2 DEF TunTypeOK, MapEntry
    <3>2. n \in racedMap \/ IsMap(n)
      BY <2>2, <3>1 DEF MapPart, MapsExist
    <3>3. n = m => m \in racedMap'
      BY <1>5, <2>2, <3>1 DEF OnMap
    <3>4. n \in racedMap' \/ IsMap(n)'
      BY <1>1, <1>4, <3>2, <3>3
    <3> QED BY <1>1, <3>1, <3>4 DEF IsMap
  <2>3. RacedGone'
    BY <1>1, <1>4 DEF MapPart, RacedGone, TunTypeOK
  <2> QED BY <1>1, <1>3, <2>1, <2>2, <2>3 DEF MapsExist, IsMap
<1> QED BY <1>1, <1>2, <1>6, <1>7, <1>8, HopPartSame DEF MapPart
LEMMA CreateMapEntryInv ==
  ASSUME TunInv, NEW x \in TEntry, NEW e \in MapEntry, CreateMapEntry(x, e)
  PROVE  TunInv'
<1> USE DEF TunInv
<1>1. PICK m \in TMap, b \in TBridge : m = e.map /\ b = e.bridge
  BY DEF MapEntry
<1>2. /\ entries[x] = NoEntry /\ IsMap(m)
      /\ entries' = [entries EXCEPT ![x] = e]
      /\ mapRef' = [mapRef EXCEPT ![m] = @ + 1]
      /\ brRef' = [brRef EXCEPT ![b] = @ + 1]
      /\ UNCHANGED <<maps, seenFree, racedMap, tunnels, tports, rifRef, termVars, hopVars>>
  BY <1>1 DEF CreateMapEntry
<1>3. TunTypeOK'
  BY <1>2 DEF TunTypeOK, termVars, hopVars
<1>4. /\ OnMap(m)' = OnMap(m) \cup {x} /\ x \notin OnMap(m)
      /\ \A n \in TMap \ {m} : OnMap(n)' = OnMap(n)
  BY <1>1, <1>2, TunnelAssumption DEF OnMap, TunTypeOK
<1>5. /\ OnBridge(b)' = OnBridge(b) \cup {x} /\ x \notin OnBridge(b)
      /\ \A c \in TBridge \ {b} : OnBridge(c)' = OnBridge(c)
  BY <1>1, <1>2, TunnelAssumption DEF OnBridge, TunTypeOK
<1>6. /\ \A n : WithMap(n)' = WithMap(n)
      /\ \A t : (IsTunnel(t)' <=> IsTunnel(t)) /\ MapsOf(t)' = MapsOf(t)
  BY <1>2 DEF WithMap, IsTunnel, MapsOf
<1>7. /\ Cardinality(OnMap(m)') = Cardinality(OnMap(m)) + 1
      /\ Cardinality(OnBridge(b)') = Cardinality(OnBridge(b)) + 1
  BY <1>4, <1>5, MapSetsFinite, FS_AddElement
<1>8. MapsCounted'
  <2> SUFFICES ASSUME NEW n \in TMap \ racedMap, IsMap(n)
               PROVE  mapRef'[n] = Cardinality(OnMap(n)') + Cardinality(WithMap(n)')
    BY <1>2 DEF MapsCounted, IsMap
  <2>1. mapRef[n] = Cardinality(OnMap(n)) + Cardinality(WithMap(n))
    BY DEF MapPart, MapsCounted
  <2>2. mapRef'[n] = IF n = m THEN mapRef[n] + 1 ELSE mapRef[n]
    BY <1>2 DEF TunTypeOK
  <2>3. /\ Cardinality(WithMap(n)') = Cardinality(WithMap(n)) /\ Cardinality(WithMap(n)) \in Nat
        /\ Cardinality(OnMap(n)) \in Nat
    BY <1>6, MapSetsFinite
  <2>4. Cardinality(OnMap(n)') = IF n = m THEN Cardinality(OnMap(n)) + 1 ELSE Cardinality(OnMap(n))
    BY <1>4, <1>7
  <2> QED BY <2>1, <2>2, <2>3, <2>4
<1>9. BridgesCounted'
  <2> SUFFICES ASSUME NEW c \in TBridge  PROVE brRef'[c] = Cardinality(OnBridge(c)')
    BY DEF BridgesCounted
  <2>1. brRef[c] = Cardinality(OnBridge(c))
    BY DEF MapPart, BridgesCounted
  <2>2. brRef'[c] = IF c = b THEN brRef[c] + 1 ELSE brRef[c]
    BY <1>2 DEF TunTypeOK
  <2> QED BY <1>5, <1>7, <2>1, <2>2
<1>10. MapsExist' /\ RacedGone'
  <2>1. ASSUME NEW y \in TEntry, entries'[y] # NoEntry
        PROVE  entries'[y].map \in racedMap \/ maps[entries'[y].map] # "none"
    <3>1. CASE y = x
      BY <1>1, <1>2, <3>1 DEF TunTypeOK, IsMap
    <3>2. CASE y # x
      BY <1>2, <2>1, <3>2 DEF TunTypeOK, MapPart, MapsExist, IsMap
    <3> QED BY <3>1, <3>2
  <2> QED BY <1>2, <1>6, <2>1 DEF MapPart, MapsExist, RacedGone, IsMap
<1> QED BY <1>2, <1>3, <1>8, <1>9, <1>10, HopPartSame DEF MapPart

LEMMA RemoveMapEntryInv ==
  ASSUME TunInv, NEW x \in TEntry, RemoveMapEntry(x)
  PROVE  TunInv'
<1> USE DEF TunInv
<1>1. PICK e \in MapEntry : entries[x] = e
  BY DEF RemoveMapEntry, TunTypeOK
<1>2. PICK m \in TMap, b \in TBridge : m = e.map /\ b = e.bridge
  BY DEF MapEntry
<1>3. /\ entries[x] # NoEntry /\ IsMap(m)
      /\ entries' = [entries EXCEPT ![x] = NoEntry]
      /\ mapRef' = [mapRef EXCEPT ![m] = @ - 1]
      /\ brRef' = [brRef EXCEPT ![b] = @ - 1]
      /\ UNCHANGED <<maps, seenFree, racedMap, tunnels, tports, rifRef, termVars, hopVars>>
  BY <1>1, <1>2 DEF RemoveMapEntry
<1>4. m \notin racedMap
  BY <1>3 DEF MapPart, RacedGone
<1>5. /\ OnMap(m)' = OnMap(m) \ {x} /\ x \in OnMap(m)
      /\ \A n \in TMap \ {m} : OnMap(n)' = OnMap(n)
  BY <1>1, <1>2, <1>3 DEF OnMap, TunTypeOK
<1>6. /\ OnBridge(b)' = OnBridge(b) \ {x} /\ x \in OnBridge(b)
      /\ \A c \in TBridge \ {b} : OnBridge(c)' = OnBridge(c)
  BY <1>1, <1>2, <1>3 DEF OnBridge, TunTypeOK
<1>7. /\ \A n : WithMap(n)' = WithMap(n)
      /\ \A t : (IsTunnel(t)' <=> IsTunnel(t)) /\ MapsOf(t)' = MapsOf(t)
  BY <1>3 DEF WithMap, IsTunnel, MapsOf
<1>8. /\ Cardinality(OnMap(m)') = Cardinality(OnMap(m)) - 1 /\ Cardinality(OnMap(m)') \in Nat
      /\ Cardinality(OnBridge(b)') = Cardinality(OnBridge(b)) - 1 /\ Cardinality(OnBridge(b)') \in Nat
  <2>1. IsFiniteSet(OnMap(m)') /\ IsFiniteSet(OnBridge(b)')
    BY <1>5, <1>6, MapSetsFinite, FS_Subset
  <2> QED BY <1>5, <1>6, <2>1, MapSetsFinite, FS_RemoveElement, FS_CardinalityType
<1>9. MapsCounted'
  <2> SUFFICES ASSUME NEW n \in TMap \ racedMap, IsMap(n)
               PROVE  mapRef'[n] = Cardinality(OnMap(n)') + Cardinality(WithMap(n)')
    BY <1>3 DEF MapsCounted, IsMap
  <2>1. mapRef[n] = Cardinality(OnMap(n)) + Cardinality(WithMap(n))
    BY DEF MapPart, MapsCounted
  <2>2. mapRef'[n] = IF n = m THEN mapRef[n] - 1 ELSE mapRef[n]
    BY <1>3 DEF TunTypeOK
  <2>3. /\ Cardinality(WithMap(n)') = Cardinality(WithMap(n)) /\ Cardinality(WithMap(n)) \in Nat
        /\ Cardinality(OnMap(n)) \in Nat
    BY <1>7, MapSetsFinite
  <2>4. Cardinality(OnMap(n)') = IF n = m THEN Cardinality(OnMap(n)) - 1 ELSE Cardinality(OnMap(n))
    BY <1>5, <1>8
  <2> QED BY <2>1, <2>2, <2>3, <2>4
<1>10. BridgesCounted'
  <2> SUFFICES ASSUME NEW c \in TBridge  PROVE brRef'[c] = Cardinality(OnBridge(c)')
    BY DEF BridgesCounted
  <2>1. brRef[c] = Cardinality(OnBridge(c))
    BY DEF MapPart, BridgesCounted
  <2>2. brRef'[c] = IF c = b THEN brRef[c] - 1 ELSE brRef[c]
    BY <1>3 DEF TunTypeOK
  <2> QED BY <1>6, <1>8, <2>1, <2>2
<1>11. MapsExist' /\ RacedGone'
  <2>1. ASSUME NEW y \in TEntry, entries'[y] # NoEntry  PROVE entries'[y] = entries[y]
    BY <1>3, <2>1 DEF TunTypeOK
  <2> QED BY <1>3, <1>7, <2>1 DEF MapPart, MapsExist, RacedGone, IsMap
<1>12. TunTypeOK'
  <2>1. mapRef'[m] \in Nat
    BY <1>3, <1>4, <1>8, <1>9, MapSetsFinite, <1>7 DEF MapsCounted, IsMap
  <2>2. mapRef' \in [TMap -> Nat]
    BY <1>3, <2>1 DEF TunTypeOK
  <2>3. brRef'[b] \in Nat
    BY <1>8, <1>10 DEF BridgesCounted
  <2>4. brRef' \in [TBridge -> Nat]
    BY <1>3, <2>3 DEF TunTypeOK
  <2> QED BY <1>3, <2>2, <2>4 DEF TunTypeOK, termVars, hopVars
<1> QED BY <1>3, <1>9, <1>10, <1>11, <1>12, HopPartSame DEF MapPart

(* The VNI of an entry is moved, or its bridge.                            *)
LEMMA SetMapEntryInv ==
  ASSUME TunInv, NEW x \in TEntry, SetMapEntry(x)
  PROVE  TunInv'
<1> USE DEF TunInv
<1>1. PICK e \in MapEntry : entries[x] = e
  BY DEF SetMapEntry, TunTypeOK
<1>2. PICK b \in TBridge : b = e.bridge
  BY DEF MapEntry
<1>3. /\ e # NoEntry /\ IsMap(e.map)
      /\ UNCHANGED <<maps, mapRef, seenFree, racedMap, tunnels, tports, rifRef, termVars, hopVars>>
  BY <1>1 DEF SetMapEntry
<1>4. \E f \in MapEntry :
        /\ f.map = e.map
        /\ entries' = [entries EXCEPT ![x] = f]
        /\ brRef' = IF f.bridge = e.bridge THEN brRef ELSE MovedEntry(e.bridge, f.bridge)
  <2>1. CASE \E v \in Vni : entries' = [entries EXCEPT ![x].vni = v] /\ UNCHANGED brRef
    <3>1. PICK v \in Vni : entries' = [entries EXCEPT ![x].vni = v] /\ UNCHANGED brRef
      BY <2>1
    <3>2. PICK f : f = [e EXCEPT !.vni = v]
      OBVIOUS
    <3>3. f \in MapEntry /\ f.map = e.map /\ f.bridge = e.bridge
      BY <3>2 DEF MapEntry
    <3>4. entries' = [entries EXCEPT ![x] = f]
      BY <1>1, <3>1, <3>2
    <3> QED BY <3>1, <3>3, <3>4
  <2>2. CASE \E c \in TBridge : entries' = [entries EXCEPT ![x].bridge = c] /\ brRef' = MovedEntry(e.bridge, c)
    <3>1. PICK c \in TBridge : entries' = [entries EXCEPT ![x].bridge = c] /\ brRef' = MovedEntry(e.bridge, c)
      BY <2>2
    <3>2. PICK f : f = [e EXCEPT !.bridge = c]
      OBVIOUS
    <3>3. f \in MapEntry /\ f.map = e.map /\ f.bridge = c
      BY <3>2 DEF MapEntry
    <3>4. entries' = [entries EXCEPT ![x] = f]
      BY <1>1, <3>1, <3>2
    <3>5. c = b => brRef' = brRef
      <4> SUFFICES ASSUME c = b  PROVE brRef' = brRef
        OBVIOUS
      <4>1. brRef' = [[brRef EXCEPT ![b] = @ - 1] EXCEPT ![b] = @ + 1]
        BY <1>2, <3>1 DEF MovedEntry
      <4>2. brRef' \in [TBridge -> Int] /\ \A d \in TBridge : brRef'[d] = brRef[d]
        BY <4>1 DEF TunTypeOK
      <4> QED BY <4>2 DEF TunTypeOK
    <3> QED BY <1>2, <3>1, <3>3, <3>4, <3>5
  <2> QED BY <1>1, <2>1, <2>2 DEF SetMapEntry
<1>5. PICK f \in MapEntry :
        /\ f.map = e.map
        /\ entries' = [entries EXCEPT ![x] = f]
        /\ brRef' = IF f.bridge = e.bridge THEN brRef ELSE MovedEntry(e.bridge, f.bridge)
  BY <1>4
<1>6. PICK c \in TBridge : c = f.bridge
  BY DEF MapEntry
<1>7. /\ \A n : OnMap(n)' = OnMap(n) /\ WithMap(n)' = WithMap(n)
      /\ \A t : (IsTunnel(t)' <=> IsTunnel(t)) /\ MapsOf(t)' = MapsOf(t)
  BY <1>1, <1>3, <1>5, TunnelAssumption DEF OnMap, WithMap, IsTunnel, MapsOf, TunTypeOK
<1>8. MapsCounted'
  BY <1>3, <1>7 DEF MapPart, MapsCounted, IsMap
<1>9. BridgesCounted' /\ brRef' \in [TBridge -> Nat]
  <2>1. CASE c = b
    <3>1. ASSUME NEW d
          PROVE  {y \in TEntry : entries'[y] # NoEntry /\ entries'[y].bridge = d}
               = {y \in TEntry : entries[y] # NoEntry /\ entries[y].bridge = d}
      BY <1>1, <1>2, <1>3, <1>5, <1>6, <2>1, TunnelAssumption DEF TunTypeOK
    <3>2. \A d : OnBridge(d)' = OnBridge(d)
      BY <3>1, Zenon DEF OnBridge
    <3> QED BY <1>2, <1>5, <1>6, <2>1, <3>2 DEF MapPart, BridgesCounted, TunTypeOK
  <2>2. CASE c # b
    <3>1. brRef' = [[brRef EXCEPT ![b] = @ - 1] EXCEPT ![c] = @ + 1]
      BY <1>2, <1>5, <1>6, <2>2 DEF MovedEntry
    <3>2. /\ OnBridge(b)' = OnBridge(b) \ {x} /\ x \in OnBridge(b)
          /\ OnBridge(c)' = OnBridge(c) \cup {x} /\ x \notin OnBridge(c)
          /\ \A d \in TBridge \ {b, c} : OnBridge(d)' = OnBridge(d)
      BY <1>1, <1>2, <1>3, <1>5, <1>6, <2>2, TunnelAssumption DEF OnBridge, TunTypeOK
    <3>3. IsFiniteSet(OnBridge(b)')
      BY <3>2, MapSetsFinite, FS_Subset
    <3>4. Cardinality(OnBridge(b)') = Cardinality(OnBridge(b)) - 1 /\ Cardinality(OnBridge(b)') \in Nat
      BY <3>2, <3>3, MapSetsFinite, FS_RemoveElement, FS_CardinalityType
    <3>5. Cardinality(OnBridge(c)') = Cardinality(OnBridge(c)) + 1
      BY <3>2, MapSetsFinite, FS_AddElement
    <3>6. ASSUME NEW d \in TBridge  PROVE brRef'[d] = Cardinality(OnBridge(d)') /\ brRef'[d] \in Nat
      <4>1. brRef[d] = Cardinality(OnBridge(d)) /\ brRef[d] \in Nat
        BY DEF MapPart, BridgesCounted, TunTypeOK
      <4>2. brRef'[d] = IF d = b THEN brRef[d] - 1 ELSE IF d = c THEN brRef[d] + 1 ELSE brRef[d]
        BY <2>2, <3>1 DEF TunTypeOK
      <4>3. CASE d = b
        BY <3>4, <4>1, <4>2, <4>3
      <4>4. CASE d = c
        BY <2>2, <3>5, <4>1, <4>2, <4>4
      <4>5. CASE d \notin {b, c}
        BY <3>2, <4>1, <4>2, <4>5
      <4> QED BY <4>3, <4>4, <4>5
    <3>7. brRef' \in [TBridge -> Nat]
      <4>1. brRef' = [d \in TBridge |-> brRef'[d]]
        BY <3>1 DEF TunTypeOK
      <4> QED BY <3>6, <4>1
    <3> QED BY <3>6, <3>7 DEF BridgesCounted
  <2> QED BY <2>1, <2>2
<1>10. MapsExist' /\ RacedGone'
  <2>1. ASSUME NEW y \in TEntry, entries'[y] # NoEntry
        PROVE  entries[y] # NoEntry /\ entries'[y].map = entries[y].map
    BY <1>1, <1>3, <1>5, <2>1 DEF TunTypeOK
  <2> QED BY <1>3, <1>7, <2>1 DEF MapPart, MapsExist, RacedGone, IsMap
<1>11. TunTypeOK'
  BY <1>3, <1>5, <1>9 DEF TunTypeOK, termVars, hopVars
<1> QED BY <1>3, <1>8, <1>9, <1>10, <1>11, HopPartSame DEF MapPart
---------------------------------------------------------------------------
(* Tunnels                                                                 *)

(* The tunnels that the count of a map and of a router interface are about *)
LEMMA TunnelOnType ==
  ASSUME NEW a, NEW r \in TRif
  PROVE  /\ TunnelOn(a)[r] = (IF a.under = r THEN 1 ELSE 0) + (IF a.over = r THEN 1 ELSE 0)
         /\ TunnelOn(a)[r] \in 0..2
BY DEF TunnelOn

LEMMA CreateTunnelInv ==
  ASSUME TunInv, NEW t \in Tunnel, NEW a \in TunnelInfo, CreateTunnel(t, a)
  PROVE  TunInv'
<1> USE DEF TunInv
<1> DEFINE ms == {a.encap, a.decap} \ {NoMap}
<1>1. /\ ~IsTunnel(t) /\ GoodTunnel(a)
      /\ UNCHANGED <<maps, seenFree, racedMap, entries, brRef, tports, termVars, hopVars>>
  BY DEF CreateTunnel
<1>2. ms \subseteq TMap /\ \A m \in ms : IsMap(m)
  BY <1>1 DEF GoodTunnel, IsMap, TunnelInfo
<1>3. CASE mapRef' = MapperClean(MapperSet(mapRef, ms), ms) /\ UNCHANGED <<tunnels, rifRef>>
  <2>1. ASSUME NEW m \in TMap  PROVE MapperClean(MapperSet(mapRef, ms), ms)[m] = mapRef[m]
    <3>1. mapRef[m] \in Nat
      BY DEF TunTypeOK
    <3>2. MapperSet(mapRef, ms)[m] = IF m \in ms THEN mapRef[m] + 1 ELSE mapRef[m]
      BY DEF MapperSet
    <3>3. CASE m \in ms
      BY <1>2, <3>1, <3>2, <3>3 DEF MapperClean
    <3>4. CASE m \notin ms
      BY <3>2, <3>4 DEF MapperClean
    <3> QED BY <3>3, <3>4
  <2>2. MapperClean(MapperSet(mapRef, ms), ms) = [m \in TMap |-> MapperClean(MapperSet(mapRef, ms), ms)[m]]
    BY DEF MapperClean
  <2>3. mapRef' = mapRef
    BY <1>3, <2>1, <2>2 DEF TunTypeOK
  <2>4. UNCHANGED mapVarsT
    BY <1>1, <2>3 DEF mapVarsT
  <2>5. TunTypeOK'
    BY <1>1, <1>3, <2>3 DEF TunTypeOK, termVars, hopVars
  <2>6. MapPart'
    BY <1>3, <2>4, MapPartSame
  <2> QED BY <1>1, <1>3, <2>5, <2>6, HopPartSame
<1>4. CASE /\ tunnels' = [tunnels EXCEPT ![t] = a]
           /\ mapRef' = MapperSet(mapRef, ms)
           /\ rifRef' = [r \in TRif |-> rifRef[r] + TunnelOn(a)[r]]
  <2>1. UNCHANGED <<terms, termTree, hops, underlay, undo, unsure, strayHop>>
    BY <1>1 DEF termVars, hopVars
  <2>2. /\ tunnels'[t] = a /\ a # NoTunnel
        /\ \A u \in Tunnel \ {t} : tunnels'[u] = tunnels[u]
    BY <1>4, TunnelAssumption DEF TunTypeOK
  <2>3. TunTypeOK'
    <3>1. mapRef' \in [TMap -> Nat]
      BY <1>4 DEF TunTypeOK, MapperSet
    <3>2. rifRef' \in [TRif -> Nat]
      BY <1>4, TunnelOnType DEF TunTypeOK
    <3>3. tunnels' \in [Tunnel -> TunnelInfo \cup {NoTunnel}]
      BY <1>4 DEF TunTypeOK
    <3> QED BY <1>1, <2>1, <3>1, <3>2, <3>3 DEF TunTypeOK
  <2>4. IsTunnel(t)' /\ \A u \in Tunnel \ {t} : /\ IsTunnel(u)' <=> IsTunnel(u)
                                               /\ MapsOf(u)' = MapsOf(u)
    BY <2>2 DEF IsTunnel, MapsOf
  <2>5. MapsOf(t)' = ms
    BY <2>2 DEF MapsOf
  <2>6. \A m \in TMap : /\ OnMap(m)' = OnMap(m) /\ t \notin WithMap(m)
                       /\ WithMap(m)' = IF m \in ms THEN WithMap(m) \cup {t} ELSE WithMap(m)
    BY <1>1, <2>4, <2>5 DEF OnMap, WithMap
  <2>7. MapsCounted'
    <3> SUFFICES ASSUME NEW m \in TMap \ racedMap, IsMap(m)
                 PROVE  mapRef'[m] = Cardinality(OnMap(m)') + Cardinality(WithMap(m)')
      BY <1>1 DEF MapsCounted, IsMap
    <3>1. mapRef[m] = Cardinality(OnMap(m)) + Cardinality(WithMap(m))
      BY DEF MapPart, MapsCounted
    <3>2. mapRef'[m] = IF m \in ms THEN mapRef[m] + 1 ELSE mapRef[m]
      BY <1>4 DEF MapperSet
    <3>3. /\ Cardinality(WithMap(m) \cup {t}) = Cardinality(WithMap(m)) + 1
          /\ Cardinality(WithMap(m)) \in Nat /\ Cardinality(OnMap(m)) \in Nat
      BY <2>6, MapSetsFinite, FS_AddElement
    <3>4. /\ Cardinality(OnMap(m)') = Cardinality(OnMap(m))
          /\ Cardinality(WithMap(m)') = IF m \in ms THEN Cardinality(WithMap(m)) + 1 ELSE Cardinality(WithMap(m))
      BY <2>6, <3>3
    <3> QED BY <3>1, <3>2, <3>3, <3>4
  <2>8. MapPart'
    <3>1. BridgesCounted' /\ RacedGone'
      BY <1>1 DEF MapPart, BridgesCounted, OnBridge, RacedGone, IsMap
    <3>2. MapsExist'
      BY <1>1, <1>2, <2>4, <2>5 DEF MapPart, MapsExist, IsMap
    <3> QED BY <2>7, <3>1, <3>2 DEF MapPart
  <2>9. RifsCounted'
    <3> SUFFICES ASSUME NEW r \in TRif
                 PROVE  rifRef'[r] = Cardinality(UnderOn(r)') + Cardinality(OverOn(r)') + Cardinality(HopsAt(r)')
      BY DEF RifsCounted
    <3>1. rifRef[r] = Cardinality(UnderOn(r)) + Cardinality(OverOn(r)) + Cardinality(HopsAt(r))
      BY DEF HopPart, RifsCounted
    <3>2. rifRef'[r] = rifRef[r] + ((IF a.under = r THEN 1 ELSE 0) + (IF a.over = r THEN 1 ELSE 0))
      BY <1>4, TunnelOnType
    <3>3. /\ t \notin UnderOn(r) /\ t \notin OverOn(r)
          /\ UnderOn(r)' = (IF a.under = r THEN UnderOn(r) \cup {t} ELSE UnderOn(r))
          /\ OverOn(r)' = (IF a.over = r THEN OverOn(r) \cup {t} ELSE OverOn(r))
          /\ HopsAt(r)' = HopsAt(r)
      BY <1>1, <2>1, <2>2, <2>4 DEF UnderOn, OverOn, HopsAt
    <3>4. /\ Cardinality(UnderOn(r) \cup {t}) = Cardinality(UnderOn(r)) + 1
          /\ Cardinality(OverOn(r) \cup {t}) = Cardinality(OverOn(r)) + 1
          /\ Cardinality(UnderOn(r)) \in Nat /\ Cardinality(OverOn(r)) \in Nat
          /\ Cardinality(HopsAt(r)) \in Nat
      BY <3>3, RifSetsFinite, FS_AddElement
    <3>5. /\ Cardinality(UnderOn(r)') = Cardinality(UnderOn(r)) + (IF a.under = r THEN 1 ELSE 0)
          /\ Cardinality(OverOn(r)') = Cardinality(OverOn(r)) + (IF a.over = r THEN 1 ELSE 0)
          /\ Cardinality(HopsAt(r)') = Cardinality(HopsAt(r))
      BY <3>3, <3>4
    <3> QED BY <3>1, <3>2, <3>4, <3>5
  <2>10. HopsCounted'
    <3>1. \A h : TermsOn(h)' = TermsOn(h)
      <4>1. \A x \in Term : terms[x] # NoTerm => terms[x].tunnel \in Tunnel \ {t}
        BY <1>1 DEF HopPart, OwnersExist, TunTypeOK, TermInfo
      <4> QED BY <2>1, <2>2, <4>1 DEF TermsOn, HopKey
    <3>2. \A h : CountOf(h)' = CountOf(h) /\ Uses(h)' = Uses(h)
      BY <2>1, <3>1 DEF CountOf, Uses, UnderlayOf, Pending
    <3> QED BY <2>1, <3>2 DEF HopPart, HopsCounted
  <2>11. OwnersExist' /\ StrayPlain'
    <3>1. \A u : IsTunnel(u) /\ u \in Tunnel => IsTunnel(u)'
      BY <2>4
    <3>2. \A x \in Term : terms[x] # NoTerm => terms[x].tunnel \in Tunnel
      BY DEF TunTypeOK, TermInfo
    <3>3. \A h \in Hop : hops[h] # NoHop => hops[h].owner \in Tunnel
      BY DEF TunTypeOK, HopInfo
    <3> QED BY <2>1, <3>1, <3>2, <3>3 DEF HopPart, OwnersExist, StrayPlain, IsTunnel
  <2> QED BY <2>3, <2>8, <2>9, <2>10, <2>11 DEF HopPart
<1> QED BY <1>3, <1>4 DEF CreateTunnel
LEMMA RemoveTunnelInv ==
  ASSUME TunInv, NEW t \in Tunnel, RemoveTunnel(t)
  PROVE  TunInv'
<1> USE DEF TunInv
<1>1. /\ IsTunnel(t) /\ TunnelFree(t)
      /\ tunnels' = [tunnels EXCEPT ![t] = NoTunnel]
      /\ mapRef' = MapperClean(mapRef, MapsOf(t))
      /\ rifRef' = [r \in TRif |-> rifRef[r] - TunnelOn(tunnels[t])[r]]
      /\ undo' = IF undo # NoUndo /\ undo.tunnel = t THEN [undo EXCEPT !.live = FALSE] ELSE undo
      /\ UNCHANGED <<maps, seenFree, racedMap, entries, brRef, tports, termVars, hops, underlay, unsure, strayHop>>
  BY DEF RemoveTunnel
<1>2. UNCHANGED <<terms, termTree>>
  BY <1>1 DEF termVars
<1>3. PICK a \in TunnelInfo : tunnels[t] = a
  BY <1>1 DEF TunTypeOK, IsTunnel
<1>4. /\ ~IsTunnel(t)' /\ \A u \in Tunnel \ {t} : tunnels'[u] = tunnels[u]
  BY <1>1 DEF TunTypeOK, IsTunnel
<1>5. \A u \in Tunnel \ {t} : (IsTunnel(u)' <=> IsTunnel(u)) /\ MapsOf(u)' = MapsOf(u)
  BY <1>4 DEF IsTunnel, MapsOf
<1>6. /\ \A x \in Term : terms[x] # NoTerm => terms[x].tunnel \in Tunnel \ {t}
      /\ \A h \in Hop : hops[h] # NoHop => hops[h].owner \in Tunnel \ {t}
  BY <1>1 DEF TunnelFree, TermsOf, HopsOf, TunTypeOK, TermInfo, HopInfo
<1>7. MapsCounted'
  <2> SUFFICES ASSUME NEW m \in TMap \ racedMap, IsMap(m)
               PROVE  mapRef'[m] = Cardinality(OnMap(m)') + Cardinality(WithMap(m)')
    BY <1>1 DEF MapsCounted, IsMap
  <2>1. mapRef[m] = Cardinality(OnMap(m)) + Cardinality(WithMap(m))
    BY DEF MapPart, MapsCounted
  <2>2. Cardinality(OnMap(m)) \in Nat /\ Cardinality(WithMap(m)) \in Nat /\ IsFiniteSet(WithMap(m))
    BY MapSetsFinite
  <2>3. OnMap(m)' = OnMap(m)
    BY <1>1 DEF OnMap
  <2>4. CASE m \in MapsOf(t)
    <3>1. t \in WithMap(m) /\ WithMap(m)' = WithMap(m) \ {t}
      BY <1>1, <1>4, <1>5, <2>4 DEF WithMap
    <3>2. Cardinality(WithMap(m) \ {t}) = Cardinality(WithMap(m)) - 1 /\ Cardinality(WithMap(m) \ {t}) \in Nat
      <4>1. IsFiniteSet(WithMap(m) \ {t})
        BY <2>2, FS_Subset
      <4> QED BY <2>2, <3>1, <4>1, FS_RemoveElement, FS_CardinalityType
    <3>3. Cardinality(WithMap(m)') = Cardinality(WithMap(m)) - 1 /\ Cardinality(WithMap(m)') \in Nat
      BY <3>1, <3>2
    <3>4. mapRef[m] > 0
      BY <2>1, <2>2, <3>3
    <3>5. mapRef'[m] = mapRef[m] - 1
      BY <1>1, <2>4, <3>4 DEF MapperClean
    <3>6. Cardinality(OnMap(m)') = Cardinality(OnMap(m))
      BY <2>3
    <3> QED BY <2>1, <2>2, <3>3, <3>5, <3>6
  <2>5. CASE m \notin MapsOf(t)
    <3>1. WithMap(m)' = WithMap(m)
      BY <1>4, <1>5, <2>5 DEF WithMap
    <3>2. mapRef'[m] = mapRef[m]
      BY <1>1, <2>5 DEF MapperClean
    <3> QED BY <2>1, <2>3, <3>1, <3>2
  <2> QED BY <2>4, <2>5
<1>8. MapPart'
  <2>1. BridgesCounted' /\ RacedGone'
    BY <1>1 DEF MapPart, BridgesCounted, OnBridge, RacedGone, IsMap
  <2>2. MapsExist'
    BY <1>1, <1>4, <1>5 DEF MapPart, MapsExist, IsMap
  <2> QED BY <1>7, <2>1, <2>2 DEF MapPart
<1>9. ASSUME NEW r \in TRif
      PROVE  /\ rifRef'[r] = Cardinality(UnderOn(r)') + Cardinality(OverOn(r)') + Cardinality(HopsAt(r)')
             /\ rifRef'[r] \in Nat
  <2>1. rifRef[r] = Cardinality(UnderOn(r)) + Cardinality(OverOn(r)) + Cardinality(HopsAt(r))
    BY DEF HopPart, RifsCounted
  <2>2. rifRef'[r] = rifRef[r] - ((IF a.under = r THEN 1 ELSE 0) + (IF a.over = r THEN 1 ELSE 0))
    BY <1>1, <1>3, TunnelOnType
  <2>3. /\ UnderOn(r)' = (IF a.under = r THEN UnderOn(r) \ {t} ELSE UnderOn(r))
        /\ OverOn(r)' = (IF a.over = r THEN OverOn(r) \ {t} ELSE OverOn(r))
        /\ a.under = r => t \in UnderOn(r)
        /\ a.over = r => t \in OverOn(r)
        /\ HopsAt(r)' = HopsAt(r)
    BY <1>1, <1>3, <1>4, <1>5 DEF UnderOn, OverOn, HopsAt
  <2>4. /\ IsFiniteSet(UnderOn(r)) /\ IsFiniteSet(OverOn(r))
        /\ Cardinality(UnderOn(r)) \in Nat /\ Cardinality(OverOn(r)) \in Nat
        /\ Cardinality(HopsAt(r)) \in Nat
    BY RifSetsFinite
  <2>5. ASSUME NEW S, IsFiniteSet(S), t \in S
        PROVE  Cardinality(S \ {t}) = Cardinality(S) - 1 /\ Cardinality(S \ {t}) \in Nat
    <3>1. IsFiniteSet(S \ {t})
      BY <2>5, FS_Subset
    <3> QED BY <2>5, <3>1, FS_RemoveElement, FS_CardinalityType
  <2>6. /\ Cardinality(UnderOn(r)') = Cardinality(UnderOn(r)) - (IF a.under = r THEN 1 ELSE 0)
        /\ Cardinality(UnderOn(r)') \in Nat
    BY <2>3, <2>4, <2>5
  <2>7. /\ Cardinality(OverOn(r)') = Cardinality(OverOn(r)) - (IF a.over = r THEN 1 ELSE 0)
        /\ Cardinality(OverOn(r)') \in Nat
    BY <2>3, <2>4, <2>5
  <2>8. Cardinality(HopsAt(r)') = Cardinality(HopsAt(r))
    BY <2>3
  <2>9. rifRef'[r] = Cardinality(UnderOn(r)') + Cardinality(OverOn(r)') + Cardinality(HopsAt(r)')
    BY <2>1, <2>2, <2>4, <2>6, <2>7, <2>8
  <2> QED BY <2>4, <2>6, <2>7, <2>8, <2>9
<1>10. RifsCounted'
  BY <1>9 DEF RifsCounted
<1>11. HopsCounted'
  <2>1. \A h : TermsOn(h)' = TermsOn(h)
    BY <1>2, <1>4, <1>6 DEF TermsOn, HopKey
  <2>2. \A h : Pending(h)' = Pending(h)
    <3>1. CASE undo = NoUndo
      BY <1>1, <3>1 DEF Pending
    <3>2. CASE undo \in UndoInfo
      <4>1. undo' \in UndoInfo /\ undo'.hop = undo.hop
        BY <1>1, <3>2 DEF UndoInfo
      <4> QED BY <3>2, <4>1, TunnelAssumption DEF Pending
    <3> QED BY <3>1, <3>2 DEF TunTypeOK
  <2>3. \A h : CountOf(h)' = CountOf(h) /\ Uses(h)' = Uses(h)
    BY <1>1, <2>1, <2>2 DEF CountOf, Uses, UnderlayOf
  <2> QED BY <1>1, <2>3 DEF HopPart, HopsCounted
<1>12. OwnersExist' /\ StrayPlain'
  <2>1. \A u \in Tunnel \ {t} : IsTunnel(u) => tunnels'[u] # NoTunnel
    BY <1>4 DEF IsTunnel
  <2> QED BY <1>1, <1>2, <1>6, <2>1 DEF HopPart, OwnersExist, StrayPlain, IsTunnel
<1>13. TunTypeOK'
  <2>1. mapRef' \in [TMap -> Nat]
    <3>1. \A m \in TMap : mapRef'[m] \in Nat
      BY <1>1 DEF TunTypeOK, MapperClean
    <3>2. mapRef' = [m \in TMap |-> mapRef'[m]]
      BY <1>1 DEF MapperClean
    <3> QED BY <3>1, <3>2
  <2>2. rifRef' \in [TRif -> Nat]
    <3>1. rifRef' = [r \in TRif |-> rifRef'[r]]
      BY <1>1
    <3> QED BY <1>9, <3>1
  <2>3. tunnels' \in [Tunnel -> TunnelInfo \cup {NoTunnel}]
    BY <1>1 DEF TunTypeOK
  <2>4. undo' \in UndoInfo \cup {NoUndo}
    BY <1>1 DEF TunTypeOK, UndoInfo
  <2> QED BY <1>1, <1>2, <2>1, <2>2, <2>3, <2>4 DEF TunTypeOK
<1> QED BY <1>8, <1>10, <1>11, <1>12, <1>13 DEF HopPart

LEMMA TunnelPortInv ==
  ASSUME TunInv, NEW b \in TBridge, NEW t \in Tunnel, AddTunnelPort(b, t) \/ RemoveTunnelPort(b, t)
  PROVE  TunInv'
<1>1. /\ tports' \subseteq TBridge \X Tunnel
      /\ UNCHANGED <<mapVarsT, tunnels, rifRef, termVars, hopVars>>
  BY DEF AddTunnelPort, RemoveTunnelPort, TunInv, TunTypeOK
<1>2. TunTypeOK'
  BY <1>1 DEF TunInv, TunTypeOK, mapVarsT, termVars, hopVars
<1> QED BY <1>1, <1>2, MapPartSame, HopPartSame DEF TunInv
---------------------------------------------------------------------------
(* Hops and termination entries                                            *)

(* What the making and the removal of a hop are about, and who uses hops   *)
HopRest ==
  /\ hops \in [Hop -> HopInfo \cup {NoHop}]
  /\ rifRef \in [TRif -> Nat]
  /\ strayHop \subseteq Hop
  /\ RifsCounted /\ StrayPlain
  /\ \A h \in Hop : hops[h] # NoHop => IsTunnel(hops[h].owner)
UsersTyped ==
  /\ terms \in [Term -> TermInfo \cup {NoTerm}]
  /\ termTree \subseteq {x \in Term : terms[x] # NoTerm}
  /\ underlay \subseteq Hop \X Tunnel
  /\ undo \in UndoInfo \cup {NoUndo}
  /\ unsure \subseteq Hop
  /\ \A x \in Term : terms[x] # NoTerm => IsTunnel(terms[x].tunnel)

LEMMA HopParts == TunInv => HopRest /\ UsersTyped
BY DEF TunInv, TunTypeOK, HopPart, HopRest, UsersTyped, OwnersExist

LEMMA HopStepInv ==
  ASSUME TunInv, UNCHANGED <<mapVarsT, tunnels, tports>>, HopRest', UsersTyped', HopsCounted'
  PROVE  TunInv'
<1>1. MapPart'
  BY MapPartSame DEF TunInv
<1>2. TunTypeOK'
  BY DEF TunInv, TunTypeOK, mapVarsT, HopRest, UsersTyped
<1>3. HopPart'
  BY DEF HopPart, HopRest, UsersTyped, OwnersExist
<1> QED BY <1>1, <1>2, <1>3 DEF TunInv

LEMMA HopKeyIs ==
  ASSUME TunTypeOK, NEW t \in Tunnel, IsTunnel(t), NEW ip \in Ip
  PROVE  HopKey(t, ip) \in Hop
<1>1. tunnels[t] \in TunnelInfo
  BY DEF TunTypeOK, IsTunnel
<1>2. tunnels[t].under \in TRif /\ tunnels[t].type \in {"vxlan", "ipinip"}
  BY <1>1, TunnelAssumption DEF TunnelInfo
<1> QED BY <1>2 DEF HopKey, Hop

(* A router interface gains or loses one hop.                              *)
LEMMA RifGains ==
  ASSUME HopRest, NEW h \in Hop, NEW new \in HopInfo, hops[h] = NoHop,
         hops' = [hops EXCEPT ![h] = new], rifRef' = [rifRef EXCEPT ![h.rif] = @ + 1],
         UNCHANGED tunnels
  PROVE  RifsCounted' /\ rifRef' \in [TRif -> Nat]
<1>1. h.rif \in TRif
  BY DEF Hop
<1>2. rifRef' \in [TRif -> Nat]
  BY <1>1 DEF HopRest
<1>3. ASSUME NEW r \in TRif
      PROVE  rifRef'[r] = Cardinality(UnderOn(r)') + Cardinality(OverOn(r)') + Cardinality(HopsAt(r)')
  <2>1. rifRef[r] = Cardinality(UnderOn(r)) + Cardinality(OverOn(r)) + Cardinality(HopsAt(r))
    BY DEF HopRest, RifsCounted
  <2>2. rifRef'[r] = IF h.rif = r THEN rifRef[r] + 1 ELSE rifRef[r]
    BY <1>1 DEF HopRest
  <2>3. Cardinality(UnderOn(r)') = Cardinality(UnderOn(r)) /\ Cardinality(OverOn(r)') = Cardinality(OverOn(r))
    BY DEF UnderOn, OverOn, IsTunnel
  <2>4. HopsAt(r)' = (IF h.rif = r THEN HopsAt(r) \cup {h} ELSE HopsAt(r)) /\ h \notin HopsAt(r)
    BY TunnelAssumption DEF HopsAt, HopRest
  <2>5. /\ Cardinality(HopsAt(r) \cup {h}) = Cardinality(HopsAt(r)) + 1
        /\ Cardinality(HopsAt(r)) \in Nat /\ Cardinality(UnderOn(r)) \in Nat /\ Cardinality(OverOn(r)) \in Nat
    BY <2>4, RifSetsFinite, FS_AddElement
  <2>6. Cardinality(HopsAt(r)') = IF h.rif = r THEN Cardinality(HopsAt(r)) + 1 ELSE Cardinality(HopsAt(r))
    BY <2>4, <2>5
  <2> QED BY <2>1, <2>2, <2>3, <2>5, <2>6
<1> QED BY <1>2, <1>3 DEF RifsCounted

LEMMA RifLoses ==
  ASSUME HopRest, NEW h \in Hop, hops[h] # NoHop,
         hops' = [hops EXCEPT ![h] = NoHop], rifRef' = [rifRef EXCEPT ![h.rif] = @ - 1],
         UNCHANGED tunnels
  PROVE  RifsCounted' /\ rifRef' \in [TRif -> Nat]
<1>1. h.rif \in TRif
  BY DEF Hop
<1>2. ASSUME NEW r \in TRif
      PROVE  /\ rifRef'[r] = Cardinality(UnderOn(r)') + Cardinality(OverOn(r)') + Cardinality(HopsAt(r)')
             /\ rifRef'[r] \in Nat
  <2>1. rifRef[r] = Cardinality(UnderOn(r)) + Cardinality(OverOn(r)) + Cardinality(HopsAt(r))
    BY DEF HopRest, RifsCounted
  <2>2. rifRef'[r] = IF h.rif = r THEN rifRef[r] - 1 ELSE rifRef[r]
    BY <1>1 DEF HopRest
  <2>3. Cardinality(UnderOn(r)') = Cardinality(UnderOn(r)) /\ Cardinality(OverOn(r)') = Cardinality(OverOn(r))
    BY DEF UnderOn, OverOn, IsTunnel
  <2>4. HopsAt(r)' = (IF h.rif = r THEN HopsAt(r) \ {h} ELSE HopsAt(r)) /\ (h.rif = r => h \in HopsAt(r))
    BY DEF HopsAt, HopRest
  <2>5. /\ IsFiniteSet(HopsAt(r))
        /\ Cardinality(HopsAt(r)) \in Nat /\ Cardinality(UnderOn(r)) \in Nat /\ Cardinality(OverOn(r)) \in Nat
    BY RifSetsFinite
  <2>6. IsFiniteSet(HopsAt(r) \ {h})
    BY <2>5, FS_Subset
  <2>7. /\ h.rif = r => Cardinality(HopsAt(r) \ {h}) = Cardinality(HopsAt(r)) - 1
        /\ Cardinality(HopsAt(r) \ {h}) \in Nat
    BY <2>4, <2>5, <2>6, FS_RemoveElement, FS_CardinalityType
  <2>8. Cardinality(HopsAt(r)') = IF h.rif = r THEN Cardinality(HopsAt(r)) - 1 ELSE Cardinality(HopsAt(r))
    BY <2>4, <2>7
  <2>9. Cardinality(HopsAt(r)') \in Nat
    BY <2>4, <2>5, <2>7
  <2>10. rifRef'[r] = Cardinality(UnderOn(r)') + Cardinality(OverOn(r)') + Cardinality(HopsAt(r)')
    BY <2>1, <2>2, <2>3, <2>5, <2>8
  <2> QED BY <2>3, <2>5, <2>9, <2>10
<1>3. rifRef' \in [TRif -> Nat]
  <2>1. rifRef' = [r \in TRif |-> rifRef'[r]]
    BY DEF HopRest
  <2> QED BY <1>2, <2>1
<1> QED BY <1>2, <1>3 DEF RifsCounted

(* A hop of which only the count changes                                   *)
LEMMA RifSame ==
  ASSUME HopRest, NEW h \in Hop, NEW new \in HopInfo, hops[h] # NoHop,
         hops' = [hops EXCEPT ![h] = new], UNCHANGED <<rifRef, tunnels>>
  PROVE  RifsCounted' /\ rifRef' \in [TRif -> Nat]
<1>1. \A r : HopsAt(r)' = HopsAt(r) /\ UnderOn(r)' = UnderOn(r) /\ OverOn(r)' = OverOn(r)
  BY TunnelAssumption DEF HopsAt, UnderOn, OverOn, IsTunnel, HopRest
<1> QED BY <1>1 DEF RifsCounted, HopRest
OthersSame(h) == \A g \in Hop \ {h} : hops'[g] = hops[g]

LEMMA NhSetupDoes ==
  ASSUME HopRest, NEW t \in Tunnel, IsTunnel(t), NEW h \in Hop, NhSetup(t, h),
         UNCHANGED <<tunnels, strayHop>>
  PROVE  HopRest' /\ OthersSame(h) /\ CountOf(h)' = CountOf(h) + 1
<1>1. CASE hops[h] = NoHop
  <2>1. PICK new \in HopInfo : new = [ref |-> 1, owner |-> t, api |-> FALSE]
    BY DEF HopInfo
  <2>2. hops' = [hops EXCEPT ![h] = new] /\ rifRef' = [rifRef EXCEPT ![h.rif] = @ + 1]
    BY <1>1, <2>1 DEF NhSetup
  <2>3. RifsCounted' /\ rifRef' \in [TRif -> Nat]
    BY <1>1, <2>2, RifGains
  <2>4. hops'[h] = new /\ OthersSame(h) /\ hops' \in [Hop -> HopInfo \cup {NoHop}]
    BY <2>2 DEF HopRest, OthersSame
  <2>5. HopRest'
    BY <2>1, <2>3, <2>4 DEF HopRest, StrayPlain, IsTunnel, OthersSame
  <2>6. CountOf(h) = 0
    BY <1>1 DEF CountOf
  <2>7. new # NoHop /\ new.ref = 1
    BY <2>1, TunnelAssumption
  <2>8. CountOf(h)' = 1
    BY <2>4, <2>7 DEF CountOf
  <2> QED BY <2>4, <2>5, <2>6, <2>8
<1>2. CASE hops[h] # NoHop
  <2>1. PICK old \in HopInfo : old = hops[h]
    BY <1>2 DEF HopRest
  <2>2. PICK new : new = [old EXCEPT !.ref = @ + 1]
    OBVIOUS
  <2>3. new \in HopInfo /\ new.ref = old.ref + 1 /\ new.owner = old.owner /\ new.api = old.api
    BY <2>2 DEF HopInfo
  <2>4. hops' = [hops EXCEPT ![h] = new] /\ UNCHANGED rifRef
    BY <1>2, <2>1, <2>2 DEF NhSetup
  <2>5. RifsCounted' /\ rifRef' \in [TRif -> Nat]
    BY <1>2, <2>3, <2>4, RifSame
  <2>6. hops'[h] = new /\ OthersSame(h) /\ hops' \in [Hop -> HopInfo \cup {NoHop}]
    BY <2>3, <2>4 DEF HopRest, OthersSame
  <2>7. HopRest'
    BY <1>2, <2>1, <2>3, <2>5, <2>6 DEF HopRest, StrayPlain, IsTunnel, OthersSame
  <2> QED BY <1>2, <2>1, <2>3, <2>6, <2>7, TunnelAssumption DEF CountOf
<1> QED BY <1>1, <1>2

LEMMA NhTeardownDoes ==
  ASSUME HopRest, NEW h \in Hop, NhTeardown(h), UNCHANGED tunnels
  PROVE  /\ HopRest' /\ OthersSame(h)
         /\ CountOf(h) >= 1 => CountOf(h)' = CountOf(h) - 1
<1>1. PICK old \in HopInfo : old = hops[h]
  BY DEF HopRest, NhTeardown
<1>2. hops[h] # NoHop /\ CountOf(h) = old.ref /\ old.ref \in Nat
  BY <1>1 DEF NhTeardown, CountOf, HopInfo
<1>3. CASE old.ref > 1
  <2>1. PICK new : new = [old EXCEPT !.ref = @ - 1]
    OBVIOUS
  <2>2. new \in HopInfo /\ new.ref = old.ref - 1 /\ new.owner = old.owner /\ new.api = old.api
    BY <1>3, <2>1 DEF HopInfo
  <2>3. hops' = [hops EXCEPT ![h] = new] /\ UNCHANGED <<rifRef, strayHop>>
    BY <1>1, <1>3, <2>1 DEF NhTeardown
  <2>4. RifsCounted' /\ rifRef' \in [TRif -> Nat]
    BY <1>2, <2>2, <2>3, RifSame
  <2>5. hops'[h] = new /\ OthersSame(h) /\ hops' \in [Hop -> HopInfo \cup {NoHop}]
    BY <2>2, <2>3 DEF HopRest, OthersSame
  <2>6. HopRest'
    BY <1>1, <1>2, <2>2, <2>3, <2>4, <2>5 DEF HopRest, StrayPlain, IsTunnel, OthersSame
  <2> QED BY <1>2, <2>2, <2>5, <2>6, TunnelAssumption DEF CountOf
<1>4. CASE old.ref <= 1
  <2>1. /\ hops' = [hops EXCEPT ![h] = NoHop] /\ rifRef' = [rifRef EXCEPT ![h.rif] = @ - 1]
        /\ strayHop' = IF old.api THEN strayHop \cup {h} ELSE strayHop
    BY <1>1, <1>2, <1>4 DEF NhTeardown
  <2>2. RifsCounted' /\ rifRef' \in [TRif -> Nat]
    BY <1>2, <2>1, RifLoses
  <2>3. hops'[h] = NoHop /\ OthersSame(h) /\ hops' \in [Hop -> HopInfo \cup {NoHop}]
    BY <2>1 DEF HopRest, OthersSame
  <2>4. HopRest'
    BY <1>1, <1>2, <2>1, <2>2, <2>3 DEF HopRest, StrayPlain, IsTunnel, OthersSame
  <2> QED BY <1>2, <1>4, <2>3, <2>4 DEF CountOf
<1> QED BY <1>2, <1>3, <1>4

LEMMA NhTeardownFailDoes ==
  ASSUME HopRest, NEW h \in Hop, NhTeardownFail(h), UNCHANGED tunnels
  PROVE  /\ HopRest' /\ OthersSame(h)
         /\ CountOf(h) >= 1 => CountOf(h)' = CountOf(h)
<1>1. CASE hops[h] = NoHop /\ UNCHANGED hops
  <2>1. UNCHANGED <<hops, rifRef, strayHop>>
    BY <1>1 DEF NhTeardownFail
  <2>2. HopRest'
    BY <2>1 DEF HopRest, RifsCounted, StrayPlain, UnderOn, OverOn, HopsAt, IsTunnel
  <2> QED BY <2>1, <2>2 DEF OthersSame, CountOf
<1>2. CASE hops[h] # NoHop /\ hops[h].ref <= 1 /\ hops' = [hops EXCEPT ![h].ref = 1]
  <2>1. PICK old \in HopInfo : old = hops[h]
    BY <1>2 DEF HopRest
  <2>2. PICK new : new = [old EXCEPT !.ref = 1]
    OBVIOUS
  <2>3. new \in HopInfo /\ new.ref = 1 /\ new.owner = old.owner /\ new.api = old.api
    BY <2>2 DEF HopInfo
  <2>4. hops' = [hops EXCEPT ![h] = new] /\ UNCHANGED <<rifRef, strayHop>>
    BY <1>2, <2>1, <2>2 DEF NhTeardownFail
  <2>5. RifsCounted' /\ rifRef' \in [TRif -> Nat]
    BY <1>2, <2>3, <2>4, RifSame
  <2>6. hops'[h] = new /\ OthersSame(h) /\ hops' \in [Hop -> HopInfo \cup {NoHop}]
    BY <2>3, <2>4 DEF HopRest, OthersSame
  <2>7. HopRest'
    BY <1>2, <2>1, <2>3, <2>4, <2>5, <2>6 DEF HopRest, StrayPlain, IsTunnel, OthersSame
  <2>8. CountOf(h) = old.ref /\ CountOf(h)' = 1 /\ old.ref \in Nat /\ old.ref <= 1
    BY <1>2, <2>1, <2>3, <2>6, TunnelAssumption DEF CountOf, HopInfo
  <2> QED BY <2>6, <2>7, <2>8
<1> QED BY <1>1, <1>2 DEF NhTeardownFail

(* Hops that a step does not touch keep their count, if it keeps who uses  *)
(* them.                                                                   *)
LEMMA HopsCountedStep ==
  ASSUME TunInv, NEW h \in Hop, OthersSame(h), unsure \subseteq unsure',
         \A g \in Hop \ {h} : Uses(g)' = Uses(g),
         h \in unsure' \/ CountOf(h)' = Uses(h)'
  PROVE  HopsCounted'
<1> SUFFICES ASSUME NEW g \in Hop, g \notin unsure'  PROVE CountOf(g)' = Uses(g)'
  BY DEF HopsCounted
<1>1. CASE g = h
  BY <1>1
<1>2. CASE g # h
  <2>1. CountOf(g) = Uses(g)
    BY DEF TunInv, HopPart, HopsCounted
  <2>2. CountOf(g)' = CountOf(g)
    BY <1>2 DEF OthersSame, CountOf
  <2> QED BY <1>2, <2>1, <2>2
<1> QED BY <1>1, <1>2
LEMMA UnderlaySetupInv ==
  ASSUME TunInv, NEW t \in Tunnel, NEW ip \in Ip, UnderlaySetup(t, ip)
  PROVE  TunInv'
<1>1. PICK h \in Hop : h = HopKey(t, ip)
  BY HopKeyIs DEF UnderlaySetup, TunInv
<1>2. /\ IsTunnel(t) /\ <<h, t>> \notin underlay /\ NhSetup(t, h)
      /\ underlay' = underlay \cup {<<h, t>>}
      /\ UNCHANGED <<mapVarsT, tunnels, tports, terms, termTree, undo, unsure, strayHop>>
  BY <1>1 DEF UnderlaySetup, termVars
<1>3. HopRest /\ UsersTyped
  BY HopParts
<1>4. HopRest' /\ OthersSame(h) /\ CountOf(h)' = CountOf(h) + 1
  BY <1>2, <1>3, NhSetupDoes
<1>5. \A g : TermsOn(g)' = TermsOn(g) /\ Pending(g)' = Pending(g)
  BY <1>2 DEF TermsOn, HopKey, Pending
<1>6. \A g \in Hop \ {h} : UnderlayOf(g)' = UnderlayOf(g)
  BY <1>2 DEF UnderlayOf
<1>7. UnderlayOf(h)' = UnderlayOf(h) \cup {<<h, t>>} /\ <<h, t>> \notin UnderlayOf(h)
  BY <1>2 DEF UnderlayOf
<1>8. Cardinality(UnderlayOf(h)') = Cardinality(UnderlayOf(h)) + 1
  BY <1>7, UseSetsFinite, FS_AddElement DEF TunInv
<1>9. Uses(h)' = Uses(h) + 1
  <2>1. Cardinality(TermsOn(h)) \in Nat /\ Cardinality(UnderlayOf(h)) \in Nat /\ Pending(h) \in Nat
    BY UseSetsFinite DEF TunInv, Pending
  <2>2. Uses(h)' = Cardinality(TermsOn(h)) + (Cardinality(UnderlayOf(h)) + 1) + Pending(h)
    BY <1>5, <1>8 DEF Uses
  <2> QED BY <2>1, <2>2 DEF Uses
<1>10. h \in unsure' \/ CountOf(h)' = Uses(h)'
  BY <1>2, <1>4, <1>9 DEF TunInv, HopPart, HopsCounted
<1>11. HopsCounted'
  <2>1. \A g \in Hop \ {h} : Uses(g)' = Uses(g)
    BY <1>5, <1>6 DEF Uses
  <2> QED BY <1>2, <1>4, <1>10, <2>1, HopsCountedStep
<1>12. UsersTyped'
  BY <1>2, <1>3 DEF UsersTyped, IsTunnel
<1> QED BY <1>2, <1>4, <1>11, <1>12, HopStepInv

LEMMA UnderlayTeardownInv ==
  ASSUME TunInv, NEW t \in Tunnel, NEW ip \in Ip, UnderlayTeardown(t, ip)
  PROVE  TunInv'
<1>1. PICK h \in Hop : h = HopKey(t, ip)
  BY HopKeyIs DEF UnderlayTeardown, TunInv
<1>2. /\ <<h, t>> \in underlay
      /\ UNCHANGED <<mapVarsT, tunnels, tports, terms, termTree, undo, unsure>>
      /\ \/ NhTeardown(h) /\ underlay' = underlay \ {<<h, t>>}
         \/ NhTeardownFail(h) /\ UNCHANGED underlay
  BY <1>1 DEF UnderlayTeardown, termVars
<1>3. HopRest /\ UsersTyped
  BY HopParts
<1>4. \A g : TermsOn(g)' = TermsOn(g) /\ Pending(g)' = Pending(g)
  BY <1>2 DEF TermsOn, HopKey, Pending
<1>5. UsersTyped'
  BY <1>2, <1>3 DEF UsersTyped, IsTunnel
<1>6. /\ IsFiniteSet(UnderlayOf(h)) /\ Cardinality(UnderlayOf(h)) \in Nat
      /\ Cardinality(TermsOn(h)) \in Nat /\ Pending(h) \in Nat
  BY UseSetsFinite DEF TunInv, Pending
<1>7. <<h, t>> \in UnderlayOf(h)
  BY <1>2 DEF UnderlayOf
<1>8. /\ Cardinality(UnderlayOf(h) \ {<<h, t>>}) = Cardinality(UnderlayOf(h)) - 1
      /\ Cardinality(UnderlayOf(h) \ {<<h, t>>}) \in Nat
  <2>1. IsFiniteSet(UnderlayOf(h) \ {<<h, t>>})
    BY <1>6, FS_Subset
  <2> QED BY <1>6, <1>7, <2>1, FS_RemoveElement, FS_CardinalityType
<1>9. Uses(h) >= 1
  BY <1>6, <1>8 DEF Uses
<1>10. h \notin unsure => CountOf(h) = Uses(h)
  BY DEF TunInv, HopPart, HopsCounted
<1>11. CASE NhTeardown(h) /\ underlay' = underlay \ {<<h, t>>}
  <2>1. HopRest' /\ OthersSame(h) /\ (CountOf(h) >= 1 => CountOf(h)' = CountOf(h) - 1)
    BY <1>2, <1>3, <1>11, NhTeardownDoes
  <2>2. UnderlayOf(h)' = UnderlayOf(h) \ {<<h, t>>} /\ \A g \in Hop \ {h} : UnderlayOf(g)' = UnderlayOf(g)
    BY <1>11 DEF UnderlayOf
  <2>3. Uses(h)' = Uses(h) - 1
    <3>1. Uses(h)' = Cardinality(TermsOn(h)) + (Cardinality(UnderlayOf(h)) - 1) + Pending(h)
      BY <1>4, <1>8, <2>2 DEF Uses
    <3> QED BY <1>6, <3>1 DEF Uses
  <2>4. h \in unsure' \/ CountOf(h)' = Uses(h)'
    BY <1>2, <1>9, <1>10, <2>1, <2>3
  <2>5. \A g \in Hop \ {h} : Uses(g)' = Uses(g)
    BY <1>4, <2>2 DEF Uses
  <2>6. HopsCounted'
    BY <1>2, <2>1, <2>4, <2>5, HopsCountedStep
  <2> QED BY <1>2, <1>5, <2>1, <2>6, HopStepInv
<1>12. CASE NhTeardownFail(h) /\ UNCHANGED underlay
  <2>1. HopRest' /\ OthersSame(h) /\ (CountOf(h) >= 1 => CountOf(h)' = CountOf(h))
    BY <1>2, <1>3, <1>12, NhTeardownFailDoes
  <2>2. \A g : Uses(g)' = Uses(g)
    BY <1>4, <1>12 DEF Uses, UnderlayOf
  <2>3. h \in unsure' \/ CountOf(h)' = Uses(h)'
    BY <1>2, <1>9, <1>10, <2>1, <2>2
  <2>4. HopsCounted'
    BY <1>2, <2>1, <2>2, <2>3, HopsCountedStep
  <2> QED BY <1>2, <1>5, <2>1, <2>4, HopStepInv
<1> QED BY <1>2, <1>11, <1>12

LEMMA CreateHopInv ==
  ASSUME TunInv, NEW h \in Hop, NEW t \in Tunnel, CreateHop(h, t)
  PROVE  TunInv'
<1>1. PICK new \in HopInfo : new = [ref |-> 0, owner |-> t, api |-> TRUE]
  BY DEF HopInfo
<1>2. /\ IsTunnel(t) /\ h.type = "ipinip" /\ hops[h] = NoHop
      /\ hops' = [hops EXCEPT ![h] = new] /\ rifRef' = [rifRef EXCEPT ![h.rif] = @ + 1]
      /\ UNCHANGED <<mapVarsT, tunnels, tports, terms, termTree, underlay, undo, unsure, strayHop>>
  BY <1>1 DEF CreateHop, termVars
<1>3. HopRest /\ UsersTyped
  BY HopParts
<1>4. RifsCounted' /\ rifRef' \in [TRif -> Nat]
  BY <1>2, <1>3, RifGains
<1>5. hops'[h] = new /\ OthersSame(h) /\ hops' \in [Hop -> HopInfo \cup {NoHop}]
  BY <1>2, <1>3 DEF HopRest, OthersSame
<1>6. HopRest'
  BY <1>1, <1>2, <1>3, <1>4, <1>5 DEF HopRest, StrayPlain, IsTunnel, OthersSame
<1>7. CountOf(h) = 0 /\ CountOf(h)' = 0
  BY <1>1, <1>2, <1>5, TunnelAssumption DEF CountOf
<1>8. \A g : Uses(g)' = Uses(g)
  BY <1>2 DEF Uses, TermsOn, HopKey, UnderlayOf, Pending
<1>9. HopsCounted'
  <2>1. h \in unsure' \/ CountOf(h)' = Uses(h)'
    BY <1>2, <1>7, <1>8 DEF TunInv, HopPart, HopsCounted
  <2> QED BY <1>2, <1>5, <1>8, <2>1, HopsCountedStep
<1>10. UsersTyped'
  BY <1>2, <1>3 DEF UsersTyped, IsTunnel
<1> QED BY <1>2, <1>6, <1>9, <1>10, HopStepInv

LEMMA RemoveHopInv ==
  ASSUME TunInv, NEW h \in Hop, RemoveHop(h)
  PROVE  TunInv'
<1>1. /\ hops[h] # NoHop /\ hops[h].ref = 0
      /\ hops' = [hops EXCEPT ![h] = NoHop] /\ rifRef' = [rifRef EXCEPT ![h.rif] = @ - 1]
      /\ UNCHANGED <<mapVarsT, tunnels, tports, terms, termTree, underlay, undo, unsure, strayHop>>
  BY DEF RemoveHop, HopRemovable, termVars
<1>2. HopRest /\ UsersTyped
  BY HopParts
<1>3. RifsCounted' /\ rifRef' \in [TRif -> Nat]
  BY <1>1, <1>2, RifLoses
<1>4. hops'[h] = NoHop /\ OthersSame(h) /\ hops' \in [Hop -> HopInfo \cup {NoHop}]
  BY <1>1, <1>2 DEF HopRest, OthersSame
<1>5. HopRest'
  BY <1>1, <1>2, <1>3, <1>4 DEF HopRest, StrayPlain, IsTunnel, OthersSame
<1>6. CountOf(h) = 0 /\ CountOf(h)' = 0
  BY <1>1, <1>4 DEF CountOf
<1>7. \A g : Uses(g)' = Uses(g)
  BY <1>1 DEF Uses, TermsOn, HopKey, UnderlayOf, Pending
<1>8. HopsCounted'
  <2>1. h \in unsure' \/ CountOf(h)' = Uses(h)'
    BY <1>1, <1>6, <1>7 DEF TunInv, HopPart, HopsCounted
  <2> QED BY <1>1, <1>4, <1>7, <2>1, HopsCountedStep
<1>9. UsersTyped'
  BY <1>1, <1>2 DEF UsersTyped, IsTunnel
<1> QED BY <1>1, <1>5, <1>8, <1>9, HopStepInv
(* A termination entry comes with its use of a hop, or the creation of it  *)
(* is to be undone.                                                        *)
LEMMA CreateTermInv ==
  ASSUME TunInv, NEW x \in Term, NEW t \in Tunnel, NEW ip \in Ip, NEW vxlan \in BOOLEAN,
         CreateTerm(x, t, ip, vxlan)
  PROVE  TunInv'
<1>1. PICK h \in Hop : h = HopKey(t, ip)
  BY HopKeyIs DEF CreateTerm, TunInv
<1>2. PICK new \in TermInfo : new = [tunnel |-> t, ip |-> ip, vxlan |-> vxlan]
  BY DEF TermInfo
<1>3. PICK late \in UndoInfo : late = [tunnel |-> t, hop |-> h, live |-> TRUE]
  BY DEF UndoInfo
<1>4. /\ terms[x] = NoTerm /\ IsTunnel(t)
      /\ IF vxlan THEN NhSetup(t, h) ELSE UNCHANGED <<hops, rifRef>>
      /\ UNCHANGED <<mapVarsT, tunnels, tports, underlay, unsure, strayHop>>
  BY <1>1 DEF CreateTerm
<1>5. \/ /\ terms' = [terms EXCEPT ![x] = new] /\ termTree' = termTree \cup {x} /\ UNCHANGED undo
      \/ /\ vxlan /\ undo = NoUndo /\ undo' = late /\ UNCHANGED <<terms, termTree>>
  BY <1>1, <1>2, <1>3 DEF CreateTerm, termVars
<1>6. HopRest /\ UsersTyped
  BY HopParts
<1>7. /\ IsFiniteSet(TermsOn(h)) /\ Cardinality(TermsOn(h)) \in Nat
      /\ Cardinality(UnderlayOf(h)) \in Nat /\ Pending(h) \in Nat
  BY UseSetsFinite DEF TunInv, Pending
<1>8. UsersTyped'
  <2>1. CASE terms' = [terms EXCEPT ![x] = new] /\ termTree' = termTree \cup {x} /\ UNCHANGED undo
    <3>1. terms' \in [Term -> TermInfo \cup {NoTerm}] /\ terms'[x] = new /\ new # NoTerm
      BY <1>6, <2>1, TunnelAssumption DEF UsersTyped
    <3>2. \A y \in Term \ {x} : terms'[y] = terms[y]
      BY <2>1, <1>6 DEF UsersTyped
    <3>3. termTree' \subseteq {y \in Term : terms'[y] # NoTerm}
      BY <1>6, <2>1, <3>1, <3>2 DEF UsersTyped
    <3>4. \A y \in Term : terms'[y] # NoTerm => IsTunnel(terms'[y].tunnel)
      BY <1>2, <1>4, <1>6, <3>1, <3>2 DEF UsersTyped
    <3> QED BY <1>4, <1>6, <2>1, <3>1, <3>3, <3>4 DEF UsersTyped, IsTunnel
  <2>2. CASE undo' = late /\ UNCHANGED <<terms, termTree>>
    BY <1>4, <1>6, <2>2 DEF UsersTyped, IsTunnel
  <2> QED BY <1>5, <2>1, <2>2
<1>9. \A g : UnderlayOf(g)' = UnderlayOf(g)
  BY <1>4 DEF UnderlayOf
<1>10. CASE vxlan
  <2>1. HopRest' /\ OthersSame(h) /\ CountOf(h)' = CountOf(h) + 1
    BY <1>4, <1>6, <1>10, NhSetupDoes
  <2>2. Uses(h)' = Uses(h) + 1 /\ \A g \in Hop \ {h} : Uses(g)' = Uses(g)
    <3>1. CASE terms' = [terms EXCEPT ![x] = new] /\ UNCHANGED undo
      <4>1. terms'[x] = new /\ new # NoTerm /\ \A y \in Term \ {x} : terms'[y] = terms[y]
        BY <1>6, <3>1, TunnelAssumption DEF UsersTyped
      <4>2. new.vxlan /\ HopKey(new.tunnel, new.ip) = h
        BY <1>1, <1>2, <1>10
      <4>3. \A g \in Hop : TermsOn(g)' = (IF g = h THEN TermsOn(g) \cup {x} ELSE TermsOn(g))
        BY <1>4, <4>1, <4>2 DEF TermsOn, HopKey
      <4>4. x \notin TermsOn(h)
        BY <1>4 DEF TermsOn
      <4>5. Cardinality(TermsOn(h) \cup {x}) = Cardinality(TermsOn(h)) + 1
        BY <1>7, <4>4, FS_AddElement
      <4>6. Uses(h)' = (Cardinality(TermsOn(h)) + 1) + Cardinality(UnderlayOf(h)) + Pending(h)
        BY <1>9, <3>1, <4>3, <4>5 DEF Uses, Pending
      <4>7. \A g \in Hop \ {h} : Uses(g)' = Uses(g)
        BY <1>9, <3>1, <4>3 DEF Uses, Pending
      <4> QED BY <1>7, <4>6, <4>7 DEF Uses
    <3>2. CASE undo = NoUndo /\ undo' = late /\ UNCHANGED <<terms, termTree>>
      <4>1. \A g : TermsOn(g)' = TermsOn(g)
        BY <1>4, <3>2 DEF TermsOn, HopKey
      <4>2. \A g : Pending(g) = 0 /\ Pending(g)' = IF g = h THEN 1 ELSE 0
        BY <1>3, <3>2, TunnelAssumption DEF Pending
      <4>3. Uses(h)' = Cardinality(TermsOn(h)) + Cardinality(UnderlayOf(h)) + 1
        BY <1>9, <4>1, <4>2 DEF Uses
      <4>4. \A g \in Hop \ {h} : Uses(g)' = Uses(g)
        BY <1>9, <4>1, <4>2 DEF Uses
      <4>5. Uses(h) = Cardinality(TermsOn(h)) + Cardinality(UnderlayOf(h)) + 0
        BY <4>2 DEF Uses
      <4> QED BY <1>7, <4>3, <4>4, <4>5
    <3> QED BY <1>5, <3>1, <3>2
  <2>3. h \in unsure' \/ CountOf(h)' = Uses(h)'
    BY <1>4, <2>1, <2>2 DEF TunInv, HopPart, HopsCounted
  <2>4. HopsCounted'
    BY <1>4, <2>1, <2>2, <2>3, HopsCountedStep
  <2> QED BY <1>4, <1>8, <2>1, <2>4, HopStepInv
<1>11. CASE ~ vxlan
  <2>1. UNCHANGED <<hops, rifRef, undo>> /\ terms' = [terms EXCEPT ![x] = new]
    BY <1>4, <1>5, <1>11
  <2>2. terms'[x] = new /\ ~ new.vxlan /\ \A y \in Term \ {x} : terms'[y] = terms[y]
    BY <1>2, <1>6, <1>11, <2>1 DEF UsersTyped
  <2>3. \A g : TermsOn(g)' = TermsOn(g)
    BY <1>4, <2>2 DEF TermsOn, HopKey
  <2>4. \A g : Uses(g)' = Uses(g) /\ CountOf(g)' = CountOf(g)
    BY <1>9, <2>1, <2>3 DEF Uses, Pending, CountOf
  <2>5. HopsCounted'
    BY <1>4, <2>4 DEF TunInv, HopPart, HopsCounted
  <2>6. HopRest'
    BY <1>4, <1>6, <2>1 DEF HopRest, RifsCounted, StrayPlain, UnderOn, OverOn, HopsAt, IsTunnel
  <2> QED BY <1>4, <1>8, <2>5, <2>6, HopStepInv
<1> QED BY <1>10, <1>11

LEMMA UndoTermInv ==
  ASSUME TunInv, UndoTerm
  PROVE  TunInv'
<1>1. PICK h \in Hop : h = undo.hop
  BY DEF UndoTerm, TunInv, TunTypeOK, UndoInfo
<1>2. /\ undo # NoUndo /\ undo' = NoUndo
      /\ UNCHANGED <<mapVarsT, tunnels, tports, terms, termTree, underlay>>
      /\ \/ NhTeardown(h) /\ UNCHANGED unsure
         \/ /\ NhTeardownFail(h) \/ UNCHANGED <<hops, rifRef, strayHop>>
            /\ unsure' = unsure \cup {h}
  BY <1>1 DEF UndoTerm, termVars, UnsureWith
<1>3. HopRest /\ UsersTyped
  BY HopParts
<1>4. UsersTyped'
  BY <1>2, <1>3 DEF UsersTyped, IsTunnel
<1>5. /\ \A g : TermsOn(g)' = TermsOn(g) /\ UnderlayOf(g)' = UnderlayOf(g)
      /\ \A g : Pending(g) = (IF g = h THEN 1 ELSE 0) /\ Pending(g)' = 0
  BY <1>1, <1>2 DEF TermsOn, HopKey, UnderlayOf, Pending
<1>6. Uses(h)' = Uses(h) - 1 /\ Uses(h) >= 1
  <2>1. Cardinality(TermsOn(h)) \in Nat /\ Cardinality(UnderlayOf(h)) \in Nat
    BY UseSetsFinite DEF TunInv
  <2>2. Uses(h) = Cardinality(TermsOn(h)) + Cardinality(UnderlayOf(h)) + 1
    BY <1>5 DEF Uses
  <2>3. Uses(h)' = Cardinality(TermsOn(h)) + Cardinality(UnderlayOf(h)) + 0
    BY <1>5 DEF Uses
  <2> QED BY <2>1, <2>2, <2>3
<1>7. \A g \in Hop \ {h} : Uses(g)' = Uses(g)
  BY <1>5 DEF Uses
<1>8. CASE NhTeardown(h) /\ UNCHANGED unsure
  <2>1. HopRest' /\ OthersSame(h) /\ (CountOf(h) >= 1 => CountOf(h)' = CountOf(h) - 1)
    BY <1>2, <1>3, <1>8, NhTeardownDoes
  <2>2. h \notin unsure => CountOf(h) = Uses(h)
    BY DEF TunInv, HopPart, HopsCounted
  <2>3. h \in unsure' \/ CountOf(h)' = Uses(h)'
    BY <1>6, <1>8, <2>1, <2>2
  <2>4. HopsCounted'
    BY <1>7, <1>8, <2>1, <2>3, HopsCountedStep
  <2> QED BY <1>2, <1>4, <2>1, <2>4, HopStepInv
<1>9. CASE /\ NhTeardownFail(h) \/ UNCHANGED <<hops, rifRef, strayHop>>
           /\ unsure' = unsure \cup {h}
  <2>1. HopRest' /\ OthersSame(h)
    <3>1. CASE NhTeardownFail(h)
      BY <1>2, <1>3, <3>1, NhTeardownFailDoes
    <3>2. CASE UNCHANGED <<hops, rifRef, strayHop>>
      BY <1>2, <1>3, <3>2
         DEF HopRest, OthersSame, RifsCounted, StrayPlain, UnderOn, OverOn, HopsAt, IsTunnel
    <3> QED BY <1>9, <3>1, <3>2
  <2>2. HopsCounted'
    BY <1>7, <1>9, <2>1, HopsCountedStep
  <2> QED BY <1>2, <1>4, <2>1, <2>2, HopStepInv
<1> QED BY <1>2, <1>8, <1>9

LEMMA RemoveTermInv ==
  ASSUME TunInv, NEW x \in Term, RemoveTerm(x)
  PROVE  TunInv'
<1> DEFINE gone == terms' = [terms EXCEPT ![x] = NoTerm] /\ termTree' = termTree \ {x}
<1>1. PICK old \in TermInfo : terms[x] = old
  BY DEF RemoveTerm, TunInv, TunTypeOK
<1>2. old # NoTerm
  BY <1>1 DEF RemoveTerm, TunInv, TunTypeOK
<1>3. PICK h \in Hop : h = HopKey(old.tunnel, old.ip)
  <2>1. old.tunnel \in Tunnel /\ old.ip \in Ip /\ IsTunnel(old.tunnel)
    BY <1>1, <1>2 DEF TunInv, HopPart, OwnersExist, TermInfo
  <2> QED BY <2>1, HopKeyIs DEF TunInv
<1>4. /\ UNCHANGED <<mapVarsT, tunnels, tports, underlay, undo>>
      /\ \/ ~old.vxlan /\ gone /\ UNCHANGED <<hops, rifRef, unsure, strayHop>>
         \/ old.vxlan /\ NhTeardown(h) /\ gone /\ UNCHANGED unsure
         \/ /\ old.vxlan /\ NhTeardown(h) /\ unsure' = unsure \cup {h}
            /\ UNCHANGED <<terms, termTree>>
         \/ /\ old.vxlan /\ NhTeardownFail(h)
            /\ termTree' = termTree \ {x} /\ UNCHANGED <<terms, unsure>>
  BY <1>1, <1>3 DEF RemoveTerm, termVars, UnsureWith
<1>5. HopRest /\ UsersTyped
  BY HopParts
<1>6. gone => /\ terms' \in [Term -> TermInfo \cup {NoTerm}] /\ terms'[x] = NoTerm
              /\ \A y \in Term \ {x} : terms'[y] = terms[y]
  BY <1>5 DEF UsersTyped
<1>7. UsersTyped'
  <2>1. unsure' \subseteq Hop /\ underlay' \subseteq Hop \X Tunnel /\ undo' \in UndoInfo \cup {NoUndo}
    BY <1>4, <1>5 DEF UsersTyped
  <2>2. CASE gone
    <3>1. termTree' \subseteq {y \in Term : terms'[y] # NoTerm}
      BY <1>5, <1>6, <2>2 DEF UsersTyped
    <3>2. \A y \in Term : terms'[y] # NoTerm => IsTunnel(terms'[y].tunnel)
      BY <1>5, <1>6, <2>2 DEF UsersTyped
    <3> QED BY <1>4, <1>6, <2>1, <2>2, <3>1, <3>2 DEF UsersTyped, IsTunnel
  <2>3. CASE UNCHANGED terms /\ termTree' \subseteq termTree
    BY <1>4, <1>5, <2>1, <2>3 DEF UsersTyped, IsTunnel
  <2> QED BY <1>4, <2>2, <2>3
<1>8. \A g : UnderlayOf(g)' = UnderlayOf(g) /\ Pending(g)' = Pending(g)
  BY <1>4 DEF UnderlayOf, Pending
<1>9. UNCHANGED terms => \A g : Uses(g)' = Uses(g)
  BY <1>4, <1>8 DEF Uses, TermsOn, HopKey
<1>10. ASSUME gone  PROVE \A g \in Hop : TermsOn(g)' = TermsOn(g) \ {x}
  BY <1>4, <1>6, <1>10 DEF TermsOn, HopKey
<1>11. \A g \in Hop : (x \in TermsOn(g)) <=> (old.vxlan /\ g = h)
  BY <1>1, <1>2, <1>3 DEF TermsOn
<1>12. /\ IsFiniteSet(TermsOn(h)) /\ Cardinality(TermsOn(h)) \in Nat
       /\ Cardinality(UnderlayOf(h)) \in Nat /\ Pending(h) \in Nat
  BY UseSetsFinite DEF TunInv, Pending
<1>13. old.vxlan => /\ Cardinality(TermsOn(h) \ {x}) = Cardinality(TermsOn(h)) - 1
                   /\ Cardinality(TermsOn(h) \ {x}) \in Nat
  <2>1. IsFiniteSet(TermsOn(h) \ {x})
    BY <1>12, FS_Subset
  <2> QED BY <1>11, <1>12, <2>1, FS_RemoveElement, FS_CardinalityType
<1>14. old.vxlan => Uses(h) >= 1
  BY <1>12, <1>13 DEF Uses
<1>15. h \notin unsure => CountOf(h) = Uses(h)
  BY DEF TunInv, HopPart, HopsCounted
<1>16. gone => \A g \in Hop \ {h} : Uses(g)' = Uses(g)
  <2> SUFFICES ASSUME gone, NEW g \in Hop \ {h}  PROVE Uses(g)' = Uses(g)
    OBVIOUS
  <2>1. TermsOn(g)' = TermsOn(g)
    BY <1>10, <1>11
  <2> QED BY <1>8, <2>1 DEF Uses
<1>17. CASE ~old.vxlan /\ gone /\ UNCHANGED <<hops, rifRef, unsure, strayHop>>
  <2>1. TermsOn(h)' = TermsOn(h)
    BY <1>10, <1>11, <1>17
  <2>2. Uses(h)' = Uses(h) /\ CountOf(h)' = CountOf(h) /\ OthersSame(h)
    BY <1>8, <1>17, <2>1 DEF Uses, CountOf, OthersSame
  <2>3. HopsCounted'
    BY <1>15, <1>16, <1>17, <2>2, HopsCountedStep
  <2>4. HopRest'
    BY <1>4, <1>5, <1>17 DEF HopRest, RifsCounted, StrayPlain, UnderOn, OverOn, HopsAt, IsTunnel
  <2> QED BY <1>4, <1>7, <2>3, <2>4, HopStepInv
<1>18. CASE old.vxlan /\ NhTeardown(h) /\ gone /\ UNCHANGED unsure
  <2>1. HopRest' /\ OthersSame(h) /\ (CountOf(h) >= 1 => CountOf(h)' = CountOf(h) - 1)
    BY <1>4, <1>5, <1>18, NhTeardownDoes
  <2>2. Uses(h)' = Uses(h) - 1
    <3>1. Uses(h)' = (Cardinality(TermsOn(h)) - 1) + Cardinality(UnderlayOf(h)) + Pending(h)
      BY <1>8, <1>10, <1>13, <1>18 DEF Uses
    <3> QED BY <1>12, <3>1 DEF Uses
  <2>3. h \in unsure' \/ CountOf(h)' = Uses(h)'
    BY <1>14, <1>15, <1>18, <2>1, <2>2
  <2>4. HopsCounted'
    BY <1>16, <1>18, <2>1, <2>3, HopsCountedStep
  <2> QED BY <1>4, <1>7, <2>1, <2>4, HopStepInv
<1>19. CASE old.vxlan /\ NhTeardown(h) /\ unsure' = unsure \cup {h} /\ UNCHANGED <<terms, termTree>>
  <2>1. HopRest' /\ OthersSame(h)
    BY <1>4, <1>5, <1>19, NhTeardownDoes
  <2>2. HopsCounted'
    BY <1>9, <1>19, <2>1, HopsCountedStep
  <2> QED BY <1>4, <1>7, <2>1, <2>2, HopStepInv
<1>20. CASE old.vxlan /\ NhTeardownFail(h) /\ UNCHANGED <<terms, unsure>>
  <2>1. HopRest' /\ OthersSame(h) /\ (CountOf(h) >= 1 => CountOf(h)' = CountOf(h))
    BY <1>4, <1>5, <1>20, NhTeardownFailDoes
  <2>2. h \in unsure' \/ CountOf(h)' = Uses(h)'
    BY <1>9, <1>14, <1>15, <1>20, <2>1
  <2>3. HopsCounted'
    BY <1>9, <1>20, <2>1, <2>2, HopsCountedStep
  <2> QED BY <1>4, <1>7, <2>1, <2>3, HopStepInv
<1> QED BY <1>4, <1>17, <1>18, <1>19, <1>20

LEMMA TunInvNext == TunInv /\ [TunNext]_tunVars => TunInv'
<1> SUFFICES ASSUME TunInv, [TunNext]_tunVars  PROVE TunInv'
  OBVIOUS
<1>1. CASE UNCHANGED tunVars
  <2>1. UNCHANGED <<mapVarsT, tunnels, tports, rifRef, termVars, hopVars>>
    BY <1>1 DEF tunVars
  <2>2. TunTypeOK'
    BY <2>1 DEF TunInv, TunTypeOK, mapVarsT, termVars, hopVars
  <2> QED BY <2>1, <2>2, MapPartSame, HopPartSame DEF TunInv
<1>2. CASE TunnelStep(TunnelInfo)
  BY <1>2, CreateTunnelInv, RemoveTunnelInv, Zenon DEF TunnelStep
<1>3. CASE TunnelMapStep
  BY <1>3, CreateMapInv, CheckMapInv, FreeMapInv, CreateMapEntryInv, RemoveMapEntryInv,
     SetMapEntryInv, TunnelPortInv, Zenon DEF TunnelMapStep
<1>4. CASE TunnelHopStep
  BY <1>4, UnderlaySetupInv, UnderlayTeardownInv, CreateHopInv, RemoveHopInv, CreateTermInv,
     RemoveTermInv, UndoTermInv, Zenon DEF TunnelHopStep
<1> QED BY <1>1, <1>2, <1>3, <1>4 DEF TunNext
(* A tunnel that is there before and after a step keeps its maps.          *)
LEMMA TunnelStays ==
  ASSUME TunTypeOK, [TunNext]_tunVars, NEW t \in Tunnel, IsTunnel(t), tunnels'[t] # NoTunnel
  PROVE  tunnels'[t] = tunnels[t]
<1>1. CASE UNCHANGED tunVars
  BY <1>1 DEF tunVars
<1>2. ASSUME NEW u \in Tunnel, NEW a \in TunnelInfo, CreateTunnel(u, a)  PROVE tunnels'[t] = tunnels[t]
  BY <1>2 DEF CreateTunnel, IsTunnel, TunTypeOK
<1>3. ASSUME NEW u \in Tunnel, RemoveTunnel(u)  PROVE tunnels'[t] = tunnels[t]
  BY <1>3 DEF RemoveTunnel, TunTypeOK
<1>4. CASE TunnelMapStep
  <2>1. tunnels' = tunnels
    BY <1>4, Zenon DEF TunnelMapStep, CreateMap, CheckMap, FreeMap, CreateMapEntry, RemoveMapEntry,
       SetMapEntry, AddTunnelPort, RemoveTunnelPort
  <2> QED BY <2>1
<1>5. CASE TunnelHopStep
  <2>1. tunnels' = tunnels
    BY <1>5, Zenon DEF TunnelHopStep, UnderlaySetup, UnderlayTeardown, CreateHop, RemoveHop,
       CreateTerm, RemoveTerm, UndoTerm
  <2> QED BY <2>1
<1> QED BY <1>1, <1>2, <1>3, <1>4, <1>5 DEF TunNext, TunnelStep

(* An entry that leads from a map of a tunnel to a bridge the tunnel is on *)
(* is moved or taken away only while another entry of the map leads there. *)
LEMMA MapEntryStays ==
  ASSUME TunTypeOK, NEW x \in TEntry, entries[x] # NoEntry, IsMap(entries[x].map),
         NEW t \in WithMap(entries[x].map), <<entries[x].bridge, t>> \in tports,
         \/ \E y \in TEntry : \/ \E e \in MapEntry : CreateMapEntry(y, e)
                              \/ RemoveMapEntry(y) \/ SetMapEntry(y)
         \/ UNCHANGED entries
  PROVE  \E z \in TEntry : /\ entries'[z] # NoEntry
                           /\ entries'[z].bridge = entries[x].bridge /\ entries'[z].map = entries[x].map
<1>1. PICK e \in MapEntry : e = entries[x]
  BY DEF TunTypeOK
<1>2. CASE UNCHANGED entries
  BY <1>2
<1>3. ASSUME NEW y \in TEntry, NEW f \in MapEntry, CreateMapEntry(y, f)
      PROVE  entries'[x] = entries[x]
  BY <1>3 DEF CreateMapEntry, TunTypeOK
<1>4. ASSUME ~ MapEntryInUse(x)
      PROVE  \E z \in TEntry \ {x} : entries[z] # NoEntry /\ entries[z].map = e.map /\ entries[z].bridge = e.bridge
  BY <1>1, <1>4 DEF MapEntryInUse, OnMap
<1>5. ASSUME NEW y \in TEntry, RemoveMapEntry(y) \/ SetMapEntry(y), y # x
      PROVE  entries'[x] = entries[x]
  BY <1>5 DEF RemoveMapEntry, SetMapEntry, TunTypeOK
<1>6. ASSUME RemoveMapEntry(x) \/ SetMapEntry(x), ~ MapEntryInUse(x)
      PROVE  \A z \in TEntry \ {x} : entries'[z] = entries[z]
  BY <1>6 DEF RemoveMapEntry, SetMapEntry, TunTypeOK
<1>7. ASSUME SetMapEntry(x), maps[e.map] = "encap"
      PROVE  entries'[x] # NoEntry /\ entries'[x].bridge = e.bridge /\ entries'[x].map = e.map
  <2>1. PICK v \in Vni : entries' = [entries EXCEPT ![x].vni = v]
    BY <1>1, <1>7 DEF SetMapEntry
  <2>2. PICK f : f = [e EXCEPT !.vni = v]
    OBVIOUS
  <2>3. f \in MapEntry /\ f.bridge = e.bridge /\ f.map = e.map
    BY <2>2 DEF MapEntry
  <2>4. entries'[x] = f
    BY <1>1, <2>1, <2>2 DEF TunTypeOK
  <2> QED BY <2>3, <2>4, TunnelAssumption
<1>8. RemoveMapEntry(x) => ~ MapEntryInUse(x)
  BY DEF RemoveMapEntry
<1>9. SetMapEntry(x) => ~ MapEntryInUse(x) \/ maps[e.map] = "encap"
  BY <1>1 DEF SetMapEntry
<1> QED BY <1>1, <1>2, <1>3, <1>4, <1>5, <1>6, <1>7, <1>8, <1>9

LEMMA ReachesStays ==
  ASSUME TunTypeOK, [TunNext]_tunVars, NEW b \in TBridge, NEW t \in Tunnel, NEW k \in {"encap", "decap"},
         IsTunnel(t), <<b, t>> \in tports, MapsOf(t) \intersect (racedMap \cup seenFree) = {},
         Reaches(t, b, k), tunnels'[t] # NoTunnel
  PROVE  Reaches(t, b, k)'
<1>1. PICK x \in TEntry : /\ entries[x] # NoEntry /\ entries[x].bridge = b
                          /\ entries[x].map \in MapsOf(t) /\ maps[entries[x].map] = k
  BY DEF Reaches
<1>2. PICK m \in TMap : m = entries[x].map
  BY <1>1 DEF TunTypeOK, MapEntry
<1>3. m \notin seenFree /\ IsMap(m) /\ t \in WithMap(m)
  BY <1>1, <1>2 DEF IsMap, WithMap
<1>4. tunnels'[t] = tunnels[t]
  BY TunnelStays
<1>5. CASE UNCHANGED <<maps, entries>>
  BY <1>1, <1>4, <1>5 DEF Reaches, MapsOf
<1>6. CASE \E n \in TMap : CreateMap(n) \/ CheckMap(n) \/ FreeMap(n)
  <2>1. entries' = entries
    BY <1>6 DEF CreateMap, CheckMap, FreeMap
  <2>2. maps'[m] = k
    BY <1>1, <1>2, <1>3, <1>6 DEF CreateMap, CheckMap, FreeMap, IsMap, TunTypeOK
  <2> QED BY <1>1, <1>2, <1>4, <2>1, <2>2 DEF Reaches, MapsOf
<1>7. CASE \E y \in TEntry : (\E e \in MapEntry : CreateMapEntry(y, e)) \/ RemoveMapEntry(y) \/ SetMapEntry(y)
  <2>1. maps' = maps
    BY <1>7 DEF CreateMapEntry, RemoveMapEntry, SetMapEntry
  <2>2. PICK z \in TEntry : entries'[z] # NoEntry /\ entries'[z].bridge = b /\ entries'[z].map = m
    BY <1>1, <1>2, <1>3, <1>7, MapEntryStays
  <2> QED BY <1>1, <1>2, <1>4, <2>1, <2>2 DEF Reaches, MapsOf
<1>8. CASE UNCHANGED tunVars
  BY <1>5, <1>8 DEF tunVars, mapVarsT
<1>9. CASE TunnelStep(TunnelInfo)
  BY <1>5, <1>9 DEF TunnelStep, CreateTunnel, RemoveTunnel
<1>10. CASE \E c \in TBridge, u \in Tunnel : AddTunnelPort(c, u) \/ RemoveTunnelPort(c, u)
  BY <1>5, <1>10 DEF AddTunnelPort, RemoveTunnelPort, mapVarsT
<1>11. CASE TunnelHopStep
  <2>1. UNCHANGED mapVarsT
    BY <1>11, Zenon DEF TunnelHopStep, UnderlaySetup, UnderlayTeardown, CreateHop, RemoveHop,
       CreateTerm, RemoveTerm, UndoTerm
  <2> QED BY <1>5, <2>1 DEF mapVarsT
<1> QED BY <1>6, <1>7, <1>8, <1>9, <1>10, <1>11 DEF TunNext, TunnelMapStep
---------------------------------------------------------------------------
(* What the hops of tunnels resolve to                                   *)

(* What a hop on a route is: just what the route says it is.               *)
On(h, r) == /\ h.fwd = r.fwd /\ h.npu = Content(r) /\ h.nodes = NodesOf(r) /\ h.grps = GroupsOf(r)
            /\ ~ h.broken /\ h.nbr = NoNbr
OnRoute(h, e) == /\ h.lpm = BestOf(e, Known) /\ On(h, eroutes[h.lpm])
                 /\ \A n \in neighbors : Follows(e, n) => h.left
OnNeighbor(h, e) == ~ h.broken /\ FollowsNeighbor(h, e)
Right(h, e) == OnNeighbor(h, e) \/ OnRoute(h, e)
HopsRight == \A e \in EHop : IsHop(e) /\ ~ ehops[e].off => Right(ehops[e], e)

DefaultEmpty == ~ hwDefault => eroutes[0] = EmptyRoute
OverlayHops == \A o \in EOver : /\ over[o].hop # NoEHop => IsHop(over[o].hop)
                                /\ o \in changelist => over[o].hop # NoEHop

EncInv == EncapTypeOK /\ HopsRight /\ DefaultEmpty /\ OverlayHops /\ OverlayFollows

---------------------------------------------------------------------------
LEMMA Greatest ==
  ASSUME NEW b \in Nat, NEW K \in SUBSET Nat, NEW z \in K, z <= b
  PROVE  \E p \in K : p <= b /\ \A q \in K : q <= b => q <= p
<1> DEFINE D == {d \in Nat : \E k \in K : k <= b /\ d = b - k}
<1>1. b - z \in D
  OBVIOUS
<1>2. PICK d \in D : \A c \in D : ~ (<<c, d>> \in OpToRel(<, Nat))
  <2> HIDE DEF D
  <2>1. D \in SUBSET Nat
    BY DEF D
  <2> QED BY <1>1, <2>1, WFMin, NatLessThanWellFounded, Zenon
<1>3. \A c \in D : d <= c
  <2> SUFFICES ASSUME NEW c \in D, c < d  PROVE FALSE
    OBVIOUS
  <2>1. <<c, d>> \in OpToRel(<, Nat)
    BY DEF OpToRel
  <2> QED BY <1>2, <2>1
<1>4. PICK p \in K : p <= b /\ d = b - p
  OBVIOUS
<1>5. ASSUME NEW q \in K, q <= b  PROVE q <= p
  <2>1. b - q \in D
    BY <1>5
  <2> QED BY <1>3, <1>4, <1>5, <2>1
<1> QED BY <1>4, <1>5

(* The best route for a hop: there is one, and it is the only one.         *)
LEMMA BestIs ==
  ASSUME NEW e \in EHop, NEW K \in SUBSET EPrefix, 0 \in K
  PROVE  /\ BestOf(e, K) \in K /\ BestOf(e, K) <= Bits[e]
         /\ \A q \in K : q <= Bits[e] => q <= BestOf(e, K)
<1>1. Bits[e] \in Nat /\ K \in SUBSET Nat /\ 0 <= Bits[e]
  BY EncapAssumption
<1>2. \E p \in K : p <= Bits[e] /\ \A q \in K : q <= Bits[e] => q <= p
  BY <1>1, Greatest
<1> QED BY <1>2 DEF BestOf

LEMMA BestOnly ==
  ASSUME NEW e \in EHop, NEW K \in SUBSET EPrefix, 0 \in K,
         NEW p \in K, p <= Bits[e], \A q \in K : q <= Bits[e] => q <= p
  PROVE  BestOf(e, K) = p
<1>1. BestOf(e, K) \in K /\ BestOf(e, K) <= Bits[e] /\ p <= BestOf(e, K)
  BY BestIs
<1>2. BestOf(e, K) <= p
  BY <1>1
<1>3. BestOf(e, K) \in Nat /\ p \in Nat
  BY <1>1, EncapAssumption
<1> QED BY <1>1, <1>2, <1>3

LEMMA EncInvMeans == EncInv => EncapTypeOK /\ EncapResolved /\ OverlayFollows
<1> SUFFICES ASSUME EncInv, NEW e \in EHop, IsHop(e), ~ ehops[e].off
             PROVE  ~ehops[e].broken /\ (FollowsNeighbor(ehops[e], e) \/ FollowsRoute(ehops[e], e))
  BY DEF EncInv, EncapResolved
<1>1. Right(ehops[e], e)
  BY DEF EncInv, HopsRight
<1> QED BY <1>1 DEF Right, OnNeighbor, OnRoute, On, FollowsRoute

LEMMA EncInvInit == EncapInit => EncInv
<1> SUFFICES ASSUME EncapInit  PROVE EncInv
  OBVIOUS
<1>1. EncapTypeOK
  <2>1. EmptyRoute \in ERoute /\ NoRoute \notin ERoute
    BY EncapAssumption DEF EmptyRoute, ERoute
  <2>2. eroutes \in [EPrefix -> ERoute \cup {NoRoute}] /\ eroutes[0] # NoRoute
    BY <2>1, EncapAssumption DEF EncapInit
  <2>3. over \in [EOver -> [hop : EHop \cup {NoEHop}, seen : ETarget \cup {Dropped}, missed : BOOLEAN]]
    <3>1. [hop |-> NoEHop, seen |-> Dropped, missed |-> FALSE]
            \in [hop : EHop \cup {NoEHop}, seen : ETarget \cup {Dropped}, missed : BOOLEAN]
      OBVIOUS
    <3> QED BY <3>1 DEF EncapInit
  <2>4. ehops \in [EHop -> EHopInfo \cup {NoEHop}]
    BY DEF EncapInit
  <2>5. signals \in 0 .. MaxWalks /\ changelist \subseteq EOver
    BY EncapAssumption DEF EncapInit
  <2> QED BY <2>2, <2>3, <2>4, <2>5 DEF EncapInit, EncapTypeOK
<1>2. HopsRight /\ DefaultEmpty /\ OverlayHops /\ OverlayFollows
  BY EncapAssumption DEF EncapInit, HopsRight, DefaultEmpty, OverlayHops, OverlayFollows, IsHop
<1> QED BY <1>1, <1>2 DEF EncInv

---------------------------------------------------------------------------
(* What the operators do to a hop, field by field                          *)

RouteOK(r) == /\ r.fwd \in BOOLEAN /\ Content(r) \in ETarget \cup {Dropped}
              /\ NodesOf(r) \subseteq ENode /\ GroupsOf(r) \subseteq EGroup

LEMMA RoutesOK ==
  ASSUME EncapTypeOK, NEW r \in ERoute
  PROVE  RouteOK(r)
<1>1. r.fwd \in BOOLEAN /\ r.target \in ETarget
  BY EncapAssumption DEF ERoute
<1>2. r.target \in EGroup => groupNhs[r.target] \subseteq ENode
  BY DEF EncapTypeOK
<1> QED BY <1>1, <1>2 DEF RouteOK, Content, NodesOf, GroupsOf

LEMMA UnlinkIs ==
  ASSUME NEW h \in EHopInfo, NEW r, NEW u, u = Unlink(h, r)
  PROVE  /\ u \in EHopInfo
         /\ u.lpm = h.lpm /\ u.nbr = h.nbr /\ u.fwd = h.fwd /\ u.npu = h.npu /\ u.off = h.off /\ u.left = h.left
         /\ u.nodes = h.nodes \ NodesOf(r) /\ u.grps = h.grps \ GroupsOf(r)
         /\ ~ h.broken /\ GroupsOf(r) \subseteq h.grps => ~ u.broken
<1>1. PICK b \in BOOLEAN : b = (h.broken \/ ~(GroupsOf(r) \subseteq h.grps))
  OBVIOUS
<1>2. u = [h EXCEPT !.nodes = @ \ NodesOf(r), !.grps = @ \ GroupsOf(r), !.broken = b]
  BY <1>1 DEF Unlink
<1>3. ~ h.broken /\ GroupsOf(r) \subseteq h.grps => ~ b
  BY <1>1
<1> QED BY <1>2, <1>3 DEF EHopInfo

LEMMA LinkIs ==
  ASSUME NEW h \in EHopInfo, NEW r, NodesOf(r) \subseteq ENode, GroupsOf(r) \subseteq EGroup,
         NEW u, u = Link(h, r)
  PROVE  /\ u \in EHopInfo
         /\ u.lpm = h.lpm /\ u.nbr = h.nbr /\ u.fwd = h.fwd /\ u.npu = h.npu /\ u.off = h.off /\ u.left = h.left
         /\ u.nodes = h.nodes \cup NodesOf(r) /\ u.grps = h.grps \cup GroupsOf(r)
         /\ ~ h.broken /\ h.grps = {} => ~ u.broken
<1>1. PICK b \in BOOLEAN : b = (h.broken \/ (GroupsOf(r) # {} /\ h.grps # {}))
  OBVIOUS
<1>2. u = [h EXCEPT !.nodes = @ \cup NodesOf(r), !.grps = @ \cup GroupsOf(r), !.broken = b]
  BY <1>1 DEF Link
<1>3. ~ h.broken /\ h.grps = {} => ~ b
  BY <1>1
<1> QED BY <1>2, <1>3 DEF EHopInfo

LEMMA AttrSetIs ==
  ASSUME NEW h \in EHopInfo, NEW old, NEW new, RouteOK(new), NEW ok \in BOOLEAN,
         NEW s, s = AttrSet(h, old, new, ok)
  PROVE  /\ s \in EHopInfo /\ s.lpm = h.lpm /\ s.left = h.left /\ s.nbr = h.nbr
         /\ ~ Asked(h, old, new) => s = h
         /\ Asked(h, old, new) /\ ~ ok => s.off
         /\ h.off => s.off
         /\ ~ (Asked(h, old, new) /\ ok) => s.npu = h.npu
         /\ (/\ Asked(h, old, new) /\ ok /\ ~ h.broken /\ h.nbr = NoNbr
             /\ IF old = NoRoute THEN h.nodes = {} /\ h.grps = {}
                ELSE h.nodes \subseteq NodesOf(old) /\ h.grps = GroupsOf(old))
            => On(s, new)
<1>1. CASE ~ Asked(h, old, new)
  BY <1>1 DEF AttrSet
<1>2. CASE Asked(h, old, new) /\ ~ ok
  <2>1. s = [h EXCEPT !.fwd = new.fwd, !.off = TRUE]
    BY <1>2 DEF AttrSet
  <2> QED BY <1>2, <2>1 DEF EHopInfo, RouteOK
<1>3. CASE Asked(h, old, new) /\ ok
  <2>1. PICK told : told = [h EXCEPT !.fwd = new.fwd, !.npu = Content(new)]
    OBVIOUS
  <2>2. /\ told \in EHopInfo /\ told.fwd = new.fwd /\ told.npu = Content(new)
        /\ told.lpm = h.lpm /\ told.left = h.left /\ told.nbr = h.nbr /\ told.off = h.off
        /\ told.nodes = h.nodes /\ told.grps = h.grps /\ told.broken = h.broken
    BY <2>1 DEF EHopInfo, RouteOK
  <2>3. PICK un : un = IF old = NoRoute THEN told ELSE Unlink(told, old)
    OBVIOUS
  <2>4. /\ un \in EHopInfo /\ un.fwd = new.fwd /\ un.npu = Content(new)
        /\ un.lpm = h.lpm /\ un.left = h.left /\ un.nbr = h.nbr /\ un.off = h.off
        /\ (/\ ~ h.broken
            /\ IF old = NoRoute THEN h.nodes = {} /\ h.grps = {}
               ELSE h.nodes \subseteq NodesOf(old) /\ h.grps = GroupsOf(old))
           => un.nodes = {} /\ un.grps = {} /\ ~ un.broken
    <3>1. CASE old = NoRoute
      BY <2>2, <2>3, <3>1
    <3>2. CASE old # NoRoute
      <4>1. un = Unlink(told, old)
        BY <2>3, <3>2
      <4>2. /\ un \in EHopInfo
            /\ un.lpm = told.lpm /\ un.nbr = told.nbr /\ un.fwd = told.fwd /\ un.npu = told.npu
            /\ un.off = told.off /\ un.left = told.left
            /\ un.nodes = told.nodes \ NodesOf(old) /\ un.grps = told.grps \ GroupsOf(old)
            /\ ~ told.broken /\ GroupsOf(old) \subseteq told.grps => ~ un.broken
        BY <2>2, <4>1, UnlinkIs
      <4> QED BY <2>2, <3>2, <4>2
    <3> QED BY <3>1, <3>2
  <2>5. s = Link(un, new)
    BY <1>3, <2>1, <2>3 DEF AttrSet
  <2>6. NodesOf(new) \subseteq ENode /\ GroupsOf(new) \subseteq EGroup
    BY DEF RouteOK
  <2>7. /\ s \in EHopInfo
        /\ s.lpm = un.lpm /\ s.nbr = un.nbr /\ s.fwd = un.fwd /\ s.npu = un.npu /\ s.off = un.off /\ s.left = un.left
        /\ s.nodes = un.nodes \cup NodesOf(new) /\ s.grps = un.grps \cup GroupsOf(new)
        /\ ~ un.broken /\ un.grps = {} => ~ s.broken
    BY <2>4, <2>5, <2>6, LinkIs
  <2> QED BY <1>3, <2>4, <2>7 DEF On
<1> QED BY <1>1, <1>2, <1>3
LEMMA BestKnown ==
  ASSUME EncapTypeOK, NEW e \in EHop
  PROVE  /\ Known \subseteq EPrefix /\ 0 \in Known /\ BestOf(e, Known) \in Known
         /\ BestOf(e, Known) # NoRoute
<1>1. Known \subseteq EPrefix /\ 0 \in Known
  BY EncapAssumption DEF Known, EncapTypeOK
<1> QED BY <1>1, BestIs, EncapAssumption

(* A hop that follows nothing is listed by nothing.                        *)
Loose(h) == h.lpm = NoRoute /\ h.nbr = NoNbr /\ h.nodes = {} /\ h.grps = {} /\ ~ h.broken

LEMMA LeaveIs ==
  ASSUME EncapTypeOK, NEW h \in EHopInfo, NEW l, l = LeaveUnderlay(h), NEW e \in EHop
  PROVE  /\ l \in EHopInfo
         /\ l.lpm = NoRoute /\ l.nbr = NoNbr /\ l.npu = h.npu /\ l.off = h.off /\ l.left = h.left
         /\ Right(h, e) => Loose(l)
<1>1. PICK h1 : h1 = [h EXCEPT !.nodes = @ \ {h.nbr}, !.nbr = NoNbr]
  OBVIOUS
<1>2. /\ h1 \in EHopInfo /\ h1.nodes = h.nodes \ {h.nbr} /\ h1.nbr = NoNbr /\ h1.grps = h.grps
      /\ h1.lpm = h.lpm /\ h1.fwd = h.fwd /\ h1.npu = h.npu /\ h1.off = h.off /\ h1.left = h.left
      /\ h1.broken = h.broken
  BY <1>1 DEF EHopInfo
<1>3. CASE h.lpm = NoRoute
  <2>1. l = h1
    BY <1>1, <1>3 DEF LeaveUnderlay
  <2>2. ~ OnRoute(h, e)
    BY <1>3, BestKnown DEF OnRoute
  <2>3. OnNeighbor(h, e) => Loose(l)
    BY <1>2, <1>3, <2>1 DEF OnNeighbor, FollowsNeighbor, Loose
  <2> QED BY <1>2, <1>3, <2>1, <2>2, <2>3 DEF Right
<1>4. CASE h.lpm # NoRoute
  <2>1. PICK un : un = Unlink(h1, eroutes[h.lpm])
    OBVIOUS
  <2>2. l = [un EXCEPT !.lpm = NoRoute]
    BY <1>1, <1>4, <2>1 DEF LeaveUnderlay
  <2>3. /\ un \in EHopInfo
        /\ un.nbr = h1.nbr /\ un.npu = h1.npu /\ un.off = h1.off /\ un.left = h1.left
        /\ un.nodes = h1.nodes \ NodesOf(eroutes[h.lpm]) /\ un.grps = h1.grps \ GroupsOf(eroutes[h.lpm])
        /\ ~ h1.broken /\ GroupsOf(eroutes[h.lpm]) \subseteq h1.grps => ~ un.broken
    BY <1>2, <2>1, UnlinkIs
  <2>4. /\ l \in EHopInfo /\ l.lpm = NoRoute /\ l.nbr = un.nbr /\ l.npu = un.npu /\ l.off = un.off
        /\ l.left = un.left /\ l.nodes = un.nodes /\ l.grps = un.grps /\ l.broken = un.broken
    BY <2>2, <2>3 DEF EHopInfo
  <2>5. ~ OnNeighbor(h, e)
    BY <1>4 DEF OnNeighbor, FollowsNeighbor
  <2>6. OnRoute(h, e) => Loose(l)
    BY <1>2, <2>3, <2>4 DEF OnRoute, On, Loose
  <2> QED BY <1>2, <2>3, <2>4, <2>5, <2>6 DEF Right
<1> QED BY <1>3, <1>4

(* A hop looks up a route, that of another prefix or its first.            *)
LEMMA ResolveIs ==
  ASSUME NEW h \in EHopInfo, NEW q \in EPrefix, NEW new, RouteOK(new), NEW ok \in BOOLEAN,
         NEW s, s = Resolve(h, q, new, ok)
  PROVE  /\ s \in EHopInfo /\ s.left = h.left
         /\ h.off => s.off
         /\ ~ (ResolveAsks(h, q, new) /\ ok) => s.npu = h.npu
         /\ h.lpm = q => s = h
         /\ s.lpm \in {q, h.lpm}
         /\ s.lpm = q \/ s.off
         /\ (h.lpm # q /\ (Loose(h) \/ (h.lpm \in EPrefix /\ eroutes[h.lpm] # NoRoute /\ On(h, eroutes[h.lpm]))))
            => s.off \/ (s.lpm = q /\ On(s, new))
<1>1. CASE h.lpm = q
  BY <1>1 DEF Resolve, ResolveAsks
<1>2. CASE h.lpm # q
  <2>1. PICK old : old = OldRoute(h)
    OBVIOUS
  <2>2. PICK set : set = AttrSet(h, old, new, ok)
    OBVIOUS
  <2>3. s = IF Asked(h, old, new) /\ ~ok THEN set ELSE [set EXCEPT !.lpm = q]
    BY <1>2, <2>1, <2>2 DEF Resolve
  <2>4. /\ set \in EHopInfo /\ set.lpm = h.lpm /\ set.left = h.left /\ set.nbr = h.nbr
        /\ ~ Asked(h, old, new) => set = h
        /\ Asked(h, old, new) /\ ~ ok => set.off
        /\ h.off => set.off
        /\ ~ (Asked(h, old, new) /\ ok) => set.npu = h.npu
        /\ (/\ Asked(h, old, new) /\ ok /\ ~ h.broken /\ h.nbr = NoNbr
            /\ IF old = NoRoute THEN h.nodes = {} /\ h.grps = {}
               ELSE h.nodes \subseteq NodesOf(old) /\ h.grps = GroupsOf(old))
           => On(set, new)
    BY <2>2, AttrSetIs
  <2>5. ResolveAsks(h, q, new) <=> Asked(h, old, new)
    BY <1>2, <2>1 DEF ResolveAsks
  <2>6. CASE Asked(h, old, new) /\ ~ok
    BY <1>2, <2>3, <2>4, <2>5, <2>6
  <2>7. CASE ~ (Asked(h, old, new) /\ ~ok)
    <3>1. s = [set EXCEPT !.lpm = q]
      BY <2>3, <2>7
    <3>2. /\ s \in EHopInfo /\ s.lpm = q /\ s.left = set.left /\ s.nbr = set.nbr /\ s.npu = set.npu
          /\ s.fwd = set.fwd /\ s.off = set.off /\ s.nodes = set.nodes /\ s.grps = set.grps
          /\ s.broken = set.broken
      BY <2>4, <3>1 DEF EHopInfo
    <3>3. On(set, new) => On(s, new)
      BY <3>2 DEF On
    <3>4. ASSUME Loose(h) \/ (h.lpm \in EPrefix /\ eroutes[h.lpm] # NoRoute /\ On(h, eroutes[h.lpm]))
          PROVE  On(set, new)
      <4>1. CASE Loose(h)
        <5>1. old = NoRoute
          BY <2>1, <4>1 DEF Loose, OldRoute
        <5>2. Asked(h, old, new) /\ ok
          BY <2>7, <5>1 DEF Asked
        <5> QED BY <2>4, <4>1, <5>1, <5>2 DEF Loose
      <4>2. CASE h.lpm \in EPrefix /\ eroutes[h.lpm] # NoRoute /\ On(h, eroutes[h.lpm])
        <5>1. old = eroutes[h.lpm] /\ old # NoRoute
          BY <2>1, <4>2, EncapAssumption DEF OldRoute
        <5>2. CASE Asked(h, old, new)
          BY <2>4, <2>7, <4>2, <5>1, <5>2 DEF On
        <5>3. CASE ~ Asked(h, old, new)
          BY <2>4, <4>2, <5>1, <5>3 DEF On, Asked, Content, NodesOf, GroupsOf
        <5> QED BY <5>2, <5>3
      <4> QED BY <3>4, <4>1, <4>2
    <3> QED BY <1>2, <2>4, <2>5, <2>7, <3>2, <3>3, <3>4
  <2> QED BY <2>6, <2>7
<1> QED BY <1>1, <1>2
LEMMA NeighborIs ==
  ASSUME NEW h \in EHopInfo, NEW n \in ENode, NEW ok \in BOOLEAN, NEW s, s = NeighborResolve(h, n, ok)
  PROVE  /\ s \in EHopInfo /\ s.lpm = h.lpm
         /\ h.off => s.off
         /\ ~ ok => s.off /\ s.npu = h.npu
         /\ ok => s.npu = n /\ s.nbr = n /\ s.nodes = h.nodes \cup {n} /\ s.grps = h.grps /\ s.broken = h.broken
<1>1. CASE ok
  <2>1. s = [h EXCEPT !.fwd = TRUE, !.npu = n, !.nbr = n, !.nodes = @ \cup {n}, !.left = FALSE]
    BY <1>1 DEF NeighborResolve
  <2>2. n \in ETarget
    BY DEF ETarget
  <2>3. s \in EHopInfo
    <3>1. PICK N \in SUBSET ENode : N = h.nodes \cup {n}
      BY DEF EHopInfo
    <3>2. s = [h EXCEPT !.fwd = TRUE, !.npu = n, !.nbr = n, !.nodes = N, !.left = FALSE]
      BY <2>1, <3>1
    <3> QED BY <2>2, <3>2 DEF EHopInfo
  <2>4. /\ s.lpm = h.lpm /\ s.off = h.off /\ s.npu = n /\ s.nbr = n /\ s.nodes = h.nodes \cup {n}
        /\ s.grps = h.grps /\ s.broken = h.broken
    BY <2>1 DEF EHopInfo
  <2> QED BY <1>1, <2>3, <2>4
<1>2. CASE ~ ok
  <2>1. s = [h EXCEPT !.fwd = TRUE, !.off = TRUE]
    BY <1>2 DEF NeighborResolve
  <2> QED BY <1>2, <2>1 DEF EHopInfo
<1> QED BY <1>1, <1>2

LEMMA HopIs ==
  ASSUME EncInv, NEW e \in EHop, IsHop(e)
  PROVE  ehops[e] \in EHopInfo
BY DEF EncInv, EncapTypeOK, IsHop

(* While all is settled, a hop with a route is on the best one.            *)
LEMMA OnItsRoute ==
  ASSUME EncInv, Settled, NEW e \in EHop, IsHop(e), ehops[e].lpm # NoRoute
  PROVE  /\ ehops[e].lpm \in Known /\ ehops[e].lpm \in EPrefix /\ eroutes[ehops[e].lpm] # NoRoute
         /\ OnRoute(ehops[e], e) /\ ~ ehops[e].off
<1>1. ~ ehops[e].off /\ Right(ehops[e], e)
  BY DEF EncInv, HopsRight, Settled
<1>2. OnRoute(ehops[e], e)
  BY <1>1 DEF Right, OnNeighbor, FollowsNeighbor
<1>3. ehops[e].lpm \in Known
  BY <1>2, BestKnown DEF OnRoute, EncInv
<1> QED BY <1>1, <1>2, <1>3 DEF Known

(* A change of hops that tells the overlay routes on them, and a quiet one *)
LEMMA OverlaysTold ==
  ASSUME EncInv, UNCHANGED <<over, walking>>, NEW told \in SUBSET EHop, Changed(told), Signal,
         \A e \in EHop : IsHop(e) => ehops'[e] # NoEHop /\ (e \notin told => ehops'[e].npu = ehops[e].npu)
  PROVE  OverlayHops' /\ OverlayFollows' /\ changelist' \subseteq EOver /\ signals' \in 0 .. MaxWalks
<1>1. \A o \in EOver : over[o].hop \in EHop \cup {NoEHop}
  BY DEF EncInv, EncapTypeOK
<1>2. changelist' = changelist \cup {o \in EOver : over[o].hop \in told}
  BY DEF Changed
<1>3. OverlayHops'
  BY <1>1, <1>2, EncapAssumption DEF EncInv, OverlayHops, IsHop
<1>4. signals' \in 0 .. MaxWalks /\ signals' > 0
  BY EncapAssumption DEF EncInv, EncapTypeOK, Signal
<1>5. ASSUME NEW o \in EOver \ changelist', over[o].hop # NoEHop
      PROVE  ehops'[over[o].hop] # NoEHop /\ (over[o].missed \/ over[o].seen = ehops'[over[o].hop].npu)
  <2>1. o \notin changelist /\ over[o].hop \in EHop /\ over[o].hop \notin told
    BY <1>1, <1>2, <1>5
  <2>2. IsHop(over[o].hop) /\ (over[o].missed \/ over[o].seen = ehops[over[o].hop].npu)
    BY <1>5, <2>1 DEF EncInv, OverlayFollows
  <2> QED BY <2>1, <2>2
<1>6. OverlayFollows'
  BY <1>4, <1>5 DEF OverlayFollows, IsHop
<1>7. changelist' \subseteq EOver
  BY <1>2 DEF EncInv, EncapTypeOK
<1> QED BY <1>3, <1>4, <1>6, <1>7

LEMMA OverlaysQuiet ==
  ASSUME EncInv, UNCHANGED <<over, changelist, signals, walking>>,
         \A e \in EHop : IsHop(e) => ehops'[e] # NoEHop /\ ehops'[e].npu = ehops[e].npu
  PROVE  OverlayHops' /\ OverlayFollows'
<1>1. \A o \in EOver : over[o].hop \in EHop \cup {NoEHop}
  BY DEF EncInv, EncapTypeOK
<1>2. OverlayHops'
  BY <1>1 DEF EncInv, OverlayHops, IsHop
<1>3. ASSUME NEW o \in EOver \ changelist, over[o].hop # NoEHop
      PROVE  ehops'[over[o].hop] # NoEHop /\ (over[o].missed \/ over[o].seen = ehops'[over[o].hop].npu)
  BY <1>1, <1>3 DEF EncInv, OverlayFollows
<1>4. OverlayFollows'
  BY <1>3 DEF EncInv, OverlayFollows, IsHop
<1> QED BY <1>2, <1>4

(* Hops that look again for their route                                    *)
LEMMA ReresolvedIs ==
  ASSUME EncInv, Settled, NEW S \in SUBSET EHop, \A e \in S : IsHop(e) /\ ehops[e].lpm # NoRoute,
         NEW K \in SUBSET EPrefix, 0 \in K, NEW rts, \A q \in K : RouteOK(rts[q]), NEW bad,
         NEW e \in EHop, IsHop(e), NEW s, s = Reresolved(S, K, rts, bad)[e],
         NEW q, q = BestOf(e, K)
  PROVE  /\ s \in EHopInfo
         /\ e \notin S => s = ehops[e]
         /\ e \in S => /\ s.left = ehops[e].left /\ s.lpm \in {q, ehops[e].lpm}
                       /\ s.off \/ s.lpm = q
                       /\ ehops[e].lpm = q => s = ehops[e]
                       /\ ehops[e].lpm # q => s.off \/ On(s, rts[q])
         /\ e \notin Told(S, K, rts, bad) => s.npu = ehops[e].npu
<1>1. ehops[e] \in EHopInfo
  BY HopIs
<1>2. CASE e \notin S
  <2>1. s = ehops[e]
    BY <1>2 DEF Reresolved
  <2> QED BY <1>1, <1>2, <2>1
<1>3. CASE e \in S
  <2>1. q \in K /\ q \in EPrefix
    BY BestIs
  <2>2. PICK ok \in BOOLEAN : ok <=> e \notin bad
    OBVIOUS
  <2>3. s = Resolve(ehops[e], q, rts[q], ok)
    BY <1>3, <2>2 DEF Reresolved
  <2>4. PICK h \in EHopInfo : h = ehops[e]
    BY <1>1
  <2>5. h.lpm \in EPrefix /\ eroutes[h.lpm] # NoRoute /\ On(h, eroutes[h.lpm])
    BY <1>3, <2>4, OnItsRoute DEF OnRoute
  <2>6. /\ s \in EHopInfo /\ s.left = h.left
        /\ ~ (ResolveAsks(h, q, rts[q]) /\ ok) => s.npu = h.npu
        /\ h.lpm = q => s = h
        /\ s.lpm \in {q, h.lpm}
        /\ s.lpm = q \/ s.off
        /\ (h.lpm # q /\ (Loose(h) \/ (h.lpm \in EPrefix /\ eroutes[h.lpm] # NoRoute /\ On(h, eroutes[h.lpm]))))
           => s.off \/ (s.lpm = q /\ On(s, rts[q]))
    BY <2>1, <2>3, <2>4, ResolveIs
  <2>7. e \notin Told(S, K, rts, bad) => ~ (ResolveAsks(h, q, rts[q]) /\ ok)
    BY <1>3, <2>2, <2>4 DEF Told
  <2> QED BY <1>3, <2>4, <2>5, <2>6, <2>7
<1> QED BY <1>2, <1>3
---------------------------------------------------------------------------
(* Routes                                                                  *)

LEMMA CreateRouteInv ==
  ASSUME EncInv, Settled, NEW p \in EPrefix, NEW r \in ERoute, NEW bad, CreateRoute(p, r, bad)
  PROVE  EncInv'
<1> USE DEF EncInv
<1>1. PICK rts : rts = [eroutes EXCEPT ![p] = r]
  OBVIOUS
<1>2. PICK S : S = {e \in EHop : IsHop(e) /\ ehops[e].lpm \in {q \in EPrefix : q < p} /\ p <= Bits[e]}
  OBVIOUS
<1>3. PICK K : K = Known \cup {p}
  OBVIOUS
<1>4. PICK told : told = Told(S, K, rts, bad)
  OBVIOUS
<1>5. /\ p # 0 /\ eroutes[p] = NoRoute /\ eroutes' = rts
      /\ ehops' = Reresolved(S, K, rts, bad) /\ Changed(told) /\ Signal
      /\ UNCHANGED <<groupNhs, neighbors, hwDefault, over, walking>>
  BY <1>1, <1>2, <1>3, <1>4, Zenon DEF CreateRoute
<1>6. r # NoRoute
  BY EncapAssumption
<1>7. K \in SUBSET EPrefix /\ 0 \in K /\ Known' = K /\ p \notin Known
  <2>1. \A q \in EPrefix : rts[q] # NoRoute <=> (q \in Known \/ q = p)
    BY <1>1, <1>6 DEF Known, EncapTypeOK
  <2>2. Known' = K
    BY <1>3, <1>5, <2>1 DEF Known
  <2> QED BY <1>3, <1>5, <2>2, EncapAssumption DEF Known, EncapTypeOK
<1>8. rts \in [EPrefix -> ERoute \cup {NoRoute}] /\ \A q \in K : RouteOK(rts[q])
  <2>1. rts \in [EPrefix -> ERoute \cup {NoRoute}]
    BY <1>1 DEF EncapTypeOK
  <2>2. \A q \in K : rts[q] \in ERoute
    BY <1>5, <1>7, <2>1 DEF Known
  <2> QED BY <2>1, <2>2, RoutesOK
<1>9. S \in SUBSET EHop /\ \A e \in S : IsHop(e) /\ ehops[e].lpm # NoRoute
  BY <1>2, EncapAssumption
<1>10. ASSUME NEW e \in EHop, IsHop(e)
       PROVE  /\ ehops'[e] \in EHopInfo
              /\ e \notin told => ehops'[e].npu = ehops[e].npu
              /\ ~ ehops'[e].off => Right(ehops[e], e)'
  <2>1. PICK h \in EHopInfo : h = ehops[e]
    BY <1>10, HopIs
  <2>2. PICK q : q = BestOf(e, K)
    OBVIOUS
  <2>3. PICK s : s = ehops'[e]
    OBVIOUS
  <2>4. s = Reresolved(S, K, rts, bad)[e]
    BY <1>5, <2>3
  <2>5. /\ s \in EHopInfo
        /\ e \notin S => s = ehops[e]
        /\ e \in S => /\ s.left = ehops[e].left /\ s.lpm \in {q, ehops[e].lpm}
                      /\ s.off \/ s.lpm = q
                      /\ ehops[e].lpm = q => s = ehops[e]
                      /\ ehops[e].lpm # q => s.off \/ On(s, rts[q])
        /\ e \notin Told(S, K, rts, bad) => s.npu = ehops[e].npu
    BY <1>7, <1>8, <1>9, <1>10, <2>2, <2>4, ReresolvedIs
  <2>6. ~ h.off /\ Right(h, e)
    BY <1>10, <2>1 DEF Settled, HopsRight
  <2>7. CASE e \in S
    <3>1. OnRoute(h, e) /\ h.lpm \in Known /\ h.lpm < p /\ p <= Bits[e]
      BY <1>2, <1>9, <1>10, <2>1, <2>7, OnItsRoute
    <3>2. \A k \in Known : k <= Bits[e] => k <= h.lpm
      BY <3>1, BestIs, BestKnown DEF OnRoute
    <3>3. q = p
      <4>1. \A k \in K : k <= Bits[e] => k <= p
        <5> SUFFICES ASSUME NEW k \in K, k <= Bits[e], k # p  PROVE k <= p
          BY EncapAssumption
        <5>1. k \in Known /\ k <= h.lpm
          BY <1>3, <3>2
        <5>2. k \in Nat /\ p \in Nat /\ h.lpm \in Nat
          BY <1>7, <3>1, EncapAssumption DEF Known
        <5> QED BY <3>1, <5>1, <5>2
      <4> QED BY <1>3, <1>7, <2>2, <3>1, <4>1, BestOnly
    <3>4. ~ s.off => s.lpm = p /\ On(s, r) /\ s.left = h.left
      <4>1. h.lpm # p /\ rts[p] = r
        BY <1>1, <1>7, <3>1 DEF EncapTypeOK
      <4> QED BY <2>1, <2>5, <2>7, <3>3, <4>1
    <3>5. ~ s.off => OnRoute(s, e)'
      <4> SUFFICES ASSUME ~ s.off
                   PROVE  /\ s.lpm = BestOf(e, Known') /\ On(s, eroutes[s.lpm])'
                          /\ \A n \in neighbors' : Follows(e, n) => s.left
        BY DEF OnRoute, Follows
      <4>1. s.lpm = BestOf(e, Known')
        BY <1>7, <2>2, <3>3, <3>4
      <4>2. eroutes'[s.lpm] = r
        BY <1>1, <1>5, <3>4 DEF EncapTypeOK
      <4>3. On(s, eroutes[s.lpm])'
        BY <1>5, <3>4, <4>2 DEF On, Content, NodesOf, GroupsOf
      <4>4. \A n \in neighbors' : Follows(e, n) => s.left
        BY <1>5, <3>1, <3>4 DEF OnRoute
      <4> QED BY <4>1, <4>3, <4>4
    <3> QED BY <1>4, <2>3, <2>5, <3>5 DEF Right
  <2>8. CASE e \notin S
    <3>1. s = h
      BY <2>1, <2>5, <2>8
    <3>2. CASE OnNeighbor(h, e)
      <4>1. OnNeighbor(h, e)'
        BY <1>5, <3>2 DEF OnNeighbor, FollowsNeighbor, Follows
      <4> QED BY <2>1, <2>3, <2>5, <3>1, <4>1 DEF Right
    <3>3. CASE OnRoute(h, e)
      <4>1. h.lpm = BestOf(e, Known) /\ h.lpm \in Known /\ h.lpm \in EPrefix
        BY <3>3, BestKnown DEF OnRoute, Known
      <4>2. h.lpm <= Bits[e] /\ \A k \in Known : k <= Bits[e] => k <= h.lpm
        BY <4>1, BestIs, BestKnown
      <4>3. p <= Bits[e] => p <= h.lpm
        <5>1. ~ (h.lpm < p /\ p <= Bits[e])
          BY <1>2, <1>10, <2>1, <2>8, <4>1
        <5>2. p \in Nat /\ h.lpm \in Nat
          BY <4>1, EncapAssumption
        <5> QED BY <5>1, <5>2
      <4>4. h.lpm = BestOf(e, K)
        BY <1>3, <1>7, <4>1, <4>2, <4>3, BestOnly
      <4>5. eroutes'[h.lpm] = eroutes[h.lpm]
        BY <1>1, <1>5, <1>7, <4>1 DEF EncapTypeOK
      <4>6. On(h, eroutes[h.lpm])'
        BY <1>5, <3>3, <4>5 DEF OnRoute, On, Content, NodesOf, GroupsOf
      <4>7. OnRoute(h, e)'
        BY <1>5, <1>7, <3>3, <4>4, <4>6 DEF OnRoute, Follows
      <4> QED BY <2>1, <2>3, <2>5, <3>1, <4>7 DEF Right
    <3> QED BY <2>6, <3>2, <3>3 DEF Right
  <2> QED BY <2>7, <2>8
<1>11. \A e \in EHop : ~ IsHop(e) => ehops'[e] = NoEHop
  BY <1>5, <1>9 DEF Reresolved, IsHop
<1>12. told \in SUBSET EHop /\ \A e \in EHop : IsHop(e) => ehops'[e] # NoEHop
  BY <1>4, <1>9, <1>10, EncapAssumption DEF Told
<1>13. OverlayHops' /\ OverlayFollows' /\ changelist' \subseteq EOver /\ signals' \in 0 .. MaxWalks
  BY <1>5, <1>10, <1>12, OverlaysTold
<1>14. HopsRight'
  BY <1>10, <1>11 DEF HopsRight, Right, IsHop
<1>15. EncapTypeOK'
  <2>1. ehops' \in [EHop -> EHopInfo \cup {NoEHop}]
    <3>1. ehops' = [e \in EHop |-> ehops'[e]]
      BY <1>5 DEF Reresolved
    <3> QED BY <1>10, <1>11, <3>1
  <2>2. eroutes'[0] # NoRoute
    BY <1>1, <1>5, EncapAssumption DEF EncapTypeOK
  <2> QED BY <1>5, <1>8, <1>13, <2>1, <2>2 DEF EncapTypeOK
<1>16. DefaultEmpty'
  BY <1>1, <1>5, EncapAssumption DEF DefaultEmpty, EncapTypeOK
<1> QED BY <1>13, <1>14, <1>15, <1>16
LEMMA RemoveRouteInv ==
  ASSUME EncInv, Settled, NEW p \in EPrefix, NEW bad, RemoveRoute(p, bad)
  PROVE  EncInv'
<1> USE DEF EncInv
<1>1. PICK S : S = Dependants(p)
  OBVIOUS
<1>2. PICK K : K = Known \ {p}
  OBVIOUS
<1>3. PICK told : told = Told(S, K, eroutes, bad)
  OBVIOUS
<1>4. PICK moved : moved = Reresolved(S, K, eroutes, bad)
  OBVIOUS
<1>5. /\ p # 0 /\ eroutes[p] # NoRoute /\ eroutes' = [eroutes EXCEPT ![p] = NoRoute]
      /\ ehops' = [e \in EHop |-> IF e \in S /\ moved[e].lpm = p
                                  THEN [moved[e] EXCEPT !.broken = TRUE] ELSE moved[e]]
      /\ Changed(told) /\ Signal
      /\ UNCHANGED <<groupNhs, neighbors, hwDefault, over, walking>>
  BY <1>1, <1>2, <1>3, <1>4, Zenon DEF RemoveRoute
<1>6. K \in SUBSET EPrefix /\ 0 \in K /\ Known' = K /\ \A q \in K : eroutes'[q] = eroutes[q]
  <2>1. \A q \in EPrefix : eroutes'[q] # NoRoute <=> q \in K
    BY <1>2, <1>5 DEF Known, EncapTypeOK
  <2>2. Known' = K
    BY <1>2, <2>1 DEF Known
  <2> QED BY <1>2, <1>5, <2>2, EncapAssumption DEF Known, EncapTypeOK
<1>7. \A q \in K : RouteOK(eroutes[q])
  <2>1. \A q \in K : eroutes[q] \in ERoute
    BY <1>2 DEF Known, EncapTypeOK
  <2> QED BY <2>1, RoutesOK
<1>8. S \in SUBSET EHop /\ \A e \in S : IsHop(e) /\ ehops[e].lpm = p /\ ehops[e].lpm # NoRoute
  BY <1>1, EncapAssumption DEF Dependants
<1>9. ASSUME NEW e \in EHop, IsHop(e)
       PROVE  /\ ehops'[e] \in EHopInfo
              /\ e \notin told => ehops'[e].npu = ehops[e].npu
              /\ ~ ehops'[e].off => Right(ehops[e], e)'
  <2>1. PICK h \in EHopInfo : h = ehops[e]
    BY <1>9, HopIs
  <2>2. PICK q : q = BestOf(e, K)
    OBVIOUS
  <2>3. PICK s : s = ehops'[e]
    OBVIOUS
  <2>4. PICK m : m = Reresolved(S, K, eroutes, bad)[e]
    OBVIOUS
  <2>5. /\ m \in EHopInfo
        /\ e \notin S => m = ehops[e]
        /\ e \in S => /\ m.left = ehops[e].left /\ m.lpm \in {q, ehops[e].lpm}
                      /\ m.off \/ m.lpm = q
                      /\ ehops[e].lpm = q => m = ehops[e]
                      /\ ehops[e].lpm # q => m.off \/ On(m, eroutes[q])
        /\ e \notin Told(S, K, eroutes, bad) => m.npu = ehops[e].npu
    BY <1>6, <1>7, <1>8, <1>9, <2>2, <2>4, ReresolvedIs
  <2>6. s = IF e \in S /\ m.lpm = p THEN [m EXCEPT !.broken = TRUE] ELSE m
    BY <1>4, <1>5, <2>3, <2>4
  <2>7. s \in EHopInfo /\ s.npu = m.npu /\ s.off = m.off
    BY <2>5, <2>6 DEF EHopInfo
  <2>8. ~ h.off /\ Right(h, e)
    BY <1>9, <2>1 DEF Settled, HopsRight
  <2>9. q \in K /\ q # p /\ q \in EPrefix
    BY <1>2, <1>6, <2>2, BestIs
  <2>10. CASE e \in S
    <3>1. OnRoute(h, e) /\ h.lpm = p
      BY <1>8, <1>9, <2>1, <2>10, OnItsRoute
    <3>2. ~ s.off => s = m /\ s.lpm = q /\ On(s, eroutes[q]) /\ s.left = h.left
      BY <2>1, <2>5, <2>6, <2>7, <2>9, <2>10, <3>1
    <3>3. ~ s.off => OnRoute(s, e)'
      <4> SUFFICES ASSUME ~ s.off
                   PROVE  /\ s.lpm = BestOf(e, Known') /\ On(s, eroutes[s.lpm])'
                          /\ \A n \in neighbors' : Follows(e, n) => s.left
        BY DEF OnRoute, Follows
      <4>1. s.lpm = BestOf(e, Known')
        BY <1>6, <2>2, <3>2
      <4>2. eroutes'[s.lpm] = eroutes[q]
        BY <1>6, <2>9, <3>2
      <4>3. On(s, eroutes[s.lpm])'
        BY <1>5, <3>2, <4>2 DEF On, Content, NodesOf, GroupsOf
      <4>4. \A n \in neighbors' : Follows(e, n) => s.left
        BY <1>5, <3>1, <3>2 DEF OnRoute
      <4> QED BY <4>1, <4>3, <4>4
    <3> QED BY <1>3, <2>3, <2>5, <2>7, <3>3 DEF Right
  <2>11. CASE e \notin S
    <3>1. s = h
      BY <2>1, <2>5, <2>6, <2>11
    <3>2. CASE OnNeighbor(h, e)
      <4>1. OnNeighbor(h, e)'
        BY <1>5, <3>2 DEF OnNeighbor, FollowsNeighbor, Follows
      <4> QED BY <2>1, <2>3, <2>7, <3>1, <4>1 DEF Right
    <3>3. CASE OnRoute(h, e)
      <4>1. h.lpm = BestOf(e, Known) /\ h.lpm \in Known /\ h.lpm \in EPrefix /\ h.lpm # p
        BY <1>1, <1>9, <2>1, <2>11, <3>3, BestKnown DEF OnRoute, Known, Dependants
      <4>2. h.lpm <= Bits[e] /\ \A k \in Known : k <= Bits[e] => k <= h.lpm
        BY <4>1, BestIs, BestKnown
      <4>3. h.lpm = BestOf(e, K)
        BY <1>2, <1>6, <4>1, <4>2, BestOnly
      <4>4. eroutes'[h.lpm] = eroutes[h.lpm]
        BY <1>2, <1>6, <4>1
      <4>5. On(h, eroutes[h.lpm])'
        BY <1>5, <3>3, <4>4 DEF OnRoute, On, Content, NodesOf, GroupsOf
      <4>6. OnRoute(h, e)'
        BY <1>5, <1>6, <3>3, <4>3, <4>5 DEF OnRoute, Follows
      <4> QED BY <2>1, <2>3, <2>7, <3>1, <4>6 DEF Right
    <3> QED BY <2>8, <3>2, <3>3 DEF Right
  <2> QED BY <2>10, <2>11
<1>10. \A e \in EHop : ~ IsHop(e) => ehops'[e] = NoEHop
  BY <1>4, <1>5, <1>8 DEF Reresolved, IsHop
<1>11. told \in SUBSET EHop /\ \A e \in EHop : IsHop(e) => ehops'[e] # NoEHop
  BY <1>3, <1>8, <1>9, EncapAssumption DEF Told
<1>12. OverlayHops' /\ OverlayFollows' /\ changelist' \subseteq EOver /\ signals' \in 0 .. MaxWalks
  BY <1>5, <1>9, <1>11, OverlaysTold
<1>13. HopsRight'
  BY <1>9, <1>10 DEF HopsRight, Right, IsHop
<1>14. EncapTypeOK'
  <2>1. ehops' \in [EHop -> EHopInfo \cup {NoEHop}]
    <3>1. ehops' = [e \in EHop |-> ehops'[e]]
      BY <1>5
    <3> QED BY <1>9, <1>10, <3>1
  <2>2. eroutes' \in [EPrefix -> ERoute \cup {NoRoute}] /\ eroutes'[0] # NoRoute
    BY <1>5, EncapAssumption DEF EncapTypeOK
  <2> QED BY <1>5, <1>12, <2>1, <2>2 DEF EncapTypeOK
<1>15. DefaultEmpty'
  BY <1>5, EncapAssumption DEF DefaultEmpty, EncapTypeOK
<1> QED BY <1>12, <1>13, <1>14, <1>15

(* An update of the hops on a route, from old to new, while the route      *)
(* becomes r, which says the same as new: it is right for each of them,    *)
(* or it is known that it cannot be.                                       *)
LEMMA UpdatedInv ==
  ASSUME EncInv, Settled, NEW p \in EPrefix, NEW old, NEW new, NEW r \in ERoute, NEW bad, NEW off \in BOOLEAN,
         eroutes[p] # NoRoute, old # NoRoute, RouteOK(new),
         Updated(p, old, new, bad, off), eroutes' = [eroutes EXCEPT ![p] = r], hwDefault' \in BOOLEAN,
         \A s : On(s, new) => On(s, r),
         off \/ \A h : On(h, eroutes[p]) =>
                   /\ h.nodes \subseteq NodesOf(old) /\ h.grps = GroupsOf(old)
                   /\ ~ Asked(h, old, new) => On(h, new)
  PROVE  EncapTypeOK' /\ HopsRight' /\ OverlayHops' /\ OverlayFollows'
<1> USE DEF EncInv
<1>1. PICK S : S = Dependants(p)
  OBVIOUS
<1>2. PICK told : told = {e \in S \ bad : Asked(ehops[e], old, new)}
  OBVIOUS
<1>3. /\ ehops' = [e \in EHop |-> IF e \notin S THEN ehops[e] ELSE
               AttrSet([ehops[e] EXCEPT !.off = @ \/ off], old, new, e \notin bad)]
      /\ Changed(told) /\ Signal
      /\ UNCHANGED <<groupNhs, neighbors, over, walking>>
  BY <1>1, <1>2, Zenon DEF Updated
<1>4. Known' = Known
  <2>1. \A q \in EPrefix : eroutes'[q] # NoRoute <=> eroutes[q] # NoRoute
    BY EncapAssumption DEF EncapTypeOK
  <2> QED BY <2>1 DEF Known
<1>5. S \in SUBSET EHop /\ \A e \in S : IsHop(e) /\ ehops[e].lpm = p /\ ehops[e].lpm # NoRoute
  BY <1>1, EncapAssumption DEF Dependants
<1>6. ASSUME NEW e \in EHop, IsHop(e)
       PROVE  /\ ehops'[e] \in EHopInfo
              /\ e \notin told => ehops'[e].npu = ehops[e].npu
              /\ ~ ehops'[e].off => Right(ehops[e], e)'
  <2>1. PICK h \in EHopInfo : h = ehops[e]
    BY <1>6, HopIs
  <2>2. PICK s : s = ehops'[e]
    OBVIOUS
  <2>3. ~ h.off /\ Right(h, e)
    BY <1>6, <2>1 DEF Settled, HopsRight
  <2>4. CASE e \in S
    <3>1. OnRoute(h, e) /\ h.lpm = p /\ On(h, eroutes[p])
      BY <1>5, <1>6, <2>1, <2>4, OnItsRoute DEF OnRoute
    <3>2. PICK h1 : h1 = [h EXCEPT !.off = @ \/ off]
      OBVIOUS
    <3>3. /\ h1 \in EHopInfo /\ h1.lpm = h.lpm /\ h1.left = h.left /\ h1.npu = h.npu /\ h1.fwd = h.fwd
          /\ h1.nodes = h.nodes /\ h1.grps = h.grps /\ h1.broken = h.broken /\ h1.nbr = h.nbr
          /\ off => h1.off
      BY <3>2 DEF EHopInfo
    <3>4. PICK ok \in BOOLEAN : ok <=> e \notin bad
      OBVIOUS
    <3>5. s = AttrSet(h1, old, new, ok)
      BY <1>3, <2>1, <2>2, <2>4, <3>2, <3>4
    <3>6. /\ s \in EHopInfo /\ s.lpm = h1.lpm /\ s.left = h1.left /\ s.nbr = h1.nbr
          /\ ~ Asked(h1, old, new) => s = h1
          /\ Asked(h1, old, new) /\ ~ ok => s.off
          /\ h1.off => s.off
          /\ ~ (Asked(h1, old, new) /\ ok) => s.npu = h1.npu
          /\ (/\ Asked(h1, old, new) /\ ok /\ ~ h1.broken /\ h1.nbr = NoNbr
              /\ IF old = NoRoute THEN h1.nodes = {} /\ h1.grps = {}
                 ELSE h1.nodes \subseteq NodesOf(old) /\ h1.grps = GroupsOf(old))
             => On(s, new)
      <4>1. h1 \in EHopInfo
        BY <3>3
      <4>2. RouteOK(new)
        OBVIOUS
      <4> QED BY ONLY <3>5, <4>1, <4>2, AttrSetIs
    <3>7. Asked(h1, old, new) <=> Asked(h, old, new)
      BY <3>3 DEF Asked
    <3>8. e \notin told => s.npu = h.npu
      BY <1>2, <2>1, <2>4, <3>3, <3>4, <3>6, <3>7
    <3>9. ~ s.off => On(s, r)
      <4> SUFFICES ASSUME ~ s.off  PROVE On(s, new)
        OBVIOUS
      <4>1. /\ h.nodes \subseteq NodesOf(old) /\ h.grps = GroupsOf(old)
            /\ ~ Asked(h, old, new) => On(h, new)
        BY <3>1, <3>3, <3>6
      <4>2. ~ h.broken /\ h.nbr = NoNbr
        BY <3>1 DEF On
      <4>3. CASE Asked(h, old, new)
        BY <3>3, <3>6, <3>7, <4>1, <4>2, <4>3
      <4>4. CASE ~ Asked(h, old, new)
        BY <3>3, <3>6, <3>7, <4>1, <4>4 DEF On
      <4> QED BY <4>3, <4>4
    <3>10. ~ s.off => OnRoute(s, e)'
      <4> SUFFICES ASSUME ~ s.off
                   PROVE  /\ s.lpm = BestOf(e, Known') /\ On(s, eroutes[s.lpm])'
                          /\ \A n \in neighbors' : Follows(e, n) => s.left
        BY DEF OnRoute, Follows
      <4>1. s.lpm = BestOf(e, Known')
        BY <1>4, <3>1, <3>3, <3>6 DEF OnRoute
      <4>2. eroutes'[s.lpm] = r
        BY <3>1, <3>3, <3>6 DEF EncapTypeOK
      <4>3. On(s, eroutes[s.lpm])'
        BY <1>3, <3>9, <4>2 DEF On, Content, NodesOf, GroupsOf
      <4>4. \A n \in neighbors' : Follows(e, n) => s.left
        BY <1>3, <3>1, <3>3, <3>6 DEF OnRoute
      <4> QED BY <4>1, <4>3, <4>4
    <3> QED BY <2>1, <2>2, <3>6, <3>8, <3>10 DEF Right
  <2>5. CASE e \notin S
    <3>1. s = h
      BY <1>3, <2>1, <2>2, <2>5
    <3>2. CASE OnNeighbor(h, e)
      <4>1. OnNeighbor(h, e)'
        BY <1>3, <3>2 DEF OnNeighbor, FollowsNeighbor, Follows
      <4> QED BY <2>1, <2>2, <3>1, <4>1 DEF Right
    <3>3. CASE OnRoute(h, e)
      <4>1. h.lpm = BestOf(e, Known) /\ h.lpm \in Known /\ h.lpm \in EPrefix /\ h.lpm # p
        BY <1>1, <1>6, <2>1, <2>5, <3>3, BestKnown DEF OnRoute, Known, Dependants
      <4>2. eroutes'[h.lpm] = eroutes[h.lpm]
        BY <4>1 DEF EncapTypeOK
      <4>3. On(h, eroutes[h.lpm])'
        BY <1>3, <3>3, <4>2 DEF OnRoute, On, Content, NodesOf, GroupsOf
      <4>4. OnRoute(h, e)'
        BY <1>3, <1>4, <3>3, <4>3 DEF OnRoute, Follows
      <4> QED BY <2>1, <2>2, <3>1, <4>4 DEF Right
    <3> QED BY <2>3, <3>2, <3>3 DEF Right
  <2> QED BY <2>4, <2>5
<1>7. \A e \in EHop : ~ IsHop(e) => ehops'[e] = NoEHop
  BY <1>3, <1>5 DEF IsHop
<1>8. told \in SUBSET EHop /\ \A e \in EHop : IsHop(e) => ehops'[e] # NoEHop
  BY <1>2, <1>5, <1>6, EncapAssumption
<1>9. OverlayHops' /\ OverlayFollows' /\ changelist' \subseteq EOver /\ signals' \in 0 .. MaxWalks
  BY <1>3, <1>6, <1>8, OverlaysTold
<1>10. HopsRight'
  BY <1>6, <1>7 DEF HopsRight, Right, IsHop
<1>11. EncapTypeOK'
  <2>1. ehops' \in [EHop -> EHopInfo \cup {NoEHop}]
    <3>1. ehops' = [e \in EHop |-> ehops'[e]]
      BY <1>3
    <3> QED BY <1>6, <1>7, <3>1
  <2>2. eroutes' \in [EPrefix -> ERoute \cup {NoRoute}] /\ eroutes'[0] # NoRoute
    BY EncapAssumption DEF EncapTypeOK
  <2> QED BY <1>3, <1>9, <2>1, <2>2 DEF EncapTypeOK
<1> QED BY <1>9, <1>10, <1>11
LEMMA SetRouteInv ==
  ASSUME EncInv, Settled, NEW p \in EPrefix, NEW r \in ERoute, NEW bad, SetRoute(p, r, bad)
  PROVE  EncInv'
<1> USE DEF EncInv
<1>1. PICK old : old = eroutes[p]
  OBVIOUS
<1>2. /\ old # NoRoute /\ (p = 0 => hwDefault) /\ Updated(p, old, r, bad, FALSE)
      /\ eroutes' = [eroutes EXCEPT ![p] = r] /\ hwDefault' = hwDefault
  BY <1>1 DEF SetRoute
<1>3. ASSUME NEW h, On(h, old)
      PROVE  /\ h.nodes \subseteq NodesOf(old) /\ h.grps = GroupsOf(old)
             /\ ~ Asked(h, old, r) => On(h, r)
  BY <1>3 DEF On, Asked, Content, NodesOf, GroupsOf
<1>4. hwDefault' \in BOOLEAN /\ RouteOK(r) /\ FALSE \in BOOLEAN
  BY <1>2, RoutesOK DEF EncapTypeOK
<1>5. EncapTypeOK' /\ HopsRight' /\ OverlayHops' /\ OverlayFollows'
  BY <1>1, <1>2, <1>3, <1>4, UpdatedInv
<1>6. DefaultEmpty'
  BY <1>2, EncapAssumption DEF DefaultEmpty, EncapTypeOK
<1> QED BY <1>5, <1>6

LEMMA EmptyRouteIs ==
  /\ EmptyRoute \in ERoute /\ EmptyRoute # NoRoute /\ EmptyRoute.fwd = FALSE
  /\ Content(EmptyRoute) = Dropped /\ NodesOf(EmptyRoute) = {} /\ GroupsOf(EmptyRoute) = {}
<1>1. EmptyRoute.fwd = FALSE /\ EmptyRoute.target = NoTarget
  BY DEF EmptyRoute
<1>2. EmptyRoute \in ERoute /\ NoRoute \notin ERoute
  BY EncapAssumption DEF EmptyRoute, ERoute
<1>3. Content(EmptyRoute) = Dropped /\ NodesOf(EmptyRoute) = {} /\ GroupsOf(EmptyRoute) = {}
  BY <1>1 DEF Content, NodesOf, GroupsOf
<1> QED BY <1>1, <1>2, <1>3

LEMMA CreateDefaultInv ==
  ASSUME EncInv, Settled, NEW r \in ERoute, NEW bad, CreateDefault(r, bad)
  PROVE  EncInv'
<1> USE DEF EncInv
<1>1. PICK off \in BOOLEAN : off <=> GroupsOf(r) # {}
  OBVIOUS
<1>2. /\ ~ hwDefault /\ Updated(0, r, r, bad, off) /\ eroutes' = [eroutes EXCEPT ![0] = r] /\ hwDefault' = TRUE
  <2>1. off = (GroupsOf(r) # {})
    BY <1>1
  <2> QED BY <2>1 DEF CreateDefault
<1>3. eroutes[0] = EmptyRoute /\ 0 \in EPrefix /\ r # NoRoute /\ RouteOK(r) /\ r.fwd \in BOOLEAN
  BY <1>2, RoutesOK, EncapAssumption DEF DefaultEmpty, RouteOK
<1>4. ASSUME NEW h, On(h, EmptyRoute), ~ off
      PROVE  /\ h.nodes \subseteq NodesOf(r) /\ h.grps = GroupsOf(r)
             /\ ~ Asked(h, r, r) => On(h, r)
  <2>1. h.fwd = FALSE /\ h.npu = Dropped /\ h.nodes = {} /\ h.grps = {} /\ ~ h.broken /\ h.nbr = NoNbr
    BY <1>4, EmptyRouteIs DEF On
  <2>2. GroupsOf(r) = {}
    BY <1>1, <1>4
  <2>3. ~ Asked(h, r, r) => r.fwd = FALSE
    BY <2>1 DEF Asked
  <2>4. r.fwd = FALSE => Content(r) = Dropped /\ NodesOf(r) = {}
    BY DEF Content, NodesOf
  <2>5. ~ Asked(h, r, r) => On(h, r)
    BY <2>1, <2>2, <2>3, <2>4 DEF On
  <2> QED BY <2>1, <2>2, <2>5
<1>5. hwDefault' \in BOOLEAN /\ EmptyRoute # NoRoute
  BY <1>2, EmptyRouteIs
<1>6. EncapTypeOK' /\ HopsRight' /\ OverlayHops' /\ OverlayFollows'
  <2>1. CASE off = TRUE
    BY <1>2, <1>3, <1>5, <2>1, UpdatedInv
  <2>2. CASE off = FALSE
    <3>1. Updated(0, r, r, bad, FALSE)
      BY <1>2, <2>2
    <3>2. ASSUME NEW h, On(h, eroutes[0])
          PROVE  /\ h.nodes \subseteq NodesOf(r) /\ h.grps = GroupsOf(r)
                 /\ ~ Asked(h, r, r) => On(h, r)
      BY <1>3, <1>4, <2>2, <3>2
    <3> QED BY <1>2, <1>3, <1>5, <3>1, <3>2, UpdatedInv
  <2> QED BY <2>1, <2>2
<1> QED BY <1>2, <1>6 DEF DefaultEmpty

LEMMA RemoveDefaultInv ==
  ASSUME EncInv, Settled, NEW bad, RemoveDefault(bad)
  PROVE  EncInv'
<1> USE DEF EncInv
<1>1. PICK r : r = [eroutes[0] EXCEPT !.fwd = FALSE]
  OBVIOUS
<1>2. PICK off \in BOOLEAN : off <=> Content(eroutes[0]) \in ENode \cup EGroup
  OBVIOUS
<1>3. /\ hwDefault /\ Updated(0, r, r, bad, off) /\ eroutes' = [eroutes EXCEPT ![0] = EmptyRoute] /\ hwDefault' = FALSE
  <2>1. off = (Content(eroutes[0]) \in ENode \cup EGroup)
    BY <1>2
  <2> QED BY <1>1, <2>1 DEF RemoveDefault
<1>4. PICK x \in ERoute : x = eroutes[0]
  BY EncapAssumption DEF EncapTypeOK
<1>5. /\ r.fwd = FALSE /\ r.target = x.target
      /\ r # NoRoute
  <2>1. r.fwd = FALSE /\ r.target = x.target
    BY <1>1, <1>4 DEF ERoute
  <2>2. r \in [fwd : BOOLEAN, target : ETarget]
    BY <1>1, <1>4, EncapAssumption DEF ERoute
  <2> QED BY <2>1, <2>2, EncapAssumption
<1>6. Content(r) = Dropped /\ NodesOf(r) = {} /\ GroupsOf(r) = {}
  BY <1>5 DEF Content, NodesOf, GroupsOf
<1>7. RouteOK(r)
  BY <1>5, <1>6 DEF RouteOK
<1>8. ASSUME NEW s, On(s, r)  PROVE On(s, EmptyRoute)
  BY <1>5, <1>6, <1>8, EmptyRouteIs DEF On
<1>9. ASSUME NEW h, On(h, x), ~ off
      PROVE  /\ h.nodes \subseteq NodesOf(r) /\ h.grps = GroupsOf(r)
             /\ ~ Asked(h, r, r) => On(h, r)
  <2>1. NodesOf(x) = {} /\ GroupsOf(x) = {}
    <3>1. x.fwd => x.target \notin ENode \cup EGroup
      BY <1>2, <1>4, <1>9 DEF Content
    <3> QED BY <3>1 DEF NodesOf, GroupsOf
  <2>2. h.nodes = {} /\ h.grps = {} /\ ~ h.broken /\ h.nbr = NoNbr /\ h.npu = Content(x) /\ h.fwd = x.fwd
    BY <1>9, <2>1 DEF On
  <2>3. ~ Asked(h, r, r) => h.fwd = FALSE
    BY <1>5 DEF Asked
  <2>4. x.fwd = FALSE => Content(x) = Dropped
    BY DEF Content
  <2>5. ~ Asked(h, r, r) => On(h, r)
    BY <1>5, <1>6, <2>2, <2>3, <2>4 DEF On
  <2> QED BY <1>6, <2>2, <2>5
<1>10. hwDefault' \in BOOLEAN /\ EmptyRoute \in ERoute /\ 0 \in EPrefix /\ eroutes[0] # NoRoute
  BY <1>3, EmptyRouteIs, EncapAssumption DEF EncapTypeOK
<1>11. EncapTypeOK' /\ HopsRight' /\ OverlayHops' /\ OverlayFollows'
  <2>1. CASE off = TRUE
    BY <1>3, <1>5, <1>7, <1>8, <1>10, <2>1, UpdatedInv
  <2>2. CASE off = FALSE
    <3>1. Updated(0, r, r, bad, FALSE)
      BY <1>3, <2>2
    <3>2. ASSUME NEW h, On(h, eroutes[0])
          PROVE  /\ h.nodes \subseteq NodesOf(r) /\ h.grps = GroupsOf(r)
                 /\ ~ Asked(h, r, r) => On(h, r)
      BY <1>4, <1>9, <2>2, <3>2
    <3> QED BY <1>3, <1>5, <1>7, <1>8, <1>10, <3>1, <3>2, UpdatedInv
  <2> QED BY <2>1, <2>2
<1>12. DefaultEmpty'
  BY <1>3, EncapAssumption DEF DefaultEmpty, EncapTypeOK
<1> QED BY <1>11, <1>12
---------------------------------------------------------------------------
(* Neighbours and groups                                                   *)

LEMMA CreateNeighborInv ==
  ASSUME EncInv, Settled, NEW n \in ENode, NEW bad, CreateNeighbor(n, bad)
  PROVE  EncInv'
<1> USE DEF EncInv
<1>1. PICK S : S = SameAddress(n)
  OBVIOUS
<1>2. /\ n \notin neighbors /\ neighbors' = neighbors \cup {n}
      /\ ehops' = [e \in EHop |-> IF e \in S THEN NeighborResolve(LeaveUnderlay(ehops[e]), n, e \notin bad) ELSE ehops[e]]
      /\ IF S = {} THEN NoSignal ELSE Changed(S \ bad) /\ Signal
      /\ UNCHANGED <<eroutes, groupNhs, hwDefault, over, walking>>
  BY <1>1, Zenon DEF CreateNeighbor
<1>3. S \in SUBSET EHop /\ \A e \in EHop : e \in S <=> IsHop(e) /\ Follows(e, n)
  BY <1>1 DEF SameAddress
<1>4. Known' = Known
  BY <1>2 DEF Known
<1>5. ASSUME NEW e \in EHop, IsHop(e)
       PROVE  /\ ehops'[e] \in EHopInfo
              /\ e \notin S => ehops'[e] = ehops[e]
              /\ e \notin S \ bad => ehops'[e].npu = ehops[e].npu
              /\ ~ ehops'[e].off => Right(ehops[e], e)'
  <2>1. PICK h \in EHopInfo : h = ehops[e]
    BY <1>5, HopIs
  <2>2. PICK s : s = ehops'[e]
    OBVIOUS
  <2>3. ~ h.off /\ Right(h, e)
    BY <1>5, <2>1 DEF Settled, HopsRight
  <2>4. CASE e \in S
    <3>1. PICK l : l = LeaveUnderlay(h)
      OBVIOUS
    <3>2. l \in EHopInfo /\ l.npu = h.npu /\ Loose(l)
      BY <2>3, <3>1, LeaveIs
    <3>3. PICK ok \in BOOLEAN : ok <=> e \notin bad
      OBVIOUS
    <3>4. s = NeighborResolve(l, n, ok)
      BY <1>2, <2>1, <2>2, <2>4, <3>1, <3>3
    <3>5. /\ s \in EHopInfo /\ s.lpm = l.lpm
          /\ ~ ok => s.off /\ s.npu = l.npu
          /\ ok => s.npu = n /\ s.nbr = n /\ s.nodes = l.nodes \cup {n} /\ s.grps = l.grps /\ s.broken = l.broken
      BY <3>2, <3>4, NeighborIs
    <3>6. ok => OnNeighbor(s, e)'
      BY <1>2, <1>3, <2>4, <3>2, <3>5 DEF OnNeighbor, FollowsNeighbor, Follows, Loose
    <3> QED BY <2>1, <2>2, <2>4, <3>2, <3>3, <3>5, <3>6 DEF Right
  <2>5. CASE e \notin S
    <3>1. s = h
      BY <1>2, <2>1, <2>2, <2>5
    <3>2. OnNeighbor(h, e) => OnNeighbor(h, e)'
      BY <1>2 DEF OnNeighbor, FollowsNeighbor, Follows
    <3>3. CASE OnRoute(h, e)
      <4>1. On(h, eroutes[h.lpm])'
        BY <1>2, <3>3 DEF OnRoute, On, Content, NodesOf, GroupsOf
      <4>2. OnRoute(h, e)'
        BY <1>2, <1>3, <1>4, <1>5, <2>5, <3>3, <4>1 DEF OnRoute, Follows
      <4> QED BY <2>1, <2>2, <2>5, <3>1, <4>2 DEF Right
    <3> QED BY <2>1, <2>2, <2>3, <2>5, <3>1, <3>2, <3>3 DEF Right
  <2> QED BY <2>4, <2>5
<1>6. \A e \in EHop : ~ IsHop(e) => ehops'[e] = NoEHop
  BY <1>2, <1>3 DEF IsHop
<1>7. \A e \in EHop : IsHop(e) => ehops'[e] # NoEHop
  BY <1>5, EncapAssumption
<1>8. OverlayHops' /\ OverlayFollows' /\ changelist' \subseteq EOver /\ signals' \in 0 .. MaxWalks
  <2>1. CASE S = {}
    <3>1. UNCHANGED <<over, changelist, signals, walking>>
      BY <1>2, <2>1 DEF NoSignal
    <3>2. OverlayHops' /\ OverlayFollows'
      BY <1>5, <1>7, <2>1, <3>1, OverlaysQuiet
    <3> QED BY <3>1, <3>2 DEF EncapTypeOK
  <2>2. CASE S # {}
    <3>1. PICK told \in SUBSET EHop : told = S \ bad
      BY <1>3
    <3>2. Changed(told) /\ Signal
      BY <1>2, <2>2, <3>1
    <3> QED BY <1>2, <1>5, <1>7, <3>1, <3>2, OverlaysTold
  <2> QED BY <2>1, <2>2
<1>9. HopsRight'
  BY <1>5, <1>6 DEF HopsRight, Right, IsHop
<1>10. EncapTypeOK'
  <2>1. ehops' \in [EHop -> EHopInfo \cup {NoEHop}]
    <3>1. ehops' = [e \in EHop |-> ehops'[e]]
      BY <1>2
    <3> QED BY <1>5, <1>6, <3>1
  <2> QED BY <1>2, <1>8, <2>1 DEF EncapTypeOK
<1> QED BY <1>2, <1>8, <1>9, <1>10 DEF DefaultEmpty

LEMMA RemoveNeighborInv ==
  ASSUME EncInv, Settled, NEW n \in ENode, NEW bad, RemoveNeighbor(n, bad)
  PROVE  EncInv'
<1> USE DEF EncInv
<1> DEFINE ToRoute(e) == LET q == BestOf(e, Known) IN Resolve(LeaveUnderlay(ehops[e]), q, eroutes[q], e \notin bad)
<1>1. PICK S : S = SameAddress(n)
  OBVIOUS
<1>2. PICK left \in BOOLEAN : left = (\E m \in neighbors \ {n} : Bits[m] = Bits[n])
  OBVIOUS
<1>3. /\ n \in neighbors /\ neighbors' = neighbors \ {n}
      /\ ehops' = [e \in EHop |-> IF e \in S THEN [ToRoute(e) EXCEPT !.left = left] ELSE ehops[e]]
      /\ IF S = {} THEN NoSignal ELSE Changed(S \ bad) /\ Signal
      /\ UNCHANGED <<eroutes, groupNhs, hwDefault, over, walking>>
  BY <1>1, <1>2 DEF RemoveNeighbor
<1>4. S \in SUBSET EHop /\ \A e \in EHop : e \in S <=> IsHop(e) /\ Follows(e, n)
  BY <1>1 DEF SameAddress
<1>5. Known' = Known
  BY <1>3 DEF Known
<1>6. ASSUME NEW e \in EHop, IsHop(e)
       PROVE  /\ ehops'[e] \in EHopInfo
              /\ e \notin S => ehops'[e] = ehops[e]
              /\ e \notin S \ bad => ehops'[e].npu = ehops[e].npu
              /\ ~ ehops'[e].off => Right(ehops[e], e)'
  <2>1. PICK h \in EHopInfo : h = ehops[e]
    BY <1>6, HopIs
  <2>2. PICK s : s = ehops'[e]
    OBVIOUS
  <2>3. ~ h.off /\ Right(h, e)
    BY <1>6, <2>1 DEF Settled, HopsRight
  <2>4. CASE e \in S
    <3>1. PICK l : l = LeaveUnderlay(h)
      OBVIOUS
    <3>2. l \in EHopInfo /\ l.npu = h.npu /\ Loose(l)
      BY <2>3, <3>1, LeaveIs
    <3>3. PICK ok \in BOOLEAN : ok <=> e \notin bad
      OBVIOUS
    <3>4. PICK q : q = BestOf(e, Known)
      OBVIOUS
    <3>5. q \in EPrefix /\ q \in Known /\ q # NoRoute
      BY <3>4, BestKnown DEF Known
    <3>6. PICK r \in ERoute : r = eroutes[q]
      BY <3>5 DEF Known, EncapTypeOK
    <3>7. PICK m : m = Resolve(l, q, r, ok)
      OBVIOUS
    <3>8. s = [m EXCEPT !.left = left]
      BY <1>3, <2>1, <2>2, <2>4, <3>1, <3>3, <3>4, <3>6, <3>7
    <3>9. /\ m \in EHopInfo
          /\ ~ (ResolveAsks(l, q, r) /\ ok) => m.npu = l.npu
          /\ (l.lpm # q /\ (Loose(l) \/ (l.lpm \in EPrefix /\ eroutes[l.lpm] # NoRoute /\ On(l, eroutes[l.lpm]))))
             => m.off \/ (m.lpm = q /\ On(m, r))
      <4>1. RouteOK(r)
        BY RoutesOK
      <4> QED BY <3>2, <3>5, <3>7, <4>1, ResolveIs
    <3>10. m.off \/ (m.lpm = q /\ On(m, r))
      BY <3>2, <3>5, <3>9 DEF Loose
    <3>11. /\ s \in EHopInfo /\ s.left = left /\ s.npu = m.npu /\ s.lpm = m.lpm /\ s.off = m.off
           /\ s.fwd = m.fwd /\ s.nodes = m.nodes /\ s.grps = m.grps /\ s.broken = m.broken /\ s.nbr = m.nbr
      BY <3>8, <3>9 DEF EHopInfo
    <3>12. ~ s.off => OnRoute(s, e)'
      <4> SUFFICES ASSUME ~ s.off
                   PROVE  /\ s.lpm = BestOf(e, Known') /\ On(s, eroutes[s.lpm])'
                          /\ \A k \in neighbors' : Follows(e, k) => s.left
        BY DEF OnRoute, Follows
      <4>1. s.lpm = BestOf(e, Known') /\ s.lpm = q
        BY <1>5, <3>4, <3>10, <3>11
      <4>2. On(s, r)
        BY <3>10, <3>11 DEF On
      <4>3. On(s, eroutes[s.lpm])'
        BY <1>3, <3>6, <4>1, <4>2 DEF On, Content, NodesOf, GroupsOf
      <4>4. \A k \in neighbors' : Follows(e, k) => s.left
        <5> SUFFICES ASSUME NEW k \in neighbors', Follows(e, k)  PROVE s.left
          OBVIOUS
        <5>1. k \in neighbors \ {n} /\ Bits[k] = Bits[n]
          BY <1>3, <1>4, <2>4 DEF Follows
        <5>2. left
          BY <1>2, <5>1
        <5> QED BY <3>11, <5>2
      <4> QED BY <4>1, <4>3, <4>4
    <3> QED BY <2>1, <2>2, <2>4, <3>2, <3>3, <3>9, <3>11, <3>12 DEF Right
  <2>5. CASE e \notin S
    <3>1. s = h
      BY <1>3, <2>1, <2>2, <2>5
    <3>2. CASE OnNeighbor(h, e)
      <4>1. h.nbr # n
        BY <1>4, <1>6, <2>5, <3>2 DEF OnNeighbor, FollowsNeighbor
      <4>2. OnNeighbor(h, e)'
        BY <1>3, <3>2, <4>1 DEF OnNeighbor, FollowsNeighbor, Follows
      <4> QED BY <2>1, <2>2, <2>5, <3>1, <4>2 DEF Right
    <3>3. CASE OnRoute(h, e)
      <4>1. On(h, eroutes[h.lpm])'
        BY <1>3, <3>3 DEF OnRoute, On, Content, NodesOf, GroupsOf
      <4>2. OnRoute(h, e)'
        BY <1>3, <1>5, <3>3, <4>1 DEF OnRoute, Follows
      <4> QED BY <2>1, <2>2, <2>5, <3>1, <4>2 DEF Right
    <3> QED BY <2>3, <3>2, <3>3 DEF Right
  <2> QED BY <2>4, <2>5
<1>7. \A e \in EHop : ~ IsHop(e) => ehops'[e] = NoEHop
  BY <1>3, <1>4 DEF IsHop
<1>8. \A e \in EHop : IsHop(e) => ehops'[e] # NoEHop
  BY <1>6, EncapAssumption
<1>9. OverlayHops' /\ OverlayFollows' /\ changelist' \subseteq EOver /\ signals' \in 0 .. MaxWalks
  <2>1. CASE S = {}
    <3>1. UNCHANGED <<over, changelist, signals, walking>>
      BY <1>3, <2>1 DEF NoSignal
    <3>2. OverlayHops' /\ OverlayFollows'
      BY <1>6, <1>8, <2>1, <3>1, OverlaysQuiet
    <3> QED BY <3>1, <3>2 DEF EncapTypeOK
  <2>2. CASE S # {}
    <3>1. PICK told \in SUBSET EHop : told = S \ bad
      BY <1>4
    <3>2. Changed(told) /\ Signal
      BY <1>3, <2>2, <3>1
    <3> QED BY <1>3, <1>6, <1>8, <3>1, <3>2, OverlaysTold
  <2> QED BY <2>1, <2>2
<1>10. HopsRight'
  BY <1>6, <1>7 DEF HopsRight, Right, IsHop
<1>11. EncapTypeOK'
  <2>1. ehops' \in [EHop -> EHopInfo \cup {NoEHop}]
    <3>1. ehops' = [e \in EHop |-> ehops'[e]]
      BY <1>3
    <3> QED BY <1>6, <1>7, <3>1
  <2> QED BY <1>3, <1>9, <2>1 DEF EncapTypeOK
<1> QED BY <1>3, <1>9, <1>10, <1>11 DEF DefaultEmpty
LEMMA InGroupInv ==
  ASSUME EncInv, Settled, NEW g \in EGroup, NEW nhs \in SUBSET ENode, InGroup(g, nhs)
  PROVE  EncInv'
<1> USE DEF EncInv
<1>1. PICK new \in SUBSET ENode, gone \in SUBSET ENode : new = nhs \ groupNhs[g] /\ gone = groupNhs[g] \ nhs
  BY DEF EncapTypeOK
<1>2. /\ groupNhs' = [groupNhs EXCEPT ![g] = nhs]
      /\ ehops' = [e \in EHop |-> IF IsHop(e) /\ g \in ehops[e].grps
                                  THEN [ehops[e] EXCEPT !.nodes = (@ \cup new) \ gone] ELSE ehops[e]]
      /\ UNCHANGED <<eroutes, neighbors, hwDefault, over, changelist, signals, walking>>
  BY <1>1 DEF InGroup
<1>3. /\ groupNhs' \in [EGroup -> SUBSET ENode] /\ groupNhs'[g] = nhs
      /\ \A k \in EGroup \ {g} : groupNhs'[k] = groupNhs[k]
  BY <1>2 DEF EncapTypeOK
<1>4. Known' = Known
  BY <1>2 DEF Known
<1>5. ASSUME NEW e \in EHop, IsHop(e)
      PROVE  /\ ehops'[e] \in EHopInfo /\ ehops'[e].npu = ehops[e].npu
             /\ Right(ehops[e], e)'
  <2>1. PICK h \in EHopInfo : h = ehops[e]
    BY <1>5, HopIs
  <2>2. PICK s : s = ehops'[e]
    OBVIOUS
  <2>3. ~ h.off /\ Right(h, e)
    BY <1>5, <2>1 DEF Settled, HopsRight
  <2>4. PICK N \in SUBSET ENode : N = IF g \in h.grps THEN (h.nodes \cup new) \ gone ELSE h.nodes
    BY DEF EHopInfo
  <2>5. s = [h EXCEPT !.nodes = N]
    <3>1. CASE g \in h.grps
      BY <1>2, <1>5, <2>1, <2>2, <2>4, <3>1
    <3>2. CASE g \notin h.grps
      BY <1>2, <1>5, <2>1, <2>2, <2>4, <3>2 DEF EHopInfo
    <3> QED BY <3>1, <3>2
  <2>6. /\ s \in EHopInfo /\ s.nodes = N /\ s.npu = h.npu /\ s.lpm = h.lpm /\ s.off = h.off /\ s.fwd = h.fwd
        /\ s.grps = h.grps /\ s.broken = h.broken /\ s.nbr = h.nbr /\ s.left = h.left
    BY <2>5 DEF EHopInfo
  <2>7. CASE OnNeighbor(h, e)
    <3>1. OnNeighbor(s, e)'
      BY <1>2, <2>4, <2>6, <2>7 DEF OnNeighbor, FollowsNeighbor, Follows
    <3> QED BY <2>1, <2>2, <2>6, <3>1 DEF Right
  <2>8. CASE OnRoute(h, e)
    <3>1. PICK r : r = eroutes[h.lpm]
      OBVIOUS
    <3>2. h.fwd = r.fwd /\ h.npu = Content(r) /\ h.nodes = NodesOf(r) /\ h.grps = GroupsOf(r) /\ ~ h.broken /\ h.nbr = NoNbr
      BY <2>8, <3>1 DEF OnRoute, On
    <3>3. s.nodes = NodesOf(r)'
      <4>1. CASE g \in h.grps
        <5>1. r.fwd /\ r.target = g
          BY <3>2, <4>1 DEF GroupsOf
        <5>2. h.nodes = groupNhs[g]
          BY <3>2, <5>1 DEF NodesOf
        <5>3. N = nhs
          BY <1>1, <2>4, <4>1, <5>2
        <5>4. NodesOf(r)' = nhs
          BY <1>3, <5>1 DEF NodesOf
        <5> QED BY <2>6, <5>3, <5>4
      <4>2. CASE g \notin h.grps
        <5>1. ~ r.fwd \/ r.target # g
          BY <3>2, <4>2 DEF GroupsOf
        <5>2. NodesOf(r)' = NodesOf(r)
          BY <1>3, <5>1 DEF NodesOf
        <5> QED BY <2>4, <2>6, <3>2, <4>2, <5>2
      <4> QED BY <4>1, <4>2
    <3>4. On(s, eroutes[s.lpm])'
      <4>1. eroutes'[s.lpm] = r
        BY <1>2, <2>6, <3>1
      <4> QED BY <2>6, <3>2, <3>3, <4>1 DEF On, Content, GroupsOf
    <3>5. OnRoute(s, e)'
      BY <1>2, <1>4, <2>6, <2>8, <3>4 DEF OnRoute, Follows
    <3> QED BY <2>1, <2>2, <2>6, <3>5 DEF Right
  <2> QED BY <2>3, <2>7, <2>8 DEF Right
<1>6. \A e \in EHop : ~ IsHop(e) => ehops'[e] = NoEHop
  BY <1>2 DEF IsHop
<1>7. OverlayHops' /\ OverlayFollows'
  BY <1>2, <1>5, EncapAssumption, OverlaysQuiet
<1>8. HopsRight'
  BY <1>5, <1>6 DEF HopsRight, IsHop
<1>9. EncapTypeOK'
  <2>1. ehops' \in [EHop -> EHopInfo \cup {NoEHop}]
    <3>1. ehops' = [e \in EHop |-> ehops'[e]]
      BY <1>2
    <3> QED BY <1>5, <1>6, <3>1
  <2> QED BY <1>2, <1>3, <2>1 DEF EncapTypeOK
<1> QED BY <1>2, <1>7, <1>8, <1>9 DEF DefaultEmpty

LEMMA GroupInv ==
  ASSUME EncInv, Settled, NEW g \in EGroup, NEW n \in ENode, JoinGroup(g, n) \/ LeaveGroup(g, n)
  PROVE  EncInv'
<1>1. PICK nhs \in SUBSET ENode : InGroup(g, nhs)
  BY DEF JoinGroup, LeaveGroup, EncInv, EncapTypeOK
<1> QED BY <1>1, InGroupInv

---------------------------------------------------------------------------
(* Hops, overlay routes and the thread                                     *)

(* A step that makes or frees one hop                                      *)
LEMMA OneHop ==
  ASSUME EncInv, NEW e \in EHop, NEW new \in EHopInfo \cup {NoEHop}, ehops' = [ehops EXCEPT ![e] = new],
         UNCHANGED <<eroutes, groupNhs, neighbors, hwDefault, over, changelist, signals, walking>>,
         new = NoEHop \/ new.off \/ Right(new, e),
         \A o \in EOver : over[o].hop # e
  PROVE  EncInv'
<1> USE DEF EncInv
<1>1. /\ ehops'[e] = new /\ \A f \in EHop \ {e} : ehops'[f] = ehops[f]
      /\ ehops' \in [EHop -> EHopInfo \cup {NoEHop}]
  BY DEF EncapTypeOK
<1>2. EncapTypeOK'
  BY <1>1 DEF EncapTypeOK
<1>3. ASSUME NEW f \in EHop, ehops'[f] # NoEHop, ~ ehops'[f].off
      PROVE  Right(ehops[f], f)'
  <2>1. PICK h : h = ehops'[f]
    OBVIOUS
  <2>2. Right(h, f)
    BY <1>1, <1>3, <2>1 DEF HopsRight, IsHop
  <2>3. Right(h, f)'
    BY <2>2 DEF Right, OnNeighbor, FollowsNeighbor, Follows, OnRoute, On, Content, NodesOf, GroupsOf, Known
  <2> QED BY <2>1, <2>3 DEF Right
<1>4. HopsRight'
  BY <1>3 DEF HopsRight, IsHop
<1>5. \A o \in EOver : over[o].hop # NoEHop => ehops'[over[o].hop] = ehops[over[o].hop]
  <2>1. \A o \in EOver : over[o].hop \in EHop \cup {NoEHop}
    BY DEF EncapTypeOK
  <2> QED BY <1>1, <2>1
<1>6. OverlayHops' /\ OverlayFollows' /\ DefaultEmpty'
  BY <1>5 DEF OverlayHops, OverlayFollows, DefaultEmpty, IsHop
<1> QED BY <1>2, <1>4, <1>6

LEMMA NewHopIs == NewHop \in EHopInfo /\ Loose(NewHop) /\ NewHop.off = FALSE /\ NewHop.left = FALSE
BY DEF NewHop, EHopInfo, Loose

LEMMA NewOnNeighbor ==
  ASSUME NEW e \in EHop, NEW n \in ENode, n \in neighbors, Follows(e, n),
         NEW h, h = NeighborResolve(NewHop, n, TRUE)
  PROVE  h \in EHopInfo /\ OnNeighbor(h, e)
<1>1. PICK w \in EHopInfo : w = NewHop /\ Loose(w)
  BY NewHopIs
<1>2. h = [w EXCEPT !.fwd = TRUE, !.npu = n, !.nbr = n, !.nodes = @ \cup {n}, !.left = FALSE]
  BY <1>1 DEF NeighborResolve
<1>3. h \in EHopInfo
  <2>1. PICK N \in SUBSET ENode : N = w.nodes \cup {n}
    BY DEF EHopInfo
  <2>2. h = [w EXCEPT !.fwd = TRUE, !.npu = n, !.nbr = n, !.nodes = N, !.left = FALSE]
    BY <1>2, <2>1
  <2> QED BY <2>2 DEF EHopInfo, ETarget
<1>4. /\ h.lpm = w.lpm /\ h.npu = n /\ h.nbr = n /\ h.nodes = w.nodes \cup {n}
      /\ h.grps = w.grps /\ h.broken = w.broken
  BY <1>2 DEF EHopInfo
<1> QED BY <1>1, <1>3, <1>4 DEF Loose, OnNeighbor, FollowsNeighbor

LEMMA CreateEncapHopInv ==
  ASSUME EncInv, NEW e \in EHop, CreateEncapHop(e)
  PROVE  EncInv'
<1> USE DEF EncInv
<1> DEFINE near == {n \in neighbors : Follows(e, n)}
<1>1. PICK q : q = BestOf(e, Known)
  OBVIOUS
<1>2. q \in EPrefix /\ q \in Known /\ q # NoRoute
  BY <1>1, BestKnown DEF Known
<1>3. PICK r \in ERoute : r = eroutes[q]
  BY <1>2 DEF Known, EncapTypeOK
<1>4. PICK h : /\ h \in IF near = {} THEN {Resolve(NewHop, q, r, TRUE)}
                       ELSE {NeighborResolve(NewHop, n, TRUE) : n \in near}
               /\ ehops' = [ehops EXCEPT ![e] = h]
  BY <1>1, <1>3 DEF CreateEncapHop
<1>5. /\ ehops[e] = NoEHop
      /\ UNCHANGED <<eroutes, groupNhs, neighbors, hwDefault, over, changelist, signals, walking>>
  BY DEF CreateEncapHop
<1>6. \A o \in EOver : over[o].hop # e
  BY <1>5, EncapAssumption DEF OverlayHops, IsHop
<1>7. h \in EHopInfo /\ (h.off \/ Right(h, e))
  <2>1. CASE near = {}
    <3>1. h = Resolve(NewHop, q, r, TRUE)
      BY <1>4, <2>1
    <3>2. RouteOK(r)
      BY RoutesOK
    <3>3. /\ h \in EHopInfo
          /\ (NewHop.lpm # q /\ (Loose(NewHop) \/ (NewHop.lpm \in EPrefix /\ eroutes[NewHop.lpm] # NoRoute /\ On(NewHop, eroutes[NewHop.lpm]))))
             => h.off \/ (h.lpm = q /\ On(h, r))
      BY <1>2, <3>1, <3>2, NewHopIs, ResolveIs
    <3>4. h.off \/ (h.lpm = q /\ On(h, r))
      BY <1>2, <3>3, NewHopIs DEF Loose
    <3>5. h.lpm = q /\ On(h, r) => OnRoute(h, e)
      BY <1>1, <1>3, <2>1 DEF OnRoute
    <3> QED BY <3>3, <3>4, <3>5 DEF Right
  <2>2. CASE near # {}
    <3>1. PICK n \in ENode : n \in near /\ h = NeighborResolve(NewHop, n, TRUE)
      BY <1>4, <2>2 DEF EncapTypeOK
    <3>2. n \in neighbors /\ Follows(e, n)
      BY <3>1
    <3>3. h \in EHopInfo /\ OnNeighbor(h, e)
      BY <3>1, <3>2, NewOnNeighbor
    <3> QED BY <3>3 DEF Right
  <2> QED BY <2>1, <2>2
<1> QED BY <1>4, <1>5, <1>6, <1>7, OneHop

LEMMA RemoveEncapHopInv ==
  ASSUME EncInv, NEW e \in EHop, RemoveEncapHop(e)
  PROVE  EncInv'
<1> USE DEF EncInv
<1>1. PICK old \in EHopInfo : old = ehops[e]
  BY HopIs DEF RemoveEncapHop
<1>2. PICK h : h = LeaveUnderlay(old)
  OBVIOUS
<1>3. /\ IsHop(e) /\ \A o \in EOver : over[o].hop # e
      /\ ehops' = [ehops EXCEPT ![e] = IF h.broken \/ h.nodes # {} \/ h.grps # {}
                                      THEN [h EXCEPT !.broken = TRUE] ELSE NoEHop]
      /\ UNCHANGED <<eroutes, groupNhs, neighbors, hwDefault, over, changelist, signals, walking>>
  BY <1>1, <1>2 DEF RemoveEncapHop
<1>4. h \in EHopInfo /\ h.off = old.off /\ (Right(old, e) => Loose(h))
  BY <1>2, LeaveIs
<1>5. PICK new : new = IF h.broken \/ h.nodes # {} \/ h.grps # {} THEN [h EXCEPT !.broken = TRUE] ELSE NoEHop
  OBVIOUS
<1>6. new = NoEHop \/ (new \in EHopInfo /\ new.off)
  <2>1. CASE old.off
    <3>1. PICK b : b = [h EXCEPT !.broken = TRUE]
      OBVIOUS
    <3>2. b \in EHopInfo /\ b.off
      BY <1>4, <2>1, <3>1 DEF EHopInfo
    <3> QED BY <1>5, <3>1, <3>2
  <2>2. CASE ~ old.off
    <3>1. Loose(h)
      BY <1>1, <1>3, <1>4, <2>2 DEF HopsRight
    <3> QED BY <1>5, <3>1 DEF Loose
  <2> QED BY <2>1, <2>2
<1> QED BY <1>3, <1>5, <1>6, OneHop

(* Steps that change no hop                                                *)
LEMMA HopsSame ==
  ASSUME HopsRight, DefaultEmpty, UNCHANGED <<eroutes, groupNhs, neighbors, ehops, hwDefault>>
  PROVE  HopsRight' /\ DefaultEmpty'
<1>1. DefaultEmpty'
  BY DEF DefaultEmpty
<1>2. ASSUME NEW e \in EHop, ehops'[e] # NoEHop, ~ ehops'[e].off
      PROVE  Right(ehops[e], e)'
  <2>1. PICK h : h = ehops[e] /\ h = ehops'[e]
    OBVIOUS
  <2>2. Right(h, e)
    BY <1>2, <2>1 DEF HopsRight, IsHop
  <2>3. Right(h, e)'
    BY <2>2 DEF Right, OnNeighbor, FollowsNeighbor, Follows, OnRoute, On, Content, NodesOf, GroupsOf, Known
  <2> QED BY <2>1, <2>3 DEF Right
<1>3. HopsRight'
  BY <1>2 DEF HopsRight, IsHop
<1> QED BY <1>1, <1>3

LEMMA OverlayInv ==
  ASSUME EncInv, NEW o \in EOver, NEW e \in EHop \cup {NoEHop}, Overlay(o, e)
  PROVE  EncInv'
<1> USE DEF EncInv
<1>1. PICK new : new = [hop |-> e, seen |-> IF e = NoEHop THEN Dropped ELSE ehops[e].npu, missed |-> FALSE]
  OBVIOUS
<1>2. /\ e # NoEHop => IsHop(e)
      /\ over' = [over EXCEPT ![o] = new]
      /\ changelist' = IF e = NoEHop THEN changelist \ {o} ELSE changelist
      /\ UNCHANGED <<eroutes, groupNhs, neighbors, ehops, hwDefault, signals, walking>>
  BY <1>1 DEF Overlay
<1>3. new.hop = e /\ (e # NoEHop => new.seen = ehops[e].npu)
      /\ new \in [hop : EHop \cup {NoEHop}, seen : ETarget \cup {Dropped}, missed : BOOLEAN]
  <2>1. CASE e = NoEHop
    BY <1>1, <2>1
  <2>2. CASE e # NoEHop
    <3>1. PICK h \in EHopInfo : h = ehops[e]
      BY <1>2, <2>2, HopIs
    <3>2. h.npu \in ETarget \cup {Dropped}
      BY DEF EHopInfo
    <3> QED BY <1>1, <2>2, <3>1, <3>2
  <2> QED BY <2>1, <2>2
<1>4. /\ over'[o] = new /\ \A k \in EOver \ {o} : over'[k] = over[k]
      /\ over' \in [EOver -> [hop : EHop \cup {NoEHop}, seen : ETarget \cup {Dropped}, missed : BOOLEAN]]
  BY <1>2, <1>3 DEF EncapTypeOK
<1>5. EncapTypeOK'
  BY <1>2, <1>4 DEF EncapTypeOK
<1>6. OverlayHops'
  BY <1>2, <1>3, <1>4 DEF OverlayHops, IsHop
<1>7. OverlayFollows'
  <2>1. ASSUME NEW k \in EOver \ changelist', over'[k].hop # NoEHop
        PROVE  ehops[over'[k].hop] # NoEHop /\ (over'[k].missed \/ over'[k].seen = ehops[over'[k].hop].npu)
    <3>1. CASE k = o
      BY <1>2, <1>3, <1>4, <2>1, <3>1 DEF IsHop
    <3>2. CASE k # o
      BY <1>2, <1>4, <2>1, <3>2 DEF OverlayFollows, IsHop
    <3> QED BY <3>1, <3>2
  <2>2. changelist' # {} => signals > 0 \/ walking
    BY <1>2 DEF OverlayFollows
  <2> QED BY <1>2, <2>1, <2>2 DEF OverlayFollows, IsHop
<1> QED BY <1>2, <1>5, <1>6, <1>7, HopsSame

LEMMA ReadSignalInv ==
  ASSUME EncInv, ReadSignal
  PROVE  EncInv'
<1> USE DEF EncInv
<1>1. /\ ~walking /\ signals > 0 /\ signals' = signals - 1 /\ walking' = TRUE
      /\ UNCHANGED <<eroutes, groupNhs, neighbors, ehops, hwDefault, over, changelist>>
  BY DEF ReadSignal
<1>2. EncapTypeOK'
  BY <1>1, EncapAssumption DEF EncapTypeOK
<1>3. OverlayHops' /\ OverlayFollows'
  BY <1>1 DEF OverlayHops, OverlayFollows, IsHop
<1> QED BY <1>1, <1>2, <1>3, HopsSame

LEMMA WalkInv ==
  ASSUME EncInv, NEW missed, Walk(missed)
  PROVE  EncInv'
<1> USE DEF EncInv
<1> DEFINE Info == [hop : EHop \cup {NoEHop}, seen : ETarget \cup {Dropped}, missed : BOOLEAN]
<1>1. /\ missed \subseteq changelist /\ changelist' = {} /\ walking' = FALSE
      /\ over' = [o \in EOver |->
           IF o \in missed THEN [over[o] EXCEPT !.missed = TRUE]
           ELSE IF o \in changelist THEN [over[o] EXCEPT !.seen = ehops[over[o].hop].npu, !.missed = FALSE]
           ELSE over[o]]
      /\ UNCHANGED <<eroutes, groupNhs, neighbors, ehops, hwDefault, signals>>
  BY DEF Walk
<1>2. ASSUME NEW o \in EOver
      PROVE  /\ over'[o] \in Info /\ over'[o].hop = over[o].hop
             /\ over[o].hop # NoEHop => over'[o].missed \/ over'[o].seen = ehops[over[o].hop].npu
  <2>1. PICK old \in Info : old = over[o]
    BY DEF EncapTypeOK
  <2>2. CASE o \in missed
    <3>1. over'[o] = [old EXCEPT !.missed = TRUE]
      BY <1>1, <2>1, <2>2
    <3> QED BY <2>1, <3>1
  <2>3. CASE o \notin missed /\ o \in changelist
    <3>1. old.hop \in EHop /\ IsHop(old.hop)
      BY <2>1, <2>3 DEF OverlayHops
    <3>2. PICK v \in ETarget \cup {Dropped} : v = ehops[old.hop].npu
      BY <3>1, HopIs DEF EHopInfo
    <3>3. over'[o] = [old EXCEPT !.seen = v, !.missed = FALSE]
      BY <1>1, <2>1, <2>3, <3>2
    <3> QED BY <2>1, <3>2, <3>3
  <2>4. CASE o \notin missed /\ o \notin changelist
    <3>1. over'[o] = old
      BY <1>1, <2>1, <2>4
    <3> QED BY <2>1, <2>4, <3>1 DEF OverlayFollows
  <2> QED BY <2>2, <2>3, <2>4
<1>3. EncapTypeOK'
  <2>1. over' \in [EOver -> Info]
    <3>1. over' = [o \in EOver |-> over'[o]]
      BY <1>1
    <3> QED BY <1>2, <3>1
  <2> QED BY <1>1, <2>1 DEF EncapTypeOK
<1>4. OverlayHops'
  BY <1>1, <1>2 DEF OverlayHops, IsHop
<1>5. ASSUME NEW o \in EOver, over'[o].hop # NoEHop
      PROVE  /\ ehops'[over'[o].hop] # NoEHop
             /\ over'[o].missed \/ over'[o].seen = ehops'[over'[o].hop].npu
  <2>1. PICK e : e = over[o].hop
    OBVIOUS
  <2>2. over'[o].hop = e /\ (over'[o].missed \/ over'[o].seen = ehops[e].npu)
    BY <1>2, <1>5, <2>1
  <2>3. ehops[e] # NoEHop
    BY <1>5, <2>1, <2>2 DEF OverlayHops, IsHop
  <2> QED BY <1>1, <2>2, <2>3
<1>6. OverlayFollows'
  BY <1>1, <1>5 DEF OverlayFollows, IsHop
<1> QED BY <1>1, <1>3, <1>4, <1>6, HopsSame

LEMMA EncInvNext == EncInv /\ [EncapNext]_encVars => EncInv'
<1> SUFFICES ASSUME EncInv, [EncapNext]_encVars  PROVE EncInv'
  OBVIOUS
<1>1. CASE UNCHANGED encVars
  <2>1. UNCHANGED <<eroutes, groupNhs, neighbors, ehops, hwDefault, over, changelist, signals, walking>>
    BY <1>1 DEF encVars
  <2>2. HopsRight' /\ DefaultEmpty'
    BY <2>1, HopsSame DEF EncInv
  <2>3. EncapTypeOK' /\ OverlayHops' /\ OverlayFollows'
    BY <2>1 DEF EncInv, EncapTypeOK, OverlayHops, OverlayFollows, IsHop
  <2> QED BY <2>2, <2>3 DEF EncInv
<1>2. CASE EncapEnd
  BY <1>2, RemoveEncapHopInv, OverlayInv, ReadSignalInv, WalkInv DEF EncapEnd
<1>3. CASE Settled /\ \E p \in EPrefix, bad \in SUBSET EHop :
                        RemoveRoute(p, bad) \/ \E r \in ERoute : CreateRoute(p, r, bad) \/ SetRoute(p, r, bad)
  BY <1>3, RemoveRouteInv, CreateRouteInv, SetRouteInv, Zenon
<1>4. CASE Settled /\ \E bad \in SUBSET EHop : RemoveDefault(bad) \/ \E r \in ERoute : CreateDefault(r, bad)
  BY <1>4, RemoveDefaultInv, CreateDefaultInv, Zenon
<1>5. CASE Settled /\ \E n \in ENode, bad \in SUBSET EHop : CreateNeighbor(n, bad) \/ RemoveNeighbor(n, bad)
  BY <1>5, CreateNeighborInv, RemoveNeighborInv, Zenon
<1>6. CASE Settled /\ \E g \in EGroup, n \in ENode : JoinGroup(g, n) \/ LeaveGroup(g, n)
  BY <1>6, GroupInv, Zenon
<1>7. CASE \E e \in EHop : CreateEncapHop(e)
  BY <1>7, CreateEncapHopInv, Zenon
<1>8. CASE \E o \in EOver, e \in EHop : Overlay(o, e)
  BY <1>8, OverlayInv
<1> QED BY <1>1, <1>2, <1>3, <1>4, <1>5, <1>6, <1>7, <1>8, Zenon DEF EncapNext
---------------------------------------------------------------------------
(* The locks: a waiting thread holds the first locks of its section and  *)
(* wants the next.  A table of the pairs of locks that occur shows that    *)
(* who waits for the holder of such a lock is not itself waited for,       *)
(* except between bridges and tunnels.                                     *)

(* Call c takes lock b while it holds lock a                               *)
Inside(c, a, b) ==
  \/ a = "fib" /\ b \in {"lag", "fdb"}
  \/ a \in {"fdb", "vlan"} /\ b = "stp"
  \/ a = "bridge" /\ b \in {"port", "lag", "fib"}
  \/ a = "bridge" /\ b = "tunnel" /\ c = "tunnelPort"
  \/ a = "tunnel" /\ b = "fib"
  \/ a = "tunnel" /\ b = "bridge" /\ c = "mapEntry"
  \/ a = "port" /\ b \in {"mirror", "qos", "samplepacket"}
  \/ a = "acl" /\ b \in {"mirror", "samplepacket", "udf", "port"}
  \/ a = "hash" /\ b = "udf"
  \/ a = "l2mc" /\ b \in {"lag", "mcast"}

InSection(c, s) ==
  /\ Len(s) \in {1, 2}
  /\ s[1] \in Lock
  /\ Len(s) = 2 => s[2] \in Lock /\ Inside(c, s[1], s[2])

Losable == {"vlan", "mirror", "hash"}

(* A thread holds the locks it has taken in its section, and no others.    *)
HoldsTaken == \A t \in LThread :
  Held(t) = IF running[t] = NoRun THEN {} ELSE {Chain(t)[i] : i \in 1 .. running[t].held}

OnlyLosableLost == \A l \in Lock : lockOwner[l] = Lost => l \in Losable

LockInv == LockTypeOK /\ HoldsTaken /\ OnlyLosableLost

---------------------------------------------------------------------------
(* Every section of every call takes one lock, or two of the table.        *)
LEMMA Sections ==
  ASSUME NEW c \in CallName, NEW i \in DOMAIN Calls[c]
  PROVE  InSection(c, Calls[c][i])
<1> USE DEF InSection, Inside, Lock
<1>1. CASE c \in {"lagMembers", "lagRif", "neighbor"}
  BY <1>1, SMTT(30) DEF CallName, Calls, LagMembers, LagRif, NeighborMac
<1>2. CASE c \in {"fdbReport", "fdbLearn", "vlan", "removeVlan"}
  BY <1>2, SMTT(30) DEF CallName, Calls, FdbReport, FdbLearn, VlanInStp, RemoveUsedVlan
<1>3. CASE c \in {"portPort", "lagPort", "routerPort", "tunnelPort"}
  BY <1>3, SMTT(30) DEF CallName, Calls, BridgePortOn
<1>4. CASE c \in {"tunnel", "mapEntry"}
  BY <1>4, SMTT(30) DEF CallName, Calls, TunnelOnRif, MapEntryOnBridge
<1>5. CASE c \in {"portMirror", "portQos", "portSample"}
  BY <1>5, SMTT(30) DEF CallName, Calls, PortUses
<1>6. CASE c \in {"ruleMirror", "ruleSample", "ruleUdf", "ruleTable"}
  BY <1>6, SMTT(30) DEF CallName, Calls, RuleUses
<1>7. CASE c \in {"hashUdf", "switchHash"}
  BY <1>7, SMTT(30) DEF CallName, Calls, HashOnUdf, SwitchHash
<1>8. CASE c \in {"member", "l2mcEntry"}
  BY <1>8, SMTT(30) DEF CallName, Calls, GroupMemberOnLag, L2mcEntry
<1> QED BY <1>1, <1>2, <1>3, <1>4, <1>5, <1>6, <1>7, <1>8 DEF CallName, Calls

LEMMA EarlyReturnsLose == \A c \in CallName : LostBy(c) \subseteq Losable
BY DEF LostBy, Forgets, Losable

(* What a thread wants is a lock, and the call takes it inside the locks   *)
(* the thread has.                                                         *)
LEMMA WantsLock ==
  ASSUME LockInv, NEW t \in LThread, Waits(t)
  PROVE  Wants(t) \in Lock /\ \A l \in Held(t) : Inside(running[t].call, l, Wants(t))
<1> DEFINE c == running[t].call
           s == Calls[c][running[t].sec]
           n == running[t].held
<1>1. /\ running[t] # NoRun /\ c \in CallName /\ running[t].sec \in DOMAIN Calls[c]
      /\ n \in Nat /\ n < Len(s) /\ Wants(t) = s[n + 1]
  BY DEF LockInv, LockTypeOK, Waits, Wants, Chain, Run
<1>2. InSection(c, s)
  BY <1>1, Sections
<1>3. Held(t) = {s[i] : i \in 1 .. n}
  BY <1>1 DEF LockInv, HoldsTaken, Chain
<1> HIDE DEF s, n
<1>4. CASE n = 0
  BY <1>1, <1>2, <1>3, <1>4 DEF InSection
<1>5. CASE n = 1
  <2>1. Len(s) = 2 /\ Wants(t) = s[2]
    BY <1>1, <1>2, <1>5 DEF InSection
  <2>2. Held(t) = {s[1]}
    BY <1>3, <1>5
  <2> QED BY <1>2, <2>1, <2>2 DEF InSection
<1> QED BY <1>1, <1>2, <1>4, <1>5 DEF InSection

---------------------------------------------------------------------------
(* The invariant and its preservation                                      *)
LEMMA LockInvInit == LockInit => LockInv
BY LockAssumption DEF LockInit, LockInv, LockTypeOK, HoldsTaken, OnlyLosableLost, Held

(* A call begins in its first section, without a lock.                     *)
LEMMA FirstSection == \A c \in CallName : 1 \in DOMAIN Calls[c] /\ DOMAIN Calls[c] = 1 .. Len(Calls[c])
BY DEF CallName, Calls, LagMembers, LagRif, NeighborMac, FdbReport, FdbLearn, VlanInStp,
       RemoveUsedVlan, BridgePortOn, TunnelOnRif, MapEntryOnBridge, PortUses, RuleUses,
       HashOnUdf, SwitchHash, GroupMemberOnLag, L2mcEntry

LEMMA StartCallInv ==
  ASSUME LockInv, NEW t \in LThread, NEW c \in CallName, StartCall(t, c)
  PROVE  LockInv'
<1> DEFINE r == [call |-> c, sec |-> 1, held |-> 0]
<1>1. r \in Run /\ r # NoRun /\ running' = [running EXCEPT ![t] = r] /\ lockOwner' = lockOwner
  BY LockAssumption DEF StartCall, Run
<1>2. running \in [LThread -> Run \cup {NoRun}] /\ running[t] = NoRun
  BY DEF LockInv, LockTypeOK, StartCall
<1>3. Chain(t)' = Calls[c][1] /\ running'[t] = r
  BY <1>1, <1>2 DEF Chain
<1>4. ASSUME NEW u \in LThread, u # t
      PROVE  running'[u] = running[u] /\ Chain(u)' = Chain(u)
  BY <1>1, <1>2, <1>4 DEF Chain
<1>5. Len(Calls[c][1]) \in Nat
  <2>1. InSection(c, Calls[c][1])
    BY Sections, FirstSection
  <2> QED BY <2>1 DEF InSection
<1>6. LockTypeOK'
  <2>1. lockOwner' \in [Lock -> LThread \cup {NoOwner, Lost}] /\ running' \in [LThread -> Run \cup {NoRun}]
    BY <1>1, <1>2 DEF LockInv, LockTypeOK
  <2>2. running'[t].sec \in DOMAIN Calls[running'[t].call] /\ running'[t].held \in 0 .. Len(Chain(t)')
    BY <1>3, <1>5, FirstSection
  <2>3. ASSUME NEW u \in LThread, u # t, running'[u] # NoRun
        PROVE  running'[u].sec \in DOMAIN Calls[running'[u].call] /\ running'[u].held \in 0 .. Len(Chain(u)')
    BY <1>4, <2>3 DEF LockInv, LockTypeOK
  <2> QED BY <2>1, <2>2, <2>3 DEF LockTypeOK
<1>7. HoldsTaken'
  <2>1. \A u \in LThread : Held(u)' = Held(u)
    BY <1>1 DEF Held
  <2>2. Held(t) = {} /\ {Chain(t)'[i] : i \in 1 .. running'[t].held} = {}
    BY <1>2, <1>3 DEF LockInv, HoldsTaken
  <2>3. ASSUME NEW u \in LThread, u # t
        PROVE  Held(u)' = IF running'[u] = NoRun THEN {} ELSE {Chain(u)'[i] : i \in 1 .. running'[u].held}
    BY <1>4, <2>1, <2>3 DEF LockInv, HoldsTaken
  <2> QED BY <1>1, <1>3, <2>1, <2>2, <2>3 DEF HoldsTaken
<1> QED BY <1>1, <1>6, <1>7 DEF LockInv, OnlyLosableLost

(* A free lock is taken, as the next one of the section.                   *)
LEMMA TakeLockInv ==
  ASSUME LockInv, NEW t \in LThread, TakeLock(t)
  PROVE  LockInv'
<1> DEFINE l == Wants(t)
           n == running[t].held
<1>1. /\ Waits(t) /\ running[t] # NoRun /\ running[t] \in Run /\ n \in Nat /\ n < Len(Chain(t))
      /\ running[t].sec \in DOMAIN Calls[running[t].call] /\ running[t].call \in CallName
  BY DEF TakeLock, Waits, LockInv, LockTypeOK, Run
<1>2. l \in Lock /\ lockOwner[l] = NoOwner
  BY <1>1, WantsLock DEF TakeLock
<1>3. /\ lockOwner' = [lockOwner EXCEPT ![l] = t]
      /\ lockOwner \in [Lock -> LThread \cup {NoOwner, Lost}]
      /\ running \in [LThread -> Run \cup {NoRun}]
      /\ running' = [running EXCEPT ![t] = [running[t] EXCEPT !.held = n + 1]]
  BY DEF TakeLock, LockInv, LockTypeOK
<1>4. /\ running'[t].call = running[t].call /\ running'[t].sec = running[t].sec
      /\ running'[t].held = n + 1 /\ running'[t] \in Run
  BY <1>1, <1>3 DEF Run
<1>5. running'[t] # NoRun /\ Chain(t)' = Chain(t)
  BY <1>4, LockAssumption DEF Chain
<1>6. ASSUME NEW u \in LThread, u # t
      PROVE  running'[u] = running[u] /\ Chain(u)' = Chain(u)
  BY <1>3, <1>6 DEF Chain
<1>7. Len(Chain(t)) \in Nat
  BY <1>1, Sections DEF Chain, InSection
<1>8. LockTypeOK'
  <2>1. lockOwner' \in [Lock -> LThread \cup {NoOwner, Lost}] /\ running' \in [LThread -> Run \cup {NoRun}]
    BY <1>2, <1>3, <1>4
  <2>2. running'[t].sec \in DOMAIN Calls[running'[t].call] /\ running'[t].held \in 0 .. Len(Chain(t)')
    BY <1>1, <1>4, <1>5, <1>7
  <2>3. ASSUME NEW u \in LThread, u # t, running'[u] # NoRun
        PROVE  running'[u].sec \in DOMAIN Calls[running'[u].call] /\ running'[u].held \in 0 .. Len(Chain(u)')
    BY <1>6, <2>3 DEF LockInv, LockTypeOK
  <2> QED BY <2>1, <2>2, <2>3 DEF LockTypeOK
<1>9. HoldsTaken'
  <2>1. Held(t)' = Held(t) \cup {l}
    BY <1>2, <1>3 DEF Held
  <2>2. Held(t) = {Chain(t)[i] : i \in 1 .. n}
    BY <1>1 DEF LockInv, HoldsTaken
  <2>3. {Chain(t)[i] : i \in 1 .. n} \cup {l} = {Chain(t)[i] : i \in 1 .. n + 1}
    BY <1>1 DEF Wants
  <2>4. Held(t)' = IF running'[t] = NoRun THEN {} ELSE {Chain(t)'[i] : i \in 1 .. running'[t].held}
    BY <1>4, <1>5, <2>1, <2>2, <2>3
  <2>5. ASSUME NEW u \in LThread, u # t
        PROVE  Held(u)' = IF running'[u] = NoRun THEN {} ELSE {Chain(u)'[i] : i \in 1 .. running'[u].held}
    <3>1. Held(u)' = Held(u)
      BY <1>2, <1>3, <2>5, LockAssumption DEF Held
    <3> QED BY <1>6, <2>5, <3>1 DEF LockInv, HoldsTaken
  <2> QED BY <2>4, <2>5 DEF HoldsTaken
<1>10. OnlyLosableLost'
  BY <1>2, <1>3, LockAssumption DEF LockInv, OnlyLosableLost
<1> QED BY <1>8, <1>9, <1>10 DEF LockInv

(* A thread gives all its locks back, or loses some that may be lost; it   *)
(* is then in no call or at the start of a section.                        *)
LEMMA GiveBackInv ==
  ASSUME LockInv, NEW t \in LThread, NEW lost \in SUBSET Losable, GiveBack(t, lost),
         NEW r \in Run \cup {NoRun}, running' = [running EXCEPT ![t] = r],
         r # NoRun => r.held = 0 /\ r.sec \in DOMAIN Calls[r.call]
  PROVE  LockInv'
<1>1. /\ lockOwner \in [Lock -> LThread \cup {NoOwner, Lost}]
      /\ running \in [LThread -> Run \cup {NoRun}] /\ running'[t] = r
  BY DEF LockInv, LockTypeOK
<1>2. ASSUME NEW u \in LThread, u # t
      PROVE  running'[u] = running[u] /\ Chain(u)' = Chain(u)
  BY <1>1, <1>2 DEF Chain
<1>3. lockOwner' \in [Lock -> LThread \cup {NoOwner, Lost}]
  BY <1>1 DEF GiveBack
<1>4. LockTypeOK'
  <2>1. running' \in [LThread -> Run \cup {NoRun}]
    BY <1>1
  <2>2. CASE r = NoRun
    BY <1>1, <1>2, <1>3, <2>1, <2>2 DEF LockInv, LockTypeOK
  <2>3. CASE r # NoRun
    <3>1. r \in Run /\ Chain(t)' = Calls[r.call][r.sec]
      BY <1>1, <2>3 DEF Chain
    <3>2. Len(Chain(t)') \in Nat
      BY <2>3, <3>1, Sections DEF InSection, Run
    <3>3. r.held \in 0 .. Len(Chain(t)')
      BY <2>3, <3>2
    <3>4. ASSUME NEW u \in LThread, u # t, running'[u] # NoRun
          PROVE  running'[u].sec \in DOMAIN Calls[running'[u].call] /\ running'[u].held \in 0 .. Len(Chain(u)')
      BY <1>2, <3>4 DEF LockInv, LockTypeOK
    <3> QED BY <1>1, <1>3, <2>1, <2>3, <3>3, <3>4 DEF LockTypeOK
  <2> QED BY <2>2, <2>3
<1>5. HoldsTaken'
  <2>1. Held(t)' = {}
    BY LockAssumption DEF GiveBack, Held
  <2>2. running'[t] # NoRun => {Chain(t)'[i] : i \in 1 .. running'[t].held} = {}
    BY <1>1
  <2>3. ASSUME NEW u \in LThread, u # t
        PROVE  Held(u)' = IF running'[u] = NoRun THEN {} ELSE {Chain(u)'[i] : i \in 1 .. running'[u].held}
    <3>1. Held(u)' = Held(u)
      BY <1>1, <2>3, LockAssumption DEF GiveBack, Held
    <3> QED BY <1>2, <2>3, <3>1 DEF LockInv, HoldsTaken
  <2> QED BY <2>1, <2>2, <2>3 DEF HoldsTaken
<1>6. OnlyLosableLost'
  BY <1>1, LockAssumption DEF GiveBack, LockInv, OnlyLosableLost
<1> QED BY <1>4, <1>5, <1>6 DEF LockInv

LEMMA EndSectionInv ==
  ASSUME LockInv, NEW t \in LThread, EndSection(t)
  PROVE  LockInv'
<1> DEFINE c == running[t].call
           i == running[t].sec
           r == [call |-> c, sec |-> i + 1, held |-> 0]
<1>1. /\ running[t] # NoRun /\ running[t] \in Run /\ i \in DOMAIN Calls[c]
      /\ c \in CallName /\ i \in Nat
  BY DEF EndSection, LockInv, LockTypeOK, Run
<1>2. GiveBack(t, {}) /\ {} \in SUBSET Losable
  BY DEF EndSection
<1>3. CASE i < Len(Calls[c])
  <2>1. NextSection(running[t]) = r
    BY <1>1, <1>3 DEF Run, NextSection
  <2>2. running' = [running EXCEPT ![t] = r]
    BY <2>1 DEF EndSection
  <2>3. r \in Run /\ r.held = 0 /\ r.call = c /\ r.sec = i + 1
    BY <1>1 DEF Run
  <2>4. i + 1 \in DOMAIN Calls[c]
    BY <1>1, <1>3, FirstSection
  <2> HIDE DEF r, c, i
  <2> QED BY <1>2, <2>2, <2>3, <2>4, GiveBackInv
<1>4. CASE ~(i < Len(Calls[c]))
  <2>1. running' = [running EXCEPT ![t] = NoRun]
    BY <1>4 DEF EndSection, NextSection
  <2> QED BY <1>2, <2>1, GiveBackInv
<1> QED BY <1>3, <1>4

LEMMA ReturnEarlyInv ==
  ASSUME LockInv, NEW t \in LThread, ReturnEarly(t)
  PROVE  LockInv'
<1>1. running[t].call \in CallName
  BY DEF ReturnEarly, LockInv, LockTypeOK, Run
<1>2. LostBy(running[t].call) \in SUBSET Losable
  BY <1>1, EarlyReturnsLose
<1> QED BY <1>2, GiveBackInv DEF ReturnEarly

LEMMA LockInvStep == LockInv /\ [LockNext]_lockVars => LockInv'
<1> SUFFICES ASSUME LockInv, [LockNext]_lockVars PROVE LockInv'
  OBVIOUS
<1>1. CASE UNCHANGED lockVars
  BY <1>1 DEF lockVars, LockInv, LockTypeOK, HoldsTaken, OnlyLosableLost, Held, Chain
<1>2. CASE LockNext
  BY <1>2, StartCallInv, TakeLockInv, EndSectionInv, ReturnEarlyInv DEF LockNext
<1> QED BY <1>1, <1>2

---------------------------------------------------------------------------
(* Where threads are stuck                                                 *)

(* A lock that is owned by a stuck thread is one that something is taken   *)
(* inside of, and not an inner one again.                                  *)
LEMMA StuckHolds ==
  ASSUME LockInv, NEW S \in SUBSET LThread, Stuck(S), NEW t \in S, NEW l \in Held(t)
  PROVE  l \in {"bridge", "tunnel", "port", "acl"}
<1>1. ASSUME NEW u \in S, NEW k \in Held(u)
      PROVE  /\ Wants(u) \in Lock /\ Inside(running[u].call, k, Wants(u))
             /\ Wants(u) \in Losable \/ \E v \in S : Wants(u) \in Held(v)
  <2>1. Waits(u) /\ lockOwner[Wants(u)] \in S \cup {Lost} /\ u \in LThread
    BY DEF Stuck
  <2>2. Wants(u) \in Lock /\ Inside(running[u].call, k, Wants(u))
    BY <1>1, <2>1, WantsLock
  <2>3. CASE lockOwner[Wants(u)] = Lost
    BY <2>2, <2>3 DEF LockInv, OnlyLosableLost
  <2>4. CASE lockOwner[Wants(u)] \in S
    BY <2>2, <2>4 DEF Held
  <2> QED BY <2>1, <2>2, <2>3, <2>4
<1>2. ASSUME NEW u \in S
      PROVE  \A k \in {"lag", "stp", "udf", "mcast", "qos", "samplepacket", "mirror"} : k \notin Held(u)
  BY <1>1 DEF Inside
<1>3. ASSUME NEW u \in S PROVE "fdb" \notin Held(u) /\ "vlan" \notin Held(u) /\ "hash" \notin Held(u)
                              /\ "l2mc" \notin Held(u)
  BY <1>1, <1>2 DEF Inside, Losable
<1>4. "fib" \notin Held(t)
  BY <1>1, <1>2, <1>3 DEF Inside, Losable
<1>5. l \in Lock
  BY DEF Held
<1> QED BY <1>2, <1>3, <1>4, <1>5 DEF Lock

(* A circle of threads holds bridge and tunnel locks only.                 *)
LEMMA CircleCrosses ==
  ASSUME LockInv, NEW S \in SUBSET LThread, Circle(S)
  PROVE  {"tunnelPort", "mapEntry"} \subseteq {running[t].call : t \in S}
<1>1. Stuck(S)
  BY DEF Circle, Stuck
<1>2. ASSUME NEW u \in S
      PROVE  /\ \A k \in Held(u) : Inside(running[u].call, k, Wants(u))
             /\ \E v \in S : Wants(u) \in Held(v)
             /\ Wants(u) \in {"bridge", "tunnel", "port", "acl"}
  <2>1. Waits(u) /\ lockOwner[Wants(u)] \in S /\ u \in LThread
    BY DEF Circle
  <2>2. Wants(u) \in Lock /\ \A k \in Held(u) : Inside(running[u].call, k, Wants(u))
    BY <2>1, WantsLock
  <2>3. Wants(u) \in Held(lockOwner[Wants(u)])
    BY <2>2 DEF Held
  <2> QED BY <1>1, <2>1, <2>2, <2>3, StuckHolds
<1>3. ASSUME NEW u \in S PROVE "port" \notin Held(u)
  BY <1>2 DEF Inside
<1>4. ASSUME NEW u \in S PROVE "acl" \notin Held(u)
  BY <1>2, <1>3 DEF Inside
<1>5. ASSUME NEW u \in S, "bridge" \in Held(u)
      PROVE  running[u].call = "tunnelPort" /\ Wants(u) = "tunnel"
  BY <1>2, <1>3, <1>5 DEF Inside
<1>6. ASSUME NEW u \in S, "tunnel" \in Held(u)
      PROVE  running[u].call = "mapEntry" /\ Wants(u) = "bridge"
  BY <1>2, <1>6 DEF Inside
<1>7. \E u \in S : "bridge" \in Held(u) \/ "tunnel" \in Held(u)
  BY <1>2, <1>3, <1>4 DEF Circle
<1>8. \E u, v \in S : "bridge" \in Held(u) /\ "tunnel" \in Held(v)
  BY <1>2, <1>5, <1>6, <1>7
<1> QED BY <1>5, <1>6, <1>8

(* For any number of threads: they wait for each other in a circle only    *)
(* where a bridge port of type TUNNEL and a tunnel map entry are created   *)
(* or changed at once, and nothing that is stuck holds a lock of routing,  *)
(* LAGs, the FDB or any other component but bridges, tunnels, ports and    *)
(* access lists (sai_bridge.c:916, sai_tunnel_map_obj.c:428).              *)
THEOREM LockOrderSound == LockSpec => []LocksSound
<1>1. LockInv => LocksSound
  BY StuckHolds, CircleCrosses DEF LocksSound
<1> QED BY <1>1, LockInvInit, LockInvStep, PTL DEF LockSpec

---------------------------------------------------------------------------
(* All components together                                                 *)

ServicesInv ==
  /\ StpInv /\ TunInv /\ EncInv /\ MirInv /\ HashInv /\ UdfInv /\ McInv /\ LockInv

LEMMA ServicesInvInit == ServicesInit => ServicesInv
BY StpInvInit, TunInvInit, EncInvInit, MirInvInit, HashInvInit, UdfInvInit, McInvInit, LockInvInit
   DEF ServicesInit, ServicesInv

(* The tunnels of behaviours about maps, or about hops, are tunnels.       *)
LEMMA TunnelsRestricted ==
  ASSUME TunnelStep(MapTunnelInfo) \/ TunnelStep(PlainTunnelInfo)
  PROVE  TunnelStep(TunnelInfo)
BY DEF TunnelStep, MapTunnelInfo, PlainTunnelInfo

(* A step of Services is a step, or none, of each component.               *)
LEMMA ServicesSteps ==
  ASSUME ServicesNext
  PROVE  /\ [StpNext]_stpVars /\ [TunNext]_tunVars /\ [EncapNext]_encVars /\ [MirNext]_mirVars
         /\ [HashUdfNext]_huVars /\ [McNext]_mcVars /\ [LockNext]_lockVars
BY TunnelsRestricted, Zenon DEF ServicesNext, TunNext, HashUdfNext, McNext

LEMMA ServicesInvNext == ServicesInv /\ [ServicesNext]_svcVars => ServicesInv'
<1> SUFFICES ASSUME ServicesInv, [ServicesNext]_svcVars  PROVE ServicesInv'
  OBVIOUS
<1>1. /\ [StpNext]_stpVars /\ [TunNext]_tunVars /\ [EncapNext]_encVars /\ [MirNext]_mirVars
      /\ [HashUdfNext]_huVars /\ [McNext]_mcVars /\ [LockNext]_lockVars
  <2>1. CASE ServicesNext
    BY <2>1, ServicesSteps
  <2>2. CASE UNCHANGED svcVars
    BY <2>2, Zenon DEF svcVars
  <2> QED BY <2>1, <2>2
<1>2. StpInv' /\ TunInv' /\ EncInv' /\ MirInv'
  BY <1>1, StpInvStep, TunInvNext, EncInvNext, MirInvNext, Zenon DEF ServicesInv
<1>3. HashInv' /\ UdfInv' /\ McInv' /\ LockInv'
  BY <1>1, HuInvNext, McInvNext, LockInvStep, Zenon DEF ServicesInv
<1> QED BY <1>2, <1>3 DEF ServicesInv

LEMMA ServicesAlways == ServicesSpec => []ServicesInv
BY ServicesInvInit, ServicesInvNext, PTL DEF ServicesSpec

(* The variables of every component have their types: no count of users,   *)
(* which the code keeps in unsigned integers, is ever taken below 0        *)
(* (sai_tunnel_map_obj.c:481, sai_hash_obj.c:1064, sai_udf.c:316).         *)
THEOREM ServicesTypes == ServicesSpec => []ServicesTypeOK
<1>1. ServicesInv => ServicesTypeOK
  BY StpInvMeans, TunInvMeans, EncInvMeans, HuInvMeans, Zenon
     DEF ServicesInv, MirInv, McInv, LockInv, ServicesTypeOK
<1> QED BY <1>1, ServicesAlways, PTL

(* Every count that decides whether an object can be removed is the number *)
(* of its users: STP ports of an instance (sai_stp.c:759), entries and     *)
(* tunnels of a map, entries of a bridge, tunnels and hops of a router     *)
(* interface, terminations and underlays of a hop                          *)
(* (sai_tunnel_map_obj.c:481, sai_tunnel_encap_nh.c:67), users of a hash   *)
(* object (sai_hash_obj.c:1064) and fields of a group (sai_udf.c:316),     *)
(* where no named race or refusal has put the count out.                   *)
THEOREM CountsAreUsers == ServicesSpec => []ServicesCounts
<1>1. ServicesInv => ServicesCounts
  BY StpInvMeans, TunInvMeans, HuInvMeans, Zenon DEF ServicesInv, ServicesCounts
<1> QED BY <1>1, ServicesAlways, PTL

(* What an object says of another is true of it: the instance, map, entry  *)
(* or hop that it names exists, a hop of a tunnel follows the neighbour or *)
(* the best route to its address (sai_l3_encap_next_hop.c:358), ports and  *)
(* mirror sessions name each other (sai_mirror_port.c:176), L2 multicast   *)
(* floods each member where its group has it (sai_l2mc_group.c:94), and    *)
(* the NPU runs what is stored.                                            *)
THEOREM ObjectsAgree == ServicesSpec => []ServicesAgree
<1>1. ServicesInv => ServicesAgree
  BY TunInvMeans, EncInvMeans, MirInvMeans, HuInvMeans, McInvMeans, Zenon
     DEF ServicesInv, StpInv, ServicesAgree
<1> QED BY <1>1, ServicesAlways, PTL

(* A bridge that a tunnel is connected to stays reachable through it: the  *)
(* last decap entry to the bridge and its encap entry are neither removed  *)
(* nor led elsewhere while the tunnel is on the bridge                     *)
(* (sai_tunnel_map_obj.c:499-567), unless a map was freed in a race.       *)
THEOREM BridgesStayMapped == ServicesSpec => BridgeStaysMapped
<1>1. ServicesInv /\ [ServicesNext]_svcVars =>
        [\A b \in TBridge, t \in Tunnel, k \in {"encap", "decap"} :
           /\ IsTunnel(t) /\ <<b, t>> \in tports
           /\ MapsOf(t) \intersect (racedMap \cup seenFree) = {}
           /\ Reaches(t, b, k)
           => ~IsTunnel(t)' \/ <<b, t>> \notin tports' \/ Reaches(t, b, k)']_tunVars
  <2> SUFFICES ASSUME ServicesInv, [ServicesNext]_svcVars,
                      NEW b \in TBridge, NEW t \in Tunnel, NEW k \in {"encap", "decap"},
                      IsTunnel(t), <<b, t>> \in tports, MapsOf(t) \intersect (racedMap \cup seenFree) = {},
                      Reaches(t, b, k), IsTunnel(t)', <<b, t>> \in tports'
               PROVE  Reaches(t, b, k)'
    OBVIOUS
  <2>1. TunTypeOK
    BY DEF ServicesInv, TunInv
  <2>2. [TunNext]_tunVars
    BY ServicesSteps, Zenon DEF svcVars
  <2>3. tunnels'[t] # NoTunnel
    BY DEF IsTunnel
  <2> QED BY <2>1, <2>2, <2>3, ReachesStays
<1> QED BY <1>1, ServicesAlways, PTL DEF ServicesSpec, BridgeStaysMapped
=============================================================================
