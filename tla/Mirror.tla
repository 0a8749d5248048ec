------------------------------- MODULE Mirror -------------------------------
(* Mirror sessions and the ports they mirror: src/src/mirroring.  A session *)
(* lists its source ports under the mirror lock; a port lists its sessions *)
(* under the port lock.  A call that sets the sessions of a port takes the *)
(* mirror lock once per session, and other calls come between.             *)
(* A port may leave at any time: its validity is cleared without a lock.   *)
EXTENDS FiniteSets

CONSTANTS Session, MPortM, Dir,   \* ids and directions
          MVal,                   \* what an attribute of a session may be
          MirNoCall, NoSess

VARIABLES
  sessions,    \* mirror_sessions_tree
  sources,     \* source_ports_tree of a session: ports and directions
  params,      \* what a session stores: whether span_type is valid, a value
  npuParams,   \* the value the NPU runs
  named,       \* mirror_sessions_tree of a port: sessions and directions
  portValid,   \* port_valid
  setCall,     \* the set of a port's sessions that is under way
  orphans      \* history: sources no port has recorded

mirVars == <<sessions, sources, params, npuParams, named, portValid, setCall, orphans>>
sessVars == <<sessions, params, npuParams>>

SetCall == [port : MPortM, dir : Dir, want : SUBSET Session,
            phase : {"add", "drop"}, gone : Session \cup {NoSess}]

ASSUME MirrorAssumption == MirNoCall \notin SetCall /\ NoSess \notin Session /\ MVal # {}

(* sai_mirror_session_create; a failure leaves nothing behind.             *)
CreateSession(s) ==
  /\ s \notin sessions
  /\ sessions' = sessions \cup {s}
  /\ sources' = [sources EXCEPT ![s] = {}]
  /\ \E v \in MVal : /\ params' = [params EXCEPT ![s] = [valid |-> TRUE, val |-> v]]
                     /\ npuParams' = [npuParams EXCEPT ![s] = v]
  /\ orphans' = {o \in orphans : o[1] # s}
  /\ UNCHANGED <<named, portValid, setCall>>

(* Mutant: sources of one direction do not keep a session                  *)
UnusedOneWay(s) == \E d \in Dir : \A p \in MPortM : <<p, d>> \notin sources[s]
Unused(s) == sources[s] = {}

(* sai_mirror_session_remove: no source port left; rules of access lists   *)
(* are not looked at.                                                      *)
RemoveSession(s) ==
  /\ s \in sessions
  /\ Unused(s)
  /\ sessions' = sessions \ {s}
  /\ UNCHANGED <<sources, params, npuParams, named, portValid, setCall, orphans>>

(* Mutant: what the NPU refuses stays stored                               *)
RestoredNot(old, new) == new
Restored(old, new) == old

(* sai_mirror_session_attribute_set: what the NPU refuses is restored, but *)
(* a span_type that is not valid is refused after it was stored.           *)
SetSession(s) ==
  /\ s \in sessions
  /\ \/ \E v \in MVal : LET new == [params[s] EXCEPT !.val = v] IN
          \/ /\ params' = [params EXCEPT ![s] = new]
             /\ npuParams' = [npuParams EXCEPT ![s] = v]
          \/ /\ params' = [params EXCEPT ![s] = Restored(params[s], new)]
             /\ UNCHANGED npuParams
     \/ /\ \E valid \in BOOLEAN : params' = [params EXCEPT ![s].valid = valid]
        /\ UNCHANGED npuParams
  /\ UNCHANGED <<sessions, sources, named, portValid, setCall, orphans>>

(* sai_port_apply_attribute, under the port lock                           *)
SetPortSessions(p, d, want) ==
  /\ setCall = MirNoCall /\ p \in portValid
  /\ setCall' = [port |-> p, dir |-> d, want |-> want, phase |-> "add", gone |-> NoSess]
  /\ UNCHANGED <<sessVars, sources, named, portValid, orphans>>

Src == <<setCall.port, setCall.dir>>
Has(s) == <<s, setCall.dir>> \in named[setCall.port]
EndCall == setCall' = MirNoCall
Missing == {s \in setCall.want : ~Has(s)}
Surplus == {s \in Session : Has(s)} \ setCall.want

(* sai_mirror_session_port_add and the node of the port                    *)
AddOne(s) ==
  /\ setCall # MirNoCall /\ setCall.phase = "add" /\ s \in Missing
  /\ setCall.port \in portValid /\ s \in sessions /\ Src \notin sources[s]
  /\ sources' = [sources EXCEPT ![s] = @ \cup {Src}]
  /\ \/ /\ named' = [named EXCEPT ![setCall.port] = @ \cup {<<s, setCall.dir>>}]
        /\ UNCHANGED <<setCall, orphans>>
     \/ /\ orphans' = orphans \cup {<<s, setCall.port, setCall.dir>>}   \* no memory
        /\ EndCall /\ UNCHANGED named
  /\ UNCHANGED <<sessVars, portValid>>

(* The first session that cannot be added ends the call; those before it   *)
(* stay.                                                                   *)
AddRefused ==
  /\ setCall # MirNoCall /\ setCall.phase = "add" /\ Missing # {}
  /\ EndCall
  /\ UNCHANGED <<sessVars, sources, named, portValid, orphans>>

AddDone ==
  /\ setCall # MirNoCall /\ setCall.phase = "add" /\ Missing = {}
  /\ setCall' = [setCall EXCEPT !.phase = "drop"]
  /\ UNCHANGED <<sessVars, sources, named, portValid, orphans>>

(* sai_mirror_session_port_remove ...                                      *)
DropOne(s) ==
  /\ setCall # MirNoCall /\ setCall.phase = "drop" /\ setCall.gone = NoSess
  /\ s \in Surplus
  /\ setCall.port \in portValid /\ s \in sessions /\ Src \in sources[s]
  /\ sources' = [sources EXCEPT ![s] = @ \ {Src}]
  /\ setCall' = [setCall EXCEPT !.gone = s]
  /\ UNCHANGED <<sessVars, named, portValid, orphans>>

(* Mutant: the node of a session that kept the port is freed as well       *)
DropRefusedFreed ==
  /\ setCall # MirNoCall /\ setCall.phase = "drop" /\ setCall.gone = NoSess
  /\ \E s \in Surplus : named' = [named EXCEPT ![setCall.port] = @ \ {<<s, setCall.dir>>}]
  /\ EndCall
  /\ UNCHANGED <<sessVars, sources, portValid, orphans>>

(* ... which the NPU or an invalid port may refuse, ends the call there ... *)
DropRefused ==
  /\ setCall # MirNoCall /\ setCall.phase = "drop" /\ setCall.gone = NoSess
  /\ Surplus # {}
  /\ EndCall
  /\ UNCHANGED <<sessVars, sources, named, portValid, orphans>>

(* ... and is followed by the removal of the node of the port.             *)
DropNode ==
  /\ setCall # MirNoCall /\ setCall.gone # NoSess
  /\ named' = [named EXCEPT ![setCall.port] = @ \ {<<setCall.gone, setCall.dir>>}]
  /\ setCall' = [setCall EXCEPT !.gone = NoSess]
  /\ UNCHANGED <<sessVars, sources, portValid, orphans>>

DropDone ==
  /\ setCall # MirNoCall /\ setCall.phase = "drop" /\ Surplus = {}
  /\ EndCall
  /\ UNCHANGED <<sessVars, sources, named, portValid, orphans>>

(* sai_port_remove, sai_port_create: the sessions are not looked at        *)
TogglePort(p) ==
  /\ portValid' = (portValid \ {p}) \cup ({p} \ portValid)
  /\ UNCHANGED <<sessVars, sources, named, setCall, orphans>>

(* sai_mirror_init *)
MirInit ==
  /\ sessions = {} /\ sources = [s \in Session |-> {}]
  /\ npuParams = [s \in Session |-> CHOOSE v \in MVal : TRUE]
  /\ params = [s \in Session |-> [valid |-> TRUE, val |-> npuParams[s]]]
  /\ named = [p \in MPortM |-> {}] /\ portValid = MPortM
  /\ setCall = MirNoCall /\ orphans = {}

MirNext ==
  \/ \E s \in Session : CreateSession(s) \/ RemoveSession(s) \/ SetSession(s) \/ AddOne(s) \/ DropOne(s)
  \/ \E p \in MPortM : TogglePort(p) \/ \E d \in Dir, want \in SUBSET Session : SetPortSessions(p, d, want)
  \/ AddRefused \/ AddDone \/ DropRefused \/ DropNode \/ DropDone

MirSpec == MirInit /\ [][MirNext]_mirVars

---------------------------------------------------------------------------
MirTypeOK ==
  /\ sessions \subseteq Session
  /\ sources \in [Session -> SUBSET (MPortM \X Dir)]
  /\ params \in [Session -> [valid : BOOLEAN, val : MVal]] /\ npuParams \in [Session -> MVal]
  /\ named \in [MPortM -> SUBSET (Session \X Dir)]
  /\ portValid \subseteq MPortM
  /\ setCall \in SetCall \cup {MirNoCall}
  /\ orphans \subseteq Session \X MPortM \X Dir

(* A session a port names exists and lists the port, except the one whose  *)
(* node is about to be freed; and a session lists only ports that name it, *)
(* except where memory ran out between the two lists: what keeps a session *)
(* from its removal, and what can be given back, is the same               *)
(* (sai_mirror_port.c:93-110, 176-205, sai_mirror_common.c:431).  The value  *)
(* a session stores is the one the NPU runs.                               *)
MirrorAgree ==
  /\ \A s \in sessions : params[s].val = npuParams[s]
  /\ \A p \in MPortM, d \in Dir, s \in Session :
       LET freeing == setCall # MirNoCall /\ <<p, d, s>> = <<setCall.port, setCall.dir, setCall.gone>>
           listed == s \in sessions /\ <<p, d>> \in sources[s]
       IN /\ <<s, d>> \in named[p] /\ ~freeing => listed
          /\ listed => <<s, d>> \in named[p] \/ <<s, p, d>> \in orphans
===========================================================================
