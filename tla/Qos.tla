--------------------------------- MODULE Qos ---------------------------------
(* The QoS components side by side.  Their handlers all take the one QoS   *)
(* lock, and no call of one changes the state of another except where the  *)
(* modules say so; each behaviour therefore stays with one component, its  *)
(* focus, and the others keep their initial state.                         *)
EXTENDS QosWred, QosBuffer, QosSched, QosMaps, QosPolicer

VARIABLE focus
qosVars == <<focus, wredVars, bufVars, schedVars, mapVars, polVars>>

QosInit ==
  /\ WredInit /\ BufInit /\ SchedInit /\ MapInit /\ PolInit
  /\ focus \in {"wred", "buffer", "scheduler", "map", "policer"}

QosNext ==
  /\ UNCHANGED focus
  /\ \/ /\ focus = "wred" /\ WredNext
        /\ UNCHANGED <<bufVars, schedVars, mapVars, polVars>>
     \/ /\ focus = "buffer" /\ BufNext
        /\ UNCHANGED <<wredVars, schedVars, mapVars, polVars>>
     \/ /\ focus = "scheduler" /\ SchedNext
        /\ UNCHANGED <<wredVars, bufVars, mapVars, polVars>>
     \/ /\ focus = "map" /\ MapNext
        /\ UNCHANGED <<wredVars, bufVars, schedVars, polVars>>
     \/ /\ focus = "policer" /\ PolNext
        /\ UNCHANGED <<wredVars, bufVars, schedVars, mapVars>>

QosSpec == QosInit /\ [][QosNext]_qosVars

---------------------------------------------------------------------------
(* Types of all components; the counts of pools and profiles are naturals: *)
(* none is counted down below 0.                                           *)
QosTypeOK == WredTypeOK /\ BufTypeOK /\ SchedTypeOK /\ MapTypeOK /\ PolTypeOK

(* Whatever names a WRED profile, a scheduler profile, a map or a policer  *)
(* is in the list of that object and the object is in its tree; a group of *)
(* the scheduler tree lists its children: every removal goes by such a     *)
(* list, and lists are kept by other handlers than the ids are.  An entry    *)
(* of a map names a queue of its own bank                                  *)
(* (sai_qos_wred.c:613-725, sai_qos_scheduler.c:552-698,                   *)
(* sai_qos_map_utils.c:232-322, sai_qos_maps.c:287, sai_qos_policer.c:669, *)
(* sai_qos_sched_group.c:712-751).                                         *)
QosLinks == /\ WredLinks /\ SchedListed /\ ChildrenExist /\ MapsListed /\ StormListed
            /\ QueuesInBank

(* A profile is counted by its pool and its users, both exist, and a pool  *)
(* has booked just what its users reserve, through every change of a pool, *)
(* a profile or a user and its undo, but for the failures that BufferChain *)
(* and PoolBooked name (sai_qos_buffer.c:418-522, 948-1003).               *)
BufferSound == BufferChain /\ PoolBooked

(* What uses a buffer profile or a scheduler profile runs with the values  *)
(* the profile has, also after a change that was refused for one of its    *)
(* users, unless setting the others back was refused too                   *)
(* (sai_qos_buffer.c:703-770, sai_qos_scheduler_util.c:83-246).            *)
QosRuns == UsersFollowProfile /\ NodesRunProfile
===========================================================================
