\* Two VLANs and two instances, one of each the default; calls may fail.
CONSTANTS
  Thread = {t1, t2}
  NoThread = NoThread
  v1 = v1
  Vlan = {v1, v2}
  NoVlan = NoVlan
  DefaultVlan = v1
  s1 = s1
  Stp = {s1, s2}
  NoStp = NoStp
  DefaultStp = s1
  Port = {p1}
  StpPort = {}
  NoInfo = NoInfo
  NoCall = NoCall
  NpuMayFail = TRUE
\* A refused removal of a VLAN keeps the VLAN lock (sai_vlan.c:305-307): the
\* threads may then all wait for it.
CHECK_DEADLOCK FALSE
SPECIFICATION Spec
SYMMETRY Symmetric
INVARIANTS
  TypeOK
  VlanInOneInstance
  VlanMapExact
PROPERTIES
  VlanInUseNotDeleted
  ImplementsVlanTree
