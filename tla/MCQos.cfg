SPECIFICATION QosSpec
CONSTANTS
  Wred = {w1, w2}
  WQueue = {q1}
  WPool = {wp1, wp2}
  WVal = {1}
  NoWred = NoWred
  NoWPool = NoWPool
  NoWVal = NoWVal
  WredIsHw = FALSE
  BPool = {p1, p2}
  BProf = {f1, f2}
  BPort = {t1}
  BQueue = {}
  BPg = {g1}
  Mode = {"static"}
  PoolSize = {2}
  ProfSize = {1}
  Xoff = {1}
  BVal = {1, 2}
  ThKind = {"unset", "static"}
  NoNode = NoNode
  NoProf = NoProf
  NoReq = NoReq
  NoBVal = NoBVal
  MaxFault = 1
  Sched = {d, s1}
  Default = d
  SGroup = {sg0, sg1}
  SQueue = {sq1}
  SPort = port
  SVal = {1, 2}
  TopGroup = sg0
  LeafGroup = sg1
  LeafQueue = sq1
  MaxLevels = 2
  NoSched = NoSched
  NoSVal = NoSVal
  NoPar = NoPar
  SchedIsHw = FALSE
  QMap = {m1, m2}
  MPort = {pt}
  MKey = {k1}
  MaxQueue = 3
  MaxUc = 2
  NoMap = NoMap
  Policer = {pol1, pol2}
  PolPort = {pp1, pp2}
  StormType = {"flood", "bcast"}
  PolRule = {}
  PolRate = {1, 2}
  NoPol = NoPol
  NoRate = NoRate
  StormIsHw = FALSE
SYMMETRY Symm
INVARIANTS
  QosTypeOK
  
  BufferSound
  
CHECK_DEADLOCK FALSE
