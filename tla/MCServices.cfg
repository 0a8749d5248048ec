SPECIFICATION ServicesSpec
CONSTANTS
  Thread = {t1}
  v1 = v1
  Vlan = {v1}
  DefaultVlan = v1
  s1 = s1
  Stp = {s1, s2}
  NoStp = NoStp
  DefaultStp = s1
  Port = {p1, p2}
  StpPort = {x1, x2}
  NoInfo = NoInfo
  NoCall = NoCall
  NpuMayFail = TRUE
  TMap = {m1, m2}
  TEntry = {e1, e2}
  TBridge = {b1, b2}
  Vni = {1}
  Tunnel = {tn1, tn2}
  Term = {te1, te2}
  TRif = {r1}
  Ip = {i1}
  TType = {"vxlan", "ipinip"}
  MaxHopRef = 2
  MaxTPorts = 2
  MaxUnsure = 1
  NoMap = NoMap
  NoEntry = NoEntry
  NoTunnel = NoTunnel
  NoTerm = NoTerm
  NoHop = NoHop
  NoUndo = NoUndo
  EHop = {eh1}
  eh1 = eh1
  n1 = n1
  n2 = n2
  ENode = {n1, n2}
  EGroup = {eg1}
  EOver = {o1}
  EPrefix = {0, 1}
  Bits <- FullBits
  MaxWalks = 1
  EKept = {NoTarget, eg1}
  NoEHop = NoEHop
  NoTarget = NoTarget
  NoRoute = NoRoute
  NoNbr = NoNbr
  Session = {ms1, ms2}
  MPortM = {mp1}
  Dir = {"in", "out"}
  MVal = {1, 2}
  MirNoCall = MirNoCall
  NoSess = NoSess
  HThread = {t1, t2}
  NHash = 2
  HAttr = {0, 1}
  HVal = {1}
  UGroup = {g1}
  Udf = {u1, u2}
  UMask = {1, 2}
  NoHash = NoHash
  NoHCall = NoHCall
  NoGroup = NoGroup
  NoUdf = NoUdf
  NoMask = NoMask
  McThread = {mt1, mt2}
  McGroup = {mg1}
  McMember = {mm1, mm2}
  McBport = {mb1, mb2}
  McPort = {mp2}
  McKey = {mk1}
  McMaxLeft = 1
  McNone = McNone
  LThread = {l1, l2}
  MaxLost = 1
  NoOwner = NoOwner
  Lost = Lost
  NoRun = NoRun
INVARIANTS
  ServicesTypeOK
  
  ServicesAgree
  LocksSound
PROPERTIES
  BridgeStaysMapped
CHECK_DEADLOCK FALSE
