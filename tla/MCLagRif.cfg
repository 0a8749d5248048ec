\* One LAG, one other attachment, two RIFs; calls of the NPU may fail.
CONSTANTS
  Thread = {t1, t2}
  NoThread = NoThread
  Lag = {l1}
  NoLag = NoLag
  Port = {p1}
  NoPort = NoPort
  NpuMayFail = TRUE
  Rif = {r1, r2}
  NoRif = NoRif
  NoInfo = NoInfo
  Other = {o1}
  Vrf = {v1, v2}
  Mac = {m1, m2}
  MaxRef = 1
SPECIFICATION Spec
SYMMETRY Symmetric
INVARIANTS
  TypeOK
  CachedIsProgrammed
  NoOrphanState
  TableSound
PROPERTIES
  RifBornInSync
  MemberUpdateOnlyForOwnLag
  ImplementsRifTable
