\* One LAG, one port, a 1D bridge beside the default; calls may fail.
CONSTANTS
  Thread = {t1, t2}
  NoThread = NoThread
  Lag = {l1}
  NoLag = NoLag
  Port = {p1}
  NoPort = NoPort
  NpuMayFail = TRUE
  DefaultBridge = d
  d = d
  Bridge = {d, b1}
  NoBridge = NoBridge
  BPort = {bp1, bp2}
  NoBPort = NoBPort
  NoInfo = NoInfo
  Vlan = {v1}
  NoVlan = NoVlan
  MaxBridgeRef = 2
SPECIFICATION Spec
SYMMETRY Symmetric
INVARIANTS
  TypeOK
  AttachmentsSound
PROPERTY ImplementsBridgeTree
