\* Nothing fails: is a RIF carried by the members of its LAG?
CONSTANTS
  Thread = {t1, t2}
  NoThread = NoThread
  Lag = {l1}
  NoLag = NoLag
  Port = {p1}
  NoPort = NoPort
  NpuMayFail = FALSE
  Rif = {r1, r2}
  NoRif = NoRif
  NoInfo = NoInfo
  Other = {}
  Vrf = {v1}
  Mac = {m1}
  MaxRef = 0
SPECIFICATION Spec
SYMMETRY Symmetric
INVARIANT QuietRifMatchesLag
