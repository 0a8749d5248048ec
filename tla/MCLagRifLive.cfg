\* Every call returns, under the fairness of the locks.
CONSTANTS
  Thread = {t1, t2}
  NoThread = NoThread
  Lag = {l1}
  NoLag = NoLag
  Port = {p1}
  NoPort = NoPort
  NpuMayFail = FALSE
  Rif = {r1}
  NoRif = NoRif
  NoInfo = NoInfo
  Other = {o1}
  Vrf = {v1}
  Mac = {m1}
  MaxRef = 1
SPECIFICATION FairSpec
PROPERTY EveryCallReturns
