\* Nothing fails: do the lists of neighbours stay well formed?
CONSTANTS
  Thread = {t1, t2}
  NoThread = NoThread
  Mac = {m1}
  Port = {p1}
  NullPort = NullPort
  NoEvent = NoEvent
  MaxWakes = 1
  Nbr = {n1}
  NoInfo = NoInfo
  NpuMayFail = FALSE
SPECIFICATION Spec
SYMMETRY Symmetric
INVARIANT ListsIntact
