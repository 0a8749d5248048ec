\* Two neighbours, two addresses, one port; calls may fail.
CONSTANTS
  Thread = {t1, t2}
  NoThread = NoThread
  Mac = {m1, m2}
  Port = {p1}
  NullPort = NullPort
  NoEvent = NoEvent
  MaxWakes = 1
  Nbr = {n1, n2}
  NoInfo = NoInfo
  NpuMayFail = TRUE
\* The model stops at a list whose links the code has broken
\* (sai_l3_neighbor.c:584).
CHECK_DEADLOCK FALSE
SPECIFICATION Spec
SYMMETRY Symmetric
INVARIANTS
  TypeOK
  NodeIsProgrammed
  RegisteredIffListed
  WakeNotLost
PROPERTY CreatedOnFdbPort
