\* Does a session that ports use stay?
SPECIFICATION MCSpec
CONSTANTS
  c1 = c1
  t1 = t1
  Caller = {c1, c2}
  ATable = {t1, t2}
  AGroup = {g1, g2}
  AMember = {m1, m2}
  APrio = {1, 2}
  NoTable = NoTable
  NoGroup = NoGroup
  NoPrio = NoPrio
  Policer = {p1, p2}
  PolPort = {}
  StormType = {}
  PolRule = {r1, r2}
  PolRate = {1}
  NoPol = NoPol
  NoRate = NoRate
  StormIsHw = TRUE
  Sess = {s1, s2}
  SPort = {a}
  NoSess = NoSess
  AllPorts = AllPorts
  MaxFlow = 2
  Counter = {k1, k2}
  ARule = {r1, r2}
  NoCounter = NoCounter
  NoARule = NoARule
SYMMETRY Symm
INVARIANT SessionKeptByPorts
CHECK_DEADLOCK FALSE
