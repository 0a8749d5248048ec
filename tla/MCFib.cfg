\* One virtual router, next hops of another one, one group.
CONSTANTS
  Thread = {t1, t2}
  Vrf = {v1}
  RoutedVrf = {}
  Rif = {r1}
  Nh = {n1}
  RifOf <- OneRif
  Group = {g1}
  Member = {m1, m2}
  Prefix = {p0, p1}
  Default = p0
  MaxPaths = 2
  MaxRef = 3
  None = None
  Stale = Stale
\* The model stops where a freed node is used.
CHECK_DEADLOCK FALSE
SPECIFICATION Spec
SYMMETRY Symmetric
INVARIANTS
  TypeOK
  CountsCover
  MembersLinked
  UndefinedOnlyByRace
PROPERTIES
  SurplusConserved
  ImplementsObjectGraph
