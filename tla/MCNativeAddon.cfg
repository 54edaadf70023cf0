SPECIFICATION Spec
CONSTANTS
  s1 = s1
  c1 = c1
  m1 = m1
  main = main
  w1 = w1
  None = None
  Servers = {s1}
  Clients = {c1}
  Matches = {m1}
  Envs = {main, w1}
  Main = main
  MaxShards = 1
INVARIANTS
  TypeOK
  WrappersTrackDeletion
  NoDestructorInUnmappedCode
PROPERTIES
  ImplementsLifetime
  TeardownFreesAll
CHECK_DEADLOCK FALSE
