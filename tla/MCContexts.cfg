SPECIFICATION Spec
CONSTANTS
  t1 = t1
  t2 = t2
  g = g
  r = r
  p = p
  None = None
  Any = Any
  Threads = {t1, t2}
  Go = {g}
  Rust = {r}
  Python = {p}
SYMMETRY ThreadSymmetry
INVARIANTS
  OnlyKeysAreLeft
PROPERTIES
  ImplementsLifetime
CHECK_DEADLOCK FALSE
