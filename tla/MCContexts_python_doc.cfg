SPECIFICATION Spec
CONSTANTS
  t1 = t1
  t2 = t2
  p = p
  None = None
  Any = Any
  Threads = {t1, t2}
  Go = {}
  Rust = {}
  Python = {p}
INVARIANTS
  CipherConfined
CHECK_DEADLOCK FALSE
