CONSTANTS
  Cpus = {c1, c3}
  Frames = {f0, f1}
  Values = {w0, w1}
  NoValue = NoValue
SPECIFICATION Spec
SYMMETRY Symmetric
INVARIANT BitsTellUse
INVARIANT LoadReturnsStored
INVARIANT FaultsOnceEach
CHECK_DEADLOCK TRUE
