CONSTANTS
  Thread = {t1}
  Proc = {a, b, c}
  Kernel = Kernel
  None = None
  ChildMax = 2
  JamMax = 0
SPECIFICATION Spec
INVARIANT NoLockPanic
