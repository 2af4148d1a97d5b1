CONSTANTS
  Thread = {t1, t2}
  Proc = {a, b, c}
  Kernel = Kernel
  None = None
  ChildMax = 2
  JamMax = 0
SPECIFICATION Spec
INVARIANT ExitKillsChildren
