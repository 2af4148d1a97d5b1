CONSTANTS
  Thread = {t1, t2}
  Proc = {a, b}
  Kernel = Kernel
  None = None
  ChildMax = 2
  JamMax = 2
SPECIFICATION FairSpec
PROPERTIES ExitCompletes OperationsReturn
