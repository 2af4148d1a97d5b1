\* one waiting thread is enough
CONSTANTS
  Child = {c1, c2}
  Sender = {}
  Lister = {}
  Waiter = {w1}
  None = None
  Options <- MCOptions
  SignalMax = 1
SPECIFICATION Spec
INVARIANT SleeperHasChild
