\* one thread polls, another sleeps
CONSTANTS
  Child = {c1, c2}
  Sender = {}
  Lister = {}
  Waiter = {w1, w2}
  None = None
  Options <- MCOptions
  SignalMax = 1
SPECIFICATION Spec
INVARIANT LockOrder
