\* two waiting threads, a child, a sender of one call, a walk of the table
CONSTANTS
  Child = {c1}
  Sender = {s1}
  Lister = {l1}
  Waiter = {w1, w2}
  None = None
  Options <- MCOptions
  SignalMax = 1
SPECIFICATION FairSpec
INVARIANTS TypeOK EventsAreSleepers FirstReportTrue ReapedIsReported OnlyCyclesBlock
PROPERTIES CyclesLast ImplementsExitReport DeathIsReported
