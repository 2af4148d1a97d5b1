CONSTANTS
  Guest = {g1, g2}
  Caller = {c1, c2}
  None = None
SPECIFICATION FairSpec
INVARIANTS TypeOK RightsExact RepliedOnce ReadyIsTrue
PROPERTIES TaskOnce ImplementsTaskExchange HandoffEnds SleepersWoken
