\* three threads, three references; safety, liveness and refinement together
CONSTANTS
  Thread = {t1, t2, t3}
  Ref = {r1, r2, r3}
  Table = Table
  Nobody = Nobody
  NoRef = NoRef
  SnapOptions = {"referenced", "consume"}
SPECIFICATION FairSpec
INVARIANTS TypeOK RefcountExact NoUseAfterFree NoUnderflowPanic
PROPERTIES ImplementsRefObject Reclaimed
