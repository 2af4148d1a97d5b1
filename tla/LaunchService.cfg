\* one property list, the old and the new service object, an old and a new
\* process; a service that fails within a second stays down (Limit = 0)
CONSTANTS
  Svc = {s1, s2}
  Inst = {i1, i2}
  Plist = {bootstrapd}
  None = None
  Limit = 0
SPECIFICATION FairSpec
INVARIANTS TypeOK Supervised OneSuccessor OneServicePerPlist EntriesDie NoStrays
PROPERTY OrphansDie
