\* the unlock after a refused retain in kvobject_snapshot_into_mem
CONSTANTS
  Thread = {t1, t2, t3}
  Ref = {r1, r2, r3}
  Table = Table
  Nobody = Nobody
  NoRef = NoRef
  SnapOptions = {"referenced", "consume"}
SPECIFICATION Spec
INVARIANT RwExclusion
