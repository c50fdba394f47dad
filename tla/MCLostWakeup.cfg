SPECIFICATION Spec
CONSTANTS
  Thread = {t1, t2}
  NoThread = NoThread
  Record = {r1}
  Address = {1, 2}
  ENQRETRY = 1
INVARIANT AllReleasesNotify
