SPECIFICATION Spec
CONSTANTS
  Thread = {t1, t2}
  NoThread = NoThread
  Record = {r1, r2}
  Address = {1, 2, 3}
  ENQRETRY = 1
PROPERTY RequestsEnd
