SPECIFICATION Spec
CONSTANTS
  Thread = {t1}
  NoThread = NoThread
  File = {f1, f2}
  Page = {fct, p1}
  Fct = fct
  Data = {a, b}
  Data0 = a
  MaxTime = 2
  MaxLog = 3
  Other = f2
CONSTRAINT OneFileChanges
ACTION_CONSTRAINT TimePasses
CHECK_DEADLOCK FALSE
INVARIANTS RollbackRestores PageBrokenIsTrue
