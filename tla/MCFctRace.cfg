SPECIFICATION Spec
CONSTANTS
  Thread = {t1, t2}
  NoThread = NoThread
  File = {f1}
  Page = {fct, p1}
  Fct = fct
  Data = {a, b}
  Data0 = a
  MaxTime = 2
  MaxLog = 2
SYMMETRY Symmetry
CONSTRAINT OnlyFctRace
CHECK_DEADLOCK FALSE
INVARIANT LoggingIsPrivate
