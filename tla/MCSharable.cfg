CONSTANTS
  t1 = t1
  t2 = t2
  t3 = t3
  Thread <- MCThread
SPECIFICATION Spec
INVARIANTS
  TypeOK
  NoResidue
PROPERTIES
  ImplementsLock
  SharersGetIn
  WritersGetIn
