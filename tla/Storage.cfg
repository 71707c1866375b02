SPECIFICATION Spec
CONSTANTS
  none = none
  LateFailure = FALSE
  g = g
  a1 = a1
  a2 = a2
  a3 = a3
  b2 = b2
  b3 = b3
  b4 = b4
  c3 = c3
  acct = acct
  zero = zero
  slot = slot
  t1 = t1
  t2 = t2
  t3 = t3
  t4 = t4
INVARIANTS
  CrashSafe TablesTrue BlamesTheBad
PROPERTIES
  FilesMatchDatabase ImplementsLedger
CHECK_DEADLOCK FALSE
