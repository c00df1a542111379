SPECIFICATION Spec
CONSTANTS
  r1 = r1
  r2 = r2
  r3 = r3
  f1 = f1
  f2 = f2
  f3 = f3
  Files = {f1, f2, f3}
  UnsafeFiles = {f3}
  MaxSession = 2
  Requests = {r1, r2, r3}
INVARIANT AckedFileIsKept
CHECK_DEADLOCK FALSE
