CONSTANTS
  NULL = NULL
  Rows = {r1, r2}
  Uploads = {u1, u2}
  MaxRev = 3
  MaxEpoch = 1
  MaxKill = 0
SPECIFICATION Spec
INVARIANTS
  AcknowledgedIsKept
