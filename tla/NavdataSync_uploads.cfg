CONSTANTS
  NULL = NULL
  Rows = {r1}
  Uploads = {u1, u2}
  MaxRev = 3
  MaxEpoch = 2
  MaxKill = 1
SPECIFICATION LiveSpec
INVARIANTS
  ReplicaHasNoHoles
  ImportIsHeld
PROPERTIES
  HoldIsReleased
