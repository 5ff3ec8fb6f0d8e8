CONSTANTS
  k1 = k1
  k2 = k2
  k3 = k3
  k4 = k4
  Key = {k1, k2, k3, k4}
  None = None
  Protocol = {"v3", "v4"}
  Settings <- Alike
  Env = {}
  MaxPid = 1
  MaxFrames = 3
SYMMETRY Materials
SPECIFICATION Spec
CHECK_DEADLOCK FALSE
INVARIANTS
  Confirmable
