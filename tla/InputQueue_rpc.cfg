CONSTANTS
  Keys = {k1, k2}
  ReleaseOnly = {k2}
  Buttons = {b1}
  Positions = {}
  Wheels = {}
  LIMIT = 3
  BATCH = 2
  CAPACITY = 2
  Target = "Rpc"
  Nowhere = Nowhere
SPECIFICATION Spec
INVARIANT NothingStuck
