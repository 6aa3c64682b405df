CONSTANTS
  p1 = p1
  p2 = p2
  here = here
  there = there
  blank = blank
  Profiles = {p1, p2}
  Places = {here, there, blank}
  Accounts = {here, there}
  None = None
  Done = Done
  Failed = Failed
  Secrets <- MCSecrets
  Intended <- MCIntended
  MaxDialogs = 2
  MaxSessions = 1
  MaxTurns = 2
  MaxTrouble = 1
SPECIFICATION Spec
INVARIANTS NoOrphan RefusedGone RightPlace QuitLeavesNothing
PROPERTY TypedStays
SYMMETRY MCSymmetry
CHECK_DEADLOCK FALSE
