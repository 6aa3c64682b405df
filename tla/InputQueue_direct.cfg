CONSTANTS
  Keys = {k2}
  ReleaseOnly = {k2}
  Buttons = {b1}
  Positions = {p1, p2}
  Wheels = {w1}
  LIMIT = 3
  BATCH = 2
  CAPACITY = 1
  Target = "Direct"
  Nowhere = Nowhere
SPECIFICATION FairSpec
INVARIANTS Bounded NoLostRelease NeverStalled ClicksLand
PROPERTIES NoOvertaking Implements EventuallyUp
