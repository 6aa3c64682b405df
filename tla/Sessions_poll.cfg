CONSTANTS
  Ids = {"s1", "s2"}
  Labels = {"TCP"}
  Refusals = {"credentials"}
SPECIFICATION FairSpec
INVARIANTS ToldWhy StampedAnswered ClosedQuietly
PROPERTY EndNoticed
CHECK_DEADLOCK FALSE
