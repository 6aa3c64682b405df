SPECIFICATION Spec
CONSTANTS
    Launchers = {l1}
    Computers = {c1, c2, c3}
    Forms = {f1, f2}
    Fields = {"form", "opened", "remove", "colours", "layout"}
    MAX_COMPUTERS = 2
INVARIANTS NothingLost ShowsSaved Whole
PROPERTY BrokenKept
CHECK_DEADLOCK FALSE
