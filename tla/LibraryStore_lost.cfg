SPECIFICATION Spec
CONSTANTS
    Launchers = {l1, l2}
    Computers = {c1}
    Forms = {f1}
    Fields = {"form", "opened", "remove", "colours", "layout"}
    MAX_COMPUTERS = 1
INVARIANT NothingLost
