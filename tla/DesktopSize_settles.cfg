CONSTANTS
  Normal <- MCNormal
  Maximized <- MCMaximized
  FullScreen <- MCFullScreen
  Initial <- MCInitial
  Targets = {"Direct", "Rpc"}
  Keeps = {FALSE, TRUE}
  CAPACITY = 1
  MaxChanges = 2
SPECIFICATION SizeFairSpec
INVARIANT ScalingAgrees
PROPERTY SettlesOnLast
CHECK_DEADLOCK FALSE
