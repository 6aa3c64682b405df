CONSTANTS
  Windows <- MCWindows
  Desktops <- MCDesktops
  Colours = {"red", "green"}
  Keeps = {FALSE, TRUE}
  Targets = {"Direct", "Rpc"}
  TitleWidth = 1
  BarWidths = {1, 2}
  DialogSize <- MCDialogSize
  MaxAge = 2
  MaxChanges = 3
CHECK_DEADLOCK FALSE
SPECIFICATION FairSpec
INVARIANT ScreenTrue
PROPERTY EventuallyShown
