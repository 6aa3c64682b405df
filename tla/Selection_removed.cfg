CONSTANTS
  Profiles = {p1}
  Places = {here}
  Secrets = {s1}
  Tickets = {t1, t2, t3}
  MAX_PENDING_REQUESTS = 2
  None = None
  Done = Done
  Failed = Failed
  Sizes <- MCSizes
  Titles = {0, 2000}
  Labels = {0, 96}
  Points <- MCPoints
  Nothing = Nothing
  MaxOutside = 1
  Ids = {1, 2}
  Names <- MCNames
  Addresses <- MCAddresses
  Typed = {"la"}
  Includes <- MCIncludes
  Options = {"microphone"}
  Computers <- MCComputers
  Passwords = {"secret", ""}
  Inherited <- MCInherited
  Lines <- MCLines
  Tokens <- MCTokens
  MaxTyped = 4
  Starts <- MCStarts
  Times = {45296789, 86399999}
  MaxDays = 1500
  Codes <- MapStandardKeyCode
  Platforms = {"windows", "windows-korean", "other"}
  MaxDown = 2
SPECIFICATION MCSpec
INVARIANT DraftBack
CHECK_DEADLOCK FALSE
