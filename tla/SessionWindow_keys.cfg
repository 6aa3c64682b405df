CONSTANTS
  Keys = {"Enter", "Escape", "Mods"}
  Buttons = {"Left"}
  Zones = {"Close", "Pin", "Cancel", "Desktop"}
  Compositor = TRUE
  MaxResizes = 1
  Nothing = Nothing
SPECIFICATION Spec
INVARIANTS DialogModal BarOwnsPointer OnlyEnterStuck
PROPERTY AskedFirst
