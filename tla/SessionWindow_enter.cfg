CONSTANTS
  Keys = {"Enter", "Mods"}
  Buttons = {"Left"}
  Zones = {"Desktop"}
  Compositor = FALSE
  MaxResizes = 0
  Nothing = Nothing
SPECIFICATION Spec
INVARIANT NothingStuck
