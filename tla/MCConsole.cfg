SPECIFICATION FairSpec
CONSTANTS
  Reader = {"a"}
  MAXQ = 3
  ConSizes = {1}
  MaxTyped = 2
  MaxDown = 2
  Keys = {"kp8", "up", "num", "f1"}
  PAGES = 2
  scr_x = 2
  scr_y = 3
  Glyph = {"SP", "a"}
  MaxLeft = 1
INVARIANTS
  KeysInOrder InterruptsRestored
PROPERTIES
  ConReaderWakes ShowsTerminal
CHECK_DEADLOCK FALSE
