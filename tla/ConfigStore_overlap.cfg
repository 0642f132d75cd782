SPECIFICATION ConfigSpec
CONSTANTS
  Saver = {s1, s2}
  Value = {0, 1, 2}
  Bad = 2
  MaxCrashes = 0
INVARIANT ConfigStaysWhole
CHECK_DEADLOCK FALSE
