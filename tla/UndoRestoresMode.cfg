CONSTANTS
  s1 = s1
  s2 = s2
  b1 = b1
  b2 = b2
  Script <- MCScript
  Body <- MCBody
  Absent = Absent
  Cut = Cut
SPECIFICATION MotdSpec
INVARIANT UndoRestoresMode
