SPECIFICATION Spec
CONSTANTS
  Dur = 3
  MaxMsg = 2
  MaxSpurious = 0
PROPERTIES ShownLongEnough
