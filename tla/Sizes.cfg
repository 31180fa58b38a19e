CONSTANTS
  Procs = {p1, p2}
  Names = {"thumbnail", "7"}
  Literals <- MCLiterals
  Images <- MCImages
  Literal = "literal"
  Directories <- MCDirectories
  Values <- MCValues
  Explored <- MCExplored
  Numerals <- MCNumerals
  MaxUint = 15
  MaxPort = 9
SPECIFICATION MCSpec
SYMMETRY Symmetry
INVARIANTS MainTypeOK NeverHalfConfigured OnlyUnsizedPanic HeightFromConfiguration AspectRatioKept
CHECK_DEADLOCK FALSE
