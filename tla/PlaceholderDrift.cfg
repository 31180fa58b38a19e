CONSTANTS
  Procs = {p1}
  Names = {"thumbnail"}
  Literals <- MCLiterals
  Images <- MCImages
  Literal = "literal"
  Directories <- OneDirectory
  Values <- MCValues
  Explored <- OneDirectory
  Numerals <- MCNumerals
  MaxUint = 15
  MaxPort = 9
SPECIFICATION MCSpec
INVARIANTS PlaceholdersArePredefined
CHECK_DEADLOCK FALSE
