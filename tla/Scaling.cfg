CONSTANTS
  Cpus = 3
  Sources <- MCSources
  Asked <- MCAsked
  Roundings <- MCRoundings
  MaxWidth = 3
  MaxHeight = 3
  MaxAsked = 4
SPECIFICATION Spec
INVARIANTS TypeOK ScalesLikeReference BoxesFit
PROPERTIES PixelsWrittenOnce ResizeReturns
CHECK_DEADLOCK FALSE
