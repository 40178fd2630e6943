SPECIFICATION Spec
CONSTANTS
  Names <- PlainNames
  Counts = {3, 7}
  BuffSize = 72
  MaxBlocks = 3
INVARIANT ReadsBack
PROPERTY CorrectedWithinBuffer
CHECK_DEADLOCK FALSE
