SPECIFICATION FairSpec
CONSTANTS
  ObsIds = {10, 20}
  Exposures = {2, 4, 6}
  SecsPerSubobs = 2
  MaxBeams = 2
  Faults <- Regular
INVARIANTS NeverDies HeadersUpdated
PROPERTY EventuallySealed
