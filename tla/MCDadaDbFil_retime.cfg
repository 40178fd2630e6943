SPECIFICATION Spec
CONSTANTS
  ObsIds = {10}
  Exposures = {2, 4, 6}
  SecsPerSubobs = 2
  MaxBeams = 2
  Faults = {"retime"}
INVARIANT HeadersUpdated
