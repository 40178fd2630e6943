SPECIFICATION Spec
CONSTANTS
  ObsIds = {10, 20}
  Exposures = {2, 4}
  SecsPerSubobs = 2
  MaxBeams = 2
  Faults = {"abort"}
INVARIANTS QuitClosesFiles
