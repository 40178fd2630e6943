SPECIFICATION Spec
CONSTANTS
  ObsIds = {10, 20}
  Exposures = {1, 2}
  SecsPerSubobs = 1
  MaxBeams = 2
  Faults <- NoRepeat
INVARIANTS TypeOK NoStreamLeaked DealtEvenly MarkerCountsFirst
PROPERTY ClosedDataFrozen
