SPECIFICATION Spec
CONSTANTS
  ObsIds = {10, 20}
  Exposures = {2, 4, 6}
  SecsPerSubobs = 2
  MaxBeams = 2
  Faults <- Uncut
INVARIANTS SealedComplete Demultiplexed WholeSubobservations
           QuitLeavesOnlyShort MarkerCountsSeconds
PROPERTIES ImplementsArchive EndOfObservationIsReal
