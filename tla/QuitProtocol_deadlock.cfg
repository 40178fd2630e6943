SPECIFICATION FairSpec
CONSTANT MaxSigints = 1
PROPERTY SigintEnds
CHECK_DEADLOCK FALSE
