SPECIFICATION ReportFairSpec
CONSTANTS
  MaxSigints = 1
  NBufs = 1
  MaxBlocks = 2
INVARIANTS HealthProvided HealthStopsPromptly ShutdownIsFinal BacklogFitsRing
PROPERTIES QuitNeverLost QuitEnds
\* a SIGINT inside set_quit or get_quit stops that thread for good
CHECK_DEADLOCK FALSE
