SPECIFICATION StatsSpec
CONSTANTS
  Lines <- AllLines
  NotNumbers = {"none"}
  NULL = NULL
  nbeams_total = 3
  ntimesteps = 2
  nchan = 3
  npol = 2
  Buffers <- Blocks
  MaxSeconds = 2
INVARIANT UsageTextHolds
\* command lines may be refused, and observations end
CHECK_DEADLOCK FALSE
