SPECIFICATION PoolSpec
CONSTANTS
  Workers = 2
  MaxJobs = 3
  MaxPops = 5
INVARIANTS
  PoolInv
  OneWorkerPerJob
  RepeatsOnlyIfMisled
  NoJobIsDropped
PROPERTIES
  EveryJobRuns
