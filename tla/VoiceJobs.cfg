SPECIFICATION FairSpec
CONSTANTS
  j1 = j1
  j2 = j2
  u = u
  Nobody = Nobody
  Job <- MC_Job
  Upload <- MC_Upload
  Main <- MC_Main
  Workers = 1
  Permits = 2
  MaxFault = 1
  MaxStart = 2
INVARIANTS
  TypeOK
  PermitsAccounted
  InputsKept
  CancelInTimeCounts
  FilesMatch
PROPERTIES
  EndedStaysEnded
  EveryJobEnds
CHECK_DEADLOCK FALSE
