SPECIFICATION FairSpec
CONSTANTS
  MaxMem = 2
  Picture = {1}
  SaveAfter = 2
  SaveAtLeast = 3
  MaxFail = 1
  MaxLives = 2
INVARIANTS
  TypeOK
  NothingSlips
  SavedInTime
  PicturesFirst
  VersionsKeepWord
  StopSavesWhatItFound
PROPERTIES
  DurableSpec
  ChangesGetSaved
CHECK_DEADLOCK FALSE
