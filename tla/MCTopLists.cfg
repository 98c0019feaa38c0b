CONSTANTS
  w1 = w1
  short = short
  long = long
  Syncer = {w1}
  Ranges <- ShortAndLong
  ListLimit = 1
  MinInterval = 2
  MaxTime = 3
  MaxRuns = 2
SPECIFICATION Spec
INVARIANTS TypeOK ArtistSignalsApart OkRunSignalledAll FailedRunCanBeRetried
CHECK_DEADLOCK FALSE
