CONSTANTS
  Stream = {s1, s2}
  Sync = {p1}
  MaxFetch = 2
  MaxChanges = 2
  None = None
SPECIFICATION LiveSpec
PROPERTY PageCatchesUp
CHECK_DEADLOCK FALSE
