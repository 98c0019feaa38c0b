CONSTANTS
  u1 = u1
  u2 = u2
  s1 = s1
  s2 = s2
  p1 = p1
  p2 = p2
  User = {u1, u2}
  Stream = {s1, s2}
  Publisher = {p1, p2}
  Owner <- Owners
  Requested = 2
  Published = 3
SPECIFICATION LiveSpec
INVARIANTS TypeOK DeliveredInOrder DropLeavesOnePending
PROPERTY ImplementsWakeup
CHECK_DEADLOCK FALSE
