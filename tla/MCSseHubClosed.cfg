CONSTANTS
  u1 = u1
  u2 = u2
  s1 = s1
  s2 = s2
  p1 = p1
  p2 = p2
  User = {u1, u2}
  Stream = {s1}
  Publisher = {p1}
  Owner <- Owners
  Requested = 1
  Published = 1
SPECIFICATION Spec
INVARIANT NeverSendsOnClosed
CHECK_DEADLOCK FALSE
