CONSTANTS
  Login = {b1, b2}
  Caller = {c1, c2}
  Account = {a}
  UserId = {u1, u2}
  MaxTokens = 3
  None = None
SPECIFICATION LiveSpec
INVARIANTS TypeOK UsersHaveAccounts LockedIsDead
PROPERTY DeadIsLocked
CHECK_DEADLOCK FALSE
