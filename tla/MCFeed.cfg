CONSTANTS
  Order <- MCOrder
  Subject = {a, b, c}
  Score = {1, 2}
  Limit = 2
  TTL = 1
  MaxTime = 1
  MaxRows = 4
  None = None
SPECIFICATION FeedSpec
INVARIANTS FeedTypeOK BestCardWins NothingBetterLeftOut
SYMMETRY Symmetry
