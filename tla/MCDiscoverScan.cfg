CONSTANTS
  a1 = a1
  a2 = a2
  b1 = b1
  b2 = b2
  l1 = l1
  l2 = l2
  x = x
  y = y
  None = None
  Syncer = {w1}
  Source = {"releases", "lbsimilar", "lfsimilar", "mbrels", "samelabel"}
  Artist <- FourArtists
  Album = {x, y}
  Label = {l1, l2}
  Seeds = {a1, a2}
  LeadsOf <- TwoLeads
  ReleasesOf <- TwoReleases
  MaxLeads = 1
  MaxPicks = 1
  MinInterval <- Interval
  ShortTTL = 1
  LongTTL = 2
  MaxTime = 1
  MaxRuns = 2
  MaxLoads = 2
  Knowable = {b2, y}
SPECIFICATION Spec
INVARIANTS GateKeepsRunsApart TypeOK KnownStaysOut CandidatesRender OkRunCoversLeads
CHECK_DEADLOCK FALSE
