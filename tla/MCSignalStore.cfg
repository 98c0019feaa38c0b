CONSTANTS
  w1 = w1
  w2 = w2
  ar1 = ar1
  al1 = al1
  al2 = al2
  tr1 = tr1
  Null = Null
  NoRow = NoRow
  Writer = {w1, w2}
  Artist = {ar1}
  Album = {al1, al2}
  Track = {tr1}
  Label = {}
  Calls <- SomeCalls
  AlbumUpserts <- AlbumGetsArtist
  TrackUpserts <- TrackMoves
  Rebuilds = TRUE
SPECIFICATION Spec
SYMMETRY Symm
INVARIANTS TypeOK NoAffinityDrift NoSignalLost SideTablesMatchLog AppendsNeverDeadlock
PROPERTIES ImplementsLedger
CHECK_DEADLOCK FALSE
