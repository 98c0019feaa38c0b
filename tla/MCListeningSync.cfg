CONSTANTS
  w1 = w1
  w2 = w2
  t1 = t1
  t2 = t2
  a1 = a1
  al1 = al1
  Null = Null
  Syncer = {w1}
  Track = {t1, t2}
  Artist = {a1}
  Album = {al1}
  TrackOf <- Plays
  PlayedAt <- Times
  Duration <- Lengths
  ArtistOf <- OneArtist
  AlbumOf <- OneAlbum
  Window = 2
  SkipTolerance = 30
  Fallible = TRUE
  Catalogs = {{}, {"mb"}, {"sp"}, {"bare"}, {"bare", "sp"}}
SPECIFICATION Spec
SYMMETRY Symm
INVARIANTS TypeOK OneSignalPerPlay EmittedUpToLast OkPollKeptEverything
CHECK_DEADLOCK TRUE
