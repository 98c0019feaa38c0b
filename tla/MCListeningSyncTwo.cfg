CONSTANTS
  w1 = w1
  w2 = w2
  t1 = t1
  t2 = t2
  a1 = a1
  al1 = al1
  Null = Null
  Syncer = {w1, w2}
  Track = {t1, t2}
  Artist = {a1}
  Album = {al1}
  TrackOf <- Plays
  PlayedAt <- Times
  Duration <- Lengths
  ArtistOf <- OneArtist
  AlbumOf <- OneAlbum
  Window = 3
  SkipTolerance = 30
  Fallible = FALSE
  Catalogs = {{}}
SPECIFICATION Spec
SYMMETRY Symm
INVARIANT OneSignalPerPlay
CHECK_DEADLOCK TRUE
