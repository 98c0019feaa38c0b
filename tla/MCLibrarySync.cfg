CONSTANTS
  w1 = w1
  w2 = w2
  s1 = s1
  s2 = s2
  a1 = a1
  a2 = a2
  m1 = m1
  m2 = m2
  r1 = r1
  r2 = r2
  Null = Null
  NoRow = NoRow
  Worker = {w1, w2}
  SpArtist = {s1}
  SpAlbum = {a1}
  Mbid = {m1}
  RgMbid = {r1}
  ArtistOf <- AlbumsBy
SPECIFICATION Spec
SYMMETRY Symm
INVARIANTS TypeOK SignalOncePerSave OkRunKeptEverything
PROPERTY ImplementsSignalOnce
CHECK_DEADLOCK TRUE
