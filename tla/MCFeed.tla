-------------------------------- MODULE MCFeed --------------------------------
EXTENDS Feed, TLC

MCOrder == <<"listenbrainz", "mb_artist_rels">>

Symmetry == Permutations(Subject)
=============================================================================
