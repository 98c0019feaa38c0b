---------------------------- MODULE MCSignalStore ----------------------------
(* Small instances of SignalStore for TLC. *)
EXTENDS SignalStore, TLC

CONSTANTS w1, w2, ar1, al1, al2, tr1

\* A weight of the caller's, two ratings of one album, and a hidden track.
SomeCalls ==
    {<<"top_rank", ar1, 40>>, <<"heard_good", al1, 0>>, <<"heard_bad", al1, 0>>,
     <<"dismiss", tr1, 0>>}

\* The first album gets its artist late.  The track is listed under it first,
\* without an artist of its own, then under the other, with one.
AlbumGetsArtist == {<<al1, ar1>>}
TrackMoves      == {<<tr1, al1, Null>>, <<tr1, al2, ar1>>}

Symm == Permutations(Writer)
=============================================================================
