-------------------------- MODULE MCListeningSync --------------------------
(* Small instances of ListeningSync for TLC. *)
EXTENDS ListeningSync, TLC

CONSTANTS w1, w2, t1, t2, a1, al1

\* The middle play is cut short by the third; a track comes back.
Plays == <<t1, t2, t1>>
Times == <<0, 200, 300>>
Lengths == [t \in Track |-> 180]
OneArtist == [t \in Track |-> a1]
OneAlbum == [t \in Track |-> al1]
Symm == Permutations(Syncer)
=============================================================================
