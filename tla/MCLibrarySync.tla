---------------------------- MODULE MCLibrarySync ----------------------------
(* Small instances of LibrarySync for TLC. *)
EXTENDS LibrarySync, TLC

CONSTANTS w1, w2, s1, s2, a1, a2, m1, m2, r1, r2

\* a1 (and a2, where there is one) is by s1
AlbumsBy == [a \in SpAlbum |-> s1]

Symm == Permutations(Worker) \cup Permutations(Mbid)
=============================================================================
