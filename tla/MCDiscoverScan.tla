---------------------------- MODULE MCDiscoverScan ----------------------------
(* A small catalog for DiscoverScan: two seeds, two leads, two releases. *)
EXTENDS DiscoverScan

CONSTANTS a1, a2, b1, b2, l1, l2, x, y

FourArtists == {a1, a2, b1, b2}
AtPlace(t, p) == [target |-> t, place |-> p, weak |-> FALSE]

\* a1 has two leads and, for mbrels, one of them twice; a2 shares one with it.
TwoLeads == [p \in Source \X Seeds |->
    CASE p[1] = "samelabel" -> IF p[2] = a1 THEN {AtPlace(l1, 1), AtPlace(l2, 1)}
                               ELSE {AtPlace(l1, 1)}
      [] p[1] = "mbrels"    -> IF p[2] = a1 THEN {AtPlace(b1, 1), AtPlace(b1, 2), AtPlace(b2, 2)}
                               ELSE {AtPlace(b2, 1)}
      [] OTHER              -> IF p[2] = a1 THEN {[AtPlace(b1, 1) EXCEPT !.weak = TRUE],
                                                  AtPlace(b2, 2)}
                               ELSE {AtPlace(b2, 1)}]

TwoReleases == [t \in Artist \cup Label |->
    CASE t \in {a1, b1} -> {[album |-> x, artist |-> t, date |-> 1],
                            [album |-> y, artist |-> t, date |-> 2]}
      [] t = l1          -> {[album |-> x, artist |-> a1, date |-> 1],
                             [album |-> y, artist |-> b1, date |-> 2]}
      [] t = l2          -> {[album |-> x, artist |-> None, date |-> 1]}
      [] OTHER           -> {[album |-> x, artist |-> b2, date |-> 0]}]

Interval == [s \in Source |-> 1]
=============================================================================
