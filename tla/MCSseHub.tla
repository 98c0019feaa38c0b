------------------------------ MODULE MCSseHub ------------------------------
(* Small instances of SseHub for TLC. *)
EXTENDS SseHub, TLC

CONSTANTS u1, u2, s1, s2, p1, p2

\* Two triggers of u1 publish to u1's streams; u2 has a stream of its own.
Owners == [x \in Stream \cup Publisher |-> IF x = s2 THEN u2 ELSE u1]
=============================================================================
