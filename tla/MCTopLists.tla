----------------------------- MODULE MCTopLists -----------------------------
(* Small instances of TopLists for TLC. *)
EXTENDS TopLists

CONSTANTS w1, short, long

ShortAndLong == <<short, long>>
=============================================================================
