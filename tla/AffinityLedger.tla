--------------------------- MODULE AffinityLedger ---------------------------
(***************************************************************************)
(* What signal.Append promises of the log and the affinity tables          *)
(* (services/signal/signal.go, "All or nothing"): each event is posted to  *)
(* the log and, in the same step, to the rows of its subject and of the    *)
(* subject's parents, its whole weight or its share of it; nothing else    *)
(* changes a row, but a rebuild where there is one.                        *)
(***************************************************************************)
EXTENDS Integers, Sequences

CONSTANTS
    Key,          \* keys of the affinity tables
    Artist, Album, Track,   \* some of them
    Events,       \* the events there may be
    Recomputes,   \* BOOLEAN: may a rebuild replace the rows?
    Null, NoRow

VARIABLES log, affinity

Init ==
    /\ log = <<>>
    /\ affinity = [k \in Key |-> NoRow]

\* The rows an event goes to, when these are its subject's album and artist.
Touched(e, album, artist) == {e.subject} \cup ({album, artist} \ {Null})

\* The part of its weight each of them gets.
Part(e, k) ==
    IF k = e.subject THEN e.weight
    ELSE IF k \in Album \/ e.subject \in Album THEN e.weight \div 2
    ELSE e.weight \div 4

Posted(row, score) ==
    IF row = NoRow THEN [score |-> score, count |-> 1]
    ELSE [score |-> row.score + score, count |-> row.count + 1]

\* Which they are is the catalog's matter, and changes.
MayBeParents(e, album, artist) ==
    /\ album # Null => e.subject \in Track
    /\ artist # Null => e.subject \in Album \cup Track

Post(e, album, artist) ==
    /\ MayBeParents(e, album, artist)
    /\ log' = Append(log, e)
    /\ affinity' = [k \in Key |->
         IF k \in Touched(e, album, artist) THEN Posted(affinity[k], Part(e, k))
         ELSE affinity[k]]

Recompute ==
    /\ Recomputes
    /\ UNCHANGED log

Next == \/ \E e \in Events, album \in Album \cup {Null}, artist \in Artist \cup {Null} :
             Post(e, album, artist)
        \/ Recompute

Spec == Init /\ [][Next]_<<log, affinity>>
=============================================================================
