---------------------------------- MODULE Feed ----------------------------------
(***************************************************************************)
(* The cards of the Discover section (readDiscoverMerged and readCards in  *)
(* http/handlers/feed.go): one query for each source, each cut to Limit by *)
(* itself, merged by subject, sorted by score and cut again.               *)
(*                                                                         *)
(* The queries are separate statements: the discovery services go on       *)
(* writing candidates, and candidates go on expiring, between them.  What  *)
(* else a feed holds, and how the page uses it, is in FeedClient.          *)
(***************************************************************************)
EXTENDS Integers, Sequences, FiniteSets, Functions

CONSTANTS
    Order,        \* the sources, in the order of discoverSources
    Subject, Score,
    Limit,        \* 50
    TTL,          \* how long a candidate lives
    MaxTime, MaxRows,    \* bounds of a model: the clock and the table's size
    None

Turn == 1..Len(Order)
Source == {Order[i] : i \in Turn}

ASSUME FeedConstants ==
    /\ Order \in Seq(Source) /\ \A i, j \in Turn : Order[i] = Order[j] => i = j
    /\ IsFiniteSet(Subject) /\ Score \subseteq Nat
    /\ Limit \in Nat \ {0} /\ TTL \in Nat
    /\ MaxTime \in Nat /\ MaxRows \in Nat

VARIABLES
    now,
    candidates,   \* discover_candidates: a row per source and subject
    turn,         \* the source to be read next; 0 when no request is being served
    found,        \* the subjects found so far, each with its card
    feed,         \* the cards answered
    read          \* history: the rows that were live when their source was read

feedVars == <<now, candidates, turn, found, feed, read>>

Row == [source : Source, subject : Subject, score : Score, expires : Nat]

\* place: the order in which the subjects were found.
Card == [score : Score, source : Source, sources : SUBSET Source, place : Nat]
NoCards == [s \in {} |-> 0]

FeedInit ==
    /\ now = 0 /\ candidates = {}
    /\ turn = 0 /\ found = NoCards /\ feed = None /\ read = {}

-----------------------------------------------------------------------------
(* The services, and time. *)

UpsertCandidate(source, subject, score) ==
    LET others == {r \in candidates : r.source # source \/ r.subject # subject} IN
    /\ Cardinality(others) < MaxRows
    /\ candidates' = others \cup {[source |-> source, subject |-> subject,
                                   score |-> score, expires |-> now + TTL]}
    /\ UNCHANGED <<now, turn, found, feed, read>>

Tick ==
    /\ now < MaxTime
    /\ now' = now + 1
    /\ UNCHANGED <<candidates, turn, found, feed, read>>

-----------------------------------------------------------------------------
(* readCards. *)

Live(source) == {r \in candidates : r.source = source /\ r.expires > now}

\* Mutant: rows are listed from the worst.
ListingsAscending(rows) ==
    LET size == IF Cardinality(rows) < Limit THEN Cardinality(rows) ELSE Limit IN
    {l \in [1..size -> rows] :
        /\ IsInjective(l)
        /\ \A i, j \in 1..size : i < j => l[i].score <= l[j].score
        /\ \A r \in rows \ Range(l), i \in 1..size : l[i].score <= r.score}

\* What "ORDER BY raw_score DESC LIMIT" may return: rows of one score come in any order.
Listings(rows) ==
    LET size == IF Cardinality(rows) < Limit THEN Cardinality(rows) ELSE Limit IN
    {l \in [1..size -> rows] :
        /\ IsInjective(l)
        /\ \A i, j \in 1..size : i < j => l[i].score >= l[j].score
        /\ \A r \in rows \ Range(l), i \in 1..size : l[i].score >= r.score}

-----------------------------------------------------------------------------
(* readDiscoverMerged. *)

Begin ==
    /\ turn = 0
    /\ turn' = 1
    /\ found' = NoCards /\ feed' = None /\ read' = {}
    /\ UNCHANGED <<now, candidates>>

\* Mutants: the first card stays; scores are added up.
BetterKeepsFirst(card, row) == [card EXCEPT !.sources = @ \cup {row.source}]

BetterAddsUp(card, row) ==
    [card EXCEPT !.sources = @ \cup {row.source}, !.score = @ + row.score]

\* A subject found again keeps the better card; of two with one score, the first.
Better(card, row) ==
    [card EXCEPT !.sources = @ \cup {row.source},
                 !.score = IF row.score > @ THEN row.score ELSE @,
                 !.source = IF row.score > card.score THEN row.source ELSE @]

FirstCard(row, place) ==
    [score |-> row.score, source |-> row.source, sources |-> {row.source}, place |-> place]

Merge(listing) ==
    LET at(s) == CHOOSE i \in DOMAIN listing : listing[i].subject = s
        subjects == {listing[i].subject : i \in DOMAIN listing}
    IN  [s \in DOMAIN found \cup subjects |->
            IF s \notin subjects THEN found[s]
            ELSE IF s \in DOMAIN found THEN Better(found[s], listing[at(s)])
            ELSE FirstCard(listing[at(s)], turn * Limit + at(s))]

ReadSource ==
    /\ turn \in Turn
    /\ \E listing \in Listings(Live(Order[turn])) : found' = Merge(listing)
    /\ read' = read \cup Live(Order[turn])
    /\ turn' = turn + 1
    /\ UNCHANGED <<now, candidates, feed>>

\* The answer is a 500 without cards.
ReadFails ==
    /\ turn \in Turn
    /\ turn' = 0 /\ found' = NoCards
    /\ UNCHANGED <<now, candidates, feed, read>>

\* The stable sort.
Before(s, t) == \/ found[s].score > found[t].score
                \/ found[s].score = found[t].score /\ found[s].place < found[t].place

Shown == {s \in DOMAIN found : Cardinality({t \in DOMAIN found : Before(t, s)}) < Limit}

Answer ==
    /\ turn = Len(Order) + 1
    /\ feed' = [s \in Shown |-> found[s]]
    /\ turn' = 0 /\ found' = NoCards
    /\ UNCHANGED <<now, candidates, read>>

-----------------------------------------------------------------------------
FeedNext ==
    \/ \E source \in Source, subject \in Subject, score \in Score :
          UpsertCandidate(source, subject, score)
    \/ Tick \/ Begin \/ ReadSource \/ ReadFails \/ Answer

FeedSpec == FeedInit /\ [][FeedNext]_feedVars

-----------------------------------------------------------------------------
(* Properties. *)

FeedTypeOK ==
    /\ now \in Nat
    /\ candidates \subseteq Row /\ read \subseteq Row
    /\ turn \in 0..(Len(Order) + 1)
    /\ DOMAIN found \subseteq Subject /\ \A s \in DOMAIN found : found[s] \in Card
    /\ feed # None => /\ DOMAIN feed \subseteq Subject
                      /\ \A s \in DOMAIN feed : feed[s] \in Card

(***************************************************************************)
(* "The winner is the row with the highest raw_score": the card of a       *)
(* subject has the best score that any source held for it, also one that   *)
(* was cut off the list of its own source, and the source that gave it.    *)
(***************************************************************************)
BestCardWins ==
    feed # None => \A s \in DOMAIN feed :
        /\ \E r \in read : /\ r.subject = s /\ r.source = feed[s].source
                          /\ r.score = feed[s].score
        /\ \A r \in read : r.subject = s => r.score <= feed[s].score

(***************************************************************************)
(* Cutting each source before the merge loses nothing that the cut after   *)
(* it would have kept: a subject that is not shown had no source with a    *)
(* score better than any card's, and is only left out of a full list.      *)
(***************************************************************************)
NothingBetterLeftOut ==
    feed # None => \A r \in read : r.subject \notin DOMAIN feed =>
        /\ Cardinality(DOMAIN feed) = Limit
        /\ \A s \in DOMAIN feed : feed[s].score >= r.score
=============================================================================
