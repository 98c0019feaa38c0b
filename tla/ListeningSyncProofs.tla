------------------------- MODULE ListeningSyncProofs -------------------------
(***************************************************************************)
(* Proofs about ListeningSync.                                             *)
(*                                                                         *)
(* For any number of overlapping polls: the types, and that a poll that    *)
(* ends "ok" kept everything.  As long as no two polls overlap once they   *)
(* have read the last known play (OnePoll): one signal per play, and the   *)
(* signals the plays imply.  Two polls that do break the last two.         *)
(*                                                                         *)
(* What Min and Max choose exists because the subset order of a finite set *)
(* is well founded: the library proves that for every finite set, and a    *)
(* smallest set of the plays below one of them belongs to the least play.  *)
(***************************************************************************)
EXTENDS ListeningSync, FiniteSetTheorems, SequenceTheorems, TLAPS

-----------------------------------------------------------------------------
(* The least and the greatest of a set of plays: Min and Max choose, and    *)
(* what they choose exists.                                                 *)

LEMMA LeastExists ==
    ASSUME NEW n \in Nat, NEW S \in SUBSET (0..n), S # {}
    PROVE  \E x \in S : \A y \in S : x <= y
<1> DEFINE D == 0..n
           Below(x) == {y \in S : y <= x}
           T == {Below(x) : x \in S}
<1>1. IsFiniteSet(D)
  BY FS_Interval
<1>2. IsWellFoundedOn(StrictSubsetOrdering(D), SUBSET D)
  BY <1>1, FS_StrictSubsetOrderingWellFounded, FS_FiniteSubsetsOfFinite
<1>3. T \subseteq SUBSET D /\ T # {}
  OBVIOUS
<1>4. PICK t \in T : \A u \in T : ~(<<u, t>> \in StrictSubsetOrdering(D))
  BY <1>2, <1>3, WFMin
<1>5. PICK x \in S : t = Below(x)
  BY <1>4
<1>6. ASSUME NEW y \in S, y < x PROVE FALSE
  <2>1. x \in Nat /\ y \in Nat /\ \A z \in S : z \in Nat
    OBVIOUS
  <2>2. \A z \in S : z <= y => z <= x
    BY <1>6, <2>1
  <2>20. Below(y) \subseteq Below(x)
    BY <2>2
  <2>3. x \in Below(x) /\ x \notin Below(y)
    BY <1>6, <2>1
  <2>4. Below(y) \in SUBSET D /\ Below(x) \in SUBSET D /\ Below(y) \in T
    OBVIOUS
  <2>5. <<Below(y), Below(x)>> \in StrictSubsetOrdering(D)
    BY <2>20, <2>3, <2>4 DEF StrictSubsetOrdering
  <2> QED  BY <1>4, <1>5, <2>4, <2>5
<1> QED  BY <1>6

LEMMA GreatestExists ==
    ASSUME NEW n \in Nat, NEW S \in SUBSET (0..n), S # {}
    PROVE  \E x \in S : \A y \in S : x >= y
<1> DEFINE R == {n - x : x \in S}
<1>1. R \in SUBSET (0..n) /\ R # {}
  <2>1. \A x \in 0..n : n - x \in 0..n
    OBVIOUS
  <2>2. \A x \in S : n - x \in 0..n
    BY <2>1
  <2> QED  BY <2>2
<1>2. PICK r \in R : \A y \in R : r <= y
  BY <1>1, LeastExists
<1>3. PICK x \in S : r = n - x
  BY <1>2
<1>4. \A y \in S : n - x <= n - y
  BY <1>2, <1>3
<1> QED  BY <1>4

LEMMA MinIsLeast ==
    ASSUME NEW n \in Nat, NEW S \in SUBSET (0..n), S # {}
    PROVE  F!Min(S) \in S /\ \A y \in S : F!Min(S) <= y
BY LeastExists DEF F!Min

LEMMA MaxIsGreatest ==
    ASSUME NEW n \in Nat, NEW S \in SUBSET (0..n), S # {}
    PROVE  F!Max(S) \in S /\ \A y \in S : F!Max(S) >= y
BY GreatestExists DEF F!Max

LEMMA Plays ==
    /\ Len(TrackOf) \in Nat /\ Play = 1..Len(TrackOf)
    /\ \A S \in SUBSET Play : S \in SUBSET (0..Len(TrackOf))
    /\ \A p \in Play : p \in Nat /\ p >= 1 /\ TrackOf[p] \in Track
<1>1. Len(TrackOf) \in Nat /\ Play = 1..Len(TrackOf)
  BY ListeningConstants, LenProperties DEF Play
<1>2. \A p \in 1..Len(TrackOf) : p \in Nat /\ p >= 1 /\ p \in 0..Len(TrackOf)
  BY <1>1
<1>3. \A p \in Play : TrackOf[p] \in Track
  BY <1>1, ListeningConstants, ElementOfSeq
<1> QED  BY <1>1, <1>2, <1>3

LEMMA FirstPlay ==
    ASSUME NEW S \in SUBSET Play, S # {}
    PROVE  F!Min(S) \in S /\ \A y \in S : F!Min(S) <= y
BY Plays, MinIsLeast

LEMMA LastPlay ==
    ASSUME NEW S \in SUBSET Play, S # {}
    PROVE  F!Max(S) \in S /\ \A y \in S : F!Max(S) >= y
BY Plays, MaxIsGreatest

-----------------------------------------------------------------------------
(* What a step does to the syncer that takes it. *)

Ingesting == {"ingest", "artist", "album", "track", "row"}

\* A play is there to ingest as long as one is being ingested, and the chain's pairs
\* are counted from its first.
Places == \A w \in Syncer : job[w].at >= 1 /\ (pc[w] \in Ingesting => job[w].todo # {})

Typing == TypeOK /\ Places

LEMMA JobFacts ==
    ASSUME TypeOK, NEW w \in Syncer
    PROVE  /\ job[w] \in Job
           /\ job[w].chain \in Seq(Link) /\ Len(job[w].chain) \in Nat
           /\ DOMAIN job[w].chain = 1..Len(job[w].chain)
           /\ \A i \in 1..Len(job[w].chain) : job[w].chain[i] \in Link
           /\ job[w].todo \in SUBSET Play /\ job[w].fetched \in SUBSET Play
           /\ job[w].mbid \in BOOLEAN /\ job[w].at \in Nat /\ job[w].errors \in BOOLEAN
<1>1. job[w] \in Job
  BY DEF TypeOK
<1>2. /\ job[w].chain \in Seq(Link)
      /\ job[w].todo \in SUBSET Play /\ job[w].fetched \in SUBSET Play
      /\ job[w].mbid \in BOOLEAN /\ job[w].at \in Nat /\ job[w].errors \in BOOLEAN
  BY <1>1 DEF Job
<1> QED  BY <1>1, <1>2, LenProperties, ElementOfSeq

LEMMA GoesTo ==
    ASSUME TypeOK, NEW w \in Syncer, NEW l \in PC, Goto(w, l)
    PROVE  /\ pc' \in [Syncer -> PC] /\ pc'[w] = l
           /\ \A v \in Syncer \ {w} : pc'[v] = pc[v]
BY DEF TypeOK, Goto

LEMMA JobMoves ==
    ASSUME TypeOK, NEW w \in Syncer, NEW j \in Job, job' = [job EXCEPT ![w] = j]
    PROVE  /\ job' \in [Syncer -> Job] /\ job'[w] = j
           /\ \A v \in Syncer \ {w} : job'[v] = job[v]
BY DEF TypeOK

\* The step is w's: the others keep their places, their locals and their verdicts.
OneMoves(w) ==
    \A v \in Syncer \ {w} : pc'[v] = pc[v] /\ job'[v] = job[v] /\ status'[v] = status[v]

\* The moves, by the locals they change.
KeepsLocals(w) == job'[w] = job[w]

TakesIds(w) ==
    /\ job'[w].chain = job[w].chain /\ job'[w].todo = job[w].todo
    /\ job'[w].fetched = job[w].fetched /\ job'[w].at = job[w].at
    /\ job'[w].errors = job[w].errors

TakesNoId(w) ==
    /\ job'[w].chain = job[w].chain /\ job'[w].todo = job[w].todo
    /\ job'[w].fetched = job[w].fetched /\ job'[w].at = job[w].at
    /\ job'[w].errors

TakesChain(w, chain) ==
    /\ job'[w].chain = chain /\ job'[w].todo = job[w].todo
    /\ job'[w].fetched = job[w].fetched /\ job'[w].at = job[w].at
    /\ job'[w].errors = job[w].errors

TakesPlays(w) ==
    /\ job'[w].chain = job[w].chain /\ job'[w].todo = Reported(w)
    /\ job'[w].fetched = Reported(w) /\ job'[w].at = job[w].at
    /\ job'[w].errors = job[w].errors

LeavesPlay(w, chain) ==
    /\ job'[w].chain = chain /\ job'[w].todo = job[w].todo \ {First(w)}
    /\ job'[w].fetched = job[w].fetched /\ job'[w].at = job[w].at

TakesPair(w) ==
    /\ job'[w].chain = job[w].chain /\ job'[w].todo = job[w].todo
    /\ job'[w].fetched = job[w].fetched /\ job'[w].at = job[w].at + 1

LEMMA StartMoves ==
    ASSUME TypeOK, NEW w \in Syncer, Start(w)
    PROVE  /\ pc' \in [Syncer -> PC] /\ job' \in [Syncer -> Job] /\ OneMoves(w)
           /\ pc'[w] = "token" /\ job'[w] = NoJob
<1>1. NoJob \in Job
  BY EmptySeq DEF NoJob, Job
<1> QED  BY <1>1, GoesTo, JobMoves DEF Start, PC, OneMoves

LEMMA LoadMoves ==
    ASSUME TypeOK, NEW w \in Syncer, LoadLastKnownPlay(w)
    PROVE  /\ pc' \in [Syncer -> PC] /\ job' \in [Syncer -> Job] /\ OneMoves(w)
           /\ pc'[w] = "fetch"
           /\ Recorded = {} => TakesChain(w, <<>>)
           /\ Recorded # {} =>
                /\ TakesChain(w, <<[play |-> F!Max(Recorded), isNew |-> FALSE,
                                    mbid |-> history[F!Max(Recorded)] = "resolved"]>>)
                /\ F!Max(Recorded) \in Recorded
                /\ \A q \in Recorded : F!Max(Recorded) >= q
<1>1. Recorded \in SUBSET Play
  BY DEF Recorded
<1> DEFINE p == F!Max(Recorded)
           link == [play |-> p, mbid |-> history[p] = "resolved", isNew |-> FALSE]
           chain == IF Recorded = {} THEN <<>> ELSE <<link>>
           j == [job[w] EXCEPT !.chain = chain]
<1>2. Recorded # {} => p \in Recorded /\ \A q \in Recorded : p >= q
  BY <1>1, LastPlay
<1>3. Recorded # {} => link \in Link
  BY <1>1, <1>2 DEF Link
<1>4. <<>> \in Seq(Link) /\ (Recorded # {} => <<link>> \in Seq(Link))
  BY <1>3, EmptySeq
<1>5. job' = [job EXCEPT ![w] = j]
  BY DEF LoadLastKnownPlay
<1>6. /\ Recorded = {} => chain = <<>>
      /\ Recorded # {} => chain = <<[play |-> F!Max(Recorded), isNew |-> FALSE,
                                    mbid |-> history[F!Max(Recorded)] = "resolved"]>>
  OBVIOUS
<1>7. chain \in Seq(Link)
  BY <1>4
<1> HIDE DEF p, link, chain
<1>8. /\ j \in Job /\ j.chain = chain /\ j.todo = job[w].todo /\ j.fetched = job[w].fetched
      /\ j.at = job[w].at /\ j.errors = job[w].errors
  BY <1>7, JobFacts DEF Job
<1> HIDE DEF j
<1>9. job' \in [Syncer -> Job] /\ job'[w] = j /\ \A v \in Syncer \ {w} : job'[v] = job[v]
  BY <1>5, <1>8, JobMoves
<1>10. pc' \in [Syncer -> PC] /\ pc'[w] = "fetch" /\ OneMoves(w)
  BY <1>9, GoesTo DEF LoadLastKnownPlay, PC, OneMoves
<1>11. TakesChain(w, chain)
  BY <1>8, <1>9 DEF TakesChain
<1> QED  BY <1>2, <1>6, <1>9, <1>10, <1>11 DEF p

LEMMA NextPlayGoes ==
    ASSUME TypeOK, NEW w \in Syncer, NEW todo, NextPlay(w, todo)
    PROVE  /\ pc' \in [Syncer -> PC]
           /\ pc'[w] = IF todo = {} THEN "emit" ELSE "ingest"
           /\ \A v \in Syncer \ {w} : pc'[v] = pc[v]
BY GoesTo DEF NextPlay, PC

LEMMA FetchMoves ==
    ASSUME TypeOK, NEW w \in Syncer, FetchRecentlyPlayed(w)
    PROVE  /\ pc' \in [Syncer -> PC] /\ job' \in [Syncer -> Job] /\ OneMoves(w)
           /\ pc'[w] = IF Reported(w) = {} THEN "emit" ELSE "ingest"
           /\ TakesPlays(w) /\ Reported(w) \in SUBSET Play
<1> DEFINE r == Reported(w)
           j == [job[w] EXCEPT !.todo = r, !.fetched = r]
<1>1. r \in SUBSET Play
  BY Plays DEF TypeOK, Reported
<1>2. job' = [job EXCEPT ![w] = j]
  BY DEF FetchRecentlyPlayed
<1>3. NextPlay(w, r)
  BY DEF FetchRecentlyPlayed
<1> HIDE DEF r
<1>4. /\ j \in Job /\ j.chain = job[w].chain /\ j.todo = r /\ j.fetched = r
      /\ j.at = job[w].at /\ j.errors = job[w].errors
  BY <1>1, JobFacts DEF Job
<1> HIDE DEF j
<1>5. job' \in [Syncer -> Job] /\ job'[w] = j /\ \A v \in Syncer \ {w} : job'[v] = job[v]
  BY <1>2, <1>4, JobMoves
<1> QED
  BY <1>1, <1>3, <1>4, <1>5, NextPlayGoes DEF r, FetchRecentlyPlayed, OneMoves, TakesPlays


LEMMA IdsMove ==
    ASSUME TypeOK, NEW w \in Syncer, CacheHit(w) \/ LookupHit(w)
    PROVE  /\ pc' \in [Syncer -> PC] /\ job' \in [Syncer -> Job] /\ OneMoves(w)
           /\ pc'[w] = "artist" /\ TakesIds(w)
<1>1. PICK ar \in {"mb", "sp"}, al \in {"mb", "sp"} :
        job' = [job EXCEPT ![w].mbid = TRUE, ![w].artist = ar, ![w].album = al]
  BY DEF CacheHit, LookupHit
<1> DEFINE j == [job[w] EXCEPT !.mbid = TRUE, !.artist = ar, !.album = al]
<1>2. job' = [job EXCEPT ![w] = j]
  BY <1>1
<1>3. /\ j \in Job /\ j.chain = job[w].chain /\ j.todo = job[w].todo
      /\ j.fetched = job[w].fetched /\ j.at = job[w].at /\ j.errors = job[w].errors
  BY JobFacts DEF Job
<1> HIDE DEF j
<1>4. job' \in [Syncer -> Job] /\ job'[w] = j /\ \A v \in Syncer \ {w} : job'[v] = job[v]
  BY <1>2, <1>3, JobMoves
<1>5. Goto(w, "artist") /\ UNCHANGED status
  BY DEF CacheHit, LookupHit
<1> QED  BY <1>3, <1>4, <1>5, GoesTo DEF PC, OneMoves, TakesIds

LEMMA UnresolvedMoves ==
    ASSUME TypeOK, NEW w \in Syncer, Unresolved(w)
    PROVE  /\ pc' \in [Syncer -> PC] /\ job' \in [Syncer -> Job] /\ OneMoves(w)
           /\ pc'[w] = "row" /\ TakesNoId(w)
<1> DEFINE j == [job[w] EXCEPT !.mbid = FALSE, !.errors = TRUE]
<1>2. job' = [job EXCEPT ![w] = j]
  BY DEF Unresolved
<1>3. /\ j \in Job /\ j.chain = job[w].chain /\ j.todo = job[w].todo
      /\ j.fetched = job[w].fetched /\ j.at = job[w].at /\ j.errors
  BY JobFacts DEF Job
<1> HIDE DEF j
<1>4. job' \in [Syncer -> Job] /\ job'[w] = j /\ \A v \in Syncer \ {w} : job'[v] = job[v]
  BY <1>2, <1>3, JobMoves
<1> QED  BY <1>3, <1>4, GoesTo DEF Unresolved, PC, OneMoves, TakesNoId

\* The link of the play inserted.
NewLink(w) == [play |-> First(w), mbid |-> job[w].mbid, isNew |-> TRUE]

LEMMA InsertMoves ==
    ASSUME Typing, NEW w \in Syncer, InsertPlayHistory(w)
    PROVE  /\ pc' \in [Syncer -> PC] /\ job' \in [Syncer -> Job] /\ OneMoves(w)
           /\ pc'[w] = IF job[w].todo \ {First(w)} = {} THEN "emit" ELSE "ingest"
           /\ First(w) \in job[w].todo /\ \A q \in job[w].todo : First(w) <= q
           /\ First(w) \in Play /\ NewLink(w) \in Link
           /\ First(w) \in Recorded => LeavesPlay(w, job[w].chain)
           /\ First(w) \notin Recorded => LeavesPlay(w, Append(job[w].chain, NewLink(w)))
           /\ job'[w].errors = job[w].errors
<1>0. TypeOK
  BY DEF Typing
<1> DEFINE p == First(w)
           todo == job[w].todo \ {p}
           link == NewLink(w)
           chain == IF p \in Recorded THEN job[w].chain ELSE Append(job[w].chain, link)
           j == [job[w] EXCEPT !.todo = todo, !.chain = chain]
<1>1. job[w].todo \in SUBSET Play /\ job[w].todo # {}
  BY <1>0, JobFacts DEF Typing, Places, Ingesting, InsertPlayHistory
<1>2. p \in job[w].todo /\ (\A q \in job[w].todo : p <= q) /\ p \in Play
  BY <1>1, FirstPlay DEF First
<1>3. link \in Link
  BY <1>0, <1>2, JobFacts DEF Link, NewLink
<1>4. Append(job[w].chain, link) \in Seq(Link)
  BY <1>0, <1>3, JobFacts, AppendProperties
<1>5. chain \in Seq(Link) /\ todo \in SUBSET Play
  BY <1>0, <1>1, <1>4, JobFacts
<1>6. job' = [job EXCEPT ![w] = j]
  BY DEF InsertPlayHistory, NewLink
<1>7. /\ p \in Recorded => chain = job[w].chain
      /\ p \notin Recorded => chain = Append(job[w].chain, link)
  OBVIOUS
<1>8. NextPlay(w, todo) /\ UNCHANGED status
  BY DEF InsertPlayHistory
<1>9. pc' \in [Syncer -> PC] /\ pc'[w] = (IF todo = {} THEN "emit" ELSE "ingest")
      /\ \A v \in Syncer \ {w} : pc'[v] = pc[v]
  BY <1>0, <1>8, NextPlayGoes
<1> HIDE DEF chain, todo
<1>10. /\ j \in Job /\ j.chain = chain /\ j.todo = todo /\ j.fetched = job[w].fetched
       /\ j.at = job[w].at /\ j.errors = job[w].errors
  BY <1>0, <1>5, JobFacts DEF Job
<1> HIDE DEF j
<1>11. job' \in [Syncer -> Job] /\ job'[w] = j /\ \A v \in Syncer \ {w} : job'[v] = job[v]
  BY <1>0, <1>6, <1>10, JobMoves
<1>12. LeavesPlay(w, chain)
  BY <1>10, <1>11 DEF LeavesPlay, todo
<1> QED
  BY <1>2, <1>3, <1>7, <1>8, <1>9, <1>10, <1>11, <1>12 DEF OneMoves, todo

LEMMA DropMoves ==
    ASSUME Typing, NEW w \in Syncer, pc[w] \in Ingesting, DropPlay(w)
    PROVE  /\ pc' \in [Syncer -> PC] /\ job' \in [Syncer -> Job] /\ OneMoves(w)
           /\ pc'[w] = IF job[w].todo \ {First(w)} = {} THEN "emit" ELSE "ingest"
           /\ LeavesPlay(w, job[w].chain) /\ job'[w].errors
<1>0. TypeOK
  BY DEF Typing
<1> DEFINE todo == job[w].todo \ {First(w)}
           j == [job[w] EXCEPT !.todo = todo, !.errors = TRUE]
<1>1. job' = [job EXCEPT ![w] = j]
  BY DEF DropPlay
<1>2. NextPlay(w, todo) /\ UNCHANGED status
  BY DEF DropPlay
<1>3. pc' \in [Syncer -> PC] /\ pc'[w] = (IF todo = {} THEN "emit" ELSE "ingest")
      /\ \A v \in Syncer \ {w} : pc'[v] = pc[v]
  BY <1>0, <1>2, NextPlayGoes
<1>4. todo \in SUBSET Play
  BY <1>0, JobFacts
<1> HIDE DEF todo
<1>5. /\ j \in Job /\ j.chain = job[w].chain /\ j.todo = todo /\ j.fetched = job[w].fetched
      /\ j.at = job[w].at /\ j.errors
  BY <1>0, <1>4, JobFacts DEF Job
<1> HIDE DEF j
<1>6. job' \in [Syncer -> Job] /\ job'[w] = j /\ \A v \in Syncer \ {w} : job'[v] = job[v]
  BY <1>0, <1>1, <1>5, JobMoves
<1> QED  BY <1>2, <1>3, <1>5, <1>6 DEF OneMoves, LeavesPlay, todo

LEMMA PairMoves ==
    ASSUME TypeOK, NEW w \in Syncer, EmitFullOrSkip(w) \/ SkipPair(w) \/ EmitFails(w)
    PROVE  /\ pc' = pc /\ job' \in [Syncer -> Job] /\ OneMoves(w) /\ TakesPair(w)
           /\ EmitFails(w) => job'[w].errors
           /\ job[w].errors => job'[w].errors
           /\ ~EmitFails(w) => job'[w].errors = job[w].errors
<1>0. job[w].at \in Nat /\ job[w].at + 1 \in Nat
  BY JobFacts
<1> DEFINE j == [job[w] EXCEPT !.at = job[w].at + 1]
           k == [job[w] EXCEPT !.at = job[w].at + 1, !.errors = TRUE]
<1>1. /\ j \in Job /\ j.chain = job[w].chain /\ j.todo = job[w].todo
      /\ j.fetched = job[w].fetched /\ j.at = job[w].at + 1 /\ j.errors = job[w].errors
  BY <1>0, JobFacts DEF Job
<1>2. /\ k \in Job /\ k.chain = job[w].chain /\ k.todo = job[w].todo
      /\ k.fetched = job[w].fetched /\ k.at = job[w].at + 1 /\ k.errors
  BY <1>0, JobFacts DEF Job
<1>3. EmitFullOrSkip(w) \/ SkipPair(w) => job' = [job EXCEPT ![w] = j]
  BY DEF EmitFullOrSkip, SkipPair
<1>4. EmitFails(w) => job' = [job EXCEPT ![w] = k]
  BY DEF EmitFails
<1>5. UNCHANGED <<pc, status>>
  BY DEF EmitFullOrSkip, SkipPair, EmitFails
<1> HIDE DEF j, k
<1>6. CASE EmitFails(w)
  <2>1. job' \in [Syncer -> Job] /\ job'[w] = k /\ \A v \in Syncer \ {w} : job'[v] = job[v]
    BY <1>2, <1>4, <1>6, JobMoves
  <2> QED  BY <1>2, <1>5, <1>6, <2>1 DEF OneMoves, TakesPair
<1>7. CASE ~EmitFails(w)
  <2>1. job' \in [Syncer -> Job] /\ job'[w] = j /\ \A v \in Syncer \ {w} : job'[v] = job[v]
    BY <1>1, <1>3, <1>7, JobMoves
  <2> QED  BY <1>1, <1>5, <1>7, <2>1 DEF OneMoves, TakesPair
<1> QED  BY <1>6, <1>7

\* The steps that leave the locals as they are.
Keeps(w) == \/ AccessToken(w) \/ FetchFails(w) \/ UpsertArtist(w) \/ UpsertAlbum(w)
            \/ UpsertTrack(w) \/ Finish(w) \/ CutOff(w)

LEMMA KeepsMoves ==
    ASSUME TypeOK, NEW w \in Syncer, Keeps(w)
    PROVE  /\ pc' \in [Syncer -> PC] /\ job' \in [Syncer -> Job] /\ OneMoves(w)
           /\ KeepsLocals(w)
           /\ AccessToken(w) => pc'[w] = "load"
           /\ UpsertArtist(w) => pc'[w] = "album"
           /\ UpsertAlbum(w) => pc'[w] = "track"
           /\ UpsertTrack(w) => pc'[w] = "row"
           /\ FetchFails(w) \/ Finish(w) \/ CutOff(w) => pc'[w] = "idle"
<1>1. UNCHANGED job
  BY DEF Keeps, AccessToken, FetchFails, UpsertArtist, UpsertAlbum, UpsertTrack, Finish, CutOff
<1>2. job' \in [Syncer -> Job]
  BY <1>1 DEF TypeOK
<1>3. \A v \in Syncer \ {w} : status'[v] = status[v]
  BY DEF Keeps, AccessToken, FetchFails, UpsertArtist, UpsertAlbum, UpsertTrack, Finish,
         CutOff, TypeOK
<1>4. \A l \in PC : Goto(w, l) =>
        /\ pc' \in [Syncer -> PC] /\ pc'[w] = l /\ \A v \in Syncer \ {w} : pc'[v] = pc[v]
  BY GoesTo
<1>5. /\ AccessToken(w) => Goto(w, "load")
      /\ UpsertArtist(w) => Goto(w, "album")
      /\ UpsertAlbum(w) => Goto(w, "track")
      /\ UpsertTrack(w) => Goto(w, "row")
      /\ FetchFails(w) \/ Finish(w) \/ CutOff(w) => Goto(w, "idle")
  BY DEF AccessToken, FetchFails, UpsertArtist, UpsertAlbum, UpsertTrack, Finish, CutOff
<1>6. {"load", "album", "track", "row", "idle"} \subseteq PC
  BY DEF PC
<1>7. pc' \in [Syncer -> PC] /\ \A v \in Syncer \ {w} : pc'[v] = pc[v]
  BY <1>4, <1>5, <1>6 DEF Keeps
<1>8. /\ AccessToken(w) => pc'[w] = "load"
      /\ UpsertArtist(w) => pc'[w] = "album"
      /\ UpsertAlbum(w) => pc'[w] = "track"
      /\ UpsertTrack(w) => pc'[w] = "row"
      /\ FetchFails(w) \/ Finish(w) \/ CutOff(w) => pc'[w] = "idle"
  BY <1>4, <1>5, <1>6
<1> QED  BY <1>1, <1>2, <1>3, <1>7, <1>8 DEF OneMoves, KeepsLocals


-----------------------------------------------------------------------------
(* Types. *)

\* The variables but for the places and the locals.
DataOK ==
    /\ played \in 0..Len(TrackOf)
    /\ history \in [Play -> {"absent", "unresolved", "resolved"}]
    /\ signals \in [Play -> Seq([next : Play, kind : Kind])]
    /\ cache \in [Track -> {"none", "hit", "miss"}]
    /\ artistRows \in [Artist -> Rows]
    /\ albumRows \in [Album -> Rows]
    /\ status \in [Syncer -> {"ok", "partial", "failed", Null}]
    /\ gap \in BOOLEAN

LEMMA TypeOKMeans ==
    TypeOK <=> DataOK /\ pc \in [Syncer -> PC] /\ job \in [Syncer -> Job]
BY DEF TypeOK, DataOK

LEMMA UpsertedRows ==
    ASSUME NEW rows \in Rows, NEW id \in {"mb", "sp"}
    PROVE  Upserted(rows, id) \in Rows
BY DEF Rows, Upserted

LEMMA FirstTyped ==
    ASSUME Typing, NEW w \in Syncer, pc[w] \in Ingesting
    PROVE  /\ First(w) \in Play /\ TrackAt(w) \in Track
           /\ ArtistAt(w) \in Artist /\ AlbumAt(w) \in Album
<1>1. job[w].todo \in SUBSET Play /\ job[w].todo # {}
  BY JobFacts DEF Typing, Places
<1>2. First(w) \in Play
  BY <1>1, FirstPlay DEF First
<1> QED  BY <1>2, Plays, ListeningConstants DEF TrackAt, ArtistAt, AlbumAt

\* The two plays of the pair at which a syncer is.
LEMMA PairTyped ==
    ASSUME TypeOK, NEW w \in Syncer, PairLeft(w), job[w].at >= 1
    PROVE  /\ job[w].at \in 1..Len(job[w].chain) /\ job[w].at + 1 \in 1..Len(job[w].chain)
           /\ Pair(w)[1] = job[w].chain[job[w].at] /\ Pair(w)[1] \in Link
           /\ Pair(w)[2] = job[w].chain[job[w].at + 1] /\ Pair(w)[2] \in Link
           /\ Pair(w)[1].play \in Play /\ Pair(w)[2].play \in Play
<1>1. /\ job[w].at \in Nat /\ Len(job[w].chain) \in Nat
      /\ \A i \in 1..Len(job[w].chain) : job[w].chain[i] \in Link
  BY JobFacts
<1>2. job[w].at \in 1..Len(job[w].chain) /\ job[w].at + 1 \in 1..Len(job[w].chain)
  BY <1>1 DEF PairLeft
<1> QED  BY <1>1, <1>2 DEF Pair, Link


\* The step of one syncer keeps Places if it keeps them for that one.
LEMMA PlacesKept ==
    ASSUME Typing, NEW w \in Syncer, OneMoves(w), job'[w].at >= 1,
           pc'[w] \in Ingesting => job'[w].todo # {}
    PROVE  Places'
BY DEF Typing, Places, OneMoves

LEMMA ControlTyped ==
    ASSUME Typing, NEW w \in Syncer, Sync(w)
    PROVE  /\ pc' \in [Syncer -> PC] /\ job' \in [Syncer -> Job] /\ OneMoves(w) /\ Places'
<1> DEFINE Good == /\ pc' \in [Syncer -> PC] /\ job' \in [Syncer -> Job]
                   /\ OneMoves(w) /\ Places'
<1>0. TypeOK /\ job[w].at \in Nat /\ job[w].at >= 1
      /\ (pc[w] \in Ingesting => job[w].todo # {})
  BY JobFacts DEF Typing, Places
<1>1. CASE Start(w)
  <2>1. NoJob.at = 1 /\ NoJob.at >= 1 /\ "token" \notin Ingesting
    BY DEF NoJob, Ingesting
  <2> QED  BY <1>0, <1>1, <2>1, StartMoves, PlacesKept
<1>2. CASE LoadLastKnownPlay(w)
  <2>1. /\ pc' \in [Syncer -> PC] /\ job' \in [Syncer -> Job] /\ OneMoves(w)
        /\ pc'[w] = "fetch" /\ job'[w].at = job[w].at
    BY <1>0, <1>2, LoadMoves DEF TakesChain
  <2> QED  BY <1>0, <2>1, PlacesKept DEF Ingesting
<1>3. CASE FetchRecentlyPlayed(w)
  <2>1. /\ pc' \in [Syncer -> PC] /\ job' \in [Syncer -> Job] /\ OneMoves(w)
        /\ pc'[w] = (IF Reported(w) = {} THEN "emit" ELSE "ingest")
        /\ job'[w].at = job[w].at /\ job'[w].todo = Reported(w)
    BY <1>0, <1>3, FetchMoves DEF TakesPlays
  <2> QED  BY <1>0, <2>1, PlacesKept DEF Ingesting
<1>4. CASE CacheHit(w) \/ LookupHit(w) \/ Unresolved(w)
  <2>1. /\ pc' \in [Syncer -> PC] /\ job' \in [Syncer -> Job] /\ OneMoves(w)
        /\ job'[w].at = job[w].at /\ job'[w].todo = job[w].todo
    BY <1>0, <1>4, IdsMove, UnresolvedMoves DEF TakesIds, TakesNoId
  <2>2. job[w].todo # {}
    BY <1>0, <1>4 DEF CacheHit, LookupHit, Unresolved, Ingesting
  <2> QED  BY <1>0, <2>1, <2>2, PlacesKept
<1>5. CASE InsertPlayHistory(w) \/ ParentMissing(w) \/ IngestFails(w)
  <2>1. /\ pc' \in [Syncer -> PC] /\ job' \in [Syncer -> Job] /\ OneMoves(w)
        /\ pc'[w] = (IF job[w].todo \ {First(w)} = {} THEN "emit" ELSE "ingest")
        /\ job'[w].at = job[w].at /\ job'[w].todo = job[w].todo \ {First(w)}
    <3>1. CASE InsertPlayHistory(w)
      BY <3>1, InsertMoves DEF LeavesPlay
    <3>2. CASE ParentMissing(w) \/ IngestFails(w)
      <4>1. DropPlay(w) /\ pc[w] \in Ingesting
        BY <3>2 DEF ParentMissing, IngestFails, Ingesting
      <4> QED  BY <4>1, DropMoves DEF LeavesPlay
    <3> QED  BY <1>5, <3>1, <3>2
  <2> QED  BY <1>0, <2>1, PlacesKept DEF Ingesting
<1>6. CASE EmitFullOrSkip(w) \/ SkipPair(w) \/ EmitFails(w)
  <2>1. /\ pc' = pc /\ job' \in [Syncer -> Job] /\ OneMoves(w)
        /\ job'[w].at = job[w].at + 1
    BY <1>0, <1>6, PairMoves DEF TakesPair
  <2>2. pc[w] = "emit" /\ pc \in [Syncer -> PC]
    BY <1>0, <1>6 DEF EmitFullOrSkip, SkipPair, EmitFails, TypeOK
  <2>3. job'[w].at >= 1
    BY <1>0, <2>1
  <2> QED  BY <2>1, <2>2, <2>3, PlacesKept DEF Ingesting
<1>7. CASE Keeps(w)
  <2>1. /\ pc' \in [Syncer -> PC] /\ job' \in [Syncer -> Job] /\ OneMoves(w)
        /\ job'[w] = job[w]
    BY <1>0, <1>7, KeepsMoves DEF KeepsLocals
  <2>2. pc'[w] \in Ingesting => job[w].todo # {}
    <3>1. CASE UpsertArtist(w) \/ UpsertAlbum(w) \/ UpsertTrack(w)
      BY <1>0, <3>1 DEF UpsertArtist, UpsertAlbum, UpsertTrack, Ingesting
    <3>2. CASE AccessToken(w) \/ FetchFails(w) \/ Finish(w) \/ CutOff(w)
      BY <1>0, <1>7, <3>2, KeepsMoves DEF Ingesting
    <3> QED  BY <1>7, <3>1, <3>2 DEF Keeps
  <2> QED  BY <1>0, <2>1, <2>2, PlacesKept
<1> QED
  BY <1>1, <1>2, <1>3, <1>4, <1>5, <1>6, <1>7 DEF Sync, Ingest, Keeps

LEMMA DataTyped ==
    ASSUME Typing, [Next]_vars
    PROVE  DataOK'
<1>0. TypeOK /\ DataOK
  BY TypeOKMeans DEF Typing
<1> USE <1>0
<1>1. played' \in 0..Len(TrackOf)
  <2>1. CASE PlayTrack
    BY <2>1, Plays DEF PlayTrack, DataOK
  <2>2. CASE UNCHANGED played
    BY <2>2 DEF DataOK
  <2> QED
    BY <2>1, <2>2
    DEF Next, vars, Sync, Ingest, Start, AccessToken, LoadLastKnownPlay, FetchRecentlyPlayed,
        FetchFails, CacheHit, LookupHit, Unresolved, UpsertArtist, UpsertAlbum, UpsertTrack,
        InsertPlayHistory, ParentMissing, IngestFails, DropPlay, EmitFullOrSkip, SkipPair,
        EmitFails, Finish, CutOff
<1>2. history' \in [Play -> {"absent", "unresolved", "resolved"}]
  <2>1. CASE UNCHANGED history
    BY <2>1 DEF DataOK
  <2>2. ASSUME NEW w \in Syncer, InsertPlayHistory(w)
        PROVE  history' \in [Play -> {"absent", "unresolved", "resolved"}]
    BY <2>2 DEF InsertPlayHistory, DataOK
  <2> QED
    BY <2>1, <2>2
    DEF Next, vars, dbVars, Sync, Ingest, PlayTrack, Start, AccessToken, LoadLastKnownPlay,
        FetchRecentlyPlayed, FetchFails, CacheHit, LookupHit, Unresolved, UpsertArtist,
        UpsertAlbum, UpsertTrack, ParentMissing, IngestFails, DropPlay, EmitFullOrSkip,
        SkipPair, EmitFails, Finish, CutOff
<1>3. signals' \in [Play -> Seq([next : Play, kind : Kind])]
  <2>1. CASE UNCHANGED signals
    BY <2>1 DEF DataOK
  <2>2. ASSUME NEW w \in Syncer, EmitFullOrSkip(w)
        PROVE  signals' \in [Play -> Seq([next : Play, kind : Kind])]
    <3> DEFINE p == Pair(w)[1].play
               n == Pair(w)[2].play
               v == Verdict(p, n)
               s == [next |-> n, kind |-> v]
    <3>1. p \in Play /\ n \in Play
      BY <2>2, PairTyped DEF EmitFullOrSkip, Typing, Places
    <3>2. v \in Kind
      BY DEF Verdict, Kind
    <3>3. signals' = [signals EXCEPT ![p] = Append(signals[p], s)]
      BY <2>2 DEF EmitFullOrSkip
    <3> HIDE DEF p, n, v
    <3>4. s \in [next : Play, kind : Kind]
      BY <3>1, <3>2
    <3> HIDE DEF s
    <3>5. signals[p] \in Seq([next : Play, kind : Kind])
      BY <3>1 DEF DataOK
    <3>6. Append(signals[p], s) \in Seq([next : Play, kind : Kind])
      BY <3>4, <3>5, AppendProperties
    <3> QED  BY <3>1, <3>3, <3>6 DEF DataOK
  <2> QED
    BY <2>1, <2>2
    DEF Next, vars, dbVars, Sync, Ingest, PlayTrack, Start, AccessToken, LoadLastKnownPlay,
        FetchRecentlyPlayed, FetchFails, CacheHit, LookupHit, Unresolved, UpsertArtist,
        UpsertAlbum, UpsertTrack, InsertPlayHistory, ParentMissing, IngestFails, DropPlay,
        SkipPair, EmitFails, Finish, CutOff
<1>4. cache' \in [Track -> {"none", "hit", "miss"}]
  <2>1. CASE UNCHANGED cache
    BY <2>1 DEF DataOK
  <2>2. ASSUME NEW w \in Syncer, LookupHit(w) \/ Unresolved(w)
        PROVE  cache' \in [Track -> {"none", "hit", "miss"}]
    BY <2>2 DEF LookupHit, Unresolved, DataOK
  <2> QED
    BY <2>1, <2>2
    DEF Next, vars, dbVars, Sync, Ingest, PlayTrack, Start, AccessToken, LoadLastKnownPlay,
        FetchRecentlyPlayed, FetchFails, CacheHit, UpsertArtist,
        UpsertAlbum, UpsertTrack, InsertPlayHistory, ParentMissing, IngestFails, DropPlay,
        EmitFullOrSkip, SkipPair, EmitFails, Finish, CutOff
<1>5. artistRows' \in [Artist -> Rows]
  <2>1. CASE UNCHANGED artistRows
    BY <2>1 DEF DataOK
  <2>2. ASSUME NEW w \in Syncer, UpsertArtist(w) PROVE artistRows' \in [Artist -> Rows]
    <3>1. ArtistAt(w) \in Artist
      BY <2>2, FirstTyped DEF UpsertArtist, Ingesting
    <3>2. job[w].artist \in {"mb", "sp"}
      BY JobFacts DEF Job
    <3>3. artistRows[ArtistAt(w)] \in Rows
      BY <3>1 DEF DataOK
    <3>4. Upserted(artistRows[ArtistAt(w)], job[w].artist) \in Rows
      BY <3>2, <3>3, UpsertedRows
    <3> QED  BY <2>2, <3>4 DEF UpsertArtist, DataOK
  <2> QED
    BY <2>1, <2>2
    DEF Next, vars, dbVars, Sync, Ingest, PlayTrack, Start, AccessToken, LoadLastKnownPlay,
        FetchRecentlyPlayed, FetchFails, CacheHit, LookupHit, Unresolved,
        UpsertAlbum, UpsertTrack, InsertPlayHistory, ParentMissing, IngestFails, DropPlay,
        EmitFullOrSkip, SkipPair, EmitFails, Finish, CutOff
<1>6. albumRows' \in [Album -> Rows]
  <2>1. CASE UNCHANGED albumRows
    BY <2>1 DEF DataOK
  <2>2. ASSUME NEW w \in Syncer, UpsertAlbum(w) PROVE albumRows' \in [Album -> Rows]
    <3>1. AlbumAt(w) \in Album
      BY <2>2, FirstTyped DEF UpsertAlbum, Ingesting
    <3>2. job[w].album \in {"mb", "sp"}
      BY JobFacts DEF Job
    <3>3. albumRows[AlbumAt(w)] \in Rows
      BY <3>1 DEF DataOK
    <3>4. Upserted(albumRows[AlbumAt(w)], job[w].album) \in Rows
      BY <3>2, <3>3, UpsertedRows
    <3> QED  BY <2>2, <3>4 DEF UpsertAlbum, DataOK
  <2> QED
    BY <2>1, <2>2
    DEF Next, vars, dbVars, Sync, Ingest, PlayTrack, Start, AccessToken, LoadLastKnownPlay,
        FetchRecentlyPlayed, FetchFails, CacheHit, LookupHit, Unresolved, UpsertArtist,
        UpsertTrack, InsertPlayHistory, ParentMissing, IngestFails, DropPlay,
        EmitFullOrSkip, SkipPair, EmitFails, Finish, CutOff
<1>7. status' \in [Syncer -> {"ok", "partial", "failed", Null}]
  <2>1. CASE UNCHANGED status
    BY <2>1 DEF DataOK
  <2>2. ASSUME NEW w \in Syncer, FetchFails(w) \/ Finish(w) \/ CutOff(w)
        PROVE  status' \in [Syncer -> {"ok", "partial", "failed", Null}]
    BY <2>2 DEF FetchFails, Finish, CutOff, DataOK
  <2> QED
    BY <2>1, <2>2
    DEF Next, vars, dbVars, Sync, Ingest, PlayTrack, Start, AccessToken, LoadLastKnownPlay,
        FetchRecentlyPlayed, CacheHit, LookupHit, Unresolved, UpsertArtist, UpsertAlbum,
        UpsertTrack, InsertPlayHistory, ParentMissing, IngestFails, DropPlay,
        EmitFullOrSkip, SkipPair, EmitFails
<1>8. gap' \in BOOLEAN
  <2>1. CASE UNCHANGED gap \/ gap'
    BY <2>1 DEF DataOK
  <2>2. ASSUME NEW w \in Syncer, FetchRecentlyPlayed(w) PROVE gap' \in BOOLEAN
    BY <2>2 DEF FetchRecentlyPlayed
  <2> QED
    BY <2>1, <2>2
    DEF Next, vars, dbVars, Sync, Ingest, PlayTrack, Start, AccessToken, LoadLastKnownPlay,
        FetchFails, CacheHit, LookupHit, Unresolved, UpsertArtist, UpsertAlbum,
        UpsertTrack, InsertPlayHistory, ParentMissing, IngestFails, DropPlay,
        EmitFullOrSkip, SkipPair, EmitFails, Finish, CutOff
<1> QED  BY <1>1, <1>2, <1>3, <1>4, <1>5, <1>6, <1>7, <1>8 DEF DataOK

LEMMA TypingInit == Init => Typing
<1> SUFFICES ASSUME Init PROVE Typing
  OBVIOUS
<1>1. NoJob \in Job /\ NoJob.at = 1
  BY EmptySeq DEF NoJob, Job
<1>2. 0 \in 0..Len(TrackOf)
  BY Plays
<1>3. <<>> \in Seq([next : Play, kind : Kind])
  BY EmptySeq
<1>4. artistRows \in [Artist -> Rows] /\ albumRows \in [Album -> Rows]
  BY ListeningConstants DEF Init
<1>5. DataOK
  BY <1>2, <1>3, <1>4 DEF Init, DataOK
<1>6. pc \in [Syncer -> PC] /\ job \in [Syncer -> Job]
  BY <1>1 DEF Init, PC
<1>7. \A w \in Syncer : pc[w] = "idle" /\ job[w].at >= 1
  BY <1>1 DEF Init
<1>8. Places
  BY <1>7 DEF Places, Ingesting
<1> QED  BY <1>5, <1>6, <1>8, TypeOKMeans DEF Typing

LEMMA TypingNext == Typing /\ [Next]_vars => Typing'
<1> SUFFICES ASSUME Typing, [Next]_vars PROVE Typing'
  OBVIOUS
<1>1. DataOK'
  BY DataTyped
<1>2. pc' \in [Syncer -> PC] /\ job' \in [Syncer -> Job] /\ Places'
  <2>1. CASE UNCHANGED <<pc, job>>
    BY <2>1 DEF Typing, TypeOK, Places
  <2>2. ASSUME NEW w \in Syncer, Sync(w)
        PROVE  pc' \in [Syncer -> PC] /\ job' \in [Syncer -> Job] /\ Places'
    BY <2>2, ControlTyped
  <2> QED  BY <2>1, <2>2 DEF Next, vars, PlayTrack
<1>3. TypeOK' <=> DataOK' /\ pc' \in [Syncer -> PC] /\ job' \in [Syncer -> Job]
  BY DEF TypeOK, DataOK
<1> QED  BY <1>1, <1>2, <1>3 DEF Typing

\* Whatever polls of the user overlap, fail or are cut off, every variable stays in its
\* set: a poll that ingests has a play to ingest, and the chain is one of known plays.
THEOREM TypeCorrect == Spec => []TypeOK
<1>1. Typing => TypeOK
  BY DEF Typing
<1> QED  BY <1>1, TypingInit, TypingNext, PTL DEF Spec

LEMMA TypingAlways == Spec => []Typing
BY TypingInit, TypingNext, PTL DEF Spec


-----------------------------------------------------------------------------
(* A run that ends "ok" kept everything, however many polls there are. *)

Polling == {"fetch", "emit"} \cup Ingesting

Chain(w) == job[w].chain
Links(w) == 1..Len(job[w].chain)

\* The chain is in the order of the plays, in play_history, and before what is left to
\* ingest; all of it but its first play is new.
ChainOrdered(w) ==
    /\ \A i, j \in Links(w) : i < j => Chain(w)[i].play < Chain(w)[j].play
    /\ \A i \in Links(w) : Chain(w)[i].play \in Recorded /\ (i > 1 => Chain(w)[i].isNew)
    /\ \A i \in Links(w), t \in job[w].todo : Chain(w)[i].play < t

\* What a poll has not reported as an error it has kept: each play it took off the list
\* is in play_history, each resolved play it has passed in the chain has its signal.
KeptSoFar(w) ==
    job[w].errors \/ /\ job[w].fetched \subseteq job[w].todo \cup Recorded
                     /\ \A i \in Links(w) : i < job[w].at /\ Chain(w)[i].mbid
                                              => signals[Chain(w)[i].play] # <<>>

Local(w) ==
    /\ pc[w] \in {"token", "load"} => job[w] = NoJob
    /\ pc[w] = "fetch"
          => job[w].todo = {} /\ job[w].fetched = {} /\ Len(job[w].chain) <= 1
    /\ pc[w] \in {"fetch"} \cup Ingesting => job[w].at = 1
    /\ pc[w] = "emit" => job[w].todo = {}
    /\ pc[w] \in Polling => ChainOrdered(w) /\ KeptSoFar(w)

\* The body of OkPollKeptEverything.
Kept(w) ==
    pc[w] = "idle" /\ status[w] = "ok" =>
        /\ job[w].fetched \subseteq Recorded
        /\ \A i \in 1..Len(job[w].chain) - 1 :
             job[w].chain[i].mbid => signals[job[w].chain[i].play] # <<>>

PollInv == \A w \in Syncer : Local(w) /\ Kept(w)

\* play_history and the signals only grow, and a row keeps what it says.
Grows ==
    /\ \A p \in Recorded : p \in Recorded' /\ history'[p] = history[p]
    /\ \A p \in Play : signals[p] # <<>> => signals'[p] # <<>>

LEMMA AppendNotEmpty ==
    ASSUME NEW S, NEW s \in Seq(S), NEW e \in S
    PROVE  Append(s, e) # <<>> /\ Len(Append(s, e)) = Len(s) + 1
<1>1. Len(Append(s, e)) = Len(s) + 1 /\ Len(s) \in Nat /\ Len(<<>>) = 0
  BY AppendProperties, LenProperties, EmptySeq
<1> QED  BY <1>1

\* The signal a syncer adds, and to what.
LEMMA SignalAdded ==
    ASSUME Typing, NEW w \in Syncer, EmitFullOrSkip(w)
    PROVE  LET p == Pair(w)[1].play
               s == [next |-> Pair(w)[2].play, kind |-> Verdict(p, Pair(w)[2].play)] IN
           /\ p \in Play
           /\ s \in [next : Play, kind : Kind]
           /\ signals'[p] = Append(signals[p], s) /\ signals'[p] # <<>>
           /\ Len(signals'[p]) = Len(signals[p]) + 1
           /\ \A q \in Play \ {p} : signals'[q] = signals[q]
<1> DEFINE p == Pair(w)[1].play
           n == Pair(w)[2].play
           v == Verdict(p, n)
           s == [next |-> n, kind |-> v]
<1>1. p \in Play /\ n \in Play
  BY PairTyped DEF EmitFullOrSkip, Typing, Places
<1>2. v \in Kind
  BY DEF Verdict, Kind
<1>3. signals' = [signals EXCEPT ![p] = Append(signals[p], s)]
  BY DEF EmitFullOrSkip
<1> HIDE DEF p, n, v
<1>4. s \in [next : Play, kind : Kind]
  BY <1>1, <1>2
<1>5. signals \in [Play -> Seq([next : Play, kind : Kind])]
  BY DEF Typing, TypeOK
<1>6. Append(signals[p], s) # <<>> /\ Len(Append(signals[p], s)) = Len(signals[p]) + 1
  BY <1>1, <1>4, <1>5, AppendNotEmpty
<1> HIDE DEF s
<1>7. signals'[p] = Append(signals[p], s) /\ \A q \in Play \ {p} : signals'[q] = signals[q]
  BY <1>1, <1>3, <1>5
<1> QED  BY <1>1, <1>4, <1>6, <1>7 DEF p, n, v, s

\* The row a syncer inserts.
LEMMA RowInserted ==
    ASSUME Typing, NEW w \in Syncer, InsertPlayHistory(w)
    PROVE  /\ First(w) \in Play
           /\ First(w) \in Recorded => history' = history
           /\ First(w) \notin Recorded =>
                /\ history'[First(w)] = IF job[w].mbid THEN "resolved" ELSE "unresolved"
                /\ \A q \in Play \ {First(w)} : history'[q] = history[q]
           /\ Recorded' = Recorded \cup {First(w)}
<1> DEFINE p == First(w)
           h == IF job[w].mbid THEN "resolved" ELSE "unresolved"
<1>1. p \in Play
  BY InsertMoves
<1>2. history \in [Play -> {"absent", "unresolved", "resolved"}]
  BY DEF Typing, TypeOK
<1>3. history' = IF p \in Recorded THEN history ELSE [history EXCEPT ![p] = h]
  BY DEF InsertPlayHistory
<1>4. h # "absent"
  OBVIOUS
<1> HIDE DEF p, h
<1>5. CASE p \in Recorded
  BY <1>1, <1>3, <1>5 DEF Recorded, p, h
<1>6. CASE p \notin Recorded
  <2>1. history'[p] = h /\ \A q \in Play \ {p} : history'[q] = history[q]
    BY <1>1, <1>2, <1>3, <1>6
  <2>2. Recorded' = Recorded \cup {p}
    BY <1>1, <1>4, <2>1 DEF Recorded
  <2> QED  BY <1>1, <1>6, <2>1, <2>2 DEF p, h
<1> QED  BY <1>5, <1>6

LEMMA GrowsNext ==
    ASSUME Typing, [Next]_vars
    PROVE  Grows
<1>1. \A p \in Recorded : p \in Recorded' /\ history'[p] = history[p]
  <2>1. CASE UNCHANGED history
    BY <2>1 DEF Recorded
  <2>2. ASSUME NEW w \in Syncer, InsertPlayHistory(w)
        PROVE  \A p \in Recorded : p \in Recorded' /\ history'[p] = history[p]
    BY <2>2, RowInserted DEF Recorded
  <2> QED
    BY <2>1, <2>2
    DEF Next, vars, dbVars, Sync, Ingest, PlayTrack, Start, AccessToken, LoadLastKnownPlay,
        FetchRecentlyPlayed, FetchFails, CacheHit, LookupHit, Unresolved, UpsertArtist,
        UpsertAlbum, UpsertTrack, ParentMissing, IngestFails, DropPlay, EmitFullOrSkip,
        SkipPair, EmitFails, Finish, CutOff
<1>2. \A p \in Play : signals[p] # <<>> => signals'[p] # <<>>
  <2>1. CASE UNCHANGED signals
    BY <2>1
  <2>2. ASSUME NEW w \in Syncer, EmitFullOrSkip(w)
        PROVE  \A p \in Play : signals[p] # <<>> => signals'[p] # <<>>
    BY <2>2, SignalAdded
  <2> QED
    BY <2>1, <2>2
    DEF Next, vars, dbVars, Sync, Ingest, PlayTrack, Start, AccessToken, LoadLastKnownPlay,
        FetchRecentlyPlayed, FetchFails, CacheHit, LookupHit, Unresolved, UpsertArtist,
        UpsertAlbum, UpsertTrack, InsertPlayHistory, ParentMissing, IngestFails, DropPlay,
        SkipPair, EmitFails, Finish, CutOff
<1> QED  BY <1>1, <1>2 DEF Grows

\* What a syncer has kept stays kept while it keeps its chain, its list and its place in
\* the chain.
SameChain(w) ==
    /\ job'[w].chain = job[w].chain /\ job'[w].todo = job[w].todo
    /\ job'[w].fetched = job[w].fetched /\ job'[w].at = job[w].at
    /\ job[w].errors => job'[w].errors

LEMMA ChainPlays ==
    ASSUME TypeOK, NEW w \in Syncer, NEW i \in Links(w)
    PROVE  /\ Chain(w)[i] \in Link /\ Chain(w)[i].play \in Play /\ Chain(w)[i].play \in Nat
           /\ Chain(w)[i].mbid \in BOOLEAN /\ i \in Nat /\ i >= 1
<1>1. Chain(w)[i] \in Link /\ i \in Nat /\ i >= 1
  BY JobFacts DEF Links, Chain
<1> QED  BY <1>1, Plays DEF Link

LEMMA ChainStays ==
    ASSUME Typing, Grows, NEW w \in Syncer, SameChain(w), ChainOrdered(w), KeptSoFar(w)
    PROVE  ChainOrdered(w)' /\ KeptSoFar(w)'
<1>1. Links(w)' = Links(w) /\ Chain(w)' = Chain(w)
  BY DEF SameChain, Links, Chain
<1>2. \A i \in Links(w) : Chain(w)[i].play \in Play
  BY ChainPlays DEF Typing
<1>3. \A i \in Links(w) : Chain(w)[i].play \in Recorded'
  BY DEF ChainOrdered, Grows
<1>4. ChainOrdered(w)'
  BY <1>1, <1>3 DEF ChainOrdered, SameChain
<1>5. \A i \in Links(w) : signals[Chain(w)[i].play] # <<>> => signals'[Chain(w)[i].play] # <<>>
  BY <1>2 DEF Grows
<1>6. Recorded \subseteq Recorded'
  BY DEF Grows
<1>7. KeptSoFar(w)'
  BY <1>1, <1>5, <1>6 DEF KeptSoFar, SameChain
<1> QED  BY <1>4, <1>7

LEMMA OthersStay ==
    ASSUME Typing, Grows, NEW v \in Syncer, Local(v), Kept(v),
           pc'[v] = pc[v], job'[v] = job[v], status'[v] = status[v]
    PROVE  Local(v)' /\ Kept(v)'
<1>1. SameChain(v)
  BY DEF SameChain
<1>2. pc[v] \in Polling => ChainOrdered(v)' /\ KeptSoFar(v)'
  BY <1>1, ChainStays DEF Local
<1>3. Local(v)'
  BY <1>2 DEF Local
<1>4. Recorded \subseteq Recorded'
  BY DEF Grows
<1>5. \A i \in 1..Len(job[v].chain) - 1 : job[v].chain[i].play \in Play
  <2>1. \A i \in 1..Len(job[v].chain) - 1 : i \in 1..Len(job[v].chain)
    BY JobFacts DEF Typing
  <2> QED  BY <2>1, JobFacts DEF Typing, Link
<1>6. Kept(v)'
  BY <1>4, <1>5 DEF Kept, Grows
<1> QED  BY <1>3, <1>6


\* A step that keeps the chain, of a syncer that is polling and goes on polling.
LEMMA StepKeepsChain ==
    ASSUME Typing, Grows, NEW w \in Syncer, Local(w), SameChain(w),
           pc[w] \in Ingesting, pc'[w] \in Ingesting
    PROVE  Local(w)' /\ Kept(w)'
<1>1. ChainOrdered(w)' /\ KeptSoFar(w)'
  BY ChainStays DEF Local, Polling
<1>2. job'[w].at = 1 /\ pc'[w] \notin {"idle", "token", "load", "fetch", "emit"}
  BY DEF Local, SameChain, Ingesting
<1> QED  BY <1>1, <1>2 DEF Local, Kept

LEMMA StartPolls ==
    ASSUME Typing, NEW w \in Syncer, Start(w) \/ AccessToken(w), Local(w)
    PROVE  Local(w)' /\ Kept(w)'
<1>1. CASE Start(w)
  <2>1. pc'[w] = "token" /\ job'[w] = NoJob
    BY <1>1, StartMoves DEF Typing
  <2> QED  BY <2>1 DEF Local, Kept, Polling, Ingesting
<1>2. CASE AccessToken(w)
  <2>1. pc'[w] = "load" /\ job'[w] = job[w] /\ pc[w] = "token"
    BY <1>2, KeepsMoves DEF Typing, Keeps, KeepsLocals, AccessToken
  <2> QED  BY <2>1 DEF Local, Kept, Polling, Ingesting
<1> QED  BY <1>1, <1>2

LEMMA LoadPolls ==
    ASSUME Typing, NEW w \in Syncer, LoadLastKnownPlay(w), Local(w)
    PROVE  Local(w)' /\ Kept(w)'
<1>1. job[w] = NoJob /\ UNCHANGED history
  BY DEF Local, LoadLastKnownPlay, dbVars
<1>2. /\ NoJob.todo = {} /\ NoJob.fetched = {} /\ NoJob.at = 1 /\ ~NoJob.errors
  BY DEF NoJob
<1>3. Recorded' = Recorded
  BY <1>1 DEF Recorded
<1>4. pc'[w] = "fetch" /\ job'[w].todo = {} /\ job'[w].fetched = {} /\ job'[w].at = 1
  BY <1>1, <1>2, LoadMoves DEF Typing, TakesChain
<1>5. /\ Len(job'[w].chain) <= 1
      /\ \A i \in 1..Len(job'[w].chain) : i = 1 /\ job'[w].chain[i].play \in Recorded'
  <2>1. CASE Recorded = {}
    <3>1. job'[w].chain = <<>>
      BY <2>1, LoadMoves DEF Typing, TakesChain
    <3>2. Len(<<>>) = 0 /\ 1..0 = {}
      BY EmptySeq
    <3> QED  BY <3>1, <3>2
  <2>2. CASE Recorded # {}
    <3> DEFINE link == [play |-> F!Max(Recorded), isNew |-> FALSE,
                        mbid |-> history[F!Max(Recorded)] = "resolved"]
    <3>1. job'[w].chain = <<link>> /\ F!Max(Recorded) \in Recorded
      BY <2>2, LoadMoves DEF Typing, TakesChain
    <3>2. link.play = F!Max(Recorded)
      OBVIOUS
    <3> HIDE DEF link
    <3>3. Len(<<link>>) = 1 /\ <<link>>[1] = link /\ 1..1 = {1}
      OBVIOUS
    <3> QED  BY <1>3, <3>1, <3>2, <3>3
  <2> QED  BY <2>1, <2>2
<1>6. ChainOrdered(w)'
  <2>1. \A i, j \in 1..Len(job'[w].chain) : ~(i < j)
    BY <1>5
  <2>2. \A i \in 1..Len(job'[w].chain) : ~(i > 1)
    BY <1>5
  <2> QED  BY <1>4, <1>5, <2>1, <2>2 DEF ChainOrdered, Links, Chain
<1>7. KeptSoFar(w)'
  <2>1. \A i \in 1..Len(job'[w].chain) : ~(i < 1)
    BY <1>5
  <2> QED  BY <1>4, <2>1 DEF KeptSoFar, Links, Chain
<1> QED  BY <1>4, <1>5, <1>6, <1>7 DEF Local, Kept, Polling, Ingesting

LEMMA FetchPolls ==
    ASSUME Typing, Grows, NEW w \in Syncer, FetchRecentlyPlayed(w), Local(w)
    PROVE  Local(w)' /\ Kept(w)'
<1>1. pc[w] = "fetch" /\ UNCHANGED <<history, signals>>
  BY DEF FetchRecentlyPlayed, dbVars
<1>2. /\ ChainOrdered(w) /\ Len(job[w].chain) <= 1 /\ job[w].at = 1
  BY <1>1 DEF Local, Polling
<1>3. /\ pc'[w] = IF Reported(w) = {} THEN "emit" ELSE "ingest"
      /\ job'[w].chain = job[w].chain /\ job'[w].todo = Reported(w)
      /\ job'[w].fetched = Reported(w) /\ job'[w].at = 1
  BY <1>2, FetchMoves DEF Typing, TakesPlays
<1>4. Recorded' = Recorded
  BY <1>1 DEF Recorded
<1>5. \A i \in Links(w), t \in Reported(w) : Chain(w)[i].play < t
  <2>1. ASSUME NEW i \in Links(w), NEW t \in Reported(w) PROVE Chain(w)[i].play < t
    <3>0. Len(job[w].chain) \in Nat /\ i \in 1..Len(job[w].chain)
      BY JobFacts DEF Links, Typing
    <3>10. \A n \in Nat : n <= 1 => \A k \in 1..n : k = 1 /\ n = 1
      OBVIOUS
    <3>11. Len(job[w].chain) <= 1
      BY <1>2
    <3>1. i = 1 /\ Len(job[w].chain) = 1
      BY <3>0, <3>10, <3>11
    <3>2. job[w].chain # <<>>
      <4>1. Len(<<>>) = 0
        BY EmptySeq
      <4> QED  BY <3>1, <4>1
    <3>3. t > job[w].chain[1].play
      BY <3>2 DEF Reported
    <3>4. Chain(w)[i].play \in Nat
      BY ChainPlays DEF Typing
    <3>5. t \in Nat
      BY Plays, FetchMoves DEF Typing
    <3> QED  BY <3>1, <3>3, <3>4, <3>5 DEF Chain
  <2> QED  BY <2>1
<1>6. ChainOrdered(w)'
  BY <1>2, <1>3, <1>4, <1>5 DEF ChainOrdered, Links, Chain
<1>7. KeptSoFar(w)'
  <2>1. \A i \in Links(w) : ~(i < 1)
    BY JobFacts DEF Links, Typing
  <2> QED  BY <1>3, <2>1 DEF KeptSoFar, Links, Chain
<1> QED  BY <1>3, <1>6, <1>7 DEF Local, Kept, Ingesting

LEMMA DropPolls ==
    ASSUME Typing, Grows, NEW w \in Syncer, pc[w] \in Ingesting, DropPlay(w), Local(w)
    PROVE  Local(w)' /\ Kept(w)'
<1>1. /\ pc'[w] = IF job[w].todo \ {First(w)} = {} THEN "emit" ELSE "ingest"
      /\ job'[w].chain = job[w].chain /\ job'[w].todo = job[w].todo \ {First(w)}
      /\ job'[w].at = job[w].at /\ job'[w].errors
  BY DropMoves DEF LeavesPlay
<1>2. ChainOrdered(w) /\ job[w].at = 1
  BY DEF Local, Polling
<1>3. ChainOrdered(w)'
  BY <1>1, <1>2 DEF ChainOrdered, Links, Chain, Grows
<1>4. KeptSoFar(w)'
  BY <1>1 DEF KeptSoFar
<1> QED  BY <1>1, <1>2, <1>3, <1>4 DEF Local, Kept, Ingesting

LEMMA InsertPolls ==
    ASSUME Typing, Grows, NEW w \in Syncer, InsertPlayHistory(w), Local(w)
    PROVE  Local(w)' /\ Kept(w)'
<1> DEFINE p == First(w)
           c == job[w].chain
           n == Len(c)
<1>0. TypeOK /\ pc[w] = "row"
  BY DEF Typing, InsertPlayHistory
<1>1. /\ pc'[w] = IF job[w].todo \ {p} = {} THEN "emit" ELSE "ingest"
      /\ p \in job[w].todo /\ (\A q \in job[w].todo : p <= q)
      /\ p \in Play /\ NewLink(w) \in Link
      /\ p \in Recorded => job'[w].chain = c
      /\ p \notin Recorded => job'[w].chain = Append(c, NewLink(w))
      /\ job'[w].todo = job[w].todo \ {p} /\ job'[w].fetched = job[w].fetched
      /\ job'[w].at = job[w].at
      /\ job'[w].errors = job[w].errors
  BY InsertMoves DEF LeavesPlay
<1>2. ChainOrdered(w) /\ KeptSoFar(w) /\ job[w].at = 1
  BY <1>0 DEF Local, Polling, Ingesting
<1>3. Recorded' = Recorded \cup {p}
  BY RowInserted
<1>4. c \in Seq(Link) /\ n \in Nat /\ Links(w) = 1..n
  BY <1>0, JobFacts DEF Links
<1>5. \A t \in job[w].todo : t \in Nat
  BY <1>0, JobFacts, Plays
<1>6. \A t \in job[w].todo \ {p} : p < t
  BY <1>1, <1>5
<1>7. CASE p \in Recorded
  <2>2. ChainOrdered(w)'
    BY <1>1, <1>2, <1>7 DEF ChainOrdered, Links, Chain, Grows
  <2>3. KeptSoFar(w)'
    <3>1. \A i \in Links(w) : ~(i < 1)
      BY <1>4
    <3> QED  BY <1>1, <1>2, <1>3, <1>7, <3>1 DEF KeptSoFar, Links, Chain
  <2> QED  BY <1>1, <1>2, <2>2, <2>3 DEF Local, Kept, Ingesting
<1>8. CASE p \notin Recorded
  <2> DEFINE d == Append(c, NewLink(w))
  <2>1. /\ Len(d) = n + 1 /\ (\A i \in 1..n : d[i] = c[i]) /\ d[n + 1] = NewLink(w)
    BY <1>1, <1>4, AppendProperties
  <2>2. job'[w].chain = d
    BY <1>1, <1>8
  <2>3. NewLink(w).play = p /\ NewLink(w).isNew
    BY DEF NewLink
  <2> HIDE DEF d
  <2>4. Links(w)' = 1..(n + 1) /\ \A i \in 1..(n + 1) : i \in 1..n \/ i = n + 1
    BY <1>4, <2>1, <2>2 DEF Links
  <2>5. /\ \A i \in 1..n : d[i] = Chain(w)[i] /\ d[i].play \in Nat
        /\ \A i \in 1..n : d[i].play < p
    BY <1>0, <1>1, <1>2, <1>4, <2>1, ChainPlays DEF Chain, ChainOrdered
  <2>6. \A i \in 1..(n + 1) : d[i].play \in Recorded' /\ (i > 1 => d[i].isNew)
    BY <1>2, <1>3, <1>4, <2>1, <2>3, <2>4, <2>5 DEF ChainOrdered
  <2>7. ASSUME NEW i \in 1..(n + 1), NEW j \in 1..(n + 1), i < j
        PROVE  d[i].play < d[j].play
    <3>1. i \in 1..n
      BY <1>4, <2>7
    <3>2. CASE j \in 1..n
      BY <1>2, <1>4, <2>5, <2>7, <3>1, <3>2 DEF ChainOrdered
    <3>3. CASE j = n + 1
      BY <2>1, <2>3, <2>5, <3>1, <3>3
    <3> QED  BY <2>4, <3>2, <3>3
  <2>8. ASSUME NEW i \in 1..(n + 1), NEW t \in job[w].todo \ {p}
        PROVE  d[i].play < t
    <3>1. CASE i \in 1..n
      BY <1>2, <1>4, <2>5, <3>1 DEF ChainOrdered
    <3>2. CASE i = n + 1
      BY <1>6, <2>1, <2>3, <3>2
    <3> QED  BY <2>4, <3>1, <3>2
  <2>9. ChainOrdered(w)'
    BY <1>1, <2>2, <2>4, <2>6, <2>7, <2>8 DEF ChainOrdered, Chain
  <2>10. KeptSoFar(w)'
    <3>1. \A i \in Links(w)' : ~(i < 1)
      BY <1>4, <2>4
    <3>2. job'[w].at = 1
      BY <1>1, <1>2
    <3>3. \A i \in Links(w)' : ~(i < job'[w].at)
      BY <3>1, <3>2
    <3>4. job'[w].errors \/ job'[w].fetched \subseteq job'[w].todo \cup Recorded'
      BY <1>1, <1>2, <1>3 DEF KeptSoFar
    <3> QED  BY <3>3, <3>4 DEF KeptSoFar
  <2> QED  BY <1>1, <1>2, <2>9, <2>10 DEF Local, Kept, Ingesting
<1> QED  BY <1>7, <1>8

LEMMA PairPolls ==
    ASSUME Typing, Grows, NEW w \in Syncer, EmitFullOrSkip(w) \/ SkipPair(w) \/ EmitFails(w),
           Local(w)
    PROVE  Local(w)' /\ Kept(w)'
<1> DEFINE a == job[w].at
<1>0. TypeOK /\ pc[w] = "emit" /\ PairLeft(w) /\ a \in Nat /\ a >= 1
  BY JobFacts DEF Typing, Places, EmitFullOrSkip, SkipPair, EmitFails
<1>1. /\ pc' = pc /\ job'[w].chain = job[w].chain /\ job'[w].todo = job[w].todo
      /\ job'[w].fetched = job[w].fetched /\ job'[w].at = a + 1
      /\ EmitFails(w) => job'[w].errors
      /\ job[w].errors => job'[w].errors
  BY <1>0, PairMoves DEF TakesPair
<1>2. ChainOrdered(w) /\ KeptSoFar(w) /\ job[w].todo = {}
  BY <1>0 DEF Local, Polling
<1>3. Links(w)' = Links(w) /\ Chain(w)' = Chain(w)
  BY <1>1 DEF Links, Chain
<1>4. ChainOrdered(w)'
  BY <1>1, <1>2, <1>3 DEF ChainOrdered, Grows
<1>5. /\ a \in Links(w) /\ a + 1 \in Links(w)
      /\ Pair(w)[1] = Chain(w)[a] /\ Pair(w)[2] = Chain(w)[a + 1]
  BY <1>0, PairTyped DEF Links, Chain
<1>6. ~EmitFails(w) /\ Chain(w)[a].mbid => signals'[Chain(w)[a].play] # <<>>
  <2>1. Chain(w)[a + 1].isNew
    BY <1>0, <1>2, <1>5 DEF ChainOrdered
  <2>2. CASE SkipPair(w)
    BY <1>5, <2>1, <2>2 DEF SkipPair, Emits
  <2>3. CASE EmitFullOrSkip(w)
    BY <1>5, <2>3, SignalAdded
  <2> QED  BY <2>2, <2>3
<1>7. KeptSoFar(w)'
  <2>1. ASSUME ~job'[w].errors
        PROVE  /\ job'[w].fetched \subseteq job'[w].todo \cup Recorded'
               /\ \A i \in Links(w) : i < a + 1 /\ Chain(w)[i].mbid
                                        => signals'[Chain(w)[i].play] # <<>>
    <3>1. /\ job[w].fetched \subseteq job[w].todo \cup Recorded
          /\ \A i \in Links(w) : i < a /\ Chain(w)[i].mbid => signals[Chain(w)[i].play] # <<>>
          /\ ~EmitFails(w)
      BY <1>1, <1>2, <2>1 DEF KeptSoFar
    <3>2. ASSUME NEW i \in Links(w), i < a + 1, Chain(w)[i].mbid
          PROVE  signals'[Chain(w)[i].play] # <<>>
      <4>1. Chain(w)[i].play \in Play /\ i \in Nat
        BY <1>0, ChainPlays
      <4>2. i < a \/ i = a
        BY <1>0, <3>2, <4>1
      <4>3. CASE i < a
        BY <3>1, <3>2, <4>1, <4>3 DEF Grows
      <4>4. CASE i = a
        BY <1>6, <3>1, <3>2, <4>4
      <4> QED  BY <4>2, <4>3, <4>4
    <3>3. Recorded \subseteq Recorded'
      BY DEF Grows
    <3> QED  BY <1>1, <3>1, <3>2, <3>3
  <2> QED  BY <1>1, <1>3, <2>1 DEF KeptSoFar
<1> QED  BY <1>0, <1>1, <1>2, <1>4, <1>7 DEF Local, Kept, Ingesting

LEMMA EndPolls ==
    ASSUME Typing, Grows, NEW w \in Syncer, FetchFails(w) \/ Finish(w) \/ CutOff(w), Local(w)
    PROVE  Local(w)' /\ Kept(w)'
<1>0. TypeOK /\ pc'[w] = "idle" /\ job'[w] = job[w]
  BY KeepsMoves DEF Typing, Keeps, KeepsLocals
<1>1. Local(w)'
  BY <1>0 DEF Local, Polling, Ingesting
<1>2. CASE FetchFails(w) \/ CutOff(w)
  <2>1. status'[w] # "ok"
    BY <1>0, <1>2, ListeningConstants DEF FetchFails, CutOff, TypeOK
  <2> QED  BY <1>1, <2>1 DEF Kept
<1>3. CASE Finish(w)
  <2>1. pc[w] = "emit" /\ ~PairLeft(w) /\ UNCHANGED <<history, signals>>
    BY <1>3 DEF Finish, dbVars
  <2>2. status'[w] = "ok" => ~job[w].errors
    BY <1>0, <1>3 DEF Finish, TypeOK
  <2>3. KeptSoFar(w) /\ job[w].todo = {}
    BY <2>1 DEF Local, Polling
  <2>4. \A i \in 1..Len(job[w].chain) - 1 : i \in Links(w) /\ i < job[w].at
    BY <1>0, <2>1, JobFacts DEF PairLeft, Links
  <2>5. ~job[w].errors =>
          /\ job[w].fetched \subseteq Recorded
          /\ \A i \in 1..Len(job[w].chain) - 1 :
               job[w].chain[i].mbid => signals[job[w].chain[i].play] # <<>>
    BY <2>3, <2>4 DEF KeptSoFar, Chain
  <2>6. Recorded' = Recorded
    BY <2>1 DEF Recorded
  <2>7. Kept(w)'
    BY <1>0, <2>1, <2>2, <2>5, <2>6 DEF Kept
  <2> QED  BY <1>1, <2>7
<1> QED  BY <1>2, <1>3

LEMMA SyncPolls ==
    ASSUME Typing, Grows, NEW w \in Syncer, Sync(w), Local(w)
    PROVE  Local(w)' /\ Kept(w)'
<1>0. TypeOK
  BY DEF Typing
<1>1. CASE CacheHit(w) \/ LookupHit(w) \/ Unresolved(w)
  <2>1. pc[w] \in Ingesting /\ pc'[w] \in Ingesting /\ SameChain(w)
    BY <1>0, <1>1, IdsMove, UnresolvedMoves
    DEF CacheHit, LookupHit, Unresolved, Ingesting, TakesIds, TakesNoId, SameChain
  <2> QED  BY <2>1, StepKeepsChain
<1>2. CASE UpsertArtist(w) \/ UpsertAlbum(w) \/ UpsertTrack(w)
  <2>1. pc[w] \in Ingesting /\ pc'[w] \in Ingesting /\ SameChain(w)
    BY <1>0, <1>2, KeepsMoves
    DEF Keeps, KeepsLocals, UpsertArtist, UpsertAlbum, UpsertTrack, Ingesting, SameChain
  <2> QED  BY <2>1, StepKeepsChain
<1>3. CASE ParentMissing(w) \/ IngestFails(w)
  <2>1. pc[w] \in Ingesting /\ DropPlay(w)
    BY <1>3 DEF ParentMissing, IngestFails, Ingesting
  <2> QED  BY <2>1, DropPolls
<1> QED
  BY <1>1, <1>2, <1>3, StartPolls, LoadPolls, FetchPolls, InsertPolls, PairPolls, EndPolls
  DEF Sync, Ingest

LEMMA PollInit == Init => PollInv
<1> SUFFICES ASSUME Init, NEW w \in Syncer PROVE Local(w) /\ Kept(w)
  BY DEF PollInv
<1>1. pc[w] = "idle" /\ status[w] # "ok"
  BY ListeningConstants DEF Init
<1> QED  BY <1>1 DEF Local, Kept, Polling, Ingesting

LEMMA PollNext == Typing /\ PollInv /\ [Next]_vars => PollInv'
<1> SUFFICES ASSUME Typing, PollInv, [Next]_vars, NEW v \in Syncer
             PROVE  Local(v)' /\ Kept(v)'
  BY DEF PollInv
<1>0. Grows /\ Local(v) /\ Kept(v)
  BY GrowsNext DEF PollInv
<1>1. CASE UNCHANGED <<pc, job, status>>
  BY <1>0, <1>1, OthersStay
<1>2. ASSUME NEW w \in Syncer, Sync(w) PROVE Local(v)' /\ Kept(v)'
  <2>1. CASE v = w
    BY <1>0, <1>2, <2>1, SyncPolls
  <2>2. CASE v # w
    BY <1>0, <1>2, <2>2, ControlTyped, OthersStay DEF OneMoves
  <2> QED  BY <2>1, <2>2
<1> QED  BY <1>1, <1>2 DEF Next, vars, PlayTrack

\* A poll that ends "ok" has every play it fetched in play_history and a signal for each
\* resolved play of its chain but the last, whoever else polls the same user.
THEOREM OkPollCorrect == Spec => []OkPollKeptEverything
<1>1. PollInv => OkPollKeptEverything
  BY DEF PollInv, Kept, OkPollKeptEverything
<1> QED  BY <1>1, TypingAlways, PollInit, PollNext, PTL DEF Spec

LEMMA PollAlways == Spec => [](Typing /\ PollInv)
BY TypingAlways, PollInit, PollNext, PTL DEF Spec

-----------------------------------------------------------------------------
(* One poll at a time: each play gets one signal.                           *)

\* No two callers are past LoadLastKnownPlay at once; up to it they overlap as they like.
OnePoll == \A v, w \in Syncer : v # w => pc[v] \notin Polling \/ pc[w] \notin Polling

\* A step of w while nobody else polls, and one while w does not.
Alone(w) == \A v \in Syncer \ {w} : pc[v] \notin Polling /\ pc'[v] \notin Polling
Outside(w) == pc[w] \notin Polling /\ pc'[w] \notin Polling

LEMMA AloneOrOutside ==
    ASSUME Typing, OnePoll, OnePoll', NEW w \in Syncer, Sync(w)
    PROVE  OneMoves(w) /\ (Alone(w) \/ Outside(w))
<1>1. OneMoves(w)
  BY ControlTyped
<1>2. ASSUME pc[w] \in Polling PROVE Alone(w)
  BY <1>1, <1>2 DEF OnePoll, Alone, OneMoves
<1>3. ASSUME pc'[w] \in Polling PROVE Alone(w)
  <2>1. \A v \in Syncer \ {w} : pc'[v] \notin Polling
    BY <1>3 DEF OnePoll
  <2> QED  BY <1>1, <2>1 DEF Alone, OneMoves
<1> QED  BY <1>1, <1>2, <1>3 DEF Outside

LEMMA OutsideWrites ==
    ASSUME NEW w \in Syncer, Sync(w), Outside(w)
    PROVE  UNCHANGED <<history, signals>>
BY DEF Outside, Polling, Ingesting, Sync, Ingest, Start, AccessToken, LoadLastKnownPlay,
       FetchRecentlyPlayed, FetchFails, CacheHit, LookupHit, Unresolved, UpsertArtist,
       UpsertAlbum, UpsertTrack, InsertPlayHistory, ParentMissing, IngestFails, DropPlay,
       EmitFullOrSkip, SkipPair, EmitFails, Finish, CutOff, dbVars

\* A play that has a signal is recorded, and so is a later one.
Signalled ==
    \A p \in Play :
        /\ Len(signals[p]) <= 1
        /\ signals[p] # <<>> => p \in Recorded /\ \E q \in Recorded : q > p

\* What a poll has not passed in its chain has no signal.
Ahead(w) ==
    pc[w] \in Polling =>
        \A i \in Links(w) : i >= job[w].at => signals[Chain(w)[i].play] = <<>>

SigInv == Signalled /\ \A w \in Syncer : Ahead(w)

\* The steps that neither start a chain, nor add to it, nor go on in it.
Elsewhere(w) ==
    \/ AccessToken(w) \/ FetchRecentlyPlayed(w) \/ FetchFails(w) \/ CacheHit(w)
    \/ LookupHit(w) \/ Unresolved(w) \/ UpsertArtist(w) \/ UpsertAlbum(w) \/ UpsertTrack(w)
    \/ ParentMissing(w) \/ IngestFails(w) \/ Finish(w) \/ CutOff(w)

LEMMA ElsewhereKeeps ==
    ASSUME Typing, NEW w \in Syncer, Elsewhere(w)
    PROVE  /\ job'[w].chain = job[w].chain /\ job'[w].at = job[w].at
           /\ UNCHANGED <<history, signals>>
           /\ pc'[w] \in Polling => pc[w] \in Polling
           /\ ~FetchRecentlyPlayed(w) /\ ~ParentMissing(w) /\ ~IngestFails(w)
                => job'[w].todo = job[w].todo
<1>0. TypeOK
  BY DEF Typing
<1>1. CASE Keeps(w)
  <2>1. job'[w] = job[w] /\ UNCHANGED <<history, signals>>
    BY <1>0, <1>1, KeepsMoves
    DEF KeepsLocals, Keeps, AccessToken, FetchFails, UpsertArtist, UpsertAlbum, UpsertTrack,
        Finish, CutOff, dbVars
  <2>2. pc'[w] \in Polling => pc[w] \in Polling
    <3>1. CASE AccessToken(w) \/ FetchFails(w) \/ Finish(w) \/ CutOff(w)
      BY <1>0, <1>1, <3>1, KeepsMoves DEF Polling, Ingesting
    <3>2. CASE UpsertArtist(w) \/ UpsertAlbum(w) \/ UpsertTrack(w)
      BY <3>2 DEF UpsertArtist, UpsertAlbum, UpsertTrack, Polling, Ingesting
    <3> QED  BY <1>1, <3>1, <3>2 DEF Keeps
  <2> QED  BY <2>1, <2>2
<1>2. CASE FetchRecentlyPlayed(w)
  <2>1. job'[w].chain = job[w].chain /\ job'[w].at = job[w].at
    BY <1>0, <1>2, FetchMoves DEF TakesPlays
  <2> QED  BY <1>2, <2>1 DEF FetchRecentlyPlayed, dbVars, Polling
<1>3. CASE CacheHit(w) \/ LookupHit(w) \/ Unresolved(w)
  <2>1. /\ job'[w].chain = job[w].chain /\ job'[w].at = job[w].at
        /\ job'[w].todo = job[w].todo
    BY <1>0, <1>3, IdsMove, UnresolvedMoves DEF TakesIds, TakesNoId
  <2> QED
    BY <1>3, <2>1 DEF CacheHit, LookupHit, Unresolved, dbVars, Polling, Ingesting
<1>4. CASE ParentMissing(w) \/ IngestFails(w)
  <2>1. pc[w] \in Ingesting /\ DropPlay(w)
    BY <1>4 DEF ParentMissing, IngestFails, Ingesting
  <2>2. job'[w].chain = job[w].chain /\ job'[w].at = job[w].at
    BY <2>1, DropMoves DEF LeavesPlay
  <2> QED  BY <1>4, <2>1, <2>2 DEF DropPlay, dbVars, Polling
<1> QED  BY <1>1, <1>2, <1>3, <1>4 DEF Elsewhere, Keeps

LEMMA SyncSteps ==
    ASSUME NEW w \in Syncer, Sync(w)
    PROVE  \/ Start(w) \/ LoadLastKnownPlay(w) \/ InsertPlayHistory(w)
           \/ EmitFullOrSkip(w) \/ SkipPair(w) \/ EmitFails(w) \/ Elsewhere(w)
BY DEF Sync, Ingest, Elsewhere

LEMMA SignalledNext ==
    ASSUME Typing, PollInv, SigInv, [Next]_vars
    PROVE  Signalled'
<1>0. Grows /\ Signalled /\ TypeOK
  BY GrowsNext DEF SigInv, Typing
<1>1. CASE UNCHANGED signals
  BY <1>0, <1>1 DEF Signalled, Grows
<1>2. ASSUME NEW w \in Syncer, EmitFullOrSkip(w) PROVE Signalled'
  <2> DEFINE p == Pair(w)[1].play
             q == Pair(w)[2].play
             a == job[w].at
  <2>1. /\ a \in Links(w) /\ a + 1 \in Links(w) /\ a >= a /\ a < a + 1
        /\ p = Chain(w)[a].play /\ q = Chain(w)[a + 1].play /\ p \in Play /\ q \in Play
    BY <1>0, <1>2, PairTyped, JobFacts DEF EmitFullOrSkip, Typing, Places, Links, Chain
  <2>2. pc[w] \in Polling /\ ChainOrdered(w) /\ Ahead(w)
    BY <1>2 DEF EmitFullOrSkip, PollInv, Local, SigInv, Polling
  <2>3. p \in Recorded /\ q \in Recorded /\ p < q
    BY <2>1, <2>2 DEF ChainOrdered
  <2>4. signals[p] = <<>>
    BY <2>1, <2>2 DEF Ahead
  <2>5. Len(signals'[p]) = Len(signals[p]) + 1 /\ \A r \in Play \ {p} : signals'[r] = signals[r]
    BY <1>2, SignalAdded
  <2>6. Len(signals'[p]) <= 1
    <3>1. Len(<<>>) = 0
      BY EmptySeq
    <3> QED  BY <2>4, <2>5, <3>1
  <2>7. Recorded \subseteq Recorded'
    BY <1>0 DEF Grows
  <2>8. q > p
    BY <2>1, <2>3, Plays
  <2> HIDE DEF p, q
  <2>9. ASSUME NEW r \in Play
        PROVE  /\ Len(signals'[r]) <= 1
               /\ signals'[r] # <<>> => r \in Recorded' /\ \E s \in Recorded' : s > r
    <3>1. CASE r = p
      BY <2>3, <2>6, <2>7, <2>8, <3>1
    <3>2. CASE r # p
      BY <1>0, <2>5, <2>7, <3>2 DEF Signalled
    <3> QED  BY <3>1, <3>2
  <2> QED  BY <2>9 DEF Signalled
<1> QED
  BY <1>1, <1>2
  DEF Next, vars, dbVars, Sync, Ingest, PlayTrack, Start, AccessToken, LoadLastKnownPlay,
      FetchRecentlyPlayed, FetchFails, CacheHit, LookupHit, Unresolved, UpsertArtist,
      UpsertAlbum, UpsertTrack, InsertPlayHistory, ParentMissing, IngestFails, DropPlay,
      SkipPair, EmitFails, Finish, CutOff

LEMMA AheadNext ==
    ASSUME Typing, PollInv, SigInv, NEW w \in Syncer, Sync(w)
    PROVE  Ahead(w)'
<1>0. Signalled /\ Ahead(w) /\ TypeOK /\ Local(w)
  BY DEF SigInv, Typing, PollInv
<1>1. CASE Start(w)
  BY <1>0, <1>1, StartMoves DEF Ahead, Polling, Ingesting
<1>2. CASE LoadLastKnownPlay(w)
  <2>1. UNCHANGED signals
    BY <1>2 DEF LoadLastKnownPlay, dbVars
  <2>2. CASE Recorded = {}
    <3>1. job'[w].chain = <<>>
      BY <1>0, <1>2, <2>2, LoadMoves DEF TakesChain
    <3>2. Len(<<>>) = 0 /\ 1..0 = {}
      BY EmptySeq
    <3> QED  BY <3>1, <3>2 DEF Ahead, Links, Chain
  <2>3. CASE Recorded # {}
    <3> DEFINE link == [play |-> F!Max(Recorded), isNew |-> FALSE,
                        mbid |-> history[F!Max(Recorded)] = "resolved"]
    <3>1. /\ job'[w].chain = <<link>> /\ F!Max(Recorded) \in Recorded
          /\ \A q \in Recorded : F!Max(Recorded) >= q
      BY <1>0, <1>2, <2>3, LoadMoves DEF TakesChain
    <3>2. link.play = F!Max(Recorded)
      OBVIOUS
    <3>3. signals[F!Max(Recorded)] = <<>>
      <4>1. \A q \in Recorded : q \in Play /\ q \in Nat
        BY Plays DEF Recorded
      <4>2. \A q \in Recorded : ~(q > F!Max(Recorded))
        BY <3>1, <4>1
      <4> QED  BY <1>0, <3>1, <4>1, <4>2 DEF Signalled
    <3> HIDE DEF link
    <3>4. Len(<<link>>) = 1 /\ <<link>>[1] = link /\ 1..1 = {1}
      OBVIOUS
    <3> QED  BY <2>1, <3>1, <3>2, <3>3, <3>4 DEF Ahead, Links, Chain
  <2> QED  BY <2>2, <2>3
<1>3. CASE InsertPlayHistory(w)
  <2> DEFINE p == First(w)
             c == job[w].chain
             n == Len(c)
             d == Append(c, NewLink(w))
  <2>1. /\ p \in Play /\ NewLink(w) \in Link
        /\ p \in Recorded => job'[w].chain = c
        /\ p \notin Recorded => job'[w].chain = d
        /\ job'[w].at = job[w].at
    BY <1>3, InsertMoves DEF LeavesPlay
  <2>2. UNCHANGED signals /\ pc[w] \in Polling
    BY <1>3 DEF InsertPlayHistory, Polling, Ingesting
  <2>3. CASE p \in Recorded
    BY <1>0, <2>1, <2>2, <2>3 DEF Ahead, Links, Chain
  <2>4. CASE p \notin Recorded
    <3>1. c \in Seq(Link) /\ n \in Nat
      BY <1>0, JobFacts
    <3>2. Len(d) = n + 1 /\ (\A i \in 1..n : d[i] = c[i]) /\ d[n + 1] = NewLink(w)
      BY <2>1, <3>1, AppendProperties
    <3>3. signals[p] = <<>> /\ NewLink(w).play = p
      BY <1>0, <2>1, <2>4 DEF Signalled, NewLink
    <3> HIDE DEF d
    <3>4. \A i \in 1..(n + 1) : i \in 1..n \/ i = n + 1
      BY <3>1
    <3>5. \A i \in 1..n : i >= job[w].at => signals[c[i].play] = <<>>
      BY <1>0, <2>2 DEF Ahead, Links, Chain
    <3>6. \A i \in 1..(n + 1) : i >= job[w].at => signals[d[i].play] = <<>>
      BY <3>2, <3>3, <3>4, <3>5
    <3> QED  BY <2>1, <2>2, <2>4, <3>2, <3>6 DEF Ahead, Links, Chain
  <2> QED  BY <2>3, <2>4
<1>4. CASE EmitFullOrSkip(w) \/ SkipPair(w) \/ EmitFails(w)
  <2> DEFINE a == job[w].at
  <2>1. pc[w] = "emit" /\ PairLeft(w) /\ a \in Nat /\ a >= 1
    BY <1>0, <1>4, JobFacts DEF EmitFullOrSkip, SkipPair, EmitFails, Typing, Places
  <2>2. job'[w].chain = job[w].chain /\ job'[w].at = a + 1
    BY <1>0, <1>4, PairMoves DEF TakesPair
  <2>3. ChainOrdered(w) /\ pc[w] \in Polling
    BY <1>0, <2>1 DEF Local, Polling
  <2>4. a \in Links(w) /\ Pair(w)[1] = Chain(w)[a]
    BY <1>0, <2>1, PairTyped DEF Links, Chain
  <2>5. ASSUME NEW i \in Links(w), i >= a + 1
        PROVE  signals'[Chain(w)[i].play] = <<>>
    <3>1. /\ Chain(w)[i].play \in Play /\ Chain(w)[i].play \in Nat /\ i \in Nat
          /\ Chain(w)[a].play \in Play /\ Chain(w)[a].play \in Nat
      BY <1>0, <2>4, ChainPlays
    <3>2. a < i /\ i >= a
      BY <2>1, <2>5, <3>1
    <3>3. Chain(w)[a].play < Chain(w)[i].play
      BY <2>3, <2>4, <3>2 DEF ChainOrdered
    <3>4. Chain(w)[i].play # Chain(w)[a].play
      BY <3>1, <3>3
    <3>5. signals[Chain(w)[i].play] = <<>>
      BY <1>0, <2>3, <3>2 DEF Ahead
    <3>6. CASE EmitFullOrSkip(w)
      BY <2>4, <3>1, <3>4, <3>5, <3>6, SignalAdded
    <3>7. CASE SkipPair(w) \/ EmitFails(w)
      BY <3>5, <3>7 DEF SkipPair, EmitFails, dbVars
    <3> QED  BY <1>4, <3>6, <3>7
  <2>6. Links(w)' = Links(w) /\ Chain(w)' = Chain(w)
    BY <2>2 DEF Links, Chain
  <2> QED  BY <2>2, <2>5, <2>6 DEF Ahead
<1>5. CASE Elsewhere(w)
  BY <1>0, <1>5, ElsewhereKeeps DEF Ahead, Links, Chain
<1> QED  BY <1>1, <1>2, <1>3, <1>4, <1>5, SyncSteps

LEMMA SigInit == Init => SigInv
<1> SUFFICES ASSUME Init PROVE SigInv
  OBVIOUS
<1>1. \A p \in Play : signals[p] = <<>>
  BY DEF Init
<1>2. Len(<<>>) = 0 /\ 0 <= 1
  BY EmptySeq
<1>3. \A w \in Syncer : pc[w] = "idle"
  BY DEF Init
<1> QED  BY <1>1, <1>2, <1>3 DEF SigInv, Signalled, Ahead, Polling, Ingesting

LEMMA SigNext ==
    OnePoll /\ OnePoll' /\ Typing /\ PollInv /\ SigInv /\ [Next]_vars => SigInv'
<1> SUFFICES ASSUME OnePoll, OnePoll', Typing, PollInv, SigInv, [Next]_vars PROVE SigInv'
  OBVIOUS
<1>1. Signalled'
  BY SignalledNext
<1>2. ASSUME NEW v \in Syncer PROVE Ahead(v)'
  <2>1. CASE UNCHANGED <<pc, job, signals>>
    BY <2>1 DEF SigInv, Ahead, Links, Chain
  <2>2. ASSUME NEW w \in Syncer, Sync(w) PROVE Ahead(v)'
    <3>1. OneMoves(w) /\ (Alone(w) \/ Outside(w))
      BY <2>2, AloneOrOutside
    <3>2. CASE v = w
      BY <2>2, <3>2, AheadNext
    <3>3. CASE v # w /\ Alone(w)
      BY <3>3 DEF Alone, Ahead
    <3>4. CASE v # w /\ Outside(w)
      <4>1. UNCHANGED signals /\ pc'[v] = pc[v] /\ job'[v] = job[v]
        BY <2>2, <3>1, <3>4, OutsideWrites DEF OneMoves
      <4> QED  BY <4>1 DEF SigInv, Ahead, Links, Chain
    <3> QED  BY <3>1, <3>2, <3>3, <3>4
  <2> QED  BY <2>1, <2>2 DEF Next, vars, dbVars, PlayTrack
<1> QED  BY <1>1, <1>2 DEF SigInv

LEMMA SigAlways == Spec /\ []OnePoll => [](Typing /\ PollInv /\ SigInv)
<1>1. OnePoll /\ OnePoll' /\ Typing /\ PollInv /\ SigInv /\ [Next]_vars => SigInv'
  BY SigNext
<1> QED  BY <1>1, PollAlways, SigInit, PTL DEF Spec

\* "That guarantees exactly-once emission": no play gets two signals, over all polls, for
\* any number of callers, as long as no two polls overlap once they have read the last
\* known play.
THEOREM OneSignalCorrect == Spec /\ []OnePoll => []OneSignalPerPlay
<1>1. SigInv => OneSignalPerPlay
  BY DEF SigInv, Signalled, OneSignalPerPlay
<1> QED  BY <1>1, SigAlways, PTL

-----------------------------------------------------------------------------
(* One poll at a time, nothing lost: the signals are those the plays imply. *)

\* The signals EmittedUpToLast asks for.
Expected(p) ==
    IF p + 1 \in Recorded /\ history[p] = "resolved"
    THEN <<[next |-> p + 1, kind |-> Verdict(p, p + 1)]>>
    ELSE <<>>

\* The first play of a pair of the chain that is still to be passed.
Pending(w, p) ==
    /\ pc[w] \in Polling
    /\ \E i \in Links(w) : i >= job[w].at /\ i < Len(Chain(w)) /\ Chain(w)[i].play = p

\* No play was recorded before an earlier one.
InOrder == \A p \in Recorded, q \in Play : q < p => q \in Recorded

\* The list goes on where play_history ends, and the chain ends there.
ListFollows(w) ==
    /\ job[w].todo \cap Recorded = {}
    /\ \A t \in job[w].todo, q \in Play : q < t => q \in Recorded \cup job[w].todo

ChainEnds(w) ==
    /\ Chain(w) = <<>> => Recorded = {}
    /\ Chain(w) # <<>> => \A q \in Recorded : q <= Chain(w)[Len(Chain(w))].play

\* The chain has no holes, and it says of its plays what play_history says.
ChainFaithful(w) ==
    \A i \in Links(w) :
        /\ i < Len(Chain(w)) => Chain(w)[i + 1].play = Chain(w)[i].play + 1
        /\ Chain(w)[i].mbid <=> history[Chain(w)[i].play] = "resolved"

CaughtUp(w) == pc[w] \in Polling => ListFollows(w) /\ ChainEnds(w) /\ ChainFaithful(w)

SignalsDue == \A p \in Recorded : signals[p] = Expected(p) \/ \E w \in Syncer : Pending(w, p)

Lossless == InOrder /\ SignalsDue /\ \A w \in Syncer : CaughtUp(w)

LEMMA OnlyHere ==
    ASSUME NEW w \in Syncer, Alone(w), NEW v \in Syncer, NEW p, Pending(v, p)
    PROVE  v = w
BY DEF Alone, Pending

\* What a step of w must show, while nobody else polls.
Shown(w) == InOrder' /\ CaughtUp(w)' /\ SignalsDue'

\* The steps that change no play, no signal and no pair.
LEMMA QuietShown ==
    ASSUME Lossless, NEW w \in Syncer, Alone(w), UNCHANGED <<history, signals>>,
           pc'[w] \in Polling => /\ pc[w] \in Polling /\ job'[w].chain = job[w].chain
                                 /\ job'[w].at = job[w].at /\ job'[w].todo = job[w].todo,
           \A p \in Recorded : Pending(w, p) => pc'[w] \in Polling
    PROVE  Shown(w)
<1>1. Recorded' = Recorded
  BY DEF Recorded
<1>2. InOrder'
  BY <1>1 DEF Lossless, InOrder
<1>3. CaughtUp(w)'
  BY <1>1
  DEF Lossless, CaughtUp, ListFollows, ChainEnds, ChainFaithful, Links, Chain
<1>4. \A p \in Recorded : Expected(p)' = Expected(p)
  BY <1>1 DEF Expected, Verdict
<1>5. \A p \in Recorded : Pending(w, p) => Pending(w, p)'
  BY DEF Pending, Links, Chain
<1>6. SignalsDue'
  <2>1. \A p \in Recorded : signals[p] = Expected(p) \/ Pending(w, p)
    BY OnlyHere DEF Lossless, SignalsDue
  <2> QED  BY <1>1, <1>4, <1>5, <2>1 DEF SignalsDue
<1> QED  BY <1>2, <1>3, <1>6 DEF Shown

LEMMA LoadShown ==
    ASSUME Typing, PollInv, Lossless, NEW w \in Syncer, Alone(w), LoadLastKnownPlay(w)
    PROVE  Shown(w)
<1>0. TypeOK /\ Local(w)
  BY DEF Typing, PollInv
<1>1. /\ pc[w] = "load" /\ job[w] = NoJob /\ NoJob.todo = {}
      /\ UNCHANGED <<history, signals>>
  BY <1>0 DEF LoadLastKnownPlay, Local, NoJob, dbVars
<1>2. Recorded' = Recorded
  BY <1>1 DEF Recorded
<1>3. InOrder'
  BY <1>2 DEF Lossless, InOrder
<1>4. \A p \in Recorded : Expected(p)' = Expected(p) /\ signals[p] = Expected(p)
  <2>1. \A v \in Syncer, p \in Recorded : ~Pending(v, p)
    BY <1>1 DEF Alone, Pending, Polling, Ingesting
  <2> QED  BY <1>1, <1>2, <2>1 DEF Expected, Verdict, Lossless, SignalsDue
<1>5. SignalsDue'
  BY <1>1, <1>2, <1>4 DEF SignalsDue
<1>6. job'[w].todo = {}
  BY <1>0, <1>1, LoadMoves DEF TakesChain
<1>7. ListFollows(w)'
  BY <1>6 DEF ListFollows
<1>8. ChainEnds(w)' /\ ChainFaithful(w)'
  <2>1. CASE Recorded = {}
    <3>1. job'[w].chain = <<>>
      BY <1>0, <2>1, LoadMoves DEF TakesChain
    <3>2. Len(<<>>) = 0 /\ 1..0 = {}
      BY EmptySeq
    <3> QED  BY <1>2, <2>1, <3>1, <3>2 DEF ChainEnds, ChainFaithful, Links, Chain
  <2>2. CASE Recorded # {}
    <3> DEFINE link == [play |-> F!Max(Recorded), isNew |-> FALSE,
                        mbid |-> history[F!Max(Recorded)] = "resolved"]
    <3>1. /\ job'[w].chain = <<link>> /\ F!Max(Recorded) \in Recorded
          /\ \A q \in Recorded : F!Max(Recorded) >= q
      BY <1>0, <2>2, LoadMoves DEF TakesChain
    <3>2. link.play = F!Max(Recorded) /\ (link.mbid <=> history[link.play] = "resolved")
      OBVIOUS
    <3>3. \A q \in Recorded : q <= link.play
      <4>1. \A q \in Recorded : q \in Nat
        BY Plays DEF Recorded
      <4> QED  BY <3>1, <3>2, <4>1
    <3> HIDE DEF link
    <3>4. Len(<<link>>) = 1 /\ <<link>>[1] = link /\ 1..1 = {1} /\ ~(1 < 1)
      OBVIOUS
    <3>5. ChainEnds(w)'
      BY <1>2, <2>2, <3>1, <3>3, <3>4 DEF ChainEnds, Chain
    <3>6. ChainFaithful(w)'
      BY <1>1, <3>1, <3>2, <3>4 DEF ChainFaithful, Links, Chain
    <3> QED  BY <3>5, <3>6
  <2> QED  BY <2>1, <2>2
<1> QED  BY <1>3, <1>5, <1>7, <1>8 DEF Shown, CaughtUp

LEMMA FetchShown ==
    ASSUME Typing, PollInv, Lossless, ~gap', NEW w \in Syncer, Alone(w),
           FetchRecentlyPlayed(w)
    PROVE  Shown(w)
<1>0. TypeOK /\ Local(w) /\ CaughtUp(w)
  BY DEF Typing, PollInv, Lossless
<1> DEFINE c == job[w].chain
           n == Len(c)
<1>1. /\ pc[w] = "fetch" /\ pc[w] \in Polling /\ UNCHANGED <<history, signals>>
      /\ Reported(w) = Unseen(w)
  BY DEF FetchRecentlyPlayed, dbVars, Polling
<1>2. n \in Nat /\ n <= 1 /\ job[w].at = 1 /\ ChainOrdered(w)
  BY <1>0, <1>1, JobFacts DEF Local
<1>3. /\ job'[w].chain = c /\ job'[w].todo = Unseen(w) /\ job'[w].at = job[w].at
      /\ Unseen(w) \in SUBSET Play
  BY <1>0, <1>1, FetchMoves DEF TakesPlays
<1>4. Recorded' = Recorded
  BY <1>1 DEF Recorded
<1>5. InOrder'
  BY <1>4 DEF Lossless, InOrder
<1>6. SignalsDue'
  <2>1. \A k \in Nat : k <= 1 => \A i \in 1..k : ~(i < k)
    OBVIOUS
  <2>2. \A i \in Links(w) : ~(i < Len(Chain(w)))
    BY <1>2, <2>1 DEF Links, Chain
  <2>3. \A v \in Syncer, p \in Recorded : ~Pending(v, p)
    BY <2>2 DEF Alone, Pending
  <2>4. \A p \in Recorded : Expected(p)' = Expected(p) /\ signals[p] = Expected(p)
    BY <1>1, <1>4, <2>3 DEF Expected, Verdict, Lossless, SignalsDue
  <2> QED  BY <1>1, <1>4, <2>4 DEF SignalsDue
<1>7. ChainEnds(w)' /\ ChainFaithful(w)'
  BY <1>0, <1>1, <1>3, <1>4 DEF CaughtUp, ChainEnds, ChainFaithful, Links, Chain
<1>8. c # <<>> => 1 \in Links(w) /\ n = 1
  <2>1. ASSUME c # <<>> PROVE n # 0
    BY <1>0, <2>1, JobFacts, EmptySeq
  <2>2. \A k \in Nat : k <= 1 /\ k # 0 => k = 1 /\ 1 \in 1..k
    OBVIOUS
  <2> QED  BY <1>2, <2>1, <2>2 DEF Links
<1>9. \A q \in Play : q \in Nat
  BY Plays
<1>10. Recorded \in SUBSET Play
  BY DEF Recorded
<1>11. ASSUME c # <<>>
       PROVE  /\ c[1].play \in Recorded /\ c[1].play \in Nat
              /\ \A q \in Recorded : q <= c[1].play
  BY <1>0, <1>1, <1>2, <1>8, <1>9, <1>10, <1>11 DEF CaughtUp, ChainEnds, ChainOrdered, Chain
<1>12. ListFollows(w)'
  <2>1. ASSUME NEW t \in Unseen(w), t \in Recorded PROVE FALSE
    <3>1. CASE c = <<>>
      BY <1>0, <1>1, <2>1, <3>1 DEF CaughtUp, ChainEnds, Chain
    <3>2. CASE c # <<>>
      <4>1. t > c[1].play
        BY <3>2 DEF Unseen
      <4> QED  BY <1>9, <1>10, <1>11, <2>1, <3>2, <4>1
    <3> QED  BY <3>1, <3>2
  <2>2. ASSUME NEW t \in Unseen(w), NEW q \in Play, q < t
        PROVE  q \in Recorded \cup Unseen(w)
    <3>1. q \in 1..played
      <4>1. t \in 1..played /\ played \in Nat /\ q \in Nat /\ q >= 1
        BY <1>0, Plays DEF Unseen, TypeOK
      <4> QED  BY <2>2, <4>1
    <3>2. CASE c = <<>>
      BY <3>1, <3>2 DEF Unseen
    <3>3. CASE c # <<>> /\ q > c[1].play
      BY <3>1, <3>3 DEF Unseen
    <3>4. CASE c # <<>> /\ ~(q > c[1].play)
      <4>1. q = c[1].play \/ q < c[1].play
        BY <1>9, <1>11, <3>4
      <4> QED  BY <1>11, <3>4, <4>1 DEF Lossless, InOrder
    <3> QED  BY <3>2, <3>3, <3>4
  <2> QED  BY <1>3, <1>4, <2>1, <2>2 DEF ListFollows
<1> QED  BY <1>5, <1>6, <1>7, <1>12 DEF Shown, CaughtUp

LEMMA InsertShown ==
    ASSUME Typing, PollInv, SigInv, Lossless, NEW w \in Syncer, Alone(w),
           InsertPlayHistory(w)
    PROVE  Shown(w)
<1> DEFINE p == First(w)
           c == job[w].chain
           n == Len(c)
           d == Append(c, NewLink(w))
<1>0. TypeOK /\ Local(w) /\ CaughtUp(w) /\ Signalled
  BY DEF Typing, PollInv, Lossless, SigInv
<1>1. pc[w] = "row" /\ pc[w] \in Polling /\ UNCHANGED signals
  BY DEF InsertPlayHistory, Polling, Ingesting
<1>2. ChainOrdered(w) /\ job[w].at = 1 /\ ListFollows(w) /\ ChainEnds(w) /\ ChainFaithful(w)
  BY <1>0, <1>1 DEF Local, CaughtUp, Ingesting
<1>3. /\ p \in job[w].todo /\ (\A q \in job[w].todo : p <= q)
      /\ p \in Play /\ NewLink(w) \in Link
      /\ p \notin Recorded => job'[w].chain = d
      /\ job'[w].todo = job[w].todo \ {p} /\ job'[w].at = job[w].at
      /\ pc'[w] \in Polling
  BY InsertMoves DEF LeavesPlay, Polling, Ingesting
<1>4. p \notin Recorded /\ job'[w].chain = d
  BY <1>2, <1>3 DEF ListFollows
<1>5. /\ Recorded' = Recorded \cup {p}
      /\ history'[p] = IF job[w].mbid THEN "resolved" ELSE "unresolved"
      /\ \A q \in Recorded : history'[q] = history[q]
  BY <1>4, RowInserted DEF Recorded
<1>6. c \in Seq(Link) /\ n \in Nat /\ job[w].todo \in SUBSET Play
  BY <1>0, JobFacts
<1>7. /\ Len(d) = n + 1 /\ (\A i \in 1..n : d[i] = c[i]) /\ d[n + 1] = NewLink(w)
      /\ d # <<>>
  BY <1>3, <1>6, AppendProperties
<1>8. NewLink(w).play = p /\ NewLink(w).mbid = job[w].mbid
  BY DEF NewLink
<1>9. job[w].mbid \in BOOLEAN
  BY <1>0, JobFacts
<1> HIDE DEF d, p
<1>10. \A q \in Play : q \in Nat
  BY Plays
<1>11. Recorded \in SUBSET Play
  BY DEF Recorded
<1>12. ASSUME NEW q \in Play, q < p PROVE q \in Recorded
  <2>1. q \in Recorded \cup job[w].todo
    BY <1>2, <1>3, <1>12 DEF ListFollows
  <2>2. q \notin job[w].todo
    BY <1>3, <1>10, <1>12
  <2> QED  BY <2>1, <2>2
<1>13. c # <<>> => n >= 1 /\ n \in Links(w) /\ n \in 1..n
  <2>1. ASSUME c # <<>> PROVE n # 0
    BY <1>6, <2>1, EmptySeq
  <2>2. \A k \in Nat : k # 0 => k >= 1 /\ k \in 1..k
    OBVIOUS
  <2> QED  BY <1>6, <2>1, <2>2 DEF Links
<1>14. ASSUME c # <<>>
       PROVE  /\ c[n].play \in Recorded /\ c[n].play \in Nat /\ c[n].play + 1 = p
              /\ \A q \in Recorded : q <= c[n].play
  <2>1. /\ c[n].play \in Recorded /\ c[n].play < p
        /\ \A q \in Recorded : q <= c[n].play
    BY <1>2, <1>3, <1>13, <1>14 DEF ChainOrdered, ChainEnds, Chain
  <2>2. c[n].play \in Play /\ c[n].play \in Nat /\ p \in Nat
    BY <1>3, <1>10, <1>11, <2>1
  <2>3. ASSUME c[n].play + 1 < p PROVE FALSE
    <3>1. c[n].play + 1 \in Play
      <4>1. Len(TrackOf) \in Nat /\ Play = 1..Len(TrackOf)
        BY Plays
      <4>2. \A m, k, l \in Nat : k \in 1..m /\ l + 1 < k => l + 1 \in 1..m
        OBVIOUS
      <4> QED  BY <1>3, <2>2, <2>3, <4>1, <4>2
    <3>2. c[n].play + 1 \in Recorded
      BY <1>12, <2>3, <3>1
    <3> QED  BY <2>1, <2>2, <3>2
  <2>4. c[n].play + 1 = p
    BY <2>1, <2>2, <2>3
  <2> QED  BY <2>1, <2>2, <2>4
<1>15. \A q \in Recorded : q <= p /\ q \in Nat /\ q # p
  BY <1>3, <1>4, <1>10, <1>11, <1>14, <1>2 DEF ChainEnds, Chain
<1>16. InOrder'
  <2>1. ASSUME NEW r \in Recorded', NEW q \in Play, q < r PROVE q \in Recorded'
    BY <1>5, <1>12, <2>1 DEF Lossless, InOrder
  <2> QED  BY <2>1 DEF InOrder
<1>17. ListFollows(w)'
  <2>1. job'[w].todo \cap Recorded' = {}
    BY <1>2, <1>3, <1>5 DEF ListFollows
  <2>2. /\ job'[w].todo \subseteq job[w].todo
        /\ Recorded' \cup job'[w].todo = Recorded \cup job[w].todo
    BY <1>3, <1>5
  <2> QED  BY <1>2, <2>1, <2>2 DEF ListFollows
<1>18. ChainEnds(w)'
  BY <1>4, <1>5, <1>7, <1>8, <1>10, <1>3, <1>15 DEF ChainEnds, Chain
<1>19. \A i \in 1..(n + 1) : i \in 1..n \/ i = n + 1
  BY <1>6
<1>20. ChainFaithful(w)'
  <2>1. ASSUME NEW i \in 1..n
        PROVE  /\ i < n + 1 => d[i + 1].play = d[i].play + 1
               /\ d[i].mbid <=> history'[d[i].play] = "resolved"
    <3>1. d[i] = c[i] /\ c[i].play \in Recorded
          /\ (c[i].mbid <=> history[c[i].play] = "resolved")
          /\ (i < n => c[i + 1].play = c[i].play + 1)
      BY <1>2, <1>7 DEF ChainOrdered, ChainFaithful, Links, Chain
    <3>2. d[i].mbid <=> history'[d[i].play] = "resolved"
      BY <1>5, <3>1
    <3>3. CASE i < n
      <4>1. i + 1 \in 1..n
        BY <1>6, <3>3
      <4> QED  BY <1>7, <3>1, <3>2, <3>3, <4>1
    <3>4. CASE ~(i < n)
      <4>1. i = n /\ c # <<>>
        <5>1. Len(<<>>) = 0 /\ 1..0 = {}
          BY EmptySeq
        <5> QED  BY <1>6, <3>4, <5>1
      <4> QED  BY <1>7, <1>8, <1>14, <3>1, <3>2, <4>1
    <3> QED  BY <3>3, <3>4
  <2>2. d[n + 1].mbid <=> history'[d[n + 1].play] = "resolved"
    BY <1>5, <1>7, <1>8, <1>9
  <2>3. ASSUME NEW i \in 1..(n + 1)
        PROVE  /\ i < n + 1 => d[i + 1].play = d[i].play + 1
               /\ d[i].mbid <=> history'[d[i].play] = "resolved"
    <3>1. CASE i \in 1..n
      BY <2>1, <3>1
    <3>2. CASE i = n + 1
      BY <1>6, <2>2, <3>2
    <3> QED  BY <1>19, <3>1, <3>2
  <2> QED  BY <1>4, <1>7, <2>3 DEF ChainFaithful, Links, Chain
<1>21. SignalsDue'
  <2>1. ASSUME NEW r \in Recorded, Pending(w, r) PROVE Pending(w, r)'
    <3>1. PICK i \in Links(w) : i >= job[w].at /\ i < n /\ c[i].play = r
      BY <2>1 DEF Pending, Chain
    <3>2. i \in 1..n /\ i \in 1..(n + 1) /\ i < n + 1
      BY <1>6, <3>1 DEF Links
    <3>3. d[i].play = r
      BY <1>7, <3>1, <3>2
    <3> QED  BY <1>3, <1>4, <1>7, <3>1, <3>2, <3>3 DEF Pending, Links, Chain
  <2>2. ASSUME NEW r \in Recorded PROVE signals'[r] = Expected(r)' \/ Pending(w, r)'
    <3>1. CASE Pending(w, r)
      BY <2>1, <3>1
    <3>2. CASE r + 1 = p
      <4>1. c # <<>>
        BY <1>2 DEF ChainEnds, Chain
      <4>2. r = c[n].play
        BY <1>10, <1>11, <1>14, <3>2, <4>1
      <4>3. n \in 1..(n + 1) /\ n < n + 1 /\ n >= job[w].at /\ d[n].play = r
        BY <1>2, <1>6, <1>7, <1>13, <4>1, <4>2
      <4> QED  BY <1>3, <1>4, <1>7, <4>3 DEF Pending, Links, Chain
    <3>3. CASE ~Pending(w, r) /\ r + 1 # p
      <4>1. signals[r] = Expected(r)
        BY <3>3, OnlyHere DEF Lossless, SignalsDue
      <4>2. r + 1 \in Recorded' <=> r + 1 \in Recorded
        BY <1>5, <3>3
      <4>3. history'[r] = history[r]
        BY <1>5
      <4> QED  BY <1>1, <4>1, <4>2, <4>3 DEF Expected, Verdict
    <3> QED  BY <3>1, <3>2, <3>3
  <2>3. ASSUME NEW r \in Play, r = p PROVE signals'[r] = Expected(r)'
    <3>1. signals[r] = <<>>
      BY <1>0, <1>4, <2>3 DEF Signalled
    <3>2. r + 1 \notin Recorded'
      BY <1>5, <1>10, <1>15, <2>3
    <3> QED  BY <1>1, <3>1, <3>2 DEF Expected
  <2>4. ASSUME NEW r \in Recorded'
        PROVE  signals'[r] = Expected(r)' \/ \E v \in Syncer : Pending(v, r)'
    <3>1. r \in Recorded \/ r = p
      BY <1>5, <2>4
    <3> QED  BY <1>3, <2>2, <2>3, <3>1
  <2> QED  BY <2>4 DEF SignalsDue
<1> QED  BY <1>16, <1>17, <1>18, <1>20, <1>21 DEF Shown, CaughtUp

LEMMA PairShown ==
    ASSUME Typing, PollInv, SigInv, Lossless, NEW w \in Syncer, Alone(w),
           EmitFullOrSkip(w) \/ SkipPair(w)
    PROVE  Shown(w)
<1> DEFINE a == job[w].at
           p == Chain(w)[a].play
           q == Chain(w)[a + 1].play
<1>0. TypeOK /\ Local(w) /\ CaughtUp(w) /\ Signalled /\ Ahead(w)
  BY DEF Typing, PollInv, Lossless, SigInv
<1>1. /\ pc[w] = "emit" /\ pc[w] \in Polling /\ PairLeft(w) /\ a \in Nat /\ a >= 1
      /\ UNCHANGED history
  BY <1>0, JobFacts DEF EmitFullOrSkip, SkipPair, Polling, Typing, Places, dbVars
<1>2. ChainOrdered(w) /\ ListFollows(w) /\ ChainEnds(w) /\ ChainFaithful(w)
  BY <1>0, <1>1 DEF Local, CaughtUp
<1>3. /\ pc' = pc /\ job'[w].chain = job[w].chain /\ job'[w].todo = job[w].todo
      /\ job'[w].at = a + 1
  BY <1>0, PairMoves DEF TakesPair
<1>4. Recorded' = Recorded
  BY <1>1 DEF Recorded
<1>5. InOrder'
  BY <1>4 DEF Lossless, InOrder
<1>6. CaughtUp(w)'
  BY <1>1, <1>2, <1>3, <1>4 DEF CaughtUp, ListFollows, ChainEnds, ChainFaithful, Links, Chain
<1>7. /\ a \in Links(w) /\ a + 1 \in Links(w) /\ a >= a /\ a < Len(Chain(w)) /\ a + 1 > 1
      /\ Pair(w)[1] = Chain(w)[a] /\ Pair(w)[2] = Chain(w)[a + 1]
      /\ p \in Play
  <2>1. Len(Chain(w)) \in Nat
    BY <1>0, JobFacts DEF Chain
  <2> QED  BY <1>0, <1>1, <2>1, PairTyped DEF Links, Chain, PairLeft
<1>8. /\ q = p + 1 /\ p \in Recorded /\ p + 1 \in Recorded /\ Chain(w)[a + 1].isNew
      /\ (Chain(w)[a].mbid <=> history[p] = "resolved")
  BY <1>2, <1>7 DEF ChainOrdered, ChainFaithful
<1>9. signals[p] = <<>>
  BY <1>0, <1>1, <1>7 DEF Ahead
<1>10. signals'[p] = Expected(p) /\ \A r \in Play \ {p} : signals'[r] = signals[r]
  <2>1. CASE EmitFullOrSkip(w)
    <3> DEFINE s == [next |-> p + 1, kind |-> Verdict(p, p + 1)]
    <3>1. /\ signals'[p] = Append(signals[p], s)
          /\ \A r \in Play \ {p} : signals'[r] = signals[r]
      BY <1>7, <1>8, <2>1, SignalAdded
    <3>2. Append(<<>>, s) = <<s>>
      OBVIOUS
    <3>3. history[p] = "resolved"
      BY <1>7, <1>8, <2>1 DEF EmitFullOrSkip, Emits
    <3> QED  BY <1>8, <1>9, <3>1, <3>2, <3>3 DEF Expected
  <2>2. CASE SkipPair(w)
    <3>1. history[p] # "resolved" /\ UNCHANGED signals
      BY <1>7, <1>8, <2>2 DEF SkipPair, Emits, dbVars
    <3> QED  BY <1>9, <3>1 DEF Expected
  <2> QED  BY <2>1, <2>2
<1>11. \A r \in Recorded : Expected(r)' = Expected(r)
  BY <1>1, <1>4 DEF Expected, Verdict
<1>12. ASSUME NEW r \in Recorded, r # p PROVE signals'[r] = Expected(r) \/ Pending(w, r)'
  <2>1. signals[r] = Expected(r) \/ Pending(w, r)
    BY OnlyHere DEF Lossless, SignalsDue
  <2>2. ASSUME Pending(w, r) PROVE Pending(w, r)'
    <3>1. PICK i \in Links(w) : i >= a /\ i < Len(Chain(w)) /\ Chain(w)[i].play = r
      BY <2>2 DEF Pending
    <3>2. i \in Nat /\ i # a
      BY <1>0, <1>12, <3>1, ChainPlays
    <3>3. i >= a + 1
      BY <1>1, <3>1, <3>2
    <3> QED  BY <1>1, <1>3, <3>1, <3>3 DEF Pending, Links, Chain
  <2>3. r \in Play \ {p}
    BY <1>12 DEF Recorded
  <2> QED  BY <1>10, <2>1, <2>2, <2>3
<1>13. SignalsDue'
  <2>1. ASSUME NEW r \in Recorded' PROVE signals'[r] = Expected(r)' \/ Pending(w, r)'
    <3>1. CASE r = p
      BY <1>4, <1>10, <1>11, <2>1, <3>1
    <3>2. CASE r # p
      BY <1>4, <1>11, <1>12, <2>1, <3>2
    <3> QED  BY <3>1, <3>2
  <2> QED  BY <2>1 DEF SignalsDue
<1> QED  BY <1>5, <1>6, <1>13 DEF Shown

LEMMA StepShown ==
    ASSUME Typing, PollInv, SigInv, Lossless, ~gap', NEW w \in Syncer, Alone(w),
           Sync(w)
    PROVE  Shown(w)
<1>0. TypeOK /\ Local(w)
  BY DEF Typing, PollInv
<1>1. CASE Start(w)
  <2>1. pc[w] = "idle" /\ UNCHANGED <<history, signals>> /\ pc'[w] = "token"
    BY <1>0, <1>1, StartMoves DEF Start, dbVars
  <2> QED  BY <2>1, QuietShown DEF Polling, Ingesting, Pending
<1>2. CASE LoadLastKnownPlay(w)
  BY <1>2, LoadShown
<1>3. CASE FetchRecentlyPlayed(w)
  BY <1>3, FetchShown
<1>4. CASE InsertPlayHistory(w)
  BY <1>4, InsertShown
<1>5. CASE EmitFullOrSkip(w) \/ SkipPair(w)
  BY <1>5, PairShown
<1>6. CASE AccessToken(w) \/ CacheHit(w) \/ LookupHit(w) \/ Unresolved(w)
           \/ UpsertArtist(w) \/ UpsertAlbum(w) \/ UpsertTrack(w)
  <2>1. /\ UNCHANGED <<history, signals>>
        /\ job'[w].chain = job[w].chain /\ job'[w].at = job[w].at
        /\ job'[w].todo = job[w].todo
        /\ pc'[w] \in Polling => pc[w] \in Polling
    <3>1. ~FetchRecentlyPlayed(w)
      BY <1>6 DEF AccessToken, CacheHit, LookupHit, Unresolved, UpsertArtist, UpsertAlbum,
                  UpsertTrack, FetchRecentlyPlayed
    <3>2. CASE AccessToken(w) \/ UpsertArtist(w) \/ UpsertAlbum(w) \/ UpsertTrack(w)
      <4>1. job'[w] = job[w]
        BY <1>0, <3>2, KeepsMoves DEF Keeps, KeepsLocals
      <4> QED  BY <3>2, <4>1, ElsewhereKeeps DEF Elsewhere
    <3>3. CASE CacheHit(w) \/ LookupHit(w) \/ Unresolved(w)
      <4>1. job'[w].todo = job[w].todo
        BY <1>0, <3>3, IdsMove, UnresolvedMoves DEF TakesIds, TakesNoId
      <4> QED  BY <3>3, <4>1, ElsewhereKeeps DEF Elsewhere
    <3> QED  BY <1>6, <3>2, <3>3
  <2>2. pc[w] \in Polling => pc'[w] \in Polling
    <3>1. CASE AccessToken(w)
      BY <3>1 DEF AccessToken, Polling, Ingesting
    <3>2. CASE UpsertArtist(w) \/ UpsertAlbum(w) \/ UpsertTrack(w)
      BY <1>0, <3>2, KeepsMoves DEF Keeps, Polling, Ingesting
    <3>3. CASE CacheHit(w) \/ LookupHit(w) \/ Unresolved(w)
      BY <1>0, <3>3, IdsMove, UnresolvedMoves DEF Polling, Ingesting
    <3> QED  BY <1>6, <3>1, <3>2, <3>3
  <2> QED  BY <2>1, <2>2, QuietShown DEF Pending
<1>7. CASE FetchFails(w) \/ Finish(w)
  <2>1. /\ UNCHANGED <<history, signals>> /\ pc'[w] = "idle"
    BY <1>0, <1>7, KeepsMoves DEF Keeps, FetchFails, Finish, dbVars
  <2>2. ASSUME NEW p \in Recorded, Pending(w, p) PROVE FALSE
    <3>1. PICK i \in Links(w) : i >= job[w].at /\ i < Len(job[w].chain)
      BY <2>2 DEF Pending, Chain
    <3>2. /\ pc[w] \in Polling /\ i \in Nat /\ i >= 1 /\ Len(job[w].chain) \in Nat
          /\ job[w].at \in Nat
      BY <1>0, <2>2, JobFacts, ChainPlays DEF Pending
    <3>3. CASE FetchFails(w)
      <4>1. pc[w] = "fetch"
        BY <3>2, <3>3 DEF FetchFails, Polling, Ingesting
      <4>2. Len(job[w].chain) <= 1
        BY <1>0, <4>1 DEF Local
      <4> QED  BY <3>1, <3>2, <4>2
    <3>4. CASE Finish(w)
      BY <3>1, <3>2, <3>4 DEF Finish, PairLeft
    <3> QED  BY <1>7, <3>3, <3>4
  <2> QED  BY <2>1, <2>2, QuietShown DEF Polling, Ingesting
<1>8. ~(ParentMissing(w) \/ IngestFails(w) \/ EmitFails(w) \/ CutOff(w))
  BY DEF ParentMissing, IngestFails, DropPlay, EmitFails, CutOff
<1> QED
  BY <1>1, <1>2, <1>3, <1>4, <1>5, <1>6, <1>7, <1>8 DEF Sync, Ingest

\* A play or a signal that was lost stays lost.
LEMMA GapStays == Typing /\ [Next]_vars /\ gap => gap'
BY DEF Typing, TypeOK, Next, vars, Sync, Ingest, PlayTrack, Start, AccessToken,
       LoadLastKnownPlay, FetchRecentlyPlayed, FetchFails, CacheHit, LookupHit, Unresolved,
       UpsertArtist, UpsertAlbum, UpsertTrack, InsertPlayHistory, ParentMissing, IngestFails,
       DropPlay, EmitFullOrSkip, SkipPair, EmitFails, Finish, CutOff

LEMMA LosslessInit == Init => (~gap => Lossless)
<1> SUFFICES ASSUME Init PROVE Lossless
  OBVIOUS
<1>1. Recorded = {} /\ \A w \in Syncer : pc[w] = "idle"
  BY DEF Init, Recorded
<1> QED
  BY <1>1 DEF Lossless, InOrder, SignalsDue, CaughtUp, Polling, Ingesting

LEMMA LosslessNext ==
    ASSUME OnePoll, OnePoll', Typing, PollInv, SigInv, ~gap => Lossless, [Next]_vars, ~gap'
    PROVE  Lossless'
<1>0. Lossless
  BY GapStays DEF Typing, TypeOK
<1>1. CASE UNCHANGED <<pc, job, history, signals>>
  <2>1. Recorded' = Recorded
    BY <1>1 DEF Recorded
  <2>2. \A p \in Recorded : Expected(p)' = Expected(p)
    BY <1>1, <2>1 DEF Expected, Verdict
  <2>3. \A w \in Syncer, p \in Recorded : Pending(w, p) => Pending(w, p)'
    BY <1>1 DEF Pending, Links, Chain
  <2>4. SignalsDue'
    BY <1>0, <1>1, <2>1, <2>2, <2>3 DEF Lossless, SignalsDue
  <2>5. \A w \in Syncer : CaughtUp(w)'
    BY <1>0, <1>1, <2>1
    DEF Lossless, CaughtUp, ListFollows, ChainEnds, ChainFaithful, Links, Chain
  <2>6. InOrder'
    BY <1>0, <2>1 DEF Lossless, InOrder
  <2> QED  BY <2>4, <2>5, <2>6 DEF Lossless
<1>2. ASSUME NEW w \in Syncer, Sync(w), Alone(w) PROVE Lossless'
  <2>1. Shown(w)
    BY <1>0, <1>2, StepShown
  <2>2. \A v \in Syncer \ {w} : CaughtUp(v)'
    BY <1>2 DEF Alone, CaughtUp
  <2> QED  BY <2>1, <2>2 DEF Shown, Lossless
<1>3. ASSUME NEW w \in Syncer, Sync(w), Outside(w), OneMoves(w) PROVE Lossless'
  <2>1. UNCHANGED <<history, signals>>
    BY <1>3, OutsideWrites
  <2>2. Recorded' = Recorded /\ InOrder'
    BY <1>0, <2>1 DEF Recorded, Lossless, InOrder
  <2>3. ASSUME NEW v \in Syncer
        PROVE  /\ pc'[v] \in Polling <=> pc[v] \in Polling
               /\ pc[v] \in Polling => job'[v] = job[v]
    BY <1>3 DEF Outside, OneMoves
  <2>4. \A v \in Syncer : CaughtUp(v)'
    BY <1>0, <2>1, <2>2, <2>3
    DEF Lossless, CaughtUp, ListFollows, ChainEnds, ChainFaithful, Links, Chain
  <2>5. \A p \in Recorded : Expected(p)' = Expected(p)
    BY <2>1, <2>2 DEF Expected, Verdict
  <2>6. \A v \in Syncer, p \in Recorded : Pending(v, p) => Pending(v, p)'
    BY <2>3 DEF Pending, Links, Chain
  <2>7. SignalsDue'
    BY <1>0, <2>1, <2>2, <2>5, <2>6 DEF Lossless, SignalsDue
  <2> QED  BY <2>2, <2>4, <2>7 DEF Lossless
<1> QED  BY <1>1, <1>2, <1>3, AloneOrOutside DEF Next, vars, dbVars, PlayTrack

\* "The last play in any poll has no known next yet and stays unemitted until the next poll
\* shows a successor": between the polls of a user, if no two overlapped once they had read
\* the last known play and nothing was lost on the way, each resolved play but the last has
\* its one signal and the verdict that its successor implies.
THEOREM EmittedCorrect == Spec /\ []OnePoll => []EmittedUpToLast
<1> DEFINE LInv == ~gap => Lossless
<1>1. OnePoll /\ OnePoll' /\ Typing /\ PollInv /\ SigInv /\ LInv /\ [Next]_vars => LInv'
  BY LosslessNext
<1>2. LInv => EmittedUpToLast
  <2> SUFFICES ASSUME LInv, ~gap, \A w \in Syncer : pc[w] = "idle", NEW p \in Recorded
               PROVE  signals[p] = Expected(p)
    BY DEF EmittedUpToLast, Expected
  <2> QED  BY DEF Lossless, SignalsDue, Pending, Polling, Ingesting
<1>3. Init => LInv
  BY LosslessInit
<1> HIDE DEF LInv
<1> QED  BY <1>1, <1>2, <1>3, SigAlways, PTL DEF Spec

=============================================================================
