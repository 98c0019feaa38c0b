----------------------------- MODULE SignalStore -----------------------------
(***************************************************************************)
(* The signal log of one user and the affinity tables derived from it      *)
(* (services/signal/signal.go).                                            *)
(*                                                                         *)
(* SQLStore.Append runs as one transaction: insert the signal, upsert the  *)
(* subject's affinity row, then its album's and its artist's, then hides   *)
(* or ratings.  SQLStore.Rebuild runs as another: delete the four tables,  *)
(* aggregate the log into them, statement after statement.  Writers are    *)
(* Append calls of the server; the rebuild is the process started by       *)
(* "server --rebuild-affinity", which may run beside the server.           *)
(*                                                                         *)
(* PostgreSQL's READ COMMITTED, the isolation level of every transaction   *)
(* here, is modelled by what the statements see: a statement reads what    *)
(* was committed when it started, and a row written by an open transaction *)
(* makes another writer of that row wait for its end.                      *)
(*                                                                         *)
(* Both share a signal out along the links of the catalog, which the syncs *)
(* write one upsert at a time, each committed by itself: a link is missing *)
(* until some sync learns it, and may be moved to another row later.       *)
(***************************************************************************)
EXTENDS Integers, Sequences, FiniteSets

F == INSTANCE FiniteSetsExt

CONSTANTS
    Writer,       \* calls of Append, one event each
    Artist, Album, Track, Label,   \* subjects, and keys of the affinity tables
    Calls,        \* <<kind, subject, Event.Weight>> as callers fill them in
    AlbumUpserts, \* <<album, artist or Null>> as syncs upsert them
    TrackUpserts, \* <<track, album or Null, artist or Null>>, likewise
    Rebuilds,     \* BOOLEAN: are rebuilds started at all?
    Null, NoRow

Key == Artist \cup Album \cup Track \cup Label

\* In 1/80 of the code's unit, so that a quarter of each is an integer.
DefaultWeight(k) ==
    CASE k = "library_add" -> 80   [] k = "follow_add" -> 96
      [] k = "top_rank" -> 160     [] k = "play_full" -> 24
      [] k = "play_skip" -> -24    [] k = "playlist_add" -> 40
      [] k = "heard_good" -> 120   [] k = "heard_bad" -> -120
      [] k = "dismiss" -> -40      [] k = "filter_click" -> 4
      [] k = "open_click" -> 8

\* A zero Weight means the kind's default.
EventWith(kind, k, given) ==
    [kind |-> kind, subject |-> k,
     weight |-> IF given = 0 THEN DefaultWeight(kind) ELSE given]

Kind == {"library_add", "follow_add", "top_rank", "play_full", "play_skip",
         "playlist_add", "heard_good", "heard_bad", "dismiss", "filter_click",
         "open_click"}

Events == {EventWith(c[1], c[2], c[3]) : c \in Calls}
Row   == [score : Int, count : Nat]

ASSUME SignalConstants ==
    /\ Calls \subseteq Kind \X Key \X {w \in Int : w % 4 = 0}
    /\ AlbumUpserts \subseteq Album \X (Artist \cup {Null})
    /\ TrackUpserts \subseteq Track \X (Album \cup {Null}) \X (Artist \cup {Null})
    /\ Rebuilds \in BOOLEAN
    /\ Artist \cap Album = {} /\ Artist \cap Track = {} /\ Artist \cap Label = {}
    /\ Album \cap Track = {} /\ Album \cap Label = {} /\ Track \cap Label = {}
    /\ Null \notin Key /\ Null \notin Writer /\ "rebuild" \notin Writer
    /\ Null # "rebuild" /\ NoRow \notin Row

VARIABLES
    log,          \* committed rows of signals, in commit order
    affinity,     \* committed affinity rows
    hides,        \* subjects with a row in hides
    ratings,      \* ratings.rating per subject, or NoRow
    albumArtist,  \* albums.primary_artist_mbid, or Null
    trackAlbum,   \* tracks.album_mbid, or Null
    trackArtist,  \* tracks.artist_mbid, or Null
    lock,         \* the open transaction that wrote each affinity row, or Null
    dirty,        \* what that transaction will commit there
    pc, event,    \* each writer's place, and the event it appends
    album, parent,   \* the album and the artist propagate has looked up for it
    stage,        \* the rebuild's statement, 1..11; 0 when none runs
    batch,        \* rows that statement still has to write
    \* Histories: open Appends that a link was moved under; rows that links
    \* moved signals to or from, and rows that may count some twice, as
    \* committed; and the same of what the open rebuild will commit.
    moved, drifted, doubled, shifting, contested

tables == <<log, affinity, hides, ratings>>
rebuildVars == <<stage, batch>>
links == <<albumArtist, trackAlbum, trackArtist>>
locals == <<event, album, parent>>
history == <<moved, drifted, doubled, shifting, contested>>
vars == <<log, affinity, hides, ratings, albumArtist, trackAlbum, trackArtist,
          lock, dirty, pc, event, album, parent, stage, batch,
          moved, drifted, doubled, shifting, contested>>

WriterPC == {"idle", "subject", "album", "artist", "commit", "done", "failed"}

Init ==
    /\ log = <<>>
    /\ affinity = [k \in Key |-> NoRow]
    /\ hides = {}
    /\ ratings = [k \in Key |-> NoRow]
    /\ albumArtist = [a \in Album |-> Null]
    /\ trackAlbum = [t \in Track |-> Null]
    /\ trackArtist = [t \in Track |-> Null]
    /\ lock = [k \in Key |-> Null]
    /\ dirty = [k \in Key |-> NoRow]
    /\ pc = [w \in Writer |-> "idle"]
    /\ event = [w \in Writer |-> Null]
    /\ album = [w \in Writer |-> Null]
    /\ parent = [w \in Writer |-> Null]
    /\ stage = 0
    /\ batch = <<>>
    /\ moved = {} /\ drifted = {} /\ doubled = {} /\ shifting = {} /\ contested = {}

-----------------------------------------------------------------------------
(* Rows and transactions. *)

Plus(row, score, count) ==
    IF row = NoRow THEN [score |-> score, count |-> count]
    ELSE [score |-> row.score + score, count |-> row.count + count]

\* What transaction t reads at k when no other transaction holds it.
View(t, k) == IF lock[k] = t THEN dirty[k] ELSE affinity[k]

\* t writes row at k; it waits while another transaction holds k.
Write(t, k, row) ==
    /\ lock[k] \in {Null, t}
    /\ lock' = [lock EXCEPT ![k] = t]
    /\ dirty' = [dirty EXCEPT ![k] = row]

\* Mutant: ON CONFLICT overwrites the score.
UpsertOverwrites(t, k, score, count) ==
    Write(t, k, [Plus(View(t, k), score, count) EXCEPT !.score = score])

Upsert(t, k, score, count) == Write(t, k, Plus(View(t, k), score, count))

Release(t) ==
    /\ lock' = [k \in Key |-> IF lock[k] = t THEN Null ELSE lock[k]]
    /\ dirty' = [k \in Key |-> IF lock[k] = t THEN NoRow ELSE dirty[k]]

CommitAffinity(t) ==
    affinity' = [k \in Key |-> IF lock[k] = t THEN dirty[k] ELSE affinity[k]]

Open(w) == pc[w] \in {"subject", "album", "artist", "commit"}
Walking(w) == pc[w] \in {"album", "artist", "commit"}   \* has looked links up
RebuildOpen == stage \in 1..11

-----------------------------------------------------------------------------
(* What a signal adds to a row, by the statements of Rebuild. *)

Tables == <<Artist, Album, Track, Label>>

\* Does e contribute to row k in aggregation s, and what part of its weight?
Hits(s, e, k) ==
    CASE s \in 5..8 -> k \in Tables[s - 4] /\ e.subject = k
      [] s = 9  -> e.subject \in Album /\ albumArtist[e.subject] = k
      [] s = 10 -> e.subject \in Track /\ trackAlbum[e.subject] = k
      [] s = 11 -> /\ e.subject \in Track
                   /\ k = IF trackArtist[e.subject] # Null
                          THEN trackArtist[e.subject]
                          ELSE IF trackAlbum[e.subject] # Null
                          THEN albumArtist[trackAlbum[e.subject]] ELSE Null

Share(s) == CASE s \in 5..8 -> 1 [] s \in {9, 10} -> 2 [] s = 11 -> 4

HitBy(s, k) == {i \in DOMAIN log : Hits(s, log[i], k)}

\* SUM(weight) * share and COUNT( * ) of the log's rows for k
Total(s, k) ==
    [score |-> F!SumFunctionOnSet([i \in DOMAIN log |-> log[i].weight \div Share(s)],
                                  HitBy(s, k)),
     count |-> Cardinality(HitBy(s, k))]

\* Mutant: Rebuild forgets to clear album_affinity.
FoundKeepsAlbums(s) ==
    IF s \in 1..4
    THEN [k \in {q \in Tables[s] \ Album : affinity[q] # NoRow} |-> NoRow]
    ELSE [k \in {q \in Key : HitBy(s, q) # {}} |-> Total(s, k)]

\* What a statement finds when it starts: rows to delete, or groups to upsert.
Found(s) ==
    IF s \in 1..4
    THEN [k \in {q \in Tables[s] : affinity[q] # NoRow} |-> NoRow]
    ELSE [k \in {q \in Key : HitBy(s, q) # {}} |-> Total(s, k)]

(* Histories. *)

\* The rows w's Append wrote, and those its event goes to by the links of now.
Posted(w) == {event[w].subject} \cup ({album[w], parent[w]} \ {Null})
Going(w) == {k \in Key : \E s \in 5..11 : Hits(s, event[w], k)}

\* A link was moved: what the log accounts for moves with it.
RelinkHistory ==
    LET gone == {k \in Key : \E s \in 9..11 : HitBy(s, k)' # HitBy(s, k)} IN
    /\ moved' = moved \cup {w \in Writer : Walking(w)}
    /\ drifted' = drifted \cup gone
    /\ shifting' = IF RebuildOpen THEN shifting \cup gone ELSE shifting
    /\ UNCHANGED <<doubled, contested>>

\* w commits: under moved links it may have written other rows than those its
\* event now goes to; an open rebuild may have read the log before, or not.
CommitHistory(w) ==
    LET torn == IF w \in moved THEN (Posted(w) \ Going(w)) \cup (Going(w) \ Posted(w))
                ELSE {}
    IN
    /\ moved' = moved \ {w}
    /\ drifted' = drifted \cup torn
    /\ shifting' = IF RebuildOpen THEN shifting \cup torn ELSE shifting
    /\ contested' = IF RebuildOpen THEN contested \cup Posted(w) \cup Going(w)
                    ELSE contested
    /\ UNCHANGED doubled

-----------------------------------------------------------------------------
(* Append. *)

\* The call returns, and its locals are gone.
Return(w, how) ==
    /\ pc' = [pc EXCEPT ![w] = how]
    /\ event' = [event EXCEPT ![w] = Null]
    /\ album' = [album EXCEPT ![w] = Null]
    /\ parent' = [parent EXCEPT ![w] = Null]

\* BEGIN and the INSERT into signals, which nobody sees before the commit.
BeginAppend(w) ==
    /\ pc[w] = "idle"
    /\ \E e \in Events : event' = [event EXCEPT ![w] = e]
    /\ pc' = [pc EXCEPT ![w] = "subject"]
    /\ UNCHANGED <<tables, links, lock, dirty, album, parent, rebuildVars, history>>

\* applyAffinity on the subject; propagate then looks its parents up.
ApplySubject(w) ==
    LET e == event[w] IN
    /\ pc[w] = "subject"
    /\ Upsert(w, e.subject, e.weight, 1)
    /\ album' = [album EXCEPT ![w] =
         IF e.subject \in Track THEN trackAlbum[e.subject] ELSE Null]
    /\ parent' = [parent EXCEPT ![w] =
         IF e.subject \in Album THEN albumArtist[e.subject]
         ELSE IF e.subject \in Track THEN trackArtist[e.subject] ELSE Null]
    /\ pc' = [pc EXCEPT ![w] =
         IF album'[w] # Null THEN "album"
         ELSE IF parent'[w] # Null THEN "artist" ELSE "commit"]
    /\ UNCHANGED <<tables, links, event, rebuildVars, history>>

\* The track's album; the album's artist stands in for a missing track artist.
ApplyAlbum(w) ==
    /\ pc[w] = "album"
    /\ Upsert(w, album[w], event[w].weight \div 2, 1)
    /\ parent' = [parent EXCEPT ![w] = IF @ = Null THEN albumArtist[album[w]] ELSE @]
    /\ pc' = [pc EXCEPT ![w] = IF parent'[w] # Null THEN "artist" ELSE "commit"]
    /\ UNCHANGED <<tables, links, event, album, rebuildVars, history>>

ApplyArtist(w) ==
    LET e == event[w] IN
    /\ pc[w] = "artist"
    /\ Upsert(w, parent[w],
              IF e.subject \in Album THEN e.weight \div 2 ELSE e.weight \div 4, 1)
    /\ pc' = [pc EXCEPT ![w] = "commit"]
    /\ UNCHANGED <<tables, links, locals, rebuildVars, history>>

\* Mutants: the signal's kind is stored as the rating; a first rating stays.
CommitAppendStoresKind(w) ==
    /\ pc[w] = "commit"
    /\ log' = Append(log, event[w])
    /\ ratings' = [ratings EXCEPT ![event[w].subject] = event[w].kind]
    /\ CommitAffinity(w) /\ Release(w)
    /\ Return(w, "done")
    /\ CommitHistory(w)
    /\ UNCHANGED <<hides, links, rebuildVars>>

CommitAppendKeepsRating(w) ==
    LET e == event[w]
        rating == IF e.kind = "heard_bad" THEN "bad" ELSE "good"
    IN
    /\ pc[w] = "commit"
    /\ log' = Append(log, e)
    /\ hides' = IF e.kind = "dismiss" THEN hides \cup {e.subject} ELSE hides
    /\ ratings' = IF e.kind \in {"heard_good", "heard_bad"}
                     /\ ratings[e.subject] = NoRow
                  THEN [ratings EXCEPT ![e.subject] = rating] ELSE ratings
    /\ CommitAffinity(w) /\ Release(w)
    /\ Return(w, "done")
    /\ CommitHistory(w)
    /\ UNCHANGED <<links, rebuildVars>>

\* sideTables and COMMIT: the row of hides or ratings is the subject's, whose
\* affinity row this transaction holds already.
CommitAppend(w) ==
    LET e == event[w] IN
    /\ pc[w] = "commit"
    /\ log' = Append(log, e)
    /\ hides' = IF e.kind = "dismiss" THEN hides \cup {e.subject} ELSE hides
    /\ ratings' = CASE e.kind = "heard_good" -> [ratings EXCEPT ![e.subject] = "good"]
                    [] e.kind = "heard_bad" -> [ratings EXCEPT ![e.subject] = "bad"]
                    [] OTHER -> ratings
    /\ CommitAffinity(w)
    /\ Release(w)
    /\ Return(w, "done")
    /\ CommitHistory(w)
    /\ UNCHANGED <<links, rebuildVars>>

\* Mutant: without the deferred Rollback the transaction stays open.
RollbackAppendLeaksTx(w) ==
    /\ Open(w)
    /\ Return(w, "failed")
    /\ moved' = moved \ {w}
    /\ UNCHANGED <<tables, links, lock, dirty, rebuildVars,
                   drifted, doubled, shifting, contested>>

\* An error of any statement (a deadlock's victim too), a cancelled context or
\* a crash: the transaction leaves nothing behind.
RollbackAppend(w) ==
    /\ Open(w)
    /\ Release(w)
    /\ Return(w, "failed")
    /\ moved' = moved \ {w}
    /\ UNCHANGED <<tables, links, rebuildVars,
                   drifted, doubled, shifting, contested>>

-----------------------------------------------------------------------------
(* Rebuild. *)

BeginRebuild ==
    /\ Rebuilds /\ stage = 0
    /\ stage' = 1
    /\ batch' = Found(1)
    /\ UNCHANGED <<tables, links, lock, dirty, pc, locals, history>>

RebuildRow ==
    /\ RebuildOpen
    /\ \E k \in DOMAIN batch :
         /\ IF batch[k] = NoRow THEN Write("rebuild", k, NoRow)
            ELSE Upsert("rebuild", k, batch[k].score, batch[k].count)
         /\ batch' = [q \in DOMAIN batch \ {k} |-> batch[q]]
    /\ UNCHANGED <<tables, links, pc, locals, stage, history>>

NextStatement ==
    /\ stage \in 1..10 /\ DOMAIN batch = {}
    /\ stage' = stage + 1
    /\ batch' = Found(stage + 1)
    /\ UNCHANGED <<tables, links, lock, dirty, pc, locals, history>>

\* Mutant: the tables are replaced as a whole by what the rebuild has put
\* together.
CommitRebuildSwaps ==
    /\ stage = 11 /\ DOMAIN batch = {}
    /\ affinity' = [k \in Key |-> IF lock[k] = "rebuild" THEN dirty[k] ELSE NoRow]
    /\ Release("rebuild")
    /\ stage' = 0
    /\ batch' = <<>>
    /\ drifted' = shifting /\ doubled' = contested
    /\ shifting' = {} /\ contested' = {}
    /\ UNCHANGED <<log, hides, ratings, links, pc, locals, moved>>

CommitRebuild ==
    /\ stage = 11 /\ DOMAIN batch = {}
    /\ CommitAffinity("rebuild")
    /\ Release("rebuild")
    /\ stage' = 0
    /\ batch' = <<>>
    /\ drifted' = shifting /\ doubled' = contested
    /\ shifting' = {} /\ contested' = {}
    /\ UNCHANGED <<log, hides, ratings, links, pc, locals, moved>>

RollbackRebuild ==
    /\ RebuildOpen
    /\ Release("rebuild")
    /\ stage' = 0
    /\ batch' = <<>>
    /\ shifting' = {} /\ contested' = {}
    /\ UNCHANGED <<tables, links, pc, locals, moved, drifted, doubled>>

-----------------------------------------------------------------------------
(* The catalog: what a sync knows of a link it writes, and keeps otherwise. *)
(* The row is the one of the id it asks for, or that of its Spotify id.     *)
(* The row is the one of the id it asks for, or that of its Spotify id.     *)

Coalesce(new, old) == IF new # Null THEN new ELSE old

UpsertAlbum(a, artist) ==
    /\ albumArtist' = [albumArtist EXCEPT ![a] = Coalesce(artist, @)]
    /\ UNCHANGED <<trackAlbum, trackArtist>>

UpsertTrack(t, a, artist) ==
    /\ trackAlbum' = [trackAlbum EXCEPT ![t] = Coalesce(a, @)]
    /\ trackArtist' = [trackArtist EXCEPT ![t] = Coalesce(artist, @)]
    /\ UNCHANGED albumArtist

\* An upsert that says nothing new of the links is no step.
Relink ==
    /\ \/ \E u \in AlbumUpserts : UpsertAlbum(u[1], u[2])
       \/ \E u \in TrackUpserts : UpsertTrack(u[1], u[2], u[3])
    /\ links' # links
    /\ UNCHANGED <<tables, lock, dirty, pc, locals, rebuildVars>>
    /\ RelinkHistory

-----------------------------------------------------------------------------
AppendStep(w) == \/ BeginAppend(w) \/ ApplySubject(w) \/ ApplyAlbum(w)
                 \/ ApplyArtist(w) \/ CommitAppend(w)

RebuildStep == BeginRebuild \/ RebuildRow \/ NextStatement \/ CommitRebuild

Next == \/ \E w \in Writer : AppendStep(w) \/ RollbackAppend(w)
        \/ RebuildStep \/ RollbackRebuild
        \/ Relink

Spec == Init /\ [][Next]_vars

-----------------------------------------------------------------------------
(* Properties. *)

TypeOK ==
    /\ log \in Seq(Events)
    /\ affinity \in [Key -> Row \cup {NoRow}]
    /\ hides \subseteq Key
    /\ ratings \in [Key -> {"good", "bad", NoRow}]
    /\ albumArtist \in [Album -> Artist \cup {Null}]
    /\ trackAlbum \in [Track -> Album \cup {Null}]
    /\ trackArtist \in [Track -> Artist \cup {Null}]
    /\ lock \in [Key -> Writer \cup {"rebuild", Null}]
    /\ dirty \in [Key -> Row \cup {NoRow}]
    /\ pc \in [Writer -> WriterPC]
    /\ event \in [Writer -> Events \cup {Null}]
    /\ album \in [Writer -> Album \cup {Null}]
    /\ parent \in [Writer -> Artist \cup {Null}]
    /\ stage \in 0..11
    /\ DOMAIN batch \subseteq Key
    /\ moved \subseteq Writer
    /\ drifted \subseteq Key /\ doubled \subseteq Key
    /\ shifting \subseteq Key /\ contested \subseteq Key

\* The row the log, as it stands, accounts for.
Replay(k) ==
    LET hit == {s \in 5..11 : HitBy(s, k) # {}} IN
    IF hit = {} THEN NoRow
    ELSE [score |-> F!SumFunctionOnSet([s \in hit |-> Total(s, k).score], hit),
          count |-> F!SumFunctionOnSet([s \in hit |-> Total(s, k).count], hit)]

(***************************************************************************)
(* "Everything runs in one transaction so a partial failure leaves no      *)
(* dangling affinity drift": at every moment each committed affinity row   *)
(* is what the committed log accounts for, direct and propagated, by the   *)
(* catalog as it stands; whatever Appends and rebuilds run beside each     *)
(* other, commit or abort.  Excepted are rows that a link has moved        *)
(* signals to or from, until a rebuild that began afterwards commits, and  *)
(* rows an Append committed to while the last rebuild was open.            *)
(***************************************************************************)
NoAffinityDrift ==
    \A k \in Key \ (drifted \cup doubled) : affinity[k] = Replay(k)

(***************************************************************************)
(* A rebuild beside Appends may count a signal twice, reading the log anew *)
(* in every statement, but it loses none: no row counts fewer signals than *)
(* the log has for it, but for links moved since they were shared out.     *)
(***************************************************************************)
Counted(row) == IF row = NoRow THEN 0 ELSE row.count

NoSignalLost ==
    \A k \in Key \ drifted : Counted(affinity[k]) >= Counted(Replay(k))

(***************************************************************************)
(* sideTables: a rating is the one of the subject's last heard_good or     *)
(* heard_bad in the log, and exactly the dismissed subjects are hidden.    *)
(***************************************************************************)
Heard(k) == {i \in DOMAIN log : log[i].subject = k
                                 /\ log[i].kind \in {"heard_good", "heard_bad"}}

SideTablesMatchLog ==
    \A k \in Key :
        /\ Heard(k) = {} => ratings[k] = NoRow
        /\ \A i \in Heard(k) : (\A j \in Heard(k) : j <= i) =>
             ratings[k] = IF log[i].kind = "heard_good" THEN "good" ELSE "bad"
        /\ k \in hides <=>
             \E i \in DOMAIN log : log[i].subject = k /\ log[i].kind = "dismiss"

\* The affinity row a writer's next statement writes.
Wants(w) == CASE pc[w] = "subject" -> {event[w].subject}
              [] pc[w] = "album" -> {album[w]}
              [] pc[w] = "artist" -> {parent[w]}
              [] OTHER -> {}

(***************************************************************************)
(* Appends take their rows in the order track, album, artist, so they wait *)
(* for each other but never in a circle: unless a rebuild holds rows, one  *)
(* of the open ones can go on.                                             *)
(***************************************************************************)
AppendsNeverDeadlock ==
    ~RebuildOpen /\ (\E w \in Writer : Open(w)) =>
        \E w \in Writer : Open(w) /\ \A k \in Wants(w) : lock[k] \in {Null, w}

(***************************************************************************)
(* "All or nothing: wrapped in a single transaction": whatever runs beside *)
(* it, rebuilds too, an Append posts its event and the shares of its       *)
(* weight in one step, loses no update of another's and leaves no other    *)
(* trace.                                                                  *)
(***************************************************************************)
Ledger == INSTANCE AffinityLedger WITH Recomputes <- Rebuilds
ImplementsLedger == Ledger!Spec
=============================================================================
