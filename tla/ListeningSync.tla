---------------------------- MODULE ListeningSync ----------------------------
(***************************************************************************)
(* The poll of Spotify's recently played tracks for one user               *)
(* (services/listening/listening.go), with the resolver's cache            *)
(* (providers/resolver/resolver.go) and the catalog rows it goes through.  *)
(*                                                                         *)
(* A syncer is a caller of Sync: the scheduler's job or the goroutine of   *)
(* POST /api/sync/trigger; nothing keeps two of them from running at once. *)
(* Plays are numbered in the order they were played.                       *)
(*                                                                         *)
(* Every Spotify artist and album has two possible catalog ids: the one    *)
(* MusicBrainz gives and the placeholder made of its Spotify id.  Its rows *)
(* are a set: "mb" and "sp" stand for a row under either id that holds the *)
(* Spotify id, which is UNIQUE; "bare" for a row under the MusicBrainz id  *)
(* that holds none, as the discovery services write them.                  *)
(***************************************************************************)
EXTENDS Integers, Sequences, FiniteSets

F == INSTANCE FiniteSetsExt

CONSTANTS
    Syncer, Track, Artist, Album,
    TrackOf,      \* the track of each play, a sequence
    PlayedAt,     \* when each play started, increasing
    Duration,     \* of each track
    ArtistOf,     \* of each track, as Spotify gives it
    AlbumOf,
    Window,       \* how many plays Spotify's answer holds (50)
    SkipTolerance,
    Fallible,     \* BOOLEAN: may calls and statements fail, and syncs be cut off?
    Catalogs,     \* sets of rows there may be before the first poll
    Null

Play == DOMAIN TrackOf

\* What the primary key and the UNIQUE Spotify id allow.
Rows == {{}, {"mb"}, {"sp"}, {"bare"}, {"bare", "sp"}}

ASSUME ListeningConstants ==
    /\ TrackOf \in Seq(Track)
    /\ PlayedAt \in [Play -> Int]
    /\ \A p, q \in Play : p < q => PlayedAt[p] < PlayedAt[q]
    /\ Duration \in [Track -> Nat]
    /\ ArtistOf \in [Track -> Artist] /\ AlbumOf \in [Track -> Album]
    /\ Window \in Nat \ {0} /\ SkipTolerance \in Nat
    /\ Fallible \in BOOLEAN
    /\ Catalogs \subseteq Rows
    /\ Null \notin {"ok", "partial", "failed"}

VARIABLES
    played,       \* the last play Spotify reports by now
    history,      \* play_history: is a play there, and with a track_mbid?
    signals,      \* for each play, the signals emitted for it
    cache,        \* resolver_cache of each track
    artistRows,   \* the rows of each Spotify artist in artists
    albumRows,    \* the rows of each Spotify album in albums
    pc,
    job,          \* the local variables of each Sync
    status,       \* what each syncer's last Sync returned
    gap           \* a play or a signal was lost on the way (history)

dbVars == <<history, signals, cache, artistRows, albumRows>>
vars == <<played, history, signals, cache, artistRows, albumRows, pc, job,
          status, gap>>

PC == {"idle", "token", "load", "fetch", "ingest", "artist", "album", "track",
       "row", "emit"}

\* An entry of the chain: mbid says whether the play was resolved.
Link == [play : Play, mbid : BOOLEAN, isNew : BOOLEAN]

\* todo: fetched plays to ingest.  artist, album: the ids the resolver's answer
\* leads to for the first of them.  errors: Errors or Unresolved is not 0.
Job == [chain : Seq(Link), todo : SUBSET Play, fetched : SUBSET Play,
        mbid : BOOLEAN, artist : {"mb", "sp"}, album : {"mb", "sp"},
        at : Nat, errors : BOOLEAN]

NoJob == [chain |-> <<>>, todo |-> {}, fetched |-> {}, mbid |-> FALSE,
          artist |-> "sp", album |-> "sp", at |-> 1, errors |-> FALSE]

Kind == {"play_full", "play_skip"}

Init ==
    /\ played = 0
    /\ history = [p \in Play |-> "absent"]
    /\ signals = [p \in Play |-> <<>>]
    /\ cache \in [Track -> {"none", "hit", "miss"}]
    /\ artistRows \in [Artist -> Catalogs]
    /\ albumRows \in [Album -> Catalogs]
    /\ pc = [w \in Syncer |-> "idle"]
    /\ job = [w \in Syncer |-> NoJob]
    /\ status = [w \in Syncer |-> Null]
    /\ gap = FALSE

Goto(w, label) == pc' = [pc EXCEPT ![w] = label]

Recorded == {p \in Play : history[p] # "absent"}

\* The play being ingested, its track and that track's artist and album.
First(w) == F!Min(job[w].todo)
TrackAt(w) == TrackOf[First(w)]
ArtistAt(w) == ArtistOf[TrackAt(w)]
AlbumAt(w) == AlbumOf[TrackAt(w)]

\* Go on with the next fetched play, or with the chain.
NextPlay(w, todo) == Goto(w, IF todo = {} THEN "emit" ELSE "ingest")

-----------------------------------------------------------------------------
(* Up to Spotify's answer. *)

PlayTrack ==
    /\ played < Len(TrackOf)
    /\ played' = played + 1
    /\ UNCHANGED <<dbVars, pc, job, status, gap>>

\* startRun
Start(w) ==
    /\ pc[w] = "idle"
    /\ job' = [job EXCEPT ![w] = NoJob]
    /\ Goto(w, "token")
    /\ UNCHANGED <<played, dbVars, status, gap>>

AccessToken(w) ==
    /\ pc[w] = "token"
    /\ Goto(w, "load")
    /\ UNCHANGED <<played, dbVars, job, status, gap>>

\* Mutant: ORDER BY played_at without DESC.
LoadFirstKnownPlay(w) ==
    /\ pc[w] = "load"
    /\ job' = [job EXCEPT ![w].chain =
         IF Recorded = {} THEN <<>>
         ELSE LET p == F!Min(Recorded) IN
              <<[play |-> p, mbid |-> history[p] = "resolved", isNew |-> FALSE]>>]
    /\ Goto(w, "fetch")
    /\ UNCHANGED <<played, dbVars, status, gap>>

LoadLastKnownPlay(w) ==
    /\ pc[w] = "load"
    /\ job' = [job EXCEPT ![w].chain =
         IF Recorded = {} THEN <<>>
         ELSE LET p == F!Max(Recorded) IN
              <<[play |-> p, mbid |-> history[p] = "resolved", isNew |-> FALSE]>>]
    /\ Goto(w, "fetch")
    /\ UNCHANGED <<played, dbVars, status, gap>>

\* What Spotify holds of the plays after the cursor, sorted by time.
Reported(w) ==
    {p \in 1..played :
        /\ p > played - Window
        /\ job[w].chain # <<>> => p > job[w].chain[1].play}

\* All plays after the cursor, reported or not.
Unseen(w) == {p \in 1..played : job[w].chain # <<>> => p > job[w].chain[1].play}

FetchRecentlyPlayed(w) ==
    /\ pc[w] = "fetch"
    /\ job' = [job EXCEPT ![w].todo = Reported(w), ![w].fetched = Reported(w)]
    /\ NextPlay(w, Reported(w))
    /\ gap' = (gap \/ Reported(w) # Unseen(w))
    /\ UNCHANGED <<played, dbVars, status>>

\* The token, the history or Spotify failed: the run is marked "failed".
FetchFails(w) ==
    /\ Fallible /\ pc[w] \in {"token", "load", "fetch"}
    /\ status' = [status EXCEPT ![w] = "failed"]
    /\ Goto(w, "idle")
    /\ UNCHANGED <<played, dbVars, job, gap>>

-----------------------------------------------------------------------------
(* ingestPlay: the resolver, the catalog rows, the history row. *)

\* A cached answer carries the track's id only, neither artist nor album.
CacheHit(w) ==
    /\ pc[w] = "ingest" /\ cache[TrackAt(w)] = "hit"
    /\ job' = [job EXCEPT ![w].mbid = TRUE, ![w].artist = "sp", ![w].album = "sp"]
    /\ Goto(w, "artist")
    /\ UNCHANGED <<played, dbVars, status, gap>>

\* MusicBrainz's answer may lack the release group.
LookupHit(w) ==
    /\ pc[w] = "ingest" /\ cache[TrackAt(w)] = "none"
    /\ \E album \in {"mb", "sp"} :
         job' = [job EXCEPT ![w].mbid = TRUE, ![w].artist = "mb", ![w].album = album]
    /\ cache' = [cache EXCEPT ![TrackAt(w)] = "hit"]
    /\ Goto(w, "artist")
    /\ UNCHANGED <<played, history, signals, artistRows, albumRows, status, gap>>

\* A tombstone in the cache, or a new one: the play is recorded anyway.
Unresolved(w) ==
    /\ pc[w] = "ingest" /\ cache[TrackAt(w)] \in {"none", "miss"}
    /\ job' = [job EXCEPT ![w].mbid = FALSE, ![w].errors = TRUE]
    /\ cache' = [cache EXCEPT ![TrackAt(w)] = "miss"]
    /\ Goto(w, "row")
    /\ UNCHANGED <<played, history, signals, artistRows, albumRows, status, gap>>

\* A row that holds the Spotify id is updated under the id it has; only when
\* there is none is one inserted, or updated, under the id asked for.
Upserted(rows, id) ==
    IF rows \cap ({"mb", "sp"} \ {id}) # {} THEN rows
    ELSE IF id = "mb" THEN {"mb"} ELSE rows \cup {"sp"}

Exists(rows, id) ==
    IF id = "mb" THEN rows \cap {"mb", "bare"} # {} ELSE "sp" \in rows

UpsertArtist(w) ==
    /\ pc[w] = "artist"
    /\ artistRows' = [artistRows EXCEPT ![ArtistAt(w)] =
         Upserted(@, job[w].artist)]
    /\ Goto(w, "album")
    /\ UNCHANGED <<played, history, signals, cache, albumRows, job, status, gap>>

\* Both the update and the insert write primary_artist_mbid, a foreign key.
ArtistExists(w) == Exists(artistRows[ArtistAt(w)], job[w].artist)

UpsertAlbum(w) ==
    /\ pc[w] = "album" /\ ArtistExists(w)
    /\ albumRows' = [albumRows EXCEPT ![AlbumAt(w)] =
         Upserted(@, job[w].album)]
    /\ Goto(w, "track")
    /\ UNCHANGED <<played, history, signals, cache, artistRows, job, status, gap>>

AlbumExists(w) == Exists(albumRows[AlbumAt(w)], job[w].album)

UpsertTrack(w) ==
    /\ pc[w] = "track" /\ ArtistExists(w) /\ AlbumExists(w)
    /\ Goto(w, "row")
    /\ UNCHANGED <<played, dbVars, job, status, gap>>

\* ON CONFLICT DO NOTHING: a play another poll inserted stays out of the chain.
InsertPlayHistory(w) ==
    LET p == First(w)
        todo == job[w].todo \ {p}
        link == [play |-> p, mbid |-> job[w].mbid, isNew |-> TRUE]
    IN
    /\ pc[w] = "row"
    /\ history' = IF p \in Recorded THEN history
                  ELSE [history EXCEPT ![p] =
                          IF job[w].mbid THEN "resolved" ELSE "unresolved"]
    /\ job' = [job EXCEPT ![w].todo = todo, ![w].chain =
         IF p \in Recorded THEN @ ELSE Append(@, link)]
    /\ NextPlay(w, todo)
    /\ UNCHANGED <<played, signals, cache, artistRows, albumRows, status, gap>>

\* Mutant: a play that could not be ingested is not counted.
DropPlaySilently(w) ==
    LET todo == job[w].todo \ {First(w)} IN
    /\ job' = [job EXCEPT ![w].todo = todo]
    /\ gap' = TRUE
    /\ NextPlay(w, todo)
    /\ UNCHANGED <<played, dbVars, status>>

DropPlay(w) ==
    LET todo == job[w].todo \ {First(w)} IN
    /\ job' = [job EXCEPT ![w].todo = todo, ![w].errors = TRUE]
    /\ gap' = TRUE
    /\ NextPlay(w, todo)
    /\ UNCHANGED <<played, dbVars, status>>

\* A foreign key does not hold: the play is counted as an error and skipped.
ParentMissing(w) ==
    /\ \/ pc[w] = "album" /\ ~ArtistExists(w)
       \/ pc[w] = "track" /\ ~(ArtistExists(w) /\ AlbumExists(w))
    /\ DropPlay(w)

\* MusicBrainz or any statement failed, a racing insert's unique key included.
IngestFails(w) ==
    /\ Fallible /\ pc[w] \in {"ingest", "artist", "album", "track", "row"}
    /\ DropPlay(w)

-----------------------------------------------------------------------------
(* The chain's adjacent pairs, and the end. *)

Verdict(p, next) ==
    IF PlayedAt[p] + Duration[TrackOf[p]] - SkipTolerance > PlayedAt[next]
    THEN "play_skip" ELSE "play_full"

Pair(w) == <<job[w].chain[job[w].at], job[w].chain[job[w].at + 1]>>
PairLeft(w) == job[w].at + 1 <= Len(job[w].chain)
Emits(w) == Pair(w)[2].isNew /\ Pair(w)[1].mbid

\* Mutant: the later play of the pair is the one that gets the signal.
EmitForLater(w) ==
    LET p == Pair(w)[2].play
        next == Pair(w)[2].play
    IN
    /\ pc[w] = "emit" /\ PairLeft(w) /\ Emits(w)
    /\ signals' = [signals EXCEPT ![p] =
         Append(@, [next |-> next, kind |-> Verdict(p, next)])]
    /\ job' = [job EXCEPT ![w].at = @ + 1]
    /\ UNCHANGED <<played, history, cache, artistRows, albumRows, pc, status, gap>>

EmitFullOrSkip(w) ==
    LET p == Pair(w)[1].play
        next == Pair(w)[2].play
    IN
    /\ pc[w] = "emit" /\ PairLeft(w) /\ Emits(w)
    /\ signals' = [signals EXCEPT ![p] =
         Append(@, [next |-> next, kind |-> Verdict(p, next)])]
    /\ job' = [job EXCEPT ![w].at = @ + 1]
    /\ UNCHANGED <<played, history, cache, artistRows, albumRows, pc, status, gap>>

SkipPair(w) ==
    /\ pc[w] = "emit" /\ PairLeft(w) /\ ~Emits(w)
    /\ job' = [job EXCEPT ![w].at = @ + 1]
    /\ UNCHANGED <<played, dbVars, pc, status, gap>>

EmitFails(w) ==
    /\ Fallible /\ pc[w] = "emit" /\ PairLeft(w) /\ Emits(w)
    /\ job' = [job EXCEPT ![w].at = @ + 1, ![w].errors = TRUE]
    /\ gap' = TRUE
    /\ UNCHANGED <<played, dbVars, pc, status>>

\* Mutant: the run is left as it was started.
FinishKeepsRunning(w) ==
    /\ pc[w] = "emit" /\ ~PairLeft(w)
    /\ status' = [status EXCEPT ![w] = "running"]
    /\ Goto(w, "idle")
    /\ UNCHANGED <<played, dbVars, job, gap>>

Finish(w) ==
    /\ pc[w] = "emit" /\ ~PairLeft(w)
    /\ status' = [status EXCEPT ![w] = IF job[w].errors THEN "partial" ELSE "ok"]
    /\ Goto(w, "idle")
    /\ UNCHANGED <<played, dbVars, job, gap>>

\* The process ends, or the context does and every later statement fails.
CutOff(w) ==
    /\ Fallible /\ pc[w] # "idle"
    /\ gap' = TRUE
    /\ status' = [status EXCEPT ![w] = Null]
    /\ Goto(w, "idle")
    /\ UNCHANGED <<played, dbVars, job>>

-----------------------------------------------------------------------------
Ingest(w) == \/ CacheHit(w) \/ LookupHit(w) \/ Unresolved(w) \/ UpsertArtist(w)
             \/ UpsertAlbum(w) \/ UpsertTrack(w) \/ InsertPlayHistory(w)
             \/ ParentMissing(w) \/ IngestFails(w)

Sync(w) == \/ Start(w) \/ AccessToken(w) \/ LoadLastKnownPlay(w)
           \/ FetchRecentlyPlayed(w) \/ FetchFails(w)
           \/ Ingest(w)
           \/ EmitFullOrSkip(w) \/ SkipPair(w) \/ EmitFails(w) \/ Finish(w)
           \/ CutOff(w)

Next == PlayTrack \/ \E w \in Syncer : Sync(w)

Spec == Init /\ [][Next]_vars

-----------------------------------------------------------------------------
(* Properties. *)

TypeOK ==
    /\ played \in 0..Len(TrackOf)
    /\ history \in [Play -> {"absent", "unresolved", "resolved"}]
    /\ signals \in [Play -> Seq([next : Play, kind : Kind])]
    /\ cache \in [Track -> {"none", "hit", "miss"}]
    /\ artistRows \in [Artist -> Rows]
    /\ albumRows \in [Album -> Rows]
    /\ pc \in [Syncer -> PC]
    /\ job \in [Syncer -> Job]
    /\ status \in [Syncer -> {"ok", "partial", "failed", Null}]
    /\ gap \in BOOLEAN

(***************************************************************************)
(* "We emit a signal for P only when N is a freshly-inserted play in this  *)
(* poll.  That guarantees exactly-once emission": no play gets two, over   *)
(* all polls.                                                              *)
(***************************************************************************)
OneSignalPerPlay == \A p \in Play : Len(signals[p]) <= 1

(***************************************************************************)
(* "The last play in any poll has no known next yet and stays unemitted    *)
(* until the next poll shows a successor": between polls, if nothing was   *)
(* lost on the way, each resolved play but the last one recorded has its   *)
(* one signal, with the verdict its successor implies.                     *)
(***************************************************************************)
EmittedUpToLast ==
    ~gap /\ (\A w \in Syncer : pc[w] = "idle") =>
        \A p \in Recorded :
            signals[p] =
                IF p + 1 \in Recorded /\ history[p] = "resolved"
                THEN <<[next |-> p + 1, kind |-> Verdict(p, p + 1)]>>
                ELSE <<>>

(***************************************************************************)
(* A run that ends "ok" has recorded every play it fetched and emitted     *)
(* the signal of every pair; what it lost it reports as "partial".         *)
(***************************************************************************)
OkPollKeptEverything ==
    \A w \in Syncer : pc[w] = "idle" /\ status[w] = "ok" =>
        /\ job[w].fetched \subseteq Recorded
        /\ \A i \in 1..Len(job[w].chain) - 1 :
             job[w].chain[i].mbid => signals[job[w].chain[i].play] # <<>>

(***************************************************************************)
(* "Upsert artist + album placeholder so tracks.mbid FK stays sound": when *)
(* the album or the track is written, the rows it refers to are there.     *)
(***************************************************************************)
ParentsWritten ==
    \A w \in Syncer :
        /\ pc[w] \in {"album", "track"} => ArtistExists(w)
        /\ pc[w] = "track" => AlbumExists(w)
=============================================================================
