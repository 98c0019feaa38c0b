----------------------------- MODULE LibrarySync -----------------------------
(***************************************************************************)
(* Library sync of one user (services/library/library.go).                 *)
(*                                                                         *)
(* Sync is called by the scheduler's job and by every manual trigger, and  *)
(* nothing excludes two calls from running at once: a Worker is one such   *)
(* caller.  Every SQL statement, MusicBrainz answer and signal append is a *)
(* step of its own.  The statements of one user's sync meet in the tables  *)
(* artists, albums, saved_artists, saved_albums and signals.               *)
(*                                                                         *)
(* The resolver (cache in front of MusicBrainz) may give a Spotify id any  *)
(* answer at any time: hits expire after 90 days, misses after 30, and     *)
(* MusicBrainz is edited.  What the user has saved may change between      *)
(* syncs, and a failed page leaves a sync with a part of it, so gather     *)
(* returns any subset.                                                     *)
(***************************************************************************)
EXTENDS Naturals, FiniteSets

CONSTANTS
    Worker,     \* concurrent callers of Sync
    SpArtist,   \* Spotify ids of artists
    SpAlbum,    \* Spotify ids of albums
    ArtistOf,   \* the primary artist Spotify gives each album
    Mbid,       \* MusicBrainz artist ids
    RgMbid,     \* MusicBrainz release-group ids
    Null,       \* SQL NULL, and the empty string of the Go code
    NoRow       \* no row under this key

Placeholder(sp) == <<"sp", sp>>

ArtistKey == Mbid \cup {Placeholder(s) : s \in SpArtist}
AlbumKey  == RgMbid \cup {Placeholder(a) : a \in SpAlbum}
Subject   == ArtistKey \cup AlbumKey

AlbumRow == [spotify_id : SpAlbum, primary : ArtistKey \cup {Null}]

ASSUME ConstantsOK ==
    /\ ArtistOf \in [SpAlbum -> SpArtist]
    /\ SpArtist \cap SpAlbum = {}
    /\ ArtistKey \cap AlbumKey = {}
    /\ {Null, NoRow} \cap (Subject \cup SpArtist \cup SpAlbum) = {}
    /\ Null # NoRow
    /\ NoRow \notin AlbumRow

VARIABLES
    artists,    \* artists.spotify_id by mbid
    albums,     \* albums.(spotify_id, primary_artist_mbid) by mbid
    saved,      \* the rows of saved_artists and saved_albums (keys are disjoint)
    signals,    \* number of follow_add / library_add rows per subject
    run,        \* status of each worker's latest sync_runs row
    pc,         \* where each worker is
    job         \* the local variables of each worker's Sync call

catalogVars == <<artists, albums>>
vars        == <<artists, albums, saved, signals, run, pc, job>>

Label == {"idle", "token", "gather", "next", "resolveArtist", "upsertArtist",
          "insertArtist", "insertSavedArtist", "appendFollowAdd", "albums",
          "upsertAlbumArtist", "insertAlbumArtist", "upsertAlbum",
          "insertAlbum", "insertSavedAlbum", "appendLibraryAdd"}

(***************************************************************************)
(* follows, library: what gather returned.  todo: buckets not yet reached. *)
(* bucket, mbid: the bucket's artist and what it resolved to.              *)
(* albumsTodo, album, rg, primary: the same for the bucket's albums.       *)
(* kept: items whose saved_* row this run has seen in place (history).     *)
(* flawed: gatherErr # nil, Errors > 0 or Unresolved > 0.                  *)
(***************************************************************************)
Job == [follows : SUBSET SpArtist, library : SUBSET SpAlbum,
        todo : SUBSET SpArtist, bucket : SpArtist \cup {Null},
        mbid : ArtistKey \cup {Null}, albumsTodo : SUBSET SpAlbum,
        album : SpAlbum \cup {Null}, rg : RgMbid \cup {Null},
        primary : ArtistKey \cup {Null},
        kept : SUBSET (SpArtist \cup SpAlbum), flawed : BOOLEAN]

NoJob == [follows |-> {}, library |-> {}, todo |-> {}, bucket |-> Null,
          mbid |-> Null, albumsTodo |-> {}, album |-> Null, rg |-> Null,
          primary |-> Null, kept |-> {}, flawed |-> FALSE]

\* The locals a label relies on are set.
InBucket == Label \ {"idle", "token", "gather", "next"}
InArtist == {"upsertArtist", "insertArtist", "insertSavedArtist",
             "appendFollowAdd"}
InAlbum  == {"upsertAlbumArtist", "insertAlbumArtist", "upsertAlbum",
             "insertAlbum", "insertSavedAlbum", "appendLibraryAdd"}

LocalsSet(w) ==
    /\ pc[w] \in InBucket => job[w].bucket \in SpArtist
    /\ pc[w] \in InArtist => job[w].mbid \in ArtistKey
    /\ pc[w] \in InAlbum => job[w].album \in SpAlbum /\ job[w].rg \in RgMbid
    /\ pc[w] \in {"upsertAlbumArtist", "insertAlbumArtist"}
         => job[w].primary \in ArtistKey

TypeOK ==
    /\ artists \in [ArtistKey -> SpArtist \cup {Null, NoRow}]
    /\ albums \in [AlbumKey -> AlbumRow \cup {NoRow}]
    /\ saved \subseteq Subject
    /\ signals \in [Subject -> Nat]
    /\ run \in [Worker -> {"none", "running", "ok", "partial", "failed"}]
    /\ pc \in [Worker -> Label]
    /\ job \in [Worker -> Job]
    /\ \A w \in Worker : LocalsSet(w)

(***************************************************************************)
(* The catalog a user's first sync may find: artists other services wrote  *)
(* without a Spotify id, and the placeholder rows the listening sync wrote *)
(* for albums the user has played.                                         *)
(***************************************************************************)
Init ==
    /\ \E known \in SUBSET Mbid, played \in SUBSET SpAlbum :
         /\ artists = [k \in ArtistKey |->
               IF k \in known THEN Null
               ELSE IF \E a \in played : k = Placeholder(ArtistOf[a])
                    THEN CHOOSE s \in SpArtist : k = Placeholder(s)
                    ELSE NoRow]
         /\ albums = [k \in AlbumKey |->
               IF \E a \in played : k = Placeholder(a)
               THEN LET a == CHOOSE a \in played : k = Placeholder(a)
                    IN  [spotify_id |-> a, primary |-> Placeholder(ArtistOf[a])]
               ELSE NoRow]
    /\ saved = {}
    /\ signals = [x \in Subject |-> 0]
    /\ run = [w \in Worker |-> "none"]
    /\ pc = [w \in Worker |-> "idle"]
    /\ job = [w \in Worker |-> NoJob]

-----------------------------------------------------------------------------
(* Steps of a worker. *)

Goto(w, label) == pc' = [pc EXCEPT ![w] = label]

Spoil(w) == job' = [job EXCEPT ![w].flawed = TRUE]

Start(w) ==
    /\ pc[w] = "idle"
    /\ run' = [run EXCEPT ![w] = "running"]
    /\ job' = [job EXCEPT ![w] = NoJob]
    /\ Goto(w, "token")
    /\ UNCHANGED <<catalogVars, saved, signals>>

AccessTokenOK(w) ==
    /\ pc[w] = "token"
    /\ Goto(w, "gather")
    /\ UNCHANGED <<catalogVars, saved, signals, run, job>>

AccessTokenFails(w) ==
    /\ pc[w] = "token"
    /\ run' = [run EXCEPT ![w] = "failed"]
    /\ Goto(w, "idle")
    /\ UNCHANGED <<catalogVars, saved, signals, job>>

\* A bucket for every followed artist and every artist of a saved album.
Gather(w) ==
    /\ pc[w] = "gather"
    /\ \E f \in SUBSET SpArtist, l \in SUBSET SpAlbum, err \in BOOLEAN :
         job' = [job EXCEPT ![w] =
                   [@ EXCEPT !.follows = f, !.library = l, !.flawed = err,
                             !.todo = f \cup {ArtistOf[a] : a \in l}]]
    /\ Goto(w, "next")
    /\ UNCHANGED <<catalogVars, saved, signals, run>>

Score(w, s) ==
    3 * Cardinality({a \in job[w].library : ArtistOf[a] = s})
      + (IF s \in job[w].follows THEN 10 ELSE 0)

\* The best bucket left; equal scores are broken by name, which is not modelled.
NextBucket(w) ==
    /\ pc[w] = "next"
    /\ \E s \in job[w].todo :
         /\ \A t \in job[w].todo : Score(w, t) <= Score(w, s)
         /\ job' = [job EXCEPT ![w] =
              [@ EXCEPT !.todo = job[w].todo \ {s}, !.bucket = s,
                        !.albumsTodo = {a \in job[w].library : ArtistOf[a] = s}]]
    /\ Goto(w, "resolveArtist")
    /\ UNCHANGED <<catalogVars, saved, signals, run>>

\* The locals of resolveBucket go with it.
LeaveBucket(w) ==
    [job[w] EXCEPT !.bucket = Null, !.mbid = Null, !.albumsTodo = {},
                   !.album = Null, !.rg = Null, !.primary = Null]

Followed(w) == job[w].bucket \in job[w].follows

ResolveArtist(w) ==
    /\ pc[w] = "resolveArtist"
    /\ \E m \in Mbid : job' = [job EXCEPT ![w].mbid = m]
    /\ Goto(w, "upsertArtist")
    /\ UNCHANGED <<catalogVars, saved, signals, run>>

\* Mutant: the followed artist's placeholder id is not filled in.
ArtistUnresolvedKeepsEmptyId(w) ==
    /\ pc[w] = "resolveArtist"
    /\ job' = [job EXCEPT ![w].flawed = Followed(w)]
    /\ Goto(w, IF Followed(w) THEN "upsertArtist" ELSE "albums")
    /\ UNCHANGED <<catalogVars, saved, signals, run>>

\* A followed artist MusicBrainz does not know is kept under "sp:<id>" if it
\* has a name; an artist that is not followed is passed over in silence.
ArtistUnresolved(w) ==
    /\ pc[w] = "resolveArtist"
    /\ \/ /\ Followed(w)
          /\ \/ /\ job' = [job EXCEPT ![w].flawed = TRUE,
                               ![w].mbid = Placeholder(job[w].bucket)]
                /\ Goto(w, "upsertArtist")
             \/ /\ Spoil(w)
                /\ Goto(w, "albums")
       \/ /\ ~Followed(w)
          /\ Goto(w, "albums")
          /\ UNCHANGED job
    /\ UNCHANGED <<catalogVars, saved, signals, run>>

(***************************************************************************)
(* upsertArtist(mbid, sp): when another row holds the Spotify id, that row *)
(* is renamed and the row for mbid is not written.                         *)
(***************************************************************************)
HeldByOther(mbid, sp) == \E k \in ArtistKey \ {mbid} : artists[k] = sp

AfterArtist(w) == IF Followed(w) THEN "insertSavedArtist" ELSE "albums"

UpdateArtist(w) ==
    /\ pc[w] = "upsertArtist"
    /\ Goto(w, IF HeldByOther(job[w].mbid, job[w].bucket)
               THEN AfterArtist(w) ELSE "insertArtist")
    /\ UNCHANGED <<catalogVars, saved, signals, run, job>>

InsertArtist(w) ==
    /\ pc[w] = "insertArtist"
    /\ ~HeldByOther(job[w].mbid, job[w].bucket)
    /\ artists' = [artists EXCEPT ![job[w].mbid] = job[w].bucket]
    /\ Goto(w, AfterArtist(w))
    /\ UNCHANGED <<albums, saved, signals, run, job>>

\* Mutant: insertSavedArtist reports "inserted" for a row it found, too.
InsertSavedArtistAgain(w) ==
    /\ pc[w] = "insertSavedArtist"
    /\ artists[job[w].mbid] # NoRow
    /\ saved' = saved \cup {job[w].mbid}
    /\ job' = [job EXCEPT ![w].kept = @ \cup {job[w].bucket}]
    /\ Goto(w, "appendFollowAdd")
    /\ UNCHANGED <<catalogVars, signals, run>>

InsertSavedArtist(w) ==
    /\ pc[w] = "insertSavedArtist"
    /\ artists[job[w].mbid] # NoRow
    /\ saved' = saved \cup {job[w].mbid}
    /\ job' = [job EXCEPT ![w].kept = @ \cup {job[w].bucket}]
    /\ Goto(w, IF job[w].mbid \in saved THEN "albums" ELSE "appendFollowAdd")
    /\ UNCHANGED <<catalogVars, signals, run>>

AppendFollowAdd(w) ==
    /\ pc[w] = "appendFollowAdd"
    /\ signals' = [signals EXCEPT ![job[w].mbid] = @ + 1]
    /\ Goto(w, "albums")
    /\ UNCHANGED <<catalogVars, saved, run, job>>

NextAlbum(w, a) ==
    /\ pc[w] = "albums"
    /\ a \in job[w].albumsTodo

\* credit: the artist of a fresh MusicBrainz answer.  A cached answer has none,
\* and the album then goes to the bucket's artist without an artist upsert.
ResolveAlbum(w) ==
    /\ \E a \in SpAlbum, r \in RgMbid, credit \in Mbid \cup {Null} :
         /\ NextAlbum(w, a)
         /\ job' = [job EXCEPT ![w] =
              [@ EXCEPT !.albumsTodo = job[w].albumsTodo \ {a},
                 !.album = a, !.rg = r, !.primary = IF credit = Null THEN job[w].mbid ELSE credit]]
         /\ Goto(w, IF credit = Null THEN "upsertAlbum" ELSE "upsertAlbumArtist")
    /\ UNCHANGED <<catalogVars, saved, signals, run>>

AlbumUnresolved(w) ==
    /\ \E a \in SpAlbum :
         /\ NextAlbum(w, a)
         /\ job' = [job EXCEPT ![w] =
              [@ EXCEPT !.albumsTodo = job[w].albumsTodo \ {a}, !.flawed = TRUE]]
    /\ UNCHANGED <<catalogVars, saved, signals, run, pc>>

\* The error of this upsert is ignored (the "_ =" of resolveOneAlbum).
UpdateAlbumArtist(w) ==
    /\ pc[w] = "upsertAlbumArtist"
    /\ Goto(w, IF HeldByOther(job[w].primary, job[w].bucket)
               THEN "upsertAlbum" ELSE "insertAlbumArtist")
    /\ UNCHANGED <<catalogVars, saved, signals, run, job>>

InsertAlbumArtist(w) ==
    /\ pc[w] = "insertAlbumArtist"
    /\ IF HeldByOther(job[w].primary, job[w].bucket)
       THEN UNCHANGED artists
       ELSE artists' = [artists EXCEPT ![job[w].primary] = job[w].bucket]
    /\ Goto(w, "upsertAlbum")
    /\ UNCHANGED <<albums, saved, signals, run, job>>

OtherAlbumRows(w) ==
    {k \in AlbumKey \ {job[w].rg} :
        albums[k] # NoRow /\ albums[k].spotify_id = job[w].album}

\* COALESCE($artist, primary_artist_mbid)
NewPrimary(w, k) ==
    IF job[w].primary # Null THEN job[w].primary
    ELSE IF albums[k] # NoRow THEN albums[k].primary ELSE Null

\* The foreign key of albums.primary_artist_mbid.
PrimaryExists(w) == job[w].primary # Null => artists[job[w].primary] # NoRow

UpdateAlbum(w) ==
    /\ pc[w] = "upsertAlbum"
    /\ IF OtherAlbumRows(w) = {}
       THEN Goto(w, "insertAlbum") /\ UNCHANGED albums
       ELSE /\ PrimaryExists(w)
            /\ albums' = [k \in AlbumKey |->
                 IF k \in OtherAlbumRows(w)
                 THEN [albums[k] EXCEPT !.primary = NewPrimary(w, k)]
                 ELSE albums[k]]
            /\ Goto(w, "insertSavedAlbum")
    /\ UNCHANGED <<artists, saved, signals, run, job>>

InsertAlbum(w) ==
    /\ pc[w] = "insertAlbum"
    /\ OtherAlbumRows(w) = {}
    /\ PrimaryExists(w)
    /\ albums' = [albums EXCEPT ![job[w].rg] =
         [spotify_id |-> job[w].album, primary |-> NewPrimary(w, job[w].rg)]]
    /\ Goto(w, "insertSavedAlbum")
    /\ UNCHANGED <<artists, saved, signals, run, job>>

\* Mutant: insertSavedAlbum reports "inserted" for a row it found, too.
InsertSavedAlbumAgain(w) ==
    /\ pc[w] = "insertSavedAlbum"
    /\ albums[job[w].rg] # NoRow
    /\ saved' = saved \cup {job[w].rg}
    /\ job' = [job EXCEPT ![w].kept = @ \cup {job[w].album}]
    /\ Goto(w, "appendLibraryAdd")
    /\ UNCHANGED <<catalogVars, signals, run>>

InsertSavedAlbum(w) ==
    /\ pc[w] = "insertSavedAlbum"
    /\ albums[job[w].rg] # NoRow
    /\ saved' = saved \cup {job[w].rg}
    /\ job' = [job EXCEPT ![w].kept = @ \cup {job[w].album}]
    /\ Goto(w, IF job[w].rg \in saved THEN "albums" ELSE "appendLibraryAdd")
    /\ UNCHANGED <<catalogVars, signals, run>>

AppendLibraryAdd(w) ==
    /\ pc[w] = "appendLibraryAdd"
    /\ signals' = [signals EXCEPT ![job[w].rg] = @ + 1]
    /\ Goto(w, "albums")
    /\ UNCHANGED <<catalogVars, saved, run, job>>

BucketDone(w) ==
    /\ pc[w] = "albums"
    /\ job[w].albumsTodo = {}
    /\ job' = [job EXCEPT ![w] = LeaveBucket(w)]
    /\ Goto(w, "next")
    /\ UNCHANGED <<catalogVars, saved, signals, run>>

(***************************************************************************)
(* A statement, a MusicBrainz call or an append fails: a foreign key or    *)
(* UNIQUE violation, or any error of the driver.  r.Errors is counted; an  *)
(* artist that cannot be resolved or upserted takes its whole bucket along.*)
(***************************************************************************)
ArtistFails(w) ==
    /\ pc[w] \in {"resolveArtist", "upsertArtist", "insertArtist"}
    /\ job' = [job EXCEPT ![w] = [LeaveBucket(w) EXCEPT !.flawed = TRUE]]
    /\ Goto(w, "next")
    /\ UNCHANGED <<catalogVars, saved, signals, run>>

\* Mutant: the error of a save is logged, but not counted.
SaveFailsUncounted(w) ==
    /\ pc[w] \in {"insertSavedArtist", "appendFollowAdd", "upsertAlbum",
                  "insertAlbum", "insertSavedAlbum", "appendLibraryAdd"}
    /\ Goto(w, "albums")
    /\ UNCHANGED <<catalogVars, saved, signals, run, job>>

SaveFails(w) ==
    /\ pc[w] \in {"insertSavedArtist", "appendFollowAdd", "upsertAlbum",
                  "insertAlbum", "insertSavedAlbum", "appendLibraryAdd"}
    /\ Spoil(w)
    /\ Goto(w, "albums")
    /\ UNCHANGED <<catalogVars, saved, signals, run>>

AlbumArtistFails(w) ==
    /\ pc[w] \in {"upsertAlbumArtist", "insertAlbumArtist"}
    /\ Goto(w, "upsertAlbum")
    /\ UNCHANGED <<catalogVars, saved, signals, run, job>>

Finish(w) ==
    /\ pc[w] = "next"
    /\ job[w].todo = {}
    /\ run' = [run EXCEPT ![w] = IF job[w].flawed THEN "partial" ELSE "ok"]
    /\ Goto(w, "idle")
    /\ job' = [job EXCEPT ![w] =
         IF @.flawed THEN NoJob
         ELSE [NoJob EXCEPT !.follows = job[w].follows,
                 !.library = job[w].library, !.kept = job[w].kept]]
    /\ UNCHANGED <<catalogVars, saved, signals>>

(***************************************************************************)
(* The process dies, or the context is cancelled or times out so that no   *)
(* further statement of this call succeeds, finishRun's included.          *)
(***************************************************************************)
Abort(w) ==
    /\ pc[w] # "idle"
    /\ Goto(w, "idle")
    /\ job' = [job EXCEPT ![w] = NoJob]
    /\ UNCHANGED <<catalogVars, saved, signals, run>>

Step(w) ==
    \/ Start(w) \/ AccessTokenOK(w) \/ AccessTokenFails(w) \/ Gather(w)
    \/ NextBucket(w) \/ ResolveArtist(w) \/ ArtistUnresolved(w)
    \/ UpdateArtist(w) \/ InsertArtist(w) \/ InsertSavedArtist(w)
    \/ AppendFollowAdd(w) \/ ResolveAlbum(w) \/ AlbumUnresolved(w)
    \/ UpdateAlbumArtist(w) \/ InsertAlbumArtist(w) \/ UpdateAlbum(w)
    \/ InsertAlbum(w) \/ InsertSavedAlbum(w) \/ AppendLibraryAdd(w)
    \/ BucketDone(w) \/ ArtistFails(w) \/ SaveFails(w) \/ AlbumArtistFails(w)
    \/ Finish(w)

Next == \E w \in Worker : Step(w) \/ Abort(w)

Spec == Init /\ [][Next]_vars

-----------------------------------------------------------------------------
(* Properties. *)

\* Worker w has saved x and its next step appends x's signal.
Owes(w, x) ==
    \/ pc[w] = "appendFollowAdd" /\ job[w].mbid = x
    \/ pc[w] = "appendLibraryAdd" /\ job[w].rg = x

(***************************************************************************)
(* However many syncs run, overlap, fail or die, a saved subject has at    *)
(* most one signal (resolveBucket, resolveOneAlbum: "fires only on first   *)
(* save"): there is none before the save, one sync at most is about to     *)
(* append it, and nobody is once it is there.                              *)
(***************************************************************************)
SignalOncePerSave ==
    \A x \in Subject :
        /\ signals[x] <= 1
        /\ signals[x] = 1 => x \in saved
        /\ \A w \in Worker : Owes(w, x) =>
              /\ x \in saved
              /\ signals[x] = 0
              /\ \A v \in Worker : Owes(v, x) => v = w

(***************************************************************************)
(* A run reported "ok" left nothing out: each followed artist and each     *)
(* album it gathered has a saved_* row (Sync's status computation).  So    *)
(* does one whose upsertArtist or upsertAlbum renamed the row that held    *)
(* the Spotify id and returned without writing the one it was asked for:   *)
(* the save then fails on its foreign key, and the run is not ok.          *)
(***************************************************************************)
OkRunKeptEverything ==
    \A w \in Worker : run[w] = "ok" /\ pc[w] = "idle" =>
        job[w].follows \cup job[w].library \subseteq job[w].kept

\* What became of the save of x: Owes refers to the run that must signal it.
FateOf(x) ==
    IF x \notin saved THEN "unsaved"
    ELSE IF signals[x] > 0 THEN "signalled"
    ELSE IF \E w \in Worker : Owes(w, x) THEN "owed"
    ELSE "lost"

(***************************************************************************)
(* Library sync implements SignalOnce: a save is followed by its signal or *)
(* by the loss of it, never by a second one, and a lost signal is not made *)
(* up for by a later sync, which finds the row saved already.              *)
(***************************************************************************)
Once == INSTANCE SignalOnce WITH fate <- [x \in Subject |-> FateOf(x)],
                                 emitted <- signals
ImplementsSignalOnce == Once!OnceSpec
=============================================================================
