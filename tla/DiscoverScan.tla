----------------------------- MODULE DiscoverScan -----------------------------
(***************************************************************************)
(* The five services that write one user's discover_candidates: releases,  *)
(* lbsimilar, lfsimilar, mbrels and samelabel, each with the source's name *)
(* below.  They share one shape: a gate over sync_runs, the user's seeds,  *)
(* what the user already knows or has hidden, leads for each seed (similar *)
(* or related artists, labels, or the seed itself), release groups of each *)
(* lead, and a candidate row for each release promoted.                    *)
(*                                                                         *)
(* A Syncer is a caller of Sync.  A call that the gate turns away, or that *)
(* fails before its run is recorded, changes nothing and is no step here.  *)
(* Scores are left out but for the order they put leads and releases in.   *)
(***************************************************************************)
EXTENDS Integers, Sequences, FiniteSets, Functions

CONSTANTS
    Syncer,
    Source,            \* the services that are called
    Artist, Album, Label,
    Seeds,             \* the artists loadSeeds may return
    LeadsOf,           \* of a source and a seed: what the provider answers
    ReleasesOf,        \* of an artist or label: what MusicBrainz lists
    MaxLeads, MaxPicks,      \* per seed and per lead
    MinInterval,             \* of each source
    ShortTTL, LongTTL,
    MaxTime, MaxRuns, MaxLoads, Knowable,     \* bounds of a model: the clock, the calls
                             \* that run, the seeds they load taken together, and
                             \* what the user may come to know, one thing of it
    None

Sources == {"releases", "lbsimilar", "lfsimilar", "mbrels", "samelabel"}
Subject == Artist \cup Album

\* place: the position in the answer or, of a relation, the rank of its strength;
\* weak: no MBID, or a match below MinMatchScore.
Lead == [target : Artist \cup Label, place : Nat, weak : BOOLEAN]
LeadsFor(source) ==
    {l \in Lead : l.target \in IF source = "samelabel" THEN Label ELSE Artist}

\* date: 0 of a release outside the window or without a date, else larger is newer.
Release == [album : Album, artist : Artist \cup {None}, date : Nat]

ASSUME ScanConstants ==
    /\ Source \subseteq Sources
    /\ Seeds \subseteq Artist /\ IsFiniteSet(Seeds) /\ Knowable \subseteq Subject
    /\ Artist \cap Label = {}
    /\ None \notin Artist /\ "no row" \notin Artist \cup {None}
    /\ LeadsOf \in [Source \X Seeds -> SUBSET Lead]
    /\ \A source \in Source, seed \in Seeds :
         LeadsOf[source, seed] \subseteq LeadsFor(source) /\ IsFiniteSet(LeadsOf[source, seed])
    /\ ReleasesOf \in [Artist \cup Label -> SUBSET Release]
    /\ \A target \in Artist \cup Label : IsFiniteSet(ReleasesOf[target])
    /\ MaxLeads \in Nat \ {0} /\ MaxPicks \in Nat \ {0}
    /\ MinInterval \in [Source -> Nat]
    /\ ShortTTL \in Nat /\ LongTTL \in Nat /\ MaxTime \in Nat /\ MaxRuns \in Nat
    /\ MaxLoads \in Nat

VARIABLES
    now,
    known,        \* saved_artists, saved_albums and hides: what the user has or rejected
    runs,         \* sync_runs
    artists, labels,     \* catalog rows
    albums,       \* rows of albums: their primary artists; "no row" of the others
    links,        \* album_labels
    candidates,
    pc, job

vars == <<now, known, runs, artists, labels, albums, links, candidates, pc, job>>
catalog == <<artists, labels, albums, links>>

\* History: what was known when the run started, the runs its gate could see, how many
\* seeds it loaded, and the leads it was to follow of each.
Run == [source : Source, started : Nat, status : {"running", "ok", "partial", "failed"},
        known : SUBSET Subject, seen : Nat, loaded : Nat, excluded : SUBSET Subject,
        offered : SUBSET (Seeds \X Lead)]

\* run and lead (history): who wrote the row last, and along which path.
Candidate == [album : Album, source : Source, expires : Nat, run : Nat, lead : Lead]

NoJob == [source |-> None, started |-> 0, seen |-> 0, run |-> 0, excluded |-> {},
          seeds |-> {}, processed |-> {}, leads |-> {}, followed |-> 0, lead |-> None,
          shown |-> {}, release |-> None, picked |-> 0, flawed |-> FALSE]

Init ==
    /\ now = 0
    /\ known = {}
    /\ runs = <<>>
    /\ artists = Seeds /\ labels = {}
    /\ albums = [a \in Album |-> "no row"]
    /\ links = {}
    /\ candidates = {}
    /\ pc = [w \in Syncer |-> "idle"]
    /\ job = [w \in Syncer |-> NoJob]

Goto(w, label) == pc' = [pc EXCEPT ![w] = label]

Tick ==
    /\ now < MaxTime
    /\ now' = now + 1
    /\ UNCHANGED <<known, runs, catalog, candidates, pc, job>>

\* The library sync saves it, or the user dismisses it.
Know(s) ==
    /\ s \in Knowable /\ known = {}
    /\ known' = known \cup {s}
    /\ UNCHANGED <<now, runs, catalog, candidates, pc, job>>

-----------------------------------------------------------------------------
(* The gate and the run. *)

\* Mutant: only finished runs are looked at.
FreshRunFinished(source) ==
    \E i \in DOMAIN runs :
        /\ runs[i].source = source /\ runs[i].status \in {"ok", "partial"}
        /\ now - runs[i].started < MinInterval[source]

FreshRun(source) ==
    \E i \in DOMAIN runs :
        /\ runs[i].source = source /\ runs[i].status # "failed"
        /\ now - runs[i].started < MinInterval[source]

PassGate(w, source) ==
    /\ pc[w] = "idle" /\ Len(runs) < MaxRuns
    /\ ~FreshRun(source)
    /\ job' = [job EXCEPT ![w] = [NoJob EXCEPT !.source = source, !.started = now,
                                               !.seen = Len(runs)]]
    /\ Goto(w, "start")
    /\ UNCHANGED <<now, known, runs, catalog, candidates>>

StartRun(w) ==
    /\ pc[w] = "start" /\ Len(runs) < MaxRuns
    /\ runs' = Append(runs, [source |-> job[w].source, started |-> job[w].started,
                             status |-> "running", known |-> known, seen |-> job[w].seen,
                             loaded |-> 0, excluded |-> {}, offered |-> {}])
    /\ job' = [job EXCEPT ![w].run = Len(runs) + 1]
    /\ Goto(w, "seeds")
    /\ UNCHANGED <<now, known, catalog, candidates>>

\* Mutant: the run is closed as the calls that the gate turns away.
FinishRunSkipped(w, status) ==
    /\ runs' = [runs EXCEPT ![job[w].run].status = "skipped"]
    /\ job' = [job EXCEPT ![w] = NoJob]
    /\ Goto(w, "idle")
    /\ UNCHANGED <<now, known, catalog, candidates>>

FinishRun(w, status) ==
    /\ runs' = [runs EXCEPT ![job[w].run].status = status]
    /\ job' = [job EXCEPT ![w] = NoJob]
    /\ Goto(w, "idle")
    /\ UNCHANGED <<now, known, catalog, candidates>>

\* releases excludes nothing.
LoadSeeds(w) ==
    /\ pc[w] = "seeds"
    /\ \E some \in SUBSET Seeds \ {{}} :
         /\ SumFunction([i \in DOMAIN runs |-> runs[i].loaded]) + Cardinality(some) <= MaxLoads
         /\ job' = [job EXCEPT ![w].seeds = some]
         /\ runs' = [runs EXCEPT ![job[w].run].loaded = Cardinality(some)]
    /\ Goto(w, IF job[w].source = "releases" THEN "seed" ELSE "exclusions")
    /\ UNCHANGED <<now, known, catalog, candidates>>

NoSeeds(w) == pc[w] = "seeds" /\ FinishRun(w, "ok")

\* Mutant: every service leaves out albums only.
ExclusionsAlbumsOnly(source) == known \cap Album

ArtistExclusions == known \cap Artist
AlbumExclusions == known \cap Album

Exclusions(source) == IF source = "samelabel" THEN AlbumExclusions ELSE ArtistExclusions

LoadExclusions(w) ==
    LET excluded == Exclusions(job[w].source) IN
    /\ pc[w] = "exclusions"
    /\ job' = [job EXCEPT ![w].excluded = excluded]
    /\ runs' = [runs EXCEPT ![job[w].run].excluded = excluded]
    /\ Goto(w, "seed")
    /\ UNCHANGED <<now, known, catalog, candidates>>

LoadFails(w) == pc[w] \in {"seeds", "exclusions"} /\ FinishRun(w, "failed")

-----------------------------------------------------------------------------
(* The leads of a seed. *)

\* collectLabels: the labels known from album_labels, if there are any.
CachedLabels(seed) ==
    {l \in labels : \E a \in Album : <<a, l>> \in links /\ albums[a] = seed}

\* What a seed may be answered.  A label lookup that fails is skipped.
Answers(w, seed) ==
    CASE job[w].source = "releases" -> {{[target |-> seed, place |-> 1, weak |-> FALSE]}}
      [] job[w].source = "samelabel" ->
           IF CachedLabels(seed) # {}
           THEN {{[target |-> l, place |-> 1, weak |-> FALSE] : l \in CachedLabels(seed)}}
           ELSE SUBSET LeadsOf[job[w].source, seed]
      [] OTHER -> {LeadsOf[job[w].source, seed]}

\* The strongest of the relations to one target.
Strongest(answer, lead) ==
    \A l \in answer : l.target = lead.target => lead.place <= l.place

Acceptable(w, answer) ==
    {l \in answer : /\ l.target \notin job[w].excluded
                    /\ job[w].source = "lfsimilar" => ~l.weak
                    /\ job[w].source = "mbrels" => Strongest(answer, l)
                    /\ job[w].source = "samelabel" => l.target \notin job[w].processed}

FetchLeads(w, seed) ==
    /\ pc[w] = "seed" /\ seed \in job[w].seeds
    /\ \E answer \in Answers(w, seed) :
         LET leads == Acceptable(w, answer) IN
         /\ job' = [job EXCEPT ![w].seeds = @ \ {seed}, ![w].leads = leads,
                               ![w].followed = 0]
         /\ runs' = [runs EXCEPT ![job[w].run].offered = @ \cup ({seed} \X leads)]
    /\ Goto(w, "lead")
    /\ UNCHANGED <<now, known, catalog, candidates>>

\* releases has nothing to fetch.
FetchFails(w, seed) ==
    /\ pc[w] = "seed" /\ seed \in job[w].seeds
    /\ job[w].source # "releases"
    /\ job' = [job EXCEPT ![w].seeds = @ \ {seed}, ![w].flawed = TRUE]
    /\ UNCHANGED <<now, known, runs, catalog, candidates, pc>>

-----------------------------------------------------------------------------
(* The lookup of a lead. *)

\* mbrels and samelabel count the leads they try, the others those they can browse.
CountsTries(w) == job[w].source \in {"mbrels", "samelabel"}

IsNextLead(w, lead) ==
    /\ pc[w] = "lead" /\ lead \in job[w].leads /\ job[w].followed < MaxLeads
    /\ job[w].source # "samelabel" => \A l \in job[w].leads : lead.place <= l.place

\* Their errors are ignored.
UpsertArtist(artist) == artists' \in {artists, artists \cup {artist}}

UpsertLabel(w, lead) ==
    IF job[w].source = "samelabel" THEN labels' \in {labels, labels \cup {lead.target}}
    ELSE UNCHANGED labels

\* The release groups of a lead that the loop may promote: all for the similar
\* artists, those within the window and not excluded for the others.
Wanted(source, excluded, lead) ==
    {r \in ReleasesOf[lead.target] :
        \/ source \in {"lbsimilar", "lfsimilar"}
        \/ r.date > 0 /\ r.album \notin excluded}

\* A lead without a name is not upserted.
BrowseLead(w, lead) ==
    /\ IsNextLead(w, lead)
    /\ UpsertLabel(w, lead)
    /\ IF job[w].source \in {"lbsimilar", "lfsimilar", "mbrels"}
       THEN UpsertArtist(lead.target) ELSE UNCHANGED artists
    /\ job' = [job EXCEPT ![w].leads = @ \ {lead}, ![w].lead = lead, ![w].followed = @ + 1,
                          ![w].shown = Wanted(job[w].source, job[w].excluded, lead),
                          ![w].picked = 0, ![w].processed = @ \cup ({lead.target} \cap Label)]
    /\ Goto(w, "release")
    /\ UNCHANGED <<now, known, runs, albums, links, candidates>>

\* Mutant: a browse that fails is not counted as an error.
BrowseFailsUncounted(w, lead) ==
    /\ IsNextLead(w, lead)
    /\ UpsertLabel(w, lead)
    /\ job' = [job EXCEPT ![w].leads = @ \ {lead},
                          ![w].followed = IF CountsTries(w) THEN @ + 1 ELSE @,
                          ![w].processed = @ \cup ({lead.target} \cap Label)]
    /\ UNCHANGED <<now, known, runs, artists, albums, links, candidates, pc>>

BrowseFails(w, lead) ==
    /\ IsNextLead(w, lead)
    /\ UpsertLabel(w, lead)
    /\ job' = [job EXCEPT ![w].leads = @ \ {lead}, ![w].flawed = TRUE,
                          ![w].followed = IF CountsTries(w) THEN @ + 1 ELSE @,
                          ![w].processed = @ \cup ({lead.target} \cap Label)]
    /\ UNCHANGED <<now, known, runs, artists, albums, links, candidates, pc>>

LeadsDone(w) ==
    /\ pc[w] = "lead" /\ (job[w].leads = {} \/ job[w].followed >= MaxLeads)
    /\ job' = [job EXCEPT ![w].leads = {}]
    /\ Goto(w, "seed")
    /\ UNCHANGED <<now, known, runs, catalog, candidates>>

-----------------------------------------------------------------------------
(* The releases of a lead. *)

\* releases promotes all it finds; the similar artists' services count what they
\* try, mbrels and samelabel what they promote.
PicksLeft(w) == job[w].source = "releases" \/ job[w].picked < MaxPicks
CountsFailures(w) == job[w].source \in {"lbsimilar", "lfsimilar"}
NewestFirst(source) == source \in {"lbsimilar", "lfsimilar", "mbrels"}

IsNextRelease(w, release) ==
    /\ pc[w] = "release" /\ release \in job[w].shown /\ PicksLeft(w)
    /\ NewestFirst(job[w].source) => \A r \in job[w].shown : r.date <= release.date

\* samelabel upserts the release's artist first.
UpsertPrimary(w, release) ==
    IF job[w].source = "samelabel" /\ release.artist # None
    THEN UpsertArtist(release.artist) ELSE UNCHANGED artists

\* Its artist, which the albums row refers to by a foreign key.
PrimaryOf(w, release) ==
    IF job[w].source = "samelabel" THEN release.artist ELSE job[w].lead.target

\* COALESCE keeps the artist that a row already has.
Primary(album, artist) ==
    IF artist = None /\ albums[album] # "no row" THEN albums[album] ELSE artist

\* linkAlbumLabel, whose error is ignored.
LinkLabel(w, album) ==
    \/ UNCHANGED links
    \/ /\ job[w].source = "samelabel" /\ job[w].lead.target \in labels
       /\ links' = links \cup {<<album, job[w].lead.target>>}

UpsertAlbum(w, release) ==
    LET primary == PrimaryOf(w, release) IN
    /\ IsNextRelease(w, release)
    /\ UpsertPrimary(w, release)
    /\ primary = None \/ primary \in artists'
    /\ albums' = [albums EXCEPT ![release.album] = Primary(release.album, primary)]
    /\ LinkLabel(w, release.album)
    /\ job' = [job EXCEPT ![w].shown = @ \ {release}, ![w].release = release]
    /\ Goto(w, "candidate")
    /\ UNCHANGED <<now, known, runs, labels, candidates>>

\* Mutant: the candidate is written though the album was not.
AlbumFailsGoesOn(w, release) ==
    /\ IsNextRelease(w, release)
    /\ UpsertPrimary(w, release)
    /\ job' = [job EXCEPT ![w].shown = @ \ {release}, ![w].release = release,
                          ![w].flawed = TRUE]
    /\ Goto(w, "candidate")
    /\ UNCHANGED <<now, known, runs, labels, albums, links, candidates>>

AlbumFails(w, release) ==
    /\ IsNextRelease(w, release)
    /\ UpsertPrimary(w, release)
    /\ job' = [job EXCEPT ![w].shown = @ \ {release}, ![w].flawed = TRUE,
                          ![w].picked = IF CountsFailures(w) THEN @ + 1 ELSE @]
    /\ UNCHANGED <<now, known, runs, labels, albums, links, candidates, pc>>

TTLForSource(source) == IF source \in {"mbrels", "samelabel"} THEN LongTTL ELSE ShortTTL

\* A row of the same source is replaced, whatever it was.
Replacing(row) ==
    {c \in candidates : c.album # row.album \/ c.source # row.source} \cup {row}

UpsertCandidate(w) ==
    /\ pc[w] = "candidate"
    /\ candidates' = Replacing([album |-> job[w].release.album, source |-> job[w].source,
                                 expires |-> job[w].started + TTLForSource(job[w].source),
                                 run |-> job[w].run, lead |-> job[w].lead])
    /\ job' = [job EXCEPT ![w].release = None, ![w].picked = @ + 1]
    /\ Goto(w, "release")
    /\ UNCHANGED <<now, known, runs, catalog>>

CandidateFails(w) ==
    /\ pc[w] = "candidate"
    /\ job' = [job EXCEPT ![w].release = None, ![w].flawed = TRUE,
                          ![w].picked = IF CountsFailures(w) THEN @ + 1 ELSE @]
    /\ Goto(w, "release")
    /\ UNCHANGED <<now, known, runs, catalog, candidates>>

ReleasesDone(w) ==
    /\ pc[w] = "release" /\ (job[w].shown = {} \/ ~PicksLeft(w))
    /\ job' = [job EXCEPT ![w].shown = {}, ![w].lead = None, ![w].picked = 0]
    /\ Goto(w, "lead")
    /\ UNCHANGED <<now, known, runs, catalog, candidates>>

Finish(w) ==
    /\ pc[w] = "seed" /\ job[w].seeds = {}
    /\ FinishRun(w, IF job[w].flawed THEN "partial" ELSE "ok")

\* The process ends, or the call's context: finishRun fails too.
CutOff(w) ==
    /\ pc[w] # "idle"
    /\ job' = [job EXCEPT ![w] = NoJob]
    /\ Goto(w, "idle")
    /\ UNCHANGED <<now, known, runs, catalog, candidates>>

-----------------------------------------------------------------------------
Begin(w) == \/ \E source \in Source : PassGate(w, source)
            \/ StartRun(w) \/ LoadSeeds(w) \/ NoSeeds(w)
            \/ LoadExclusions(w) \/ LoadFails(w)

EachSeed(w) == \E seed \in Seeds : FetchLeads(w, seed) \/ FetchFails(w, seed)

EachLead(w) == \E lead \in job[w].leads : BrowseLead(w, lead) \/ BrowseFails(w, lead)

EachRelease(w) ==
    \/ \E release \in job[w].shown : UpsertAlbum(w, release) \/ AlbumFails(w, release)
    \/ UpsertCandidate(w) \/ CandidateFails(w)

Sync(w) == \/ Begin(w) \/ EachSeed(w) \/ EachLead(w) \/ LeadsDone(w)
           \/ EachRelease(w) \/ ReleasesDone(w) \/ Finish(w) \/ CutOff(w)

Next == Tick \/ (\E s \in Subject : Know(s)) \/ \E w \in Syncer : Sync(w)

Spec == Init /\ [][Next]_vars

-----------------------------------------------------------------------------
(* Properties. *)

Job == [source : Source \cup {None}, started : Nat, seen : Nat, run : Nat,
        excluded : SUBSET Subject, seeds : SUBSET Seeds, processed : SUBSET Label,
        leads : SUBSET Lead, followed : Nat, lead : Lead \cup {None},
        shown : SUBSET Release, release : Release \cup {None}, picked : Nat,
        flawed : BOOLEAN]

TypeOK ==
    /\ now \in Nat
    /\ known \subseteq Subject
    /\ runs \in Seq(Run)
    /\ artists \subseteq Artist /\ labels \subseteq Label
    /\ albums \in [Album -> Artist \cup {None, "no row"}]
    /\ links \subseteq Album \X Label
    /\ candidates \subseteq Candidate
    /\ pc \in [Syncer -> {"idle", "start", "seeds", "exclusions", "seed", "lead",
                          "release", "candidate"}]
    /\ job \in [Syncer -> Job]

(***************************************************************************)
(* The gate: two runs of one service that did not fail started MinInterval *)
(* apart, unless the later one's gate was read before the earlier one was  *)
(* recorded; a run that was cut off counts.                                *)
(***************************************************************************)
GateKeepsRunsApart ==
    \A i, j \in DOMAIN runs :
        /\ i <= runs[j].seen /\ runs[i].source = runs[j].source
        /\ runs[i].status # "failed" /\ runs[j].status # "failed"
        => runs[i].started + MinInterval[runs[i].source] <= runs[j].started

(***************************************************************************)
(* "filter against what the user already knows or has rejected": what the  *)
(* user followed, saved or dismissed before a run began is not promoted by *)
(* it; artists for lbsimilar, lfsimilar and mbrels, albums for samelabel.  *)
(***************************************************************************)
KnownStaysOut ==
    \A c \in candidates :
        /\ c.source = "samelabel" => c.album \notin runs[c.run].known
        /\ c.source \in {"lbsimilar", "lfsimilar", "mbrels"} =>
              c.lead.target \notin runs[c.run].known

(***************************************************************************)
(* "Ensure the album row exists so the feed can look up title etc.": every *)
(* candidate has its album, with an artist the feed can join or none.      *)
(***************************************************************************)
CandidatesRender == \A c \in candidates : albums[c.album] \in artists \cup {None}

\* The row a run leaves, or a later one has renewed.
Promoted(i, album) ==
    \E c \in candidates :
        /\ c.album = album /\ c.source = runs[i].source
        /\ c.expires >= runs[i].started + TTLForSource(c.source)

\* Promoted, or passed over for MaxPicks others no older than it.
Served(i, lead, release) ==
    \/ Promoted(i, release.album)
    \/ /\ runs[i].source # "releases"
       /\ MaxPicks <= Cardinality(
            {r \in Wanted(runs[i].source, runs[i].excluded, lead) \ {release} :
                /\ NewestFirst(runs[i].source) => r.date >= release.date
                /\ Promoted(i, r.album)})

Covered(i, lead) ==
    \A r \in Wanted(runs[i].source, runs[i].excluded, lead) : Served(i, lead, r)

(***************************************************************************)
(* A run that ends "ok" has done what its limits allow: of each seed's     *)
(* leads it followed the best MaxLeads, or all of them, and of each lead   *)
(* promoted the newest MaxPicks release groups, or all there were.         *)
(***************************************************************************)
OkRunCoversLeads ==
    \A i \in DOMAIN runs : runs[i].status = "ok" =>
        \A o \in runs[i].offered :
            LET seed == o[1]  lead == o[2] IN
            \/ Covered(i, lead)
            \/ MaxLeads <= Cardinality(
                 {l \in {p[2] : p \in {p \in runs[i].offered : p[1] = seed}} \ {lead} :
                     /\ runs[i].source # "samelabel" => l.place <= lead.place
                     /\ Covered(i, l)})
=============================================================================
