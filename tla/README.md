# MusicAdvisor: formal models

MusicAdvisor is a Go server (and a React page) that reads a user's Spotify
library and listening, resolves it to MusicBrainz ids, turns it into a log of
*signals* with per-subject *affinity* scores, and looks for releases to
recommend. This directory holds TLA+ models of its backend and of the page's feed
hook, the TLC runs that check them and the theorems TLAPS proves about them. Paths below are relative
to `src/`; `PROJECT.json` maps every definition to its lines.

To repeat a run: `tlc -workers 2 -config X.cfg M` with module and cfg of the
table below. To check the proofs: `tlapm MProofs.tla` (for `SseHub`, `Feed` and
`FeedClient`: `tlapm FeedProofs.tla`).

## 1. Inventory of the system

| Component | Where | State | Operations | What makes it correct |
|---|---|---|---|---|
| library sync | `services/library/library.go` | `saved_artists`, `saved_albums`, catalog rows, `sync_runs` | `Sync`: gather, resolve, upsert, save, signal | a save is signalled at most once however syncs overlap, fail or die; "ok" means complete |
| signal store | `services/signal/signal.go` | `signals`, `artist_`, `album_`, `track_`, `label_affinity`, `hides`, `ratings` | `Append`, `Rebuild` | affinity is a function of the log and the catalog's links, but for links moved since; no deadlock among Appends; a rebuild loses no signal |
| event hub, feed stream | `sse/hub.go`, `http/handlers/feed_stream.go` | channels per user | `Subscribe`, cancel, `Publish`, `FeedStream` | order, no duplicates, no foreign events, a client that falls behind still hears of the last change |
| listening sync | `services/listening/listening.go` | `play_history`, catalog rows | `Sync`: fetch, ingest, judge, emit | one verdict per play; "ok" means complete; parents before children |
| top lists | `services/toplists/toplists.go` | `top_snapshots`, `sync_runs` | `Sync` behind a gate | repeated triggers do not count an artist twice; a failed run can be retried |
| discover sources | `services/{releases,lbsimilar,lfsimilar,mbrels,samelabel}` | `discover_candidates`, catalog rows, `sync_runs` | `Sync` of each, behind a gate | nothing known or hidden is promoted; every candidate can be rendered; "ok" means the limits were used up; runs are apart |
| resolver | `providers/resolver` | `resolver_cache` | `Artist`, `Album`, `Track` | an answer is fresh, cached, unresolved or an error |
| accounts, login, sessions | `services/user`, `auth`, `handlers/auth_spotify.go`, `providers/spotify/oauth.go` | `users`, `external_accounts`, `sessions` | login callback, `AccessToken`, logout | one user per account; only dead tokens lock an account, and they do |
| scheduler, trigger, server | `scheduler/scheduler.go`, `handlers/sync.go`, `cmd/server/main.go` | goroutines, tickers, events | `Run`, `runJob`, `TriggerSync`, shutdown | nobody is starved; every phase that started is seen to end; nothing runs on a closed database after a clean shutdown |
| feed, signals endpoint | `http/handlers/feed.go`, `signals.go` | none of their own | reads; one `Append` | each subject once, with its best card, and nothing better left out |
| frontend | `frontend/src` | the displayed feed | fetch, optimistic updates, SSE | what an event stood for is shown in the end |
| provider clients, cipher, router, config, migrations | rest | none, or outside | I/O | - |

Interactions: the scheduler and the trigger endpoint call the same `Sync`
functions, with no lock between the two callers; what separates them is only
what each service reads from the database (gates, `NOT EXISTS`, `ON CONFLICT`).
Every sync gets its token from `user.AccessToken`, resolves through the shared
resolver, and writes the log through `signal.Append`. The trigger goroutine
publishes phase events to the hub; the page refetches the feed on each event.

Hard behaviours, therefore: two callers of one sync; a sync cut off between two
statements (deadline, restart); single calls that fail and are skipped; gates
that are read before they are written; transactions that meet in the affinity
tables; sends that race with unsubscription; tickers that drop ticks while gates
are as long as the tick. `PROJECT.json` "hazards" lists each at its line.

## 2. Modules

### `LibrarySync` (abstract: `SignalOnce`)
A `Worker` is one caller of `Sync` for one user; each SQL statement, resolver
answer and `Append` is an action (`UpsertArtist`, `InsertSavedAlbum`,
`AppendFollowAdd`, ...), named for the function it stands for. `artists`,
`albums`, `saved` and `signals` are the tables; `pc` and `job` are the locals of
each call. The resolver may answer anything at any time, the saved sets may
change between syncs, every call may fail, and `Abort` ends a worker anywhere
(restart, deadline). `SignalOnce` is the promise: each subject goes unsaved ->
owed -> signalled, or owed -> lost, and never back. `FateOf` is the refinement
mapping. "Lost" is part of the abstract specification because the code has it:
the save is committed before the signal is appended.

### `SignalStore` (abstract: `AffinityLedger`)
One transaction per `Append`, one for a `Rebuild` (the process `server
--rebuild-affinity`), statement by statement at READ COMMITTED: `lock` and `dirty`
are the uncommitted rows, a writer waits for a row another one holds, and commit
or rollback releases; a deadlock's victim is a rollback. The propagation goes track ->
album -> artist along the links of the catalog (`albumArtist`, `trackAlbum`,
`trackArtist`) as they stand when `propagate` reads them, and a rebuild joins on them as
they stand at each of its statements. `Relink` is a sync's upsert of an album or a track:
it fills in or moves what it knows and keeps the rest (`Coalesce`), at any moment,
between two statements of an Append or a rebuild too. `Calls`, `AlbumUpserts` and
`TrackUpserts` are what callers of `Append` and of the upserts may ask for. Weights are in
1/80 so that quarters are integers. `AffinityLedger` is the log and the affinity rows in
one atomic step per commit; in it a rebuild may set the rows to anything, so what it
constrains is the commits.

Append shares a signal out along the links it finds, and a rebuild along those of its own
time, so the code itself lets rows drift when a link moves. History variables say which:
`moved` (open Appends that a link was moved under), `drifted` (rows from or to which a link
moved committed signals; `shifting`, the same since the open rebuild began) and `doubled`
(rows that an Append committed to while the last rebuild was open; `contested`, while one
is). `NoAffinityDrift` claims every other row to be exact, and `NoSignalLost` claims that
the doubled ones have too much, never too little.

### `SseHub` (abstract: `Wakeup`)
Streams and publishers. `Publish` copies the user's channels under the lock
(`CopyReceivers`) and sends to each later, with a drop when the buffer is full;
`FeedStream` sends `ready`, subscribes, writes events, and unsubscribes when its
request ends. `crashed` is the panic of a send on a closed channel. `Wakeup` is what is
left of this for the page, with no buffers in it: a live stream that was notified
is woken afterwards, once or more often, unless it ends first. `SseHub` implements
it (`W`, with `PlaceOf`, `PendingOf` and `BellOf`: the number of buffered events is the
number of wakes to come, each event written rings the bell; a drop is a notification left
to a wake that is still to come).

### `FeedClient` (on `Wakeup`)
The page's hook and the sync it triggers, composed over the promise the hub keeps
rather than over its buffers: the module EXTENDS `Wakeup` and conjoins its actions.
`Mount` is the first render with a user (first request, EventSource, `start()`),
`Receive` the listener that asks for the feed again, `ApplyFeed` the answer that
is applied whenever it comes, `StartAnswered` the POST's answer. The feed is a
version, the number of changes made to what it reads; the sync has one phase.
`promised` is a history variable: the version an event on its way to the page
stands for. A fault takes the promise back, unless a wake, a request or an
answer that is new enough is still under way (`Carried`).

### `Feed`
`readDiscoverMerged`: one query per source, cut by itself (`Listings`: rows of equal
score in any order), merged by subject (`Better`), sorted and cut again (`Shown`).
Between two queries the services write candidates and time passes. `read` is a
history variable: what was live when its source was read. The specification's formulas
are named `FeedInit`, `FeedNext`, `FeedSpec` and `FeedTypeOK`, since `FeedProofs` extends
this module and `SseHub` together.

### `ListeningSync`
Plays are numbered in the order they were played; `Window` is how many Spotify
returns (50 in reality). A poll reads the last known play, fetches, ingests each
play (catalog upserts, resolver cache, `INSERT ... ON CONFLICT`), forms the chain
of fresh plays and emits a full/skip verdict for each pair. The rows of an artist
or album are a set of "mb", "sp" and "bare", the three ways in which
`upsertArtist` and `upsertAlbumPlaceholder` can find or miss it.

### `TopLists`
Gate, run row, token, then the lists range by range; each item is resolved, its
snapshot inserted, its signal appended, and may be dropped at each place. The
catalog upserts are one outcome here (their detail is in `LibrarySync` and
`ListeningSync`), and the weight of a signal is left out.

### `DiscoverScan`
The five discovery services are one scan with five sets of differences (which
seeds, what a lead is, what is excluded, whether a failed lead uses up the limit,
which parent rows are written). The module has the scan as actions and the
differences as guards and small operators that name the source. Scores appear only as
the order they impose.

### `Accounts`
The callback of a login from the exchange of the code to the session; any number
of callers of `AccessToken` with the read, the refresh request, its answer
(tokens, refusal, failure, an answer that is lost) and the update or lock; and
Spotify as far as the code can tell: it issues tokens, may rotate a refresh token
when it is used, and forgets them when the user revokes. `alone` is a history
variable: the refresh that locked the row overlapped no other and no login.
`DeadIsLocked` is about the token the account has stored: it may be dead while Spotify
honours another that nobody has (a rotation whose answer was lost, a login that failed
before it wrote), and only a lock, a login or a late write of a live token ends that.

### `SyncSchedule`
Discrete time. One loop per job (started by `Run` in `StartJob`, in any order, as the two
lists of jobs have different ones; startup delay, ticker whose channel holds one
tick, round over the connected users, run with a timeout; its end is `StopLoop`), the wait
group of `Run` (`wg`) and the channel that is closed when it returns (`schedDone`,
`ReturnRun`), the only thing `main` sees of the scheduler, the trigger's
goroutines with their 30-minute budget and phase events, and `main` from signal
to exit with its two bounded waits. `Tick` passes a unit only when no goroutine
has something to do at once (`AtRest`). What a sync does is in the other modules;
here it passes its gate or not, takes a while and ends.

## 3. Runs

| Run | Instance | What it shows |
|---|---|---|
| `MCLibrarySync` | 2 workers; 1 Spotify artist and album, 1 MusicBrainz id each | `SignalOncePerSave`, `OkRunKeptEverything`; refines `SignalOnce` |
| `MCSignalStore` | 2 Appends, each one of 4 calls, over 1 artist, 2 albums, 1 track; rebuilds; 1 album upsert, 2 track upserts | `NoAffinityDrift`, `NoSignalLost`, `SideTablesMatchLog`, `AppendsNeverDeadlock`; refines `AffinityLedger` |
| `MCSseHub` | 2 streams, 2 publishers of 3 events, buffer 2 | `DeliveredInOrder`, `DropLeavesOnePending`; under fairness the refinement of `Wakeup` |
| `MCSseHubClosed` (violation) | 1 stream, 1 publisher | `Publish` can send on a channel that cancel has closed: the process panics |
| `MCFeedClient` | 2 streams in succession, 1 sync, 2 requests in flight, 2 changes of the feed | under fairness `PageCatchesUp` |
| `MCListeningSync` | 1 syncer, 3 plays of 2 tracks, window 2, five sets of earlier catalog rows, failures | `OneSignalPerPlay`, `EmittedUpToLast`, `OkPollKeptEverything` |
| `MCListeningSyncTwo` (violation) | 2 syncers, window 3, no failures | two polls at once signal one play twice |
| `MCTopLists` | 1 caller, 2 ranges, 1 item per list, gate 2, clock to 3, 2 runs | `ArtistSignalsApart`, `OkRunSignalledAll`, `FailedRunCanBeRetried` |
| `MCDiscoverScan` | all 5 sources, 2 runs one after the other that load 2 seeds taken together; 2 seeds, 2 leads, 2 releases, limits 1, clock to 1, gate 1 | `GateKeepsRunsApart`, `KnownStaysOut`, `CandidatesRender`, `OkRunCoversLeads` |
| `MCFeed` | 2 sources, 3 albums, 2 scores, limit 2, at most 4 candidates, clock to 1 | `BestCardWins`, `NothingBetterLeftOut` |
| `MCAccounts` | 2 logins, 2 callers, 1 Spotify account, 2 user ids, 3 refresh tokens | `UsersHaveAccounts`, `LockedIsDead`; under fairness `DeadIsLocked` |
| `MCSyncSchedule` | 2 users, 2 phases (library without a gate; one whose gate equals its interval), 1 trigger slot | `StaysFresh`, `EventsSettle`, `CleanExit` |

Every passing run also checks the type invariant of its module, except `MCFeedClient`,
which has none.

Why the bounds are enough. Each hazard needs two of something and no more: two
callers that overlap, two writers that want a row, a second play to judge the
first, a buffer that is full with one event more to come, a second user for the
first to delay. In `MCListeningSync` a window smaller than the number of plays
makes polls fetch different parts of the history; in `MCTopLists` one gate
interval, one tick before it and one after fit in the clock; three tokens in
`MCAccounts` are a first login's, a rotation's and a second login's. In
`MCDiscoverScan` two leads against a limit of one force both the choice and the
cut, and a second run finds the rows of the first, of the same service or of
another. In `MCFeed` three albums against a limit of two make a source cut one that
the other source shows. In `MCFeedClient` the second change is made while the
request about the first is in flight, the second stream is the one the browser opens
after the first broke, and two requests are enough to cross. In `MCSignalStore` the track is listed under one album first,
without an artist of its own, whose album gets its artist late, and then under the other
album, with one: a track reaches an artist by itself and through its album, and each link
is filled in or moved before, between and after two Appends and a rebuild. Labels have
no links and are left to the proofs. Symmetry is used only for callers and users that
the module treats alike, and only in runs without a liveness property.
Deadlock is checked in the two syncs whose callers can always start again;
the other models end at their bounds, or stop because the process does.

`StaysFresh` is a real-time bound stated as an invariant (and proved, section 5): 2 * Interval plus (2 *
number of users - 1) * Timeout. A run that comes a moment before its gate opens is
turned away until the next tick (two intervals), and the users served before
this one may each take the full timeout in either round. A round lost because
the list of users or a gate could not be read resets the clock: those are the
database's failures.

Fairness. `MCSseHub`: weak fairness of writing an event: the handler's select loop
takes what is buffered while its request lives; with it the hub implements `Wakeup`
with that module's own fairness. `MCFeedClient`: the same, and every request for
the feed ends, answered or not (the router's and the browser's timeouts). Nothing is
assumed of the syncs, of the connection or of the POST. `MCAccounts`: access
tokens expire, some caller asks for one again and again (the scheduler does),
each caller goes on with what it started, and the refusal of a dead token and the
write of the lock do not fail forever when they are tried again and again (strong
fairness, since each try is a new refresh). `MCSyncSchedule` needs none, because
`Tick` waits for whatever is due at once. No other run has a liveness property.

## 4. Findings

1. **`hub.go:73`**: cancel removes the channel under the lock and closes it after
   unlocking; `Publish` sends, after unlocking, to channels it copied under the
   lock. The default branch of the select does not help against a closed channel:
   the send panics, in the goroutine of the triggered sync.
2. **`listening.go:155`**: the comment promises exactly-once emission and safe manual
   triggers; two polls that overlap share the last known play and can both judge
   it.

## 5. Proofs

The theorems hold for all values of the constants that satisfy the named ASSUME of
each module; TLC evaluates them in every run. They say: sorts are disjoint and the values
that stand for "none" belong to no sort (`ConstantsOK`, `NoRow` in `SignalConstants`,
`AccountConstants`); functions have their domains, numbers are numbers (`HubConstants`,
`TopConstants`); providers answer what they are asked for, with finite lists
(`ScanConstants`); plays are listed in the order of their times, and an artist or album has
no rows but those `upsertArtist` and `upsertAlbumPlaceholder` can leave
(`ListeningConstants`); each phase is one job, a gate is no longer than its job's interval
and, where there is one, no shorter than a timeout or the trigger's budget, and the startup
delay is at most an interval, as `cmd/server/main.go`, `scheduler.go` and each service's
`MinInterval` set them (`ScheduleConstants`); the feed reads each source once, has finitely
many subjects and a limit of at least one (`FeedConstants`); `None` is no stream
(`ClientConstants`).

Each module has its theorems in a module `...Proofs`; what the page is served, `SseHub`,
`Feed` and `FeedClient`, has them in one, `FeedProofs`. `TypeCorrect` is there for each but
`FeedClient` (`FeedTypeCorrect` for `Feed`): the types alone are mostly not inductive, so the
invariant adds for each program point which locals are set, without which an insert could
write a row that is no row. The rest:

* **`LibrarySyncProofs`**. `AtMostOneSignal`: `SignalOncePerSave` is inductive, since it
  says not only that there is at most one signal but who owes it; three lemmas for the
  shapes a step can have (quiet, save, append). `Refinement`: each step
  maps to a step of `SignalOnce` or a stutter, by what it does to what a worker owes.
  `OkRunsKeepEverything`: as long as nothing was reported as an error, whatever was
  gathered is saved or still ahead of the worker (`Accounted`).
* **`SignalStoreProofs`**. The invariant `AppendInv`: each Append holds exactly the
  rows it has written so far, each is the committed row plus its share, and
  nobody else holds them. From it `NoAppendDeadlock` (the open Append that is
  furthest along track -> album -> artist waits for no one), `SideTables`, and `Refinement`
  (a commit is one ledger step, every other action stutters). `NoDrift` and
  `NothingLost` compare rows with sums over the log, while links move. The invariant
  `RowInv` says of each open Append that, unless a link was moved under it, the parents it
  has looked up are those the links name (`FoundLinks`), and of an open rebuild, statement
  by statement, what it has emptied (`Deleting`), which rows in its view are the sums of
  the aggregations so far (`Adding`: those no link and no commit has touched since it
  began) and that no row, with what is still to be written to it, counts less than the
  log's (`Covering`: those no link has touched). `NoSignalLost` needs the last one also
  for rows an Append commits to meanwhile: what it posts to a row is seen by the
  statements that follow, or is added on top, or both. What a sum does when an event
  is added is a set of lemmas (`Sums` to `SumGrow`); they take the smallest finite set
  that would break them, which exists because the library proves the subset order of
  finite sets well founded, so that no induction theorem with an operator is needed.
* **`FeedProofs`, the hub**. `HubInv` = types, a registry invariant (who is registered where),
  an order invariant (received, buffered and about to be sent form one
  strictly increasing sequence per publisher) and a pending invariant (a stream
  with a drop since its last write has a non-empty buffer). `InOrder` and
  `DropsAreMadeUpFor` follow, for every number of streams, publishers and
  events and every buffer size, including the ones the code replaces by 16.
  `StepsAreWakeups` is the safety half of `ImplementsWakeup`: under the mapping
  `PlaceOf`, `PendingOf`, `BellOf` each step of the hub is a step of `Wakeup` or a stutter.
* **`FeedProofs`, the cards**. `BestCardWinsHolds` and `NothingBetterLeftOutHolds`, for any
  sources, limit and number of candidates. `BestCardWins` is not inductive, and while the
  sources are being read it would be false of the cards found: a row that its own source cut
  off may be better than the card another source gave its subject. What holds is that each
  row read is `Granted` (its subject has a card that is no worse) or `Outdone` (there are
  `Limit` cards that are no worse), that each card comes from a row, and that no two cards
  were found in one place (`Settled`). A merge keeps it (`MergeSettles`): a card only gets
  better, and a row that is cut off has `Limit` rows of other subjects before it
  (`CutOffIsOutdone`), since a source has one row for each subject. A final cut of such
  cards is right (`CutIsRight`): the order is total, so that the cards have all the ranks
  from 0 up (`EveryRankTaken`), a cut of enough cards is full (`TopIsFull`), and `Limit` cards
  better than one keep it out.
* **`FeedProofs`, the page**. `NothingIsForgotten`, the safety half of `PageCatchesUp`: a
  version the page's stream was notified of is shown, or a wake, a request or an answer that
  is new enough is under way, unless a fault lost the last of these (`promised` is 0 then).
  It rests on `NoFuture`: nobody has seen or promised a version that there is not yet, so
  that a request is answered with one at least as new. `PageStepsAreWakeups`: the page's
  steps do to the streams what `Wakeup` allows, the steps that `StepsAreWakeups` shows the
  hub to take. `FeedClient` is there as the instance `Page`, with `answers` for its `read`.
* **`TopListsProofs`**. `FailedRunsLeaveNoGate` from an invariant that
  ties a working run's flags to the rows it has written; `OkRunsSignalAll`: a run that may
  still end "ok" has the snapshot and the signal of each item that is not on its list any
  more (`Thorough`). `GateHolds`: for any number of callers, in a behaviour where
  no two calls overlap (`OneCall`; the gate is read before anything is
  written, so two calls at once can both pass it), artist signals of two runs are
  `MinInterval` apart. The invariant adds that a call past its gate started at
  least that long after every artist snapshot there is.
* **`DiscoverScanProofs`**. For any number of callers that overlap as they like, where
  the run has two runs one after the other: `CandidatesRenderHolds` (`Joinable` adds that
  the album of a call at `UpsertCandidate` has its row already, that no step empties a row,
  and that artists stay); `GateKeepsRunsApartHolds` (`Apart` adds that calls work on distinct
  runs, each "running", so that a run which failed never counts again and the gate's
  verdict outlives what happens to the runs it saw); `KnownStaysOutHolds` (`Heeded`
  follows the exclusions from the query through leads and releases to the candidate).
  `OkRunCoversLeadsHolds`, as long as no two calls of one service overlap
  (`OnePerSource`): of two that do, the older may write last a row that expires before the
  younger's would. Calls of different services overlap as they like: what the others write
  is of another source and leaves what a run has covered (`OthersStay`, `ProgressKept`). Its
  invariant `Covers` follows a run that nothing has failed in (`Progress`): the seeds done are
  covered, of the seed in hand the leads followed are covered, counted and no worse than the
  rest (`SeedGoing`), of the lead in hand the releases dealt with are promoted, counted and
  no older than the rest (`LeadGoing`); and a row that replaces another of its source
  expires no earlier, so what was covered stays so (`Renews`).
* **`ListeningSyncProofs`**. `OkPollCorrect`, for any number of overlapping polls: the
  chain is in order and in `play_history`, and what a poll has not reported as an error it
  has kept. `OneSignalCorrect` and `EmittedCorrect`, for any number of callers, no two of
  which are at once past the reading of the last known play (`OnePoll`): a play with a
  signal is recorded, with a later one, and what the poll has not passed in its chain has
  none; if nothing was lost, the chain has no holes and goes on where
  `play_history` ends (`Lossless`), so that each play but the last has the verdict its
  successor implies. The hypothesis is needed: two polls that overlap break both
  (`MCListeningSyncTwo`).
* **`AccountsProofs`**. `OwnersCorrect`: a login about to write its session is of a user
  that exists. `AccountsKeepTheirUser`: no step moves an account to another user.
  `LockedCorrect`: no token is issued twice, so that a dead one stays dead (`OnlyIssued`,
  `DeadStays`); a refresh whose `alone` mark stands has its account to itself and the row
  still holds the token it read (`AloneIsAlone`); a refusal that is about to be written is
  about a dead token (`RefusedIsDead`); and none of them goes on after the lock.
* **`SyncScheduleProofs`**. `EventsCorrect`: a phase that is marked as started has a
  goroutine that runs it. `ExitCorrect`: main knows of the jobs only that schedDone is
  closed. The wait group's counter is the number of jobs that are started and have not
  stopped (`CleanInv`), and `Run` looks at it when no job is left to start, so that zero
  means that all have stopped, and none starts again. `NobodyStarves`, the real-time bound of `StaysFresh` for any number of users and
  jobs: `Ahead` reads off a job's loop how long it takes at most until a user is served; with
  the time since the last service it stays below the bound (`Fresh`), and a shut gate
  opens before the round that needs it (`Shut`).

Hypotheses about the callers (`OneCall`, `OnePerSource`, `OnePoll`) are conditions on the
behaviour, `[]OneCall` and so on, never on the constants; they stand in the theorems that need
them and nowhere else. Each theorem is about the formula that the run checks, so the run shows it on an instance.

Only model-checked: liveness under fairness, which is beyond the prover: the fairness of
`ImplementsWakeup`, `PageCatchesUp` and `DeadIsLocked`. Every other property that a passing
run checks is proved. Two of the provers' limits shaped
the rest: ENABLED, and theorems that take an operator, which induction over data needs;
where a recursive function had to be reasoned about, a smallest counterexample does.

## 6. What is not modelled

* **Frontend**: what it shows before the server has it (a dismissal or a rating that an
  answer read earlier undoes), the session check of `useAuth`, and rendering.
* **Feed**: reasons, covers, dates, and the order of new releases, which is one query.
* **Resolver cache**: its answers are inputs of the syncs. `ListeningSync` has the one
  effect that matters to it (a cached answer lacks the parents).
* **Provider clients, cipher, router, configuration, migrations**: no state of their
  own, or a thin layer over a library; a call is an answer or a failure.
* The signals endpoint validates and calls `Append`.
* In the modules that are "partly": what the notes in `PROJECT.json` name. The state
  of an OAuth flow, the expiry of sessions, and `TouchIfStale` are left out of `Accounts`;
  the number of saved tracks, and pages as such, out of `LibrarySync`.

Assumptions the models make: PostgreSQL's READ COMMITTED as described in `SignalStore`;
a request that Spotify answers with 400 has a dead refresh token (the code takes
every 400 for `invalid_grant`); ids from MusicBrainz and from Spotify are never equal
(placeholders carry a prefix).

## 7. Known limits of the code

Met while modelling; no run is spent on them.

* `signal.go`: an Append that commits between two statements of a Rebuild may be counted
  twice (each statement reads the log anew, 368); a link that a sync moves leaves the rows
  it moved signals from and to as they were until the next rebuild (Append has shared them
  out along the old one), and a rebuild during which one moves can end with both; an Append
  and a Rebuild take row locks in different orders, so that one of them may be aborted; a Weight of zero takes the default, so the last of 50 top items is stored with
  the weight of a default (103-106 against `toplists.go` 331); `last_signal_at` is the
  latest written, not the latest.
* `library.go`: a sync that dies between save and Append loses the signal for good;
  the `follow_add` guard is keyed by this run's MusicBrainz answer, so an artist
  followed first under a placeholder and later under a real id is counted under both.
* `listening.go` 265: `upsertArtist` and `upsertAlbumPlaceholder` return without writing the
  row they are asked for when another row holds the Spotify id (after a cached
  resolver answer, which has no parents); the caller goes on with the id it asked
  for, the foreign key of albums or tracks fails, and the play is dropped and never
  fetched again, although 257 says "so tracks.mbid FK stays sound". `ParentMissing` is this
  step; the poll ends "partial".
* Gates are read, then rows are written: two callers may pass. A row left "running" by
  a crash keeps the gate shut; `finishRun` uses the context that may just have expired.
  Several job intervals equal the gate (6 h, 1 h, 30 min), which is why `StaysFresh` needs
  two intervals; library and listening have no gate. The top lists' gate reads artist
  snapshots only.
* `scheduler.go`: a jitter of `rand.Int63n(Interval/10)` panics for an interval below 10 ns;
  a triggered sync whose library phase fails never
  publishes the final "sync done".
* `user.go`: two refreshes at once, or a login during a refresh, can lock a live account:
  `LockedIsDead` is stated for refreshes that nothing overlapped.
* Streams: `ready` precedes Subscribe, so what is published in between is missed; the
  server's write timeout cuts a stream after 60 s, and what is published before the
  browser is back is missed too; shutdown does not wait for triggered syncs.
* Feed: the header shows the run that started last, of any kind; the reads are separate
  statements; `sources` of a card lacks those whose list was cut before it.
* `feed.go` 218, 477, 495: lists without a row are nil slices and become `null`, although
  34-35 says "All fields are safe to render as-is"; `applyFeed` iterates over
  `new_releases`, `ratings` and `hides` and throws, the exception is swallowed with the
  network's, and the stage is never set: the page of a user without a rating or a
  hide stays at "loading". In `FeedClient` such an answer is one that fails.
* Discovery: exclusions are loaded once per run; the last path to a release overwrites a
  higher score; of two overlapping runs of one service the older may overwrite a row of
  the newer with its own, earlier expiry, so that `OkRunCoversLeads` is proved for
  calls of one service that do not overlap; `samelabel.go` 260 says newest first but does not sort there.
* `useMusicAdvisor.ts`: answers are applied in the order they arrive; a refetch that fails
  after the last event is not repeated ("next SSE event retries" has no next event
  after "done"); a reconnected stream does not ask for the feed; a late answer to
  `start()` puts "loading" over "ready". `PageCatchesUp` is stated up to these.
  `App.tsx` 14-16 says repeat visits do not trigger a sync, but the stage is idle at the
  first render, before any feed has come: every visit triggers one.
* Scheduled runs change the feed and publish nothing, though `feed_stream.go` 18-20 says
  an event comes "whenever something in the user's feed has changed".

## 8. Plan

Done, in this order, most important first: `LibrarySync`, `SignalStore`, `SseHub`,
`ListeningSync`, `TopLists`, `DiscoverScan`, `Accounts`, `SyncSchedule`, `Feed`, `Wakeup`,
`FeedClient`; proofs of every safety property that a run checks, and of the safety half of
`PageCatchesUp`.

Next:

1. Proofs: for `OkRunCoversLeads` and `ArtistSignalsApart` a weaker form that holds when calls
   of one service overlap.
2. `FeedClient`: dismissals and ratings shown before the server has them.
3. `ResolverCache`: tombstones, expiry and last-writer-wins under concurrent syncs.
4. `Accounts`: the state of an OAuth flow and the expiry of sessions.
