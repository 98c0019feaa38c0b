------------------------------- MODULE TopLists -------------------------------
(***************************************************************************)
(* The sync of one user's Spotify top artists and top tracks               *)
(* (services/toplists/toplists.go).                                        *)
(*                                                                         *)
(* A Syncer is a caller of Sync.  A call that the gate turns away, or that *)
(* fails before its run is recorded, changes nothing and is no step here.  *)
(* Lists are fetched range by range, artists before tracks; the items of a *)
(* list are handled in order of rank.  The catalog rows an item needs are  *)
(* LibrarySync's and ListeningSync's subject: here it resolves and is      *)
(* upserted, or is not.  The weight of a signal is left out.               *)
(***************************************************************************)
EXTENDS Integers, Sequences, FiniteSets

CONSTANTS
    Syncer,
    Ranges,       \* the time ranges in the order they are fetched
    ListLimit,    \* the number of items Spotify returns at most (50)
    MinInterval,
    MaxTime, MaxRuns    \* bounds of a model: the clock and the calls that run

Range == {Ranges[i] : i \in DOMAIN Ranges}

ASSUME TopConstants ==
    /\ Ranges \in Seq(Range)
    /\ ListLimit \in Nat \ {0}
    /\ MinInterval \in Nat /\ MaxTime \in Nat /\ MaxRuns \in Nat

VARIABLES
    now,
    runs,         \* sync_runs of kind "spotify-top", and what each fetched (history)
    snapshots,    \* rows of top_snapshots, each with its run
    log,          \* top_rank rows of signals, each with its run
    pc, job

vars == <<now, runs, snapshots, log, pc, job>>

Rank == 1..ListLimit
Item == [kind : {"artist", "track"}, range : Range, rank : Rank]

Run == [status : {"running", "ok", "partial", "failed"}, fetched : SUBSET Item]

\* Rows of top_snapshots and of signals.
Snapshot == [run : Nat \ {0}, item : Item, at : Nat]
Signal == Snapshot

\* list: which of the lists is next; todo: the ranks left of the one before it;
\* artists: Ranges # 0; flawed: Errors # 0 or Unresolved # 0.
Job == [run : Nat, started : Nat, at : Nat, list : Nat, todo : SUBSET Rank,
        artists : BOOLEAN, flawed : BOOLEAN]

NoJob == [run |-> 0, started |-> 0, at |-> 0, list |-> 1, todo |-> {},
          artists |-> FALSE, flawed |-> FALSE]

\* Every range gives two lists.
NumLists == 2 * Len(Ranges)
KindAt(i) == IF i % 2 = 1 THEN "artist" ELSE "track"
RangeAt(i) == Ranges[(i + 1) \div 2]

Init ==
    /\ now = 0
    /\ runs = <<>>
    /\ snapshots = {}
    /\ log = {}
    /\ pc = [w \in Syncer |-> "idle"]
    /\ job = [w \in Syncer |-> NoJob]

Goto(w, label) == pc' = [pc EXCEPT ![w] = label]

\* rank is next of the list fetched last, and this is its item.
IsNext(w, rank) == rank \in job[w].todo /\ \A r \in job[w].todo : rank <= r
ItemAt(w, rank) == [kind |-> KindAt(job[w].list - 1),
                    range |-> RangeAt(job[w].list - 1), rank |-> rank]

Tick ==
    /\ now < MaxTime
    /\ now' = now + 1
    /\ UNCHANGED <<runs, snapshots, log, pc, job>>

-----------------------------------------------------------------------------
(* The gate and the run. *)

\* Mutant: the snapshot's age is compared the wrong way round.
FreshSnapshotInverted(started) ==
    \E s \in snapshots : s.item.kind = "artist" /\ started - s.at >= MinInterval

\* MAX(snapshot_at) of the artist rows against the time the call started.
FreshSnapshot(started) ==
    \E s \in snapshots : s.item.kind = "artist" /\ started - s.at < MinInterval

PassGate(w) ==
    /\ pc[w] = "idle" /\ Len(runs) < MaxRuns
    /\ ~FreshSnapshot(now)
    /\ job' = [job EXCEPT ![w] = [NoJob EXCEPT !.started = now]]
    /\ Goto(w, "start")
    /\ UNCHANGED <<now, runs, snapshots, log>>

StartRun(w) ==
    /\ pc[w] = "start" /\ Len(runs) < MaxRuns
    /\ runs' = Append(runs, [status |-> "running", fetched |-> {}])
    /\ job' = [job EXCEPT ![w].run = Len(runs) + 1]
    /\ Goto(w, "token")
    /\ UNCHANGED <<now, snapshots, log>>

FinishRun(w, status) ==
    /\ runs' = [runs EXCEPT ![job[w].run].status = status]
    /\ job' = [job EXCEPT ![w] = NoJob]
    /\ Goto(w, "idle")
    /\ UNCHANGED <<now, snapshots, log>>

AccessTokenFails(w) == pc[w] = "token" /\ FinishRun(w, "failed")

\* snapshotAt, for all lists of the run.
AccessToken(w) ==
    /\ pc[w] = "token"
    /\ job' = [job EXCEPT ![w].at = now]
    /\ Goto(w, "fetch")
    /\ UNCHANGED <<now, runs, snapshots, log>>

-----------------------------------------------------------------------------
(* The lists. *)

ListLeft(w) == pc[w] = "fetch" /\ job[w].todo = {} /\ job[w].list <= NumLists

\* Items without a Spotify id leave holes in the ranks.
FetchTop(w) ==
    /\ ListLeft(w)
    /\ \E ranks \in SUBSET Rank :
         LET kind == KindAt(job[w].list)
             items == {[kind |-> kind, range |-> RangeAt(job[w].list), rank |-> r] :
                          r \in ranks}
         IN
         /\ job' = [job EXCEPT ![w].list = @ + 1, ![w].todo = ranks,
                               ![w].artists = @ \/ kind = "artist"]
         /\ runs' = [runs EXCEPT ![job[w].run].fetched = @ \cup items]
    /\ UNCHANGED <<now, snapshots, log, pc>>

FetchFails(w) ==
    /\ ListLeft(w)
    /\ job' = [job EXCEPT ![w].list = @ + 1, ![w].flawed = TRUE]
    /\ UNCHANGED <<now, runs, snapshots, log, pc>>

\* Unresolved, or the resolver, an upsert or insertSnapshot failed.
DropItem(w, rank) ==
    /\ pc[w] = "fetch" /\ IsNext(w, rank)
    /\ job' = [job EXCEPT ![w].todo = @ \ {rank}, ![w].flawed = TRUE]
    /\ UNCHANGED <<now, runs, snapshots, log, pc>>

InsertSnapshot(w, rank) ==
    /\ pc[w] = "fetch" /\ IsNext(w, rank)
    /\ snapshots' = snapshots \cup
         {[run |-> job[w].run, item |-> ItemAt(w, rank), at |-> job[w].at]}
    /\ Goto(w, "append")
    /\ UNCHANGED <<now, runs, log, job>>

AppendSignal(w, rank) ==
    /\ pc[w] = "append" /\ IsNext(w, rank)
    /\ log' = log \cup
         {[run |-> job[w].run, item |-> ItemAt(w, rank), at |-> job[w].at]}
    /\ job' = [job EXCEPT ![w].todo = @ \ {rank}]
    /\ Goto(w, "fetch")
    /\ UNCHANGED <<now, runs, snapshots>>

\* Mutant: a signal that could not be appended is not counted.
AppendFailsUncounted(w, rank) ==
    /\ pc[w] = "append" /\ IsNext(w, rank)
    /\ job' = [job EXCEPT ![w].todo = @ \ {rank}]
    /\ Goto(w, "fetch")
    /\ UNCHANGED <<now, runs, snapshots, log>>

AppendFails(w, rank) ==
    /\ pc[w] = "append" /\ IsNext(w, rank)
    /\ job' = [job EXCEPT ![w].todo = @ \ {rank}, ![w].flawed = TRUE]
    /\ Goto(w, "fetch")
    /\ UNCHANGED <<now, runs, snapshots, log>>

ListsDone(w) == pc[w] = "fetch" /\ job[w].todo = {} /\ job[w].list > NumLists

\* Mutants: any error fails the run; the run keeps the status it started with.
StatusAnyErrorFails(w) == IF job[w].flawed THEN "failed" ELSE "ok"
StatusUnknown(w) == "skipped"

Status(w) == IF ~job[w].artists THEN "failed"
             ELSE IF job[w].flawed THEN "partial" ELSE "ok"

Finish(w) == ListsDone(w) /\ FinishRun(w, Status(w))

\* The process ends, or the call's context: finishRun fails too.
CutOff(w) ==
    /\ pc[w] # "idle"
    /\ job' = [job EXCEPT ![w] = NoJob]
    /\ Goto(w, "idle")
    /\ UNCHANGED <<now, runs, snapshots, log>>

-----------------------------------------------------------------------------
EachItem(w) ==
    \E rank \in Rank : \/ DropItem(w, rank) \/ InsertSnapshot(w, rank)
                       \/ AppendSignal(w, rank) \/ AppendFails(w, rank)

Sync(w) == \/ PassGate(w) \/ StartRun(w) \/ AccessToken(w) \/ AccessTokenFails(w)
           \/ FetchTop(w) \/ FetchFails(w) \/ EachItem(w) \/ Finish(w) \/ CutOff(w)

Next == Tick \/ \E w \in Syncer : Sync(w)

Spec == Init /\ [][Next]_vars

-----------------------------------------------------------------------------
(* Properties. *)

TypeOK ==
    /\ now \in Nat
    /\ runs \in Seq(Run)
    /\ snapshots \subseteq Snapshot
    /\ log \subseteq Signal
    /\ pc \in [Syncer -> {"idle", "start", "token", "fetch", "append"}]
    /\ job \in [Syncer -> Job]

Apart(a, b) == a.at + MinInterval <= b.at \/ b.at + MinInterval <= a.at

(***************************************************************************)
(* "This stops repeated /api/sync/trigger calls from inflating top_rank    *)
(* affinity": runs that do not overlap and both signal top artists are     *)
(* MinInterval apart, wherever the first one failed or was cut off.        *)
(***************************************************************************)
ArtistSignalsApart ==
    \A a, b \in log :
        a.item.kind = "artist" /\ b.item.kind = "artist" /\ a.run # b.run => Apart(a, b)

(***************************************************************************)
(* A run that ends "ok" has fetched artists, and left a snapshot and a     *)
(* signal, both with its own time, for each item it fetched.               *)
(***************************************************************************)
OkRunSignalledAll ==
    \A r \in DOMAIN runs : runs[r].status = "ok" =>
        \A item \in runs[r].fetched :
            \E s \in snapshots, e \in log :
                /\ s.run = r /\ e.run = r /\ s.item = item /\ e.item = item
                /\ s.at = e.at

(***************************************************************************)
(* A run that ends "failed" leaves the gate open: it has written no artist *)
(* snapshot, so the next trigger may fetch what it did not.                *)
(***************************************************************************)
FailedRunCanBeRetried ==
    \A r \in DOMAIN runs : runs[r].status = "failed" =>
        \A s \in snapshots : s.run = r => s.item.kind # "artist"
=============================================================================
