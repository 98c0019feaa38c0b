---------------------------- MODULE TopListsProofs ----------------------------
(***************************************************************************)
(* Theorems of TopLists, for any lists and any interval: its types, that   *)
(* a failed run leaves the gate open, that an "ok" run has signalled all   *)
(* it fetched, and, if no two calls overlap, that the signals of top       *)
(* artists are MinInterval apart.                                          *)
(***************************************************************************)
EXTENDS TopLists, TLAPS

Working(w) == pc[w] \in {"token", "fetch", "append"}
Fetching(w) == pc[w] \in {"fetch", "append"}

Typing ==
    /\ TypeOK
    /\ \A w \in Syncer : /\ job[w].list \in 1..NumLists + 1
                         /\ job[w].todo # {} => job[w].list >= 2
                         /\ Working(w) => job[w].run # 0

-----------------------------------------------------------------------------
(* Types. *)

LEMMA ListTyped ==
    ASSUME NEW i \in 1..NumLists
    PROVE  RangeAt(i) \in Range /\ KindAt(i) \in {"artist", "track"}
<1>1. Ranges \in Seq(Range) /\ Len(Ranges) \in Nat /\ DOMAIN Ranges = 1..Len(Ranges)
  BY TopConstants
<1>2. (i + 1) \div 2 \in 1..Len(Ranges)
  BY <1>1 DEF NumLists
<1> QED
  BY <1>1, <1>2 DEF RangeAt, KindAt, Range

LEMMA ItemTyped ==
    ASSUME Typing, NEW w \in Syncer, NEW rank \in Rank, IsNext(w, rank)
    PROVE  ItemAt(w, rank) \in Item
<1>1. Len(Ranges) \in Nat
  BY TopConstants
<1>2. job[w].list - 1 \in 1..NumLists
  BY <1>1 DEF Typing, IsNext, NumLists
<1> QED
  BY <1>2, ListTyped DEF ItemAt, Item

LEMMA NoJobTyped ==
    /\ NoJob \in Job
    /\ \A t \in Nat : [NoJob EXCEPT !.started = t] \in Job
    /\ \A t : [NoJob EXCEPT !.started = t].list = 1
    /\ \A t : [NoJob EXCEPT !.started = t].todo = {}
<1>1. {} \in SUBSET Rank /\ FALSE \in BOOLEAN
  OBVIOUS
<1>2. NoJob \in Job
  BY <1>1 DEF NoJob, Job
<1>3. \A t \in Nat : [NoJob EXCEPT !.started = t] \in Job
  BY <1>2 DEF Job
<1> QED
  BY <1>2, <1>3 DEF NoJob

LEMMA RunsTyped ==
    ASSUME runs \in Seq(Run), NEW i
    PROVE  /\ \A status \in {"ok", "partial", "failed"} :
                [runs EXCEPT ![i].status = status] \in Seq(Run)
           /\ \A items \in SUBSET Item :
                [runs EXCEPT ![i].fetched = @ \cup items] \in Seq(Run)
<1>1. runs \in [1..Len(runs) -> Run] /\ Len(runs) \in Nat
  OBVIOUS
<1>2. \A s \in [1..Len(runs) -> Run] : s \in Seq(Run)
  BY <1>1
<1>3. ASSUME NEW status \in {"ok", "partial", "failed"}
      PROVE  [runs EXCEPT ![i].status = status] \in [1..Len(runs) -> Run]
  <2> DEFINE r == [runs[i] EXCEPT !.status = status]
  <2>1. i \in 1..Len(runs) => r \in Run
    BY <1>1 DEF Run
  <2>2. [runs EXCEPT ![i] = r] \in [1..Len(runs) -> Run]
    <3> HIDE DEF r
    <3> QED
      BY <1>1, <2>1
  <2> QED
    BY <2>2
<1>4. ASSUME NEW items \in SUBSET Item
      PROVE  [runs EXCEPT ![i].fetched = @ \cup items] \in [1..Len(runs) -> Run]
  <2> DEFINE r == [runs[i] EXCEPT !.fetched = runs[i].fetched \cup items]
  <2>1. i \in 1..Len(runs) => r \in Run
    BY <1>1 DEF Run
  <2>2. [runs EXCEPT ![i] = r] \in [1..Len(runs) -> Run]
    <3> HIDE DEF r
    <3> QED
      BY <1>1, <2>1
  <2> QED
    BY <2>2
<1> QED
  BY <1>2, <1>3, <1>4

LEMMA TypingHolds == Spec => []Typing
<1>0. Len(Ranges) \in Nat /\ NumLists \in Nat
  BY TopConstants DEF NumLists
<1>1. Init => Typing
  <2>1. NoJob.list = 1 /\ NoJob.todo = {}
    BY DEF NoJob
  <2> QED
    BY <1>0, <2>1, NoJobTyped DEF Init, Typing, TypeOK, Working
<1>2. ASSUME Typing, [Next]_vars
      PROVE  Typing'
  <2> USE DEF Typing, TypeOK, Goto, Working
  <2> DEFINE Locals(j) == /\ j \in Job /\ j.list \in 1..NumLists + 1
                          /\ j.todo # {} => j.list >= 2
  <2>1. \A w \in Syncer : Locals(job[w]) /\ (Working(w) => job[w].run # 0)
    BY <1>2
  <2>2. Locals(NoJob) /\ \A t \in Nat : Locals([NoJob EXCEPT !.started = t])
    BY <1>0, NoJobTyped DEF NoJob
  \* A step that moves one syncer and leaves it well-typed locals.
  <2>3. ASSUME NEW w \in Syncer, NEW j, NEW label, Locals(j),
               job' = [job EXCEPT ![w] = j],
               label \in {"idle", "start", "token", "fetch", "append"},
               label \in {"token", "fetch", "append"} => j.run # 0,
               pc' = [pc EXCEPT ![w] = label]
        PROVE  /\ job' \in [Syncer -> Job]
               /\ pc' \in [Syncer -> {"idle", "start", "token", "fetch", "append"}]
               /\ \A v \in Syncer : /\ job'[v].list \in 1..NumLists + 1
                                    /\ job'[v].todo # {} => job'[v].list >= 2
                                    /\ Working(v)' => job'[v].run # 0
    BY <1>2, <2>1, <2>3 DEF Working
  <2>4. CASE Tick
    BY <1>2, <2>4 DEF Tick
  <2>5. ASSUME NEW w \in Syncer, PassGate(w)
        PROVE  Typing'
    <3>1. now' = now /\ runs' = runs /\ snapshots' = snapshots /\ log' = log
      BY <2>5 DEF PassGate
    <3>2. /\ job' = [job EXCEPT ![w] = [NoJob EXCEPT !.started = now]]
          /\ pc' = [pc EXCEPT ![w] = "start"]
      BY <2>5 DEF PassGate
    <3>3. Locals([NoJob EXCEPT !.started = now])
      BY <1>2, <2>2
    <3> HIDE DEF Locals
    <3> QED
      BY <1>2, <2>3, <3>1, <3>2, <3>3
  <2>6. ASSUME NEW w \in Syncer, StartRun(w)
        PROVE  Typing'
    <3> DEFINE j == [job[w] EXCEPT !.run = Len(runs) + 1]
               r == [status |-> "running", fetched |-> {}]
    <3>1. /\ now' = now /\ runs' = Append(runs, r) /\ snapshots' = snapshots
          /\ log' = log /\ pc' = [pc EXCEPT ![w] = "token"]
      BY <2>6 DEF StartRun
    <3>2. job' = [job EXCEPT ![w] = j]
      BY <1>2, <2>6 DEF StartRun
    <3>3. Locals(j) /\ j.run # 0
      <4>1. Len(runs) + 1 \in Nat \ {0} /\ job[w] \in Job
        BY <1>2
      <4> QED
        BY <2>1, <4>1 DEF Job
    <3>4. r \in Run
      BY DEF Run
    <3>5. runs' \in Seq(Run)
      <4> HIDE DEF r
      <4> QED
        BY <1>2, <3>1, <3>4
    <3> HIDE DEF Locals, j, r
    <3> QED
      BY <1>2, <2>3, <3>1, <3>2, <3>3, <3>5
  <2>7. ASSUME NEW w \in Syncer, NEW status \in {"ok", "partial", "failed"},
               FinishRun(w, status)
        PROVE  Typing'
    <3>1. /\ now' = now /\ snapshots' = snapshots /\ log' = log
          /\ job' = [job EXCEPT ![w] = NoJob]
          /\ pc' = [pc EXCEPT ![w] = "idle"]
          /\ runs' = [runs EXCEPT ![job[w].run].status = status]
      BY <2>7 DEF FinishRun
    <3>2. runs' \in Seq(Run)
      BY <1>2, <3>1, RunsTyped
    <3> HIDE DEF Locals
    <3> QED
      BY <1>2, <2>2, <2>3, <3>1, <3>2
  <2>8. ASSUME NEW w \in Syncer, AccessToken(w)
        PROVE  Typing'
    <3> DEFINE j == [job[w] EXCEPT !.at = now]
    <3>1. /\ now' = now /\ runs' = runs /\ snapshots' = snapshots
          /\ log' = log /\ pc' = [pc EXCEPT ![w] = "fetch"]
      BY <2>8 DEF AccessToken
    <3>2. job' = [job EXCEPT ![w] = j]
      BY <1>2, <2>8 DEF AccessToken
    <3>3. Locals(j) /\ j.run # 0
      BY <1>2, <2>1, <2>8 DEF Job, AccessToken
    <3> HIDE DEF Locals, j
    <3> QED
      BY <1>2, <2>3, <3>1, <3>2, <3>3
  <2>9. ASSUME NEW w \in Syncer, FetchTop(w)
        PROVE  Typing'
    <3>1. PICK ranks \in SUBSET Rank :
            LET kind == KindAt(job[w].list)
                items == {[kind |-> kind, range |-> RangeAt(job[w].list), rank |-> r] :
                             r \in ranks}
            IN
            /\ job' = [job EXCEPT ![w].list = @ + 1, ![w].todo = ranks,
                                  ![w].artists = @ \/ kind = "artist"]
            /\ runs' = [runs EXCEPT ![job[w].run].fetched = @ \cup items]
      BY <2>9 DEF FetchTop
    <3> DEFINE kind == KindAt(job[w].list)
               artists == job[w].artists \/ kind = "artist"
               items == {[kind |-> kind, range |-> RangeAt(job[w].list), rank |-> r] :
                            r \in ranks}
               j == [job[w] EXCEPT !.list = job[w].list + 1, !.todo = ranks,
                                   !.artists = artists]
    <3>2. /\ now' = now /\ snapshots' = snapshots /\ log' = log
          /\ pc[w] = "fetch" /\ pc' = pc /\ job[w].list \in 1..NumLists
      BY <1>0, <1>2, <2>1, <2>9 DEF FetchTop, ListLeft
    <3>3. job' = [job EXCEPT ![w] = j]
      BY <1>2, <3>1
    <3>4. artists \in BOOLEAN
      OBVIOUS
    <3>5. Locals(j) /\ j.run # 0
      <4>1. /\ job[w] \in Job /\ job[w].list + 1 \in 2..NumLists + 1
            /\ job[w].list + 1 \in Nat /\ job[w].run # 0
        BY <1>0, <1>2, <2>1, <3>2
      <4> HIDE DEF artists
      <4>2. /\ j \in Job /\ j.list = job[w].list + 1 /\ j.run = job[w].run
        BY <3>4, <4>1 DEF Job
      <4> QED
        BY <1>0, <4>1, <4>2
    <3>6. items \subseteq Item
      BY <3>2, ListTyped DEF Item
    <3>7. runs' \in Seq(Run)
      <4>1. runs' = [runs EXCEPT ![job[w].run].fetched = @ \cup items]
        BY <3>1
      <4> HIDE DEF items
      <4> QED
        BY <1>2, <3>6, <4>1, RunsTyped
    <3>8. pc' = [pc EXCEPT ![w] = "fetch"]
      BY <1>2, <3>2
    <3> HIDE DEF Locals, j
    <3> QED
      BY <1>2, <2>3, <3>2, <3>3, <3>5, <3>7, <3>8
  <2>10. ASSUME NEW w \in Syncer, FetchFails(w)
         PROVE  Typing'
    <3> DEFINE j == [job[w] EXCEPT !.list = job[w].list + 1, !.flawed = TRUE]
    <3>1. /\ now' = now /\ runs' = runs /\ snapshots' = snapshots /\ log' = log
          /\ job[w].list \in 1..NumLists /\ job[w].run # 0
          /\ pc' = [pc EXCEPT ![w] = "fetch"]
      BY <1>0, <1>2, <2>1, <2>10 DEF FetchFails, ListLeft
    <3>2. job' = [job EXCEPT ![w] = j]
      BY <1>2, <2>10 DEF FetchFails
    <3>3. Locals(j) /\ j.run # 0
      <4>1. /\ job[w] \in Job /\ job[w].list + 1 \in 2..NumLists + 1
            /\ job[w].list + 1 \in Nat /\ job[w].run # 0
        BY <1>0, <1>2, <2>1, <3>1
      <4>2. /\ j \in Job /\ j.list = job[w].list + 1 /\ j.run = job[w].run
        BY <4>1 DEF Job
      <4> QED
        BY <1>0, <4>1, <4>2
    <3> HIDE DEF Locals, j
    <3> QED
      BY <1>2, <2>3, <3>1, <3>2, <3>3
  <2>11. ASSUME NEW w \in Syncer, NEW rank \in Rank, IsNext(w, rank),
                DropItem(w, rank) \/ AppendFails(w, rank)
         PROVE  Typing'
    <3> DEFINE j == [job[w] EXCEPT !.todo = job[w].todo \ {rank}, !.flawed = TRUE]
    <3>1. /\ now' = now /\ runs' = runs /\ snapshots' = snapshots /\ log' = log
          /\ pc' = [pc EXCEPT ![w] = "fetch"]
      BY <1>2, <2>11 DEF DropItem, AppendFails
    <3>2. job' = [job EXCEPT ![w] = j]
      BY <1>2, <2>11 DEF DropItem, AppendFails
    <3>3. Locals(j) /\ j.run # 0
      BY <2>1, <2>11 DEF Job, DropItem, AppendFails
    <3> HIDE DEF Locals, j
    <3> QED
      BY <1>2, <2>3, <3>1, <3>2, <3>3
  <2>12. ASSUME NEW w \in Syncer, NEW rank \in Rank, InsertSnapshot(w, rank)
         PROVE  Typing'
    <3>1. /\ now' = now /\ runs' = runs /\ log' = log /\ job' = job
          /\ pc' = [pc EXCEPT ![w] = "append"]
          /\ snapshots' = snapshots \cup
               {[run |-> job[w].run, item |-> ItemAt(w, rank), at |-> job[w].at]}
      BY <2>12 DEF InsertSnapshot
    <3>2. [run |-> job[w].run, item |-> ItemAt(w, rank), at |-> job[w].at] \in Snapshot
      <4>1. job[w].run \in Nat \ {0} /\ job[w].at \in Nat
        BY <1>2, <2>1, <2>12 DEF Job, InsertSnapshot
      <4>2. ItemAt(w, rank) \in Item
        BY <1>2, <2>12, ItemTyped DEF InsertSnapshot
      <4> QED
        BY <4>1, <4>2 DEF Snapshot
    <3>3. snapshots' \subseteq Snapshot
      BY <1>2, <3>1, <3>2
    <3>4. job[w].run # 0
      BY <2>1, <2>12 DEF InsertSnapshot
    <3> QED
      BY <1>2, <3>1, <3>3, <3>4
  <2>13. ASSUME NEW w \in Syncer, NEW rank \in Rank, AppendSignal(w, rank)
         PROVE  Typing'
    <3> DEFINE j == [job[w] EXCEPT !.todo = job[w].todo \ {rank}]
               e == [run |-> job[w].run, item |-> ItemAt(w, rank), at |-> job[w].at]
    <3>1. /\ now' = now /\ runs' = runs /\ snapshots' = snapshots
          /\ log' = log \cup {e}
          /\ pc' = [pc EXCEPT ![w] = "fetch"]
      BY <1>2, <2>13 DEF AppendSignal
    <3>2. job' = [job EXCEPT ![w] = j]
      BY <1>2, <2>13 DEF AppendSignal
    <3>3. Locals(j) /\ j.run # 0
      BY <2>1, <2>13 DEF Job, AppendSignal
    <3>4. e \in Signal
      <4>1. job[w].run \in Nat \ {0} /\ job[w].at \in Nat
        BY <1>2, <2>1, <2>13 DEF Job, AppendSignal
      <4>2. ItemAt(w, rank) \in Item
        BY <1>2, <2>13, ItemTyped DEF AppendSignal
      <4> QED
        BY <4>1, <4>2 DEF Signal, Snapshot
    <3> HIDE DEF Locals, j, e
    <3> QED
      BY <1>2, <2>3, <3>1, <3>2, <3>3, <3>4
  <2>14. ASSUME NEW w \in Syncer, CutOff(w)
         PROVE  Typing'
    <3> HIDE DEF Locals
    <3> QED
      BY <1>2, <2>2, <2>3, <2>14 DEF CutOff
  <2>15. CASE UNCHANGED vars
    BY <1>2, <2>15 DEF vars
  <2> QED
    BY <1>2, <2>4, <2>5, <2>6, <2>7, <2>8, <2>9, <2>10, <2>11, <2>12, <2>13,
       <2>14, <2>15
       DEF Next, Sync, EachItem, AccessTokenFails, Finish, Status, DropItem, AppendFails
<1> QED
  BY <1>1, <1>2, PTL DEF Spec

(***************************************************************************)
(* Every reachable state is well typed, for any number of callers.         *)
(***************************************************************************)
THEOREM TypeCorrect == Spec => []TypeOK
<1>1. Typing => TypeOK
  BY DEF Typing
<1> QED
  BY <1>1, TypingHolds, PTL

-----------------------------------------------------------------------------
(* What the runs leave behind, for any number of callers. *)

RowsKnown ==
    /\ \A s \in snapshots : s.run \in 1..Len(runs) /\ s.at <= now
    /\ \A e \in log : \E s \in snapshots :
         s.run = e.run /\ s.item = e.item /\ s.at = e.at

Known(w) ==
    /\ pc[w] # "idle" => job[w].started <= now
    /\ Fetching(w) => job[w].started <= job[w].at /\ job[w].at <= now
    /\ Working(w) => /\ job[w].run \in 1..Len(runs)
                     /\ runs[job[w].run].status = "running"
    /\ pc[w] \in {"start", "token"} => ~job[w].artists /\ job[w].todo = {}

\* A run that has fetched no artists has written none, and is not about to.
NoArtistsYet(w) ==
    Working(w) /\ ~job[w].artists =>
        /\ \A s \in snapshots : s.run = job[w].run => s.item.kind # "artist"
        /\ job[w].todo # {} => KindAt(job[w].list - 1) = "track"

\* The signal to append has its snapshot.
Backed(w) ==
    pc[w] = "append" => \A rank \in Rank : IsNext(w, rank) =>
        \E s \in snapshots :
            s.run = job[w].run /\ s.item = ItemAt(w, rank) /\ s.at = job[w].at

DistinctRuns ==
    \A v, w \in Syncer : v # w /\ Working(v) /\ Working(w) => job[v].run # job[w].run

Inv ==
    /\ Typing /\ RowsKnown /\ DistinctRuns /\ FailedRunCanBeRetried
    /\ \A w \in Syncer : Known(w) /\ NoArtistsYet(w) /\ Backed(w)

\* A syncer that does not move keeps what is known of it, as long as rows and
\* runs only come.
LEMMA OthersKept ==
    ASSUME Inv, NEW v \in Syncer, pc'[v] = pc[v], job'[v] = job[v],
           now' \in Nat, now <= now', Len(runs') \in Nat, Len(runs) <= Len(runs'),
           Working(v) => runs'[job[v].run].status = "running",
           snapshots \subseteq snapshots',
           Working(v) => \A s \in snapshots' \ snapshots : s.run # job[v].run
    PROVE  Known(v)' /\ NoArtistsYet(v)' /\ Backed(v)'
<1>1. Known(v) /\ NoArtistsYet(v) /\ Backed(v) /\ job[v] \in Job /\ now \in Nat
  BY DEF Inv, Typing, TypeOK
<1>2. Known(v)'
  BY <1>1 DEF Known, Working, Fetching, Job
<1>3. NoArtistsYet(v)'
  BY <1>1 DEF NoArtistsYet, Working
<1>4. Backed(v)'
  BY <1>1 DEF Backed, IsNext, ItemAt
<1> QED
  BY <1>2, <1>3, <1>4

\* The steps that touch neither rows nor runs.
LEMMA QuietKeeps ==
    ASSUME Inv, Typing', NEW w \in Syncer,
           \/ PassGate(w) \/ AccessToken(w) \/ FetchFails(w) \/ CutOff(w)
           \/ \E rank \in Rank : DropItem(w, rank) \/ AppendFails(w, rank)
    PROVE  Inv'
<1> USE DEF Goto
<1>0. now \in Nat /\ Len(runs) \in Nat
  BY DEF Inv, Typing, TypeOK
<1>1. /\ now' = now /\ runs' = runs /\ snapshots' = snapshots /\ log' = log
      /\ now \in Nat /\ Len(runs) \in Nat
  BY <1>0 DEF PassGate, AccessToken, FetchFails, CutOff, DropItem, AppendFails
<1>2. ASSUME NEW v \in Syncer, v # w
      PROVE  pc'[v] = pc[v] /\ job'[v] = job[v]
  BY <1>2 DEF PassGate, AccessToken, FetchFails, CutOff, DropItem, AppendFails, Inv,
              Typing, TypeOK
<1>3. ASSUME NEW v \in Syncer, v # w
      PROVE  Known(v)' /\ NoArtistsYet(v)' /\ Backed(v)'
  <2>1. Working(v) => runs'[job[v].run].status = "running"
    BY <1>1 DEF Inv, Known
  <2> QED
    BY <1>1, <1>2, <1>3, <2>1, OthersKept
<1>4. /\ Known(w) /\ NoArtistsYet(w) /\ Backed(w) /\ job[w] \in Job
      /\ job \in [Syncer -> Job] /\ pc \in [Syncer -> {"idle", "start", "token", "fetch", "append"}]
  BY DEF Inv, Typing, TypeOK
<1>5. /\ Known(w)' /\ NoArtistsYet(w)' /\ Backed(w)'
      /\ Working(w)' => Working(w) /\ job'[w].run = job[w].run
  <2>1. CASE PassGate(w)
    BY <1>1, <1>4, <2>1 DEF PassGate, Known, NoArtistsYet, Backed, Working, Fetching, NoJob
  <2>2. CASE AccessToken(w)
    BY <1>1, <1>4, <2>2 DEF AccessToken, Known, NoArtistsYet, Backed, Working, Fetching, Job
  <2>3. CASE FetchFails(w)
    BY <1>1, <1>4, <2>3 DEF FetchFails, ListLeft, Known, NoArtistsYet, Backed, Working, Fetching, Job
  <2>4. CASE CutOff(w)
    BY <1>1, <1>4, <2>4 DEF CutOff, Known, NoArtistsYet, Backed, Working, Fetching
  <2>5. CASE \E rank \in Rank : DropItem(w, rank) \/ AppendFails(w, rank)
    <3>1. PICK rank \in Rank : DropItem(w, rank) \/ AppendFails(w, rank)
      BY <2>5
    <3>2. /\ pc[w] \in {"fetch", "append"} /\ pc'[w] = "fetch"
          /\ job'[w] = [job[w] EXCEPT !.todo = job[w].todo \ {rank}, !.flawed = TRUE]
          /\ rank \in job[w].todo
      BY <1>4, <3>1 DEF DropItem, AppendFails, IsNext
    <3>3. /\ job'[w].run = job[w].run /\ job'[w].started = job[w].started
          /\ job'[w].at = job[w].at /\ job'[w].list = job[w].list
          /\ job'[w].artists = job[w].artists
      BY <1>4, <3>2 DEF Job
    <3> QED
      BY <1>1, <1>4, <3>2, <3>3 DEF Known, NoArtistsYet, Backed, Working, Fetching
  <2> QED
    BY <2>1, <2>2, <2>3, <2>4, <2>5
<1>6. DistinctRuns'
  BY <1>2, <1>5 DEF Inv, DistinctRuns, Working
<1>7. RowsKnown' /\ FailedRunCanBeRetried'
  BY <1>1 DEF Inv, RowsKnown, FailedRunCanBeRetried
<1> QED
  BY <1>3, <1>5, <1>6, <1>7 DEF Inv

LEMMA TickKeeps ==
    ASSUME Inv, Typing', Tick \/ UNCHANGED vars
    PROVE  Inv'
<1>1. /\ runs' = runs /\ snapshots' = snapshots /\ log' = log /\ pc' = pc /\ job' = job
      /\ now \in Nat /\ now' \in Nat /\ now <= now' /\ Len(runs) \in Nat
      /\ snapshots \subseteq Snapshot
  BY DEF Tick, vars, Inv, Typing, TypeOK
<1>2. ASSUME NEW v \in Syncer
      PROVE  Known(v)' /\ NoArtistsYet(v)' /\ Backed(v)'
  <2>1. Working(v) => runs'[job[v].run].status = "running"
    BY <1>1 DEF Inv, Known
  <2> QED
    BY <1>1, <2>1, OthersKept
<1>3. RowsKnown'
  BY <1>1 DEF Inv, RowsKnown, Snapshot
<1>4. DistinctRuns' /\ FailedRunCanBeRetried'
  BY <1>1 DEF Inv, DistinctRuns, Working, FailedRunCanBeRetried
<1> QED
  BY <1>2, <1>3, <1>4 DEF Inv

LEMMA StartRunKeeps ==
    ASSUME Inv, Typing', NEW w \in Syncer, StartRun(w)
    PROVE  Inv'
<1> DEFINE n == Len(runs) + 1
<1>1. /\ now' = now /\ snapshots' = snapshots /\ log' = log
      /\ pc[w] = "start" /\ pc'[w] = "token" /\ now \in Nat
      /\ \A v \in Syncer \ {w} : pc'[v] = pc[v] /\ job'[v] = job[v]
      /\ job'[w] = [job[w] EXCEPT !.run = n] /\ job[w] \in Job
  BY DEF StartRun, Goto, Inv, Typing, TypeOK
<1>2. /\ n \in Nat /\ Len(runs) \in Nat /\ Len(runs') = n /\ n # 0
      /\ runs'[n].status = "running"
      /\ \A i \in 1..Len(runs) : runs'[i] = runs[i]
      /\ DOMAIN runs' = 1..n
  <2> DEFINE r == [status |-> "running", fetched |-> {}]
  <2>1. runs \in Seq(Run) /\ runs' = Append(runs, r) /\ r.status = "running"
    BY DEF StartRun, Inv, Typing, TypeOK
  <2> HIDE DEF r
  <2> QED
    BY <2>1
<1>3. \A s \in snapshots : s.run \in 1..Len(runs)
  BY DEF Inv, RowsKnown
<1>4. \A v \in Syncer \ {w} : Known(v)' /\ NoArtistsYet(v)' /\ Backed(v)'
  <2> SUFFICES ASSUME NEW v \in Syncer, v # w
               PROVE  Known(v)' /\ NoArtistsYet(v)' /\ Backed(v)'
    OBVIOUS
  <2>1. Working(v) => /\ runs'[job[v].run].status = "running"
                      /\ job[v].run \in 1..Len(runs)
    BY <1>2 DEF Inv, Known
  <2> QED
    BY <1>1, <1>2, <2>1, OthersKept
<1>5. /\ job'[w].run = n /\ job'[w].started = job[w].started
      /\ job'[w].artists = job[w].artists /\ job'[w].todo = job[w].todo
  BY <1>1, <1>2 DEF Job
<1>6. Known(w)' /\ NoArtistsYet(w)' /\ Backed(w)'
  BY <1>1, <1>2, <1>3, <1>5 DEF Inv, Known, NoArtistsYet, Backed, Working, Fetching
<1>7. DistinctRuns'
  <2>1. \A v \in Syncer \ {w} : Working(v)' => Working(v) /\ job'[v].run \in 1..Len(runs)
    BY <1>1 DEF Inv, Known, Working
  <2>2. n \notin 1..Len(runs)
    BY <1>2
  <2>3. ASSUME NEW u \in Syncer, NEW v \in Syncer, u # v, Working(u)', Working(v)'
        PROVE  job'[u].run # job'[v].run
    <3>1. CASE u # w /\ v # w
      BY <1>1, <2>1, <2>3, <3>1 DEF Inv, DistinctRuns
    <3>2. CASE u = w \/ v = w
      <4> HIDE DEF n
      <4> QED
        BY <1>5, <2>1, <2>2, <2>3, <3>2
    <3> QED
      BY <3>1, <3>2
  <2> QED
    BY <2>3 DEF DistinctRuns
<1>8. RowsKnown'
  BY <1>1, <1>2 DEF Inv, RowsKnown
<1>9. FailedRunCanBeRetried'
  <2>1. DOMAIN runs = 1..Len(runs)
    BY DEF Inv, Typing, TypeOK
  <2> QED
    BY <1>1, <1>2, <2>1 DEF Inv, FailedRunCanBeRetried
<1> QED
  BY <1>4, <1>6, <1>7, <1>8, <1>9 DEF Inv

LEMMA FinishRunKeeps ==
    ASSUME Inv, Typing', NEW w \in Syncer, NEW status \in {"ok", "partial", "failed"},
           FinishRun(w, status), Working(w),
           status = "failed" => ~job[w].artists
    PROVE  Inv'
<1>1. /\ now' = now /\ snapshots' = snapshots /\ log' = log
      /\ pc'[w] = "idle" /\ now \in Nat /\ Len(runs) \in Nat
      /\ \A v \in Syncer \ {w} : pc'[v] = pc[v] /\ job'[v] = job[v]
      /\ DOMAIN runs = 1..Len(runs)
  BY DEF FinishRun, Goto, Inv, Typing, TypeOK
<1>2. /\ Len(runs') = Len(runs) /\ DOMAIN runs' = DOMAIN runs
      /\ \A i \in DOMAIN runs :
           runs'[i].status = IF i = job[w].run THEN status ELSE runs[i].status
  <2>1. runs \in Seq(Run) /\ runs' = [runs EXCEPT ![job[w].run].status = status]
    BY DEF FinishRun, Inv, Typing, TypeOK
  <2>2. DOMAIN runs' = DOMAIN runs /\ runs' \in Seq(Run)
    BY <2>1 DEF Inv, Typing, TypeOK
  <2>3. \A i \in DOMAIN runs :
          runs'[i].status = IF i = job[w].run THEN status ELSE runs[i].status
    BY <2>1 DEF Run
  <2>4. Len(runs') = Len(runs)
    BY <2>1, <2>2
  <2> QED
    BY <2>2, <2>3, <2>4
<1>3. \A v \in Syncer \ {w} : Known(v)' /\ NoArtistsYet(v)' /\ Backed(v)'
  <2> SUFFICES ASSUME NEW v \in Syncer, v # w
               PROVE  Known(v)' /\ NoArtistsYet(v)' /\ Backed(v)'
    OBVIOUS
  <2>1. Working(v) => runs'[job[v].run].status = "running"
    BY <1>1, <1>2 DEF Inv, Known, DistinctRuns
  <2> QED
    BY <1>1, <1>2, <2>1, OthersKept
<1>4. Known(w)' /\ NoArtistsYet(w)' /\ Backed(w)'
  BY <1>1 DEF Known, NoArtistsYet, Backed, Working, Fetching
<1>5. DistinctRuns'
  BY <1>1 DEF Inv, DistinctRuns, Working
<1>6. RowsKnown'
  BY <1>1, <1>2 DEF Inv, RowsKnown
<1>7. FailedRunCanBeRetried'
  <2>1. NoArtistsYet(w)
    BY DEF Inv
  <2> QED
    BY <1>1, <1>2, <2>1 DEF Inv, FailedRunCanBeRetried, NoArtistsYet
<1> QED
  BY <1>3, <1>4, <1>5, <1>6, <1>7 DEF Inv

LEMMA FetchTopKeeps ==
    ASSUME Inv, Typing', NEW w \in Syncer, FetchTop(w)
    PROVE  Inv'
<1>1. PICK ranks \in SUBSET Rank :
        LET kind == KindAt(job[w].list)
            items == {[kind |-> kind, range |-> RangeAt(job[w].list), rank |-> r] :
                         r \in ranks}
        IN
        /\ job' = [job EXCEPT ![w].list = @ + 1, ![w].todo = ranks,
                              ![w].artists = @ \/ kind = "artist"]
        /\ runs' = [runs EXCEPT ![job[w].run].fetched = @ \cup items]
  BY DEF FetchTop
<1> DEFINE artists == job[w].artists \/ KindAt(job[w].list) = "artist"
<1>2. /\ now' = now /\ snapshots' = snapshots /\ log' = log /\ pc' = pc
      /\ pc[w] = "fetch" /\ now \in Nat
      /\ \A v \in Syncer \ {w} : job'[v] = job[v]
      /\ job[w] \in Job /\ runs \in Seq(Run) /\ runs' \in Seq(Run)
      /\ Len(runs) \in Nat /\ DOMAIN runs = 1..Len(runs) /\ job[w].list \in Nat
  BY <1>1 DEF FetchTop, ListLeft, Inv, Typing, TypeOK, Job
<1>3. /\ Len(runs') = Len(runs) /\ DOMAIN runs' = DOMAIN runs
      /\ \A i \in DOMAIN runs : runs'[i].status = runs[i].status
  <2> DEFINE items == {[kind |-> KindAt(job[w].list), range |-> RangeAt(job[w].list),
                        rank |-> r] : r \in ranks}
  <2>1. runs' = [runs EXCEPT ![job[w].run].fetched = @ \cup items]
    BY <1>1
  <2> HIDE DEF items
  <2>2. /\ DOMAIN runs' = DOMAIN runs
        /\ \A i \in DOMAIN runs : runs'[i].status = runs[i].status
    BY <1>2, <2>1 DEF Run
  <2> QED
    BY <1>2, <2>2
<1>4. /\ job'[w].run = job[w].run /\ job'[w].started = job[w].started
      /\ job'[w].at = job[w].at /\ job'[w].list = job[w].list + 1
      /\ job'[w].artists = artists
  <2>1. job'[w] = [job[w] EXCEPT !.list = job[w].list + 1, !.todo = ranks,
                                 !.artists = artists]
    BY <1>1 DEF Inv, Typing, TypeOK
  <2> HIDE DEF artists
  <2> QED
    BY <1>2, <2>1 DEF Job
<1>5. \A v \in Syncer \ {w} : Known(v)' /\ NoArtistsYet(v)' /\ Backed(v)'
  <2> SUFFICES ASSUME NEW v \in Syncer, v # w
               PROVE  Known(v)' /\ NoArtistsYet(v)' /\ Backed(v)'
    OBVIOUS
  <2>1. Working(v) => runs'[job[v].run].status = "running"
    BY <1>2, <1>3 DEF Inv, Known
  <2> QED
    BY <1>2, <1>3, <2>1, OthersKept
<1>6. Known(w)' /\ Backed(w)'
  BY <1>2, <1>3, <1>4 DEF Inv, Known, Backed, Working, Fetching
<1>7. NoArtistsYet(w)'
  <2>1. job[w].list + 1 - 1 = job[w].list
    BY <1>2
  <2>2. KindAt(job[w].list) \in {"artist", "track"}
    BY DEF KindAt
  <2>3. ~job'[w].artists => ~job[w].artists /\ KindAt(job[w].list) # "artist"
    BY <1>4
  <2> QED
    BY <1>2, <1>4, <2>1, <2>2, <2>3 DEF Inv, NoArtistsYet, Working
<1>8. DistinctRuns'
  BY <1>2, <1>4 DEF Inv, DistinctRuns, Working
<1>9. RowsKnown' /\ FailedRunCanBeRetried'
  BY <1>2, <1>3 DEF Inv, RowsKnown, FailedRunCanBeRetried
<1> QED
  BY <1>5, <1>6, <1>7, <1>8, <1>9 DEF Inv

LEMMA InsertSnapshotKeeps ==
    ASSUME Inv, Typing', NEW w \in Syncer, NEW rank \in Rank, InsertSnapshot(w, rank)
    PROVE  Inv'
<1> DEFINE new == [run |-> job[w].run, item |-> ItemAt(w, rank), at |-> job[w].at]
<1>1. /\ now' = now /\ runs' = runs /\ log' = log /\ job' = job
      /\ pc[w] = "fetch" /\ pc'[w] = "append" /\ IsNext(w, rank)
      /\ \A v \in Syncer \ {w} : pc'[v] = pc[v]
      /\ snapshots' = snapshots \cup {new}
      /\ now \in Nat /\ Len(runs) \in Nat /\ job[w].todo # {}
  BY DEF InsertSnapshot, IsNext, Goto, Inv, Typing, TypeOK
<1>2. /\ Known(w) /\ NoArtistsYet(w) /\ Working(w)
      /\ job[w].run \in 1..Len(runs) /\ job[w].at <= now
      /\ runs[job[w].run].status = "running"
  BY <1>1 DEF Inv, Known, Working, Fetching
<1>3. new.run = job[w].run /\ new.item = ItemAt(w, rank) /\ new.at = job[w].at
  OBVIOUS
<1> HIDE DEF new
<1>4. \A v \in Syncer \ {w} : Known(v)' /\ NoArtistsYet(v)' /\ Backed(v)'
  <2> SUFFICES ASSUME NEW v \in Syncer, v # w
               PROVE  Known(v)' /\ NoArtistsYet(v)' /\ Backed(v)'
    OBVIOUS
  <2>1. Working(v) => runs'[job[v].run].status = "running" /\ job[v].run # job[w].run
    BY <1>1, <1>2 DEF Inv, Known, DistinctRuns
  <2> QED
    BY <1>1, <1>3, <2>1, OthersKept
<1>5. Known(w)'
  BY <1>1, <1>2 DEF Known, Working, Fetching
<1>6. NoArtistsYet(w)'
  <2>1. ~job[w].artists => new.item.kind # "artist"
    BY <1>1, <1>2, <1>3 DEF NoArtistsYet, ItemAt
  <2> QED
    BY <1>1, <1>2, <2>1 DEF NoArtistsYet, Working
<1>7. Backed(w)'
  <2>1. ASSUME NEW r \in Rank, IsNext(w, r)
        PROVE  r = rank
    BY <1>1, <2>1 DEF IsNext, Rank
  <2> QED
    BY <1>1, <1>3, <2>1 DEF Backed, IsNext, ItemAt
<1>8. RowsKnown'
  BY <1>1, <1>2, <1>3 DEF Inv, RowsKnown
<1>9. DistinctRuns'
  BY <1>1 DEF Inv, DistinctRuns, Working
<1>10. FailedRunCanBeRetried'
  BY <1>1, <1>2, <1>3 DEF Inv, FailedRunCanBeRetried
<1> QED
  BY <1>4, <1>5, <1>6, <1>7, <1>8, <1>9, <1>10 DEF Inv

LEMMA AppendSignalKeeps ==
    ASSUME Inv, Typing', NEW w \in Syncer, NEW rank \in Rank, AppendSignal(w, rank)
    PROVE  Inv'
<1> DEFINE new == [run |-> job[w].run, item |-> ItemAt(w, rank), at |-> job[w].at]
<1>1. /\ now' = now /\ runs' = runs /\ snapshots' = snapshots
      /\ pc[w] = "append" /\ pc'[w] = "fetch" /\ IsNext(w, rank)
      /\ \A v \in Syncer \ {w} : pc'[v] = pc[v] /\ job'[v] = job[v]
      /\ job'[w] = [job[w] EXCEPT !.todo = job[w].todo \ {rank}]
      /\ log' = log \cup {new}
      /\ now \in Nat /\ Len(runs) \in Nat /\ job[w] \in Job
  BY DEF AppendSignal, Goto, Inv, Typing, TypeOK
<1>2. new.run = job[w].run /\ new.item = ItemAt(w, rank) /\ new.at = job[w].at
  OBVIOUS
<1> HIDE DEF new
<1>3. /\ job'[w].run = job[w].run /\ job'[w].started = job[w].started
      /\ job'[w].at = job[w].at /\ job'[w].list = job[w].list
      /\ job'[w].artists = job[w].artists /\ job'[w].todo \subseteq job[w].todo
  BY <1>1 DEF Job
<1>4. \A v \in Syncer \ {w} : Known(v)' /\ NoArtistsYet(v)' /\ Backed(v)'
  <2> SUFFICES ASSUME NEW v \in Syncer, v # w
               PROVE  Known(v)' /\ NoArtistsYet(v)' /\ Backed(v)'
    OBVIOUS
  <2>1. Working(v) => runs'[job[v].run].status = "running"
    BY <1>1 DEF Inv, Known
  <2> QED
    BY <1>1, <2>1, OthersKept
<1>5. Known(w)' /\ NoArtistsYet(w)' /\ Backed(w)'
  BY <1>1, <1>3 DEF Inv, Known, NoArtistsYet, Backed, Working, Fetching
<1>6. RowsKnown'
  <2>1. \E s \in snapshots : s.run = new.run /\ s.item = new.item /\ s.at = new.at
    BY <1>1, <1>2 DEF Inv, Backed
  <2> QED
    BY <1>1, <2>1 DEF Inv, RowsKnown
<1>7. DistinctRuns'
  <2>1. \A v \in Syncer : Working(v)' => Working(v) /\ job'[v].run = job[v].run
    BY <1>1, <1>3 DEF Working
  <2> QED
    BY <2>1 DEF Inv, DistinctRuns
<1>8. FailedRunCanBeRetried'
  BY <1>1 DEF Inv, FailedRunCanBeRetried
<1> QED
  BY <1>4, <1>5, <1>6, <1>7, <1>8 DEF Inv

LEMMA InvHolds == Spec => []Inv
<1>1. Init /\ Typing => Inv
  <2> SUFFICES ASSUME Init, Typing PROVE Inv
    OBVIOUS
  <2>1. \A w \in Syncer : pc[w] = "idle"
    BY DEF Init
  <2>2. \A w \in Syncer : Known(w) /\ NoArtistsYet(w) /\ Backed(w)
    BY <2>1 DEF Known, NoArtistsYet, Backed, Working, Fetching
  <2>3. RowsKnown /\ DistinctRuns /\ FailedRunCanBeRetried
    BY <2>1 DEF Init, RowsKnown, DistinctRuns, Working, FailedRunCanBeRetried
  <2> QED
    BY <2>2, <2>3 DEF Inv
<1>2. Inv /\ Typing' /\ [Next]_vars => Inv'
  <2> SUFFICES ASSUME Inv, Typing', [Next]_vars PROVE Inv'
    OBVIOUS
  <2>1. ASSUME NEW w \in Syncer, AccessTokenFails(w)
        PROVE  Inv'
    <3>1. FinishRun(w, "failed") /\ Working(w) /\ pc[w] = "token"
      BY <2>1 DEF AccessTokenFails, Working
    <3>2. ~job[w].artists
      BY <3>1 DEF Inv, Known
    <3> QED
      BY <3>1, <3>2, FinishRunKeeps
  <2>2. ASSUME NEW w \in Syncer, Finish(w)
        PROVE  Inv'
    <3>1. FinishRun(w, Status(w)) /\ Working(w)
      BY <2>2 DEF Finish, ListsDone, Working
    <3>2. /\ Status(w) \in {"ok", "partial", "failed"}
          /\ Status(w) = "failed" => ~job[w].artists
      BY DEF Status
    <3> QED
      BY <3>1, <3>2, FinishRunKeeps
  <2> QED
    BY <2>1, <2>2, QuietKeeps, TickKeeps, StartRunKeeps, FetchTopKeeps,
       InsertSnapshotKeeps, AppendSignalKeeps
       DEF Next, Sync, EachItem
<1> QED
  BY <1>1, <1>2, TypingHolds, PTL DEF Spec

(***************************************************************************)
(* A run that ends "failed" has written no artist snapshot, for any number *)
(* of callers: what it could not fetch may be fetched at once.             *)
(***************************************************************************)
THEOREM FailedRunsLeaveNoGate == Spec => []FailedRunCanBeRetried
<1>1. Inv => FailedRunCanBeRetried
  BY DEF Inv
<1> QED
  BY <1>1, InvHolds, PTL

-----------------------------------------------------------------------------
(* What a run that ends "ok" has done, for any number of callers. *)

\* Run r has left a snapshot and a signal for item, both with its own time.
SignalledIn(S, L, r, item) ==
    \E s \in S, e \in L :
        s.run = r /\ e.run = r /\ s.item = item /\ e.item = item /\ s.at = e.at

Signalled(r, item) == SignalledIn(snapshots, log, r, item)
SignalledThen(r, item) == SignalledIn(snapshots', log', r, item)

\* The item is one of the list in hand, and has not been reached yet.
Waiting(w, item) ==
    job[w].todo # {} /\ item.rank \in job[w].todo /\ item = ItemAt(w, item.rank)

\* A run that has counted no error has signalled what it fetched, but for the
\* items of the list in hand.
Thorough(w) ==
    Working(w) /\ ~job[w].flawed =>
        \A item \in runs[job[w].run].fetched :
            Signalled(job[w].run, item) \/ Waiting(w, item)

OkInv == OkRunSignalledAll /\ \A w \in Syncer : Thorough(w)

\* Rows stay, and so do what other runs have signalled and what is left of them.
LEMMA SignalledStays ==
    ASSUME NEW r, NEW item, Signalled(r, item), snapshots \subseteq snapshots',
           log \subseteq log'
    PROVE  SignalledThen(r, item)
BY DEF Signalled, SignalledThen, SignalledIn

\* A step of w that leaves runs and fetched lists of the others alone keeps OkInv if it
\* is thorough itself, and if its run, when it ends "ok", has signalled what it fetched.
LEMMA OkByMove ==
    ASSUME Inv, OkInv, NEW w \in Syncer,
           \A v \in Syncer \ {w} : pc'[v] = pc[v] /\ job'[v] = job[v],
           snapshots \subseteq snapshots', log \subseteq log',
           DOMAIN runs \subseteq DOMAIN runs',
           \A i \in DOMAIN runs : i # job[w].run \/ ~Working(w) => runs'[i] = runs[i],
           \A i \in DOMAIN runs' : i \notin DOMAIN runs => runs'[i].status # "ok",
           Working(w) => (runs'[job[w].run].status = "ok" =>
               \A item \in runs'[job[w].run].fetched : SignalledThen(job[w].run, item)),
           Thorough(w)'
    PROVE  OkInv'
<1>1. ASSUME NEW v \in Syncer, v # w
      PROVE  Thorough(v)'
  <2>1. Working(v) => /\ job[v].run \in DOMAIN runs
                      /\ runs'[job[v].run] = runs[job[v].run]
    BY <1>1 DEF Inv, Known, DistinctRuns, Typing, TypeOK
  <2>2. Thorough(v)
    BY DEF OkInv
  <2>3. job'[v] = job[v] /\ (Working(v)' <=> Working(v))
    BY <1>1 DEF Working
  <2>4. \A item : Waiting(v, item)' <=> Waiting(v, item)
    BY <2>3 DEF Waiting, ItemAt
  <2>5. \A item : Signalled(job[v].run, item) => SignalledThen(job[v].run, item)
    BY SignalledStays
  <2> QED  BY <2>1, <2>2, <2>3, <2>4, <2>5 DEF Thorough, Signalled, SignalledThen
<1>2. OkRunSignalledAll'
  <2> SUFFICES ASSUME NEW r \in DOMAIN runs', runs'[r].status = "ok",
                      NEW item \in runs'[r].fetched
               PROVE  SignalledThen(r, item)
    BY DEF OkRunSignalledAll, SignalledThen, SignalledIn
  <2>1. r \in DOMAIN runs
    OBVIOUS
  <2>2. CASE Working(w) /\ r = job[w].run
    BY <2>2
  <2>3. CASE ~(Working(w) /\ r = job[w].run)
    <3>1. runs'[r] = runs[r]
      BY <2>1, <2>3
    <3>2. Signalled(r, item)
      BY <2>1, <3>1 DEF OkInv, OkRunSignalledAll, Signalled, SignalledIn
    <3> QED  BY <3>2, SignalledStays
  <2> QED  BY <2>2, <2>3
<1> QED  BY <1>1, <1>2 DEF OkInv

\* The same, for the steps that leave the runs alone.
LEMMA OkByRows ==
    ASSUME Inv, OkInv, NEW w \in Syncer, runs' = runs,
           \A v \in Syncer \ {w} : pc'[v] = pc[v] /\ job'[v] = job[v],
           snapshots \subseteq snapshots', log \subseteq log',
           Thorough(w)'
    PROVE  OkInv'
<1>1. Working(w) => runs'[job[w].run].status # "ok"
  BY DEF Inv, Known
<1> QED  BY <1>1, OkByMove

LEMMA OkStep ==
    ASSUME Inv, OkInv, NEW w \in Syncer, Sync(w)
    PROVE  OkInv'
<1> USE DEF Goto
<1>0. /\ job \in [Syncer -> Job] /\ job[w] \in Job /\ Thorough(w)
      /\ pc \in [Syncer -> {"idle", "start", "token", "fetch", "append"}]
      /\ runs \in Seq(Run) /\ DOMAIN runs = 1..Len(runs) /\ Len(runs) \in Nat
      /\ Working(w) => job[w].run \in DOMAIN runs /\ runs[job[w].run] \in Run
  BY DEF Inv, Typing, TypeOK, OkInv, Known
<1>1. CASE PassGate(w) \/ CutOff(w)
  <2>1. /\ runs' = runs /\ snapshots' = snapshots /\ log' = log
        /\ \A v \in Syncer \ {w} : pc'[v] = pc[v] /\ job'[v] = job[v]
        /\ pc'[w] \in {"start", "idle"}
    BY <1>0, <1>1 DEF PassGate, CutOff
  <2> QED  BY <2>1, OkByRows DEF Thorough, Working
<1>2. CASE StartRun(w)
  <2> DEFINE r == [status |-> "running", fetched |-> {}]
  <2>1. /\ snapshots' = snapshots /\ log' = log /\ runs' = Append(runs, r)
        /\ \A v \in Syncer \ {w} : pc'[v] = pc[v] /\ job'[v] = job[v]
        /\ job'[w].run = Len(runs) + 1 /\ ~Working(w)
    BY <1>0, <1>2 DEF StartRun, Working, Job
  <2>2. r.status = "running" /\ r.fetched = {}
    OBVIOUS
  <2> HIDE DEF r
  <2>3. /\ DOMAIN runs' = 1..Len(runs) + 1 /\ runs'[Len(runs) + 1] = r
        /\ \A i \in DOMAIN runs : runs'[i] = runs[i]
    BY <1>0, <2>1
  <2>4. /\ DOMAIN runs \subseteq DOMAIN runs'
        /\ \A i \in DOMAIN runs' : i \notin DOMAIN runs => i = Len(runs) + 1
    BY <1>0, <2>3
  <2>5. Thorough(w)'
    BY <2>1, <2>2, <2>3 DEF Thorough
  <2> QED  BY <2>1, <2>2, <2>3, <2>4, <2>5, OkByMove
<1>3. CASE AccessToken(w)
  <2>1. /\ runs' = runs /\ snapshots' = snapshots /\ log' = log
        /\ \A v \in Syncer \ {w} : pc'[v] = pc[v] /\ job'[v] = job[v]
        /\ job'[w] = [job[w] EXCEPT !.at = now] /\ pc[w] = "token"
    BY <1>0, <1>3 DEF AccessToken
  <2>2. /\ job'[w].run = job[w].run /\ job'[w].flawed = job[w].flawed
        /\ job'[w].todo = job[w].todo /\ job'[w].list = job[w].list
    BY <1>0, <2>1 DEF Job
  <2>3. Thorough(w)'
    BY <1>0, <2>1, <2>2 DEF Thorough, Working, Waiting, ItemAt, Signalled
  <2> QED  BY <2>1, <2>3, OkByRows
<1>4. ASSUME NEW status \in {"ok", "partial", "failed"}, FinishRun(w, status), Working(w),
             status = "ok" => ~job[w].flawed /\ job[w].todo = {}
      PROVE  OkInv'
  <2>1. /\ snapshots' = snapshots /\ log' = log
        /\ \A v \in Syncer \ {w} : pc'[v] = pc[v] /\ job'[v] = job[v]
        /\ pc'[w] = "idle" /\ runs' = [runs EXCEPT ![job[w].run].status = status]
    BY <1>0, <1>4 DEF FinishRun
  <2>2. /\ DOMAIN runs' = DOMAIN runs
        /\ \A i \in DOMAIN runs : i # job[w].run => runs'[i] = runs[i]
        /\ runs'[job[w].run].status = status
        /\ runs'[job[w].run].fetched = runs[job[w].run].fetched
    BY <1>0, <1>4, <2>1 DEF Run
  <2>3. status = "ok" => \A item \in runs[job[w].run].fetched : Signalled(job[w].run, item)
    BY <1>0, <1>4 DEF Thorough, Waiting
  <2>4. status = "ok" =>
          \A item \in runs'[job[w].run].fetched : SignalledThen(job[w].run, item)
    BY <2>1, <2>2, <2>3, SignalledStays
  <2>5. Thorough(w)'
    BY <2>1 DEF Thorough, Working
  <2> QED  BY <1>4, <2>1, <2>2, <2>4, <2>5, OkByMove
<1>5. CASE AccessTokenFails(w)
  BY <1>4, <1>5 DEF AccessTokenFails, Working
<1>6. CASE Finish(w)
  <2>1. /\ FinishRun(w, Status(w)) /\ Working(w) /\ Status(w) \in {"ok", "partial", "failed"}
        /\ Status(w) = "ok" => ~job[w].flawed /\ job[w].todo = {}
    BY <1>6 DEF Finish, ListsDone, Working, Status
  <2> QED  BY <1>4, <2>1
<1>7. CASE FetchTop(w)
  <2>1. PICK ranks \in SUBSET Rank :
          LET kind == KindAt(job[w].list)
              items == {[kind |-> kind, range |-> RangeAt(job[w].list), rank |-> r] :
                           r \in ranks}
          IN
          /\ job' = [job EXCEPT ![w].list = @ + 1, ![w].todo = ranks,
                                ![w].artists = @ \/ kind = "artist"]
          /\ runs' = [runs EXCEPT ![job[w].run].fetched = @ \cup items]
    BY <1>7 DEF FetchTop
  <2> DEFINE kind == KindAt(job[w].list)
             artists == job[w].artists \/ kind = "artist"
             items == {[kind |-> kind, range |-> RangeAt(job[w].list), rank |-> r] :
                          r \in ranks}
             j == [job[w] EXCEPT !.list = job[w].list + 1, !.todo = ranks,
                                 !.artists = artists]
  <2>2. /\ snapshots' = snapshots /\ log' = log /\ pc' = pc /\ Working(w)
        /\ job' = [job EXCEPT ![w] = j] /\ job[w].todo = {} /\ job[w].list \in Nat
        /\ runs' = [runs EXCEPT ![job[w].run].fetched = @ \cup items]
    BY <1>0, <1>7, <2>1 DEF FetchTop, ListLeft, Working, Job
  <2>3. \A item \in items : item.rank \in ranks
            /\ item = [kind |-> KindAt(job[w].list), range |-> RangeAt(job[w].list),
                       rank |-> item.rank]
    OBVIOUS
  <2> HIDE DEF items, artists
  <2>4. /\ j.run = job[w].run /\ j.flawed = job[w].flawed /\ j.todo = ranks
        /\ j.list = job[w].list + 1 /\ j.list - 1 = job[w].list
    BY <1>0, <2>2 DEF Job
  <2> HIDE DEF j
  <2>5. /\ \A v \in Syncer \ {w} : pc'[v] = pc[v] /\ job'[v] = job[v]
        /\ job'[w] = j
    BY <1>0, <2>2
  <2>6. /\ DOMAIN runs' = DOMAIN runs
        /\ \A i \in DOMAIN runs : i # job[w].run => runs'[i] = runs[i]
        /\ runs'[job[w].run].status = runs[job[w].run].status
        /\ runs'[job[w].run].fetched = runs[job[w].run].fetched \cup items
    BY <1>0, <2>2 DEF Run
  <2>7. runs[job[w].run].status # "ok"
    BY <2>2 DEF Inv, Known
  <2>8. \A item \in items : Waiting(w, item)'
    <3>1. \A r : ItemAt(w, r)' = [kind |-> KindAt(job[w].list),
                                  range |-> RangeAt(job[w].list), rank |-> r]
      BY <2>4, <2>5 DEF ItemAt
    <3> QED  BY <2>3, <2>4, <2>5, <3>1 DEF Waiting
  <2>9. ~job[w].flawed =>
          \A item \in runs[job[w].run].fetched : SignalledThen(job[w].run, item)
    BY <1>0, <2>2, SignalledStays DEF Thorough, Waiting
  <2>10. Thorough(w)'
    BY <2>4, <2>5, <2>6, <2>8, <2>9 DEF Thorough, Signalled, SignalledThen
  <2> QED  BY <2>2, <2>5, <2>6, <2>7, <2>10, OkByMove
<1>8. CASE FetchFails(w) \/ \E rank \in Rank : DropItem(w, rank) \/ AppendFails(w, rank)
  <2>1. /\ runs' = runs /\ snapshots' = snapshots /\ log' = log
        /\ \A v \in Syncer \ {w} : pc'[v] = pc[v] /\ job'[v] = job[v]
    BY <1>0, <1>8 DEF FetchFails, DropItem, AppendFails
  <2>2. job'[w].flawed
    <3>1. CASE FetchFails(w)
      BY <1>0, <3>1 DEF FetchFails, Job
    <3>2. ASSUME NEW rank \in Rank, DropItem(w, rank) \/ AppendFails(w, rank)
          PROVE  job'[w].flawed
      BY <1>0, <3>2 DEF DropItem, AppendFails, Job
    <3> QED  BY <1>8, <3>1, <3>2
  <2> QED  BY <2>1, <2>2, OkByRows DEF Thorough
<1>9. ASSUME NEW rank \in Rank, InsertSnapshot(w, rank)
      PROVE  OkInv'
  <2>1. /\ runs' = runs /\ snapshots \subseteq snapshots' /\ log' = log /\ job' = job
        /\ \A v \in Syncer \ {w} : pc'[v] = pc[v]
    BY <1>0, <1>9 DEF InsertSnapshot
  <2>2. Working(w)
    BY <1>9 DEF InsertSnapshot, Working
  <2>3. \A item : Signalled(job[w].run, item) => SignalledThen(job[w].run, item)
    BY <2>1, SignalledStays
  <2>4. Thorough(w)'
    BY <1>0, <2>1, <2>2, <2>3 DEF Thorough, Waiting, ItemAt, Signalled, SignalledThen
  <2> QED  BY <2>1, <2>4, OkByRows
<1>10. ASSUME NEW rank \in Rank, AppendSignal(w, rank)
       PROVE  OkInv'
  <2> DEFINE e == [run |-> job[w].run, item |-> ItemAt(w, rank), at |-> job[w].at]
  <2>1. /\ runs' = runs /\ snapshots' = snapshots /\ log' = log \cup {e}
        /\ \A v \in Syncer \ {w} : pc'[v] = pc[v] /\ job'[v] = job[v]
        /\ job'[w] = [job[w] EXCEPT !.todo = job[w].todo \ {rank}]
        /\ pc[w] = "append" /\ IsNext(w, rank)
    BY <1>0, <1>10 DEF AppendSignal
  <2>2. /\ job'[w].run = job[w].run /\ job'[w].flawed = job[w].flawed
        /\ job'[w].todo = job[w].todo \ {rank} /\ job'[w].list = job[w].list
    BY <1>0, <2>1 DEF Job
  <2>3. e.run = job[w].run /\ e.item = ItemAt(w, rank) /\ e.at = job[w].at
    OBVIOUS
  <2> HIDE DEF e
  \* its snapshot is there, with the time of the run
  <2>4. SignalledThen(job[w].run, ItemAt(w, rank))
    <3>1. \E s \in snapshots :
            s.run = job[w].run /\ s.item = ItemAt(w, rank) /\ s.at = job[w].at
      BY <2>1 DEF Inv, Backed
    <3>2. e \in log'
      BY <2>1
    <3> QED  BY <2>1, <2>3, <3>1, <3>2 DEF SignalledThen, SignalledIn
  <2>5. ASSUME ~job[w].flawed, NEW item \in runs[job[w].run].fetched
        PROVE  SignalledThen(job[w].run, item) \/ Waiting(w, item)'
    <3>1. Signalled(job[w].run, item) \/ Waiting(w, item)
      BY <1>0, <2>1, <2>5 DEF Thorough, Working
    <3>2. CASE Signalled(job[w].run, item)
      BY <2>1, <3>2, SignalledStays
    <3>3. CASE Waiting(w, item) /\ item.rank = rank
      BY <2>2, <2>4, <3>3 DEF Waiting, ItemAt
    <3>4. CASE Waiting(w, item) /\ item.rank # rank
      BY <2>2, <3>4 DEF Waiting, ItemAt
    <3> QED  BY <3>1, <3>2, <3>3, <3>4
  <2>6. Thorough(w)'
    BY <2>1, <2>2, <2>5 DEF Thorough, Signalled, SignalledThen
  <2> QED  BY <2>1, <2>6, OkByRows
<1> QED
  BY <1>1, <1>2, <1>3, <1>5, <1>6, <1>7, <1>8, <1>9, <1>10 DEF Sync, EachItem

(***************************************************************************)
(* A run reported "ok" has, for each item it fetched, a snapshot and a     *)
(* signal of the same time, for any number of callers that overlap, any    *)
(* lists with holes in their ranks, and wherever runs are cut off.         *)
(***************************************************************************)
THEOREM OkRunsSignalAll == Spec => []OkRunSignalledAll
<1>1. Init => OkInv
  BY DEF Init, OkInv, OkRunSignalledAll, Thorough, Working
<1>2. Inv /\ OkInv /\ [Next]_vars => OkInv'
  <2>1. ASSUME Inv, OkInv, Tick \/ UNCHANGED vars
        PROVE  OkInv'
    <3>1. runs' = runs /\ snapshots' = snapshots /\ log' = log /\ pc' = pc /\ job' = job
      BY <2>1 DEF Tick, vars
    <3>2. OkRunSignalledAll'
      BY <2>1, <3>1 DEF OkInv, OkRunSignalledAll
    <3>3. \A w \in Syncer : Thorough(w)'
      BY <2>1, <3>1 DEF OkInv, Thorough, Working, Waiting, ItemAt, Signalled
    <3> QED  BY <3>2, <3>3 DEF OkInv
  <2> QED  BY <2>1, OkStep DEF Next
<1>3. OkInv => OkRunSignalledAll
  BY DEF OkInv
<1> QED  BY <1>1, <1>2, <1>3, InvHolds, PTL DEF Spec

-----------------------------------------------------------------------------
(* The gate, for calls that do not overlap. *)

OneCall == \A v, w \in Syncer : v # w => pc[v] = "idle" \/ pc[w] = "idle"

\* After a step of w nobody else is in a call.
Alone(w) == \A v \in Syncer \ {w} : pc'[v] = "idle"

LEMMA AloneHere ==
    ASSUME Typing, OneCall, OneCall', NEW w \in Syncer, Sync(w)
    PROVE  Alone(w)
<1>1. pc \in [Syncer -> {"idle", "start", "token", "fetch", "append"}]
  BY DEF Typing, TypeOK
<1>2. CASE PassGate(w)
  BY <1>1, <1>2 DEF PassGate, Goto, OneCall, Alone
<1>3. ASSUME ~PassGate(w)
      PROVE  pc[w] # "idle" /\ \A v \in Syncer \ {w} : pc'[v] = pc[v]
  BY <1>1, <1>3 DEF Sync, StartRun, AccessToken, AccessTokenFails, FetchTop, FetchFails,
                    ListLeft, EachItem, DropItem, InsertSnapshot, AppendSignal, AppendFails,
                    Finish, ListsDone, FinishRun, CutOff, Goto
<1> QED
  BY <1>2, <1>3 DEF OneCall, Alone

ArtistRows == {s \in snapshots : s.item.kind = "artist"}

\* Past the gate, and until its run ends, a caller that has started is MinInterval
\* later than every artist snapshot of the runs before.
Gated(w) ==
    /\ pc[w] \in {"start", "token"} =>
          \A s \in ArtistRows : s.at + MinInterval <= job[w].started
    /\ Fetching(w) =>
          \A s \in ArtistRows : s.run # job[w].run =>
              s.at + MinInterval <= job[w].started

RowsApart == \A a, b \in ArtistRows : a.run # b.run => Apart(a, b)

GateInv == Inv /\ RowsApart /\ \A w \in Syncer : Gated(w)

LEMMA NumbersTyped ==
    ASSUME Inv
    PROVE  /\ MinInterval \in Nat /\ now \in Nat
           /\ \A w \in Syncer : job[w].started \in Nat /\ job[w].at \in Nat
           /\ \A s \in snapshots : s.at \in Nat
  BY TopConstants DEF Inv, Typing, TypeOK, Job, Snapshot

\* A step without a new snapshot, of a caller that keeps its start.
LEMMA SameRowsGate ==
    ASSUME GateInv, NEW w \in Syncer, Alone(w), snapshots' = snapshots,
           \/ pc'[w] = "idle"
           \/ /\ job'[w].started = job[w].started
              /\ \/ pc[w] \in {"start", "token"}
                 \/ Fetching(w) /\ Fetching(w)' /\ job'[w].run = job[w].run
    PROVE  RowsApart' /\ \A v \in Syncer : Gated(v)'
<1>1. ArtistRows' = ArtistRows
  BY DEF ArtistRows
<1>2. RowsApart'
  BY <1>1 DEF GateInv, RowsApart, Apart
<1>3. Gated(w)'
  BY <1>1 DEF GateInv, Gated, Fetching
<1> QED
  BY <1>2, <1>3 DEF Alone, Gated, Fetching

LEMMA PassGateGate ==
    ASSUME GateInv, NEW w \in Syncer, Alone(w), PassGate(w)
    PROVE  RowsApart' /\ \A v \in Syncer : Gated(v)'
<1>1. /\ snapshots' = snapshots /\ ~FreshSnapshot(now) /\ pc'[w] = "start"
      /\ job'[w] = [NoJob EXCEPT !.started = now]
  BY DEF PassGate, Goto, GateInv, Inv, Typing, TypeOK
<1>2. ArtistRows' = ArtistRows /\ job'[w].started = now
  BY <1>1 DEF ArtistRows, NoJob
<1>3. \A s \in ArtistRows : s.at + MinInterval <= now
  BY <1>1, NumbersTyped DEF GateInv, FreshSnapshot, ArtistRows
<1>4. Gated(w)'
  BY <1>1, <1>2, <1>3 DEF Gated, Fetching
<1>5. RowsApart'
  BY <1>2 DEF GateInv, RowsApart, Apart
<1> QED
  BY <1>4, <1>5 DEF Alone, Gated, Fetching

LEMMA InsertSnapshotGate ==
    ASSUME GateInv, NEW w \in Syncer, Alone(w), NEW rank \in Rank, InsertSnapshot(w, rank)
    PROVE  RowsApart' /\ \A v \in Syncer : Gated(v)'
<1> DEFINE new == [run |-> job[w].run, item |-> ItemAt(w, rank), at |-> job[w].at]
<1>1. /\ job' = job /\ pc[w] = "fetch" /\ pc'[w] = "append"
      /\ snapshots' = snapshots \cup {new}
  BY DEF InsertSnapshot, Goto, GateInv, Inv, Typing, TypeOK
<1>2. new.run = job[w].run /\ new.at = job[w].at
  OBVIOUS
<1> HIDE DEF new
<1>3. \A s \in ArtistRows' : s \in ArtistRows \/ s = new
  BY <1>1 DEF ArtistRows
<1>4. \A s \in ArtistRows : s.run # new.run => s.at + MinInterval <= job[w].started
  BY <1>1, <1>2 DEF GateInv, Gated, Fetching
<1>5. job[w].started <= new.at
  BY <1>1, <1>2 DEF GateInv, Inv, Known, Fetching
<1>6. \A s \in ArtistRows : s.run # new.run => s.at + MinInterval <= new.at
  BY <1>2, <1>4, <1>5, NumbersTyped DEF GateInv, ArtistRows
<1>7. RowsApart'
  <2>1. \A a, b \in ArtistRows' : a.run # b.run => Apart(a, b)
    BY <1>3, <1>6 DEF GateInv, RowsApart, Apart
  <2> QED
    BY <2>1 DEF RowsApart, Apart
<1>8. Gated(w)'
  BY <1>1, <1>2, <1>3, <1>4 DEF Gated, Fetching
<1> QED
  BY <1>7, <1>8 DEF Alone, Gated, Fetching

LEMMA GateStep ==
    ASSUME GateInv, OneCall, OneCall', [Next]_vars
    PROVE  RowsApart' /\ \A v \in Syncer : Gated(v)'
<1>0. /\ job \in [Syncer -> Job]
      /\ pc \in [Syncer -> {"idle", "start", "token", "fetch", "append"}]
  BY DEF GateInv, Inv, Typing, TypeOK
<1>1. CASE Tick \/ UNCHANGED vars
  <2>1. snapshots' = snapshots /\ pc' = pc /\ job' = job
    BY <1>1 DEF Tick, vars
  <2>2. ArtistRows' = ArtistRows
    BY <2>1 DEF ArtistRows
  <2> QED
    BY <2>1, <2>2 DEF GateInv, RowsApart, Apart, Gated, Fetching
<1>2. ASSUME NEW w \in Syncer, Alone(w), StartRun(w) \/ AccessToken(w)
      PROVE  RowsApart' /\ \A v \in Syncer : Gated(v)'
  <2>1. /\ snapshots' = snapshots /\ pc[w] \in {"start", "token"}
        /\ job'[w].started = job[w].started
    BY <1>0, <1>2 DEF StartRun, AccessToken, Goto, Job
  <2> QED
    BY <1>2, <2>1, SameRowsGate
<1>3. ASSUME NEW w \in Syncer, Alone(w), NEW status, FinishRun(w, status) \/ CutOff(w)
      PROVE  RowsApart' /\ \A v \in Syncer : Gated(v)'
  <2>1. snapshots' = snapshots /\ pc'[w] = "idle"
    BY <1>0, <1>3 DEF FinishRun, CutOff, Goto
  <2> QED
    BY <1>3, <2>1, SameRowsGate
<1>4. ASSUME NEW w \in Syncer, Alone(w), FetchTop(w)
      PROVE  RowsApart' /\ \A v \in Syncer : Gated(v)'
  <2>1. PICK ranks \in SUBSET Rank :
          LET kind == KindAt(job[w].list) IN
          job' = [job EXCEPT ![w].list = @ + 1, ![w].todo = ranks,
                             ![w].artists = @ \/ kind = "artist"]
    BY <1>4 DEF FetchTop
  <2> DEFINE artists == job[w].artists \/ KindAt(job[w].list) = "artist"
  <2>2. job'[w] = [job[w] EXCEPT !.list = job[w].list + 1, !.todo = ranks,
                                 !.artists = artists]
    BY <1>0, <2>1
  <2>3. job'[w].started = job[w].started /\ job'[w].run = job[w].run
    <3> HIDE DEF artists
    <3> QED
      BY <1>0, <2>2 DEF Job
  <2>4. snapshots' = snapshots /\ Fetching(w) /\ Fetching(w)'
    BY <1>4 DEF FetchTop, ListLeft, Fetching
  <2> QED
    BY <1>4, <2>3, <2>4, SameRowsGate
<1>5. ASSUME NEW w \in Syncer, Alone(w), NEW rank,
             FetchFails(w) \/ DropItem(w, rank) \/ AppendSignal(w, rank) \/ AppendFails(w, rank)
      PROVE  RowsApart' /\ \A v \in Syncer : Gated(v)'
  <2>1. snapshots' = snapshots /\ Fetching(w) /\ Fetching(w)'
    BY <1>0, <1>5 DEF FetchFails, ListLeft, DropItem, AppendSignal, AppendFails, Goto, Fetching
  <2>2. job'[w].started = job[w].started /\ job'[w].run = job[w].run
    BY <1>0, <1>5 DEF FetchFails, DropItem, AppendSignal, AppendFails, Job
  <2> QED
    BY <1>5, <2>1, <2>2, SameRowsGate
<1>6. ASSUME NEW w \in Syncer, Sync(w)
      PROVE  RowsApart' /\ \A v \in Syncer : Gated(v)'
  <2>1. Alone(w)
    BY <1>6, AloneHere DEF GateInv, Inv
  <2> QED
    BY <1>2, <1>3, <1>4, <1>5, <1>6, <2>1, PassGateGate, InsertSnapshotGate
       DEF Sync, EachItem, AccessTokenFails, Finish
<1> QED
  BY <1>1, <1>6 DEF Next

(***************************************************************************)
(* For any number of callers whose calls do not overlap, the gate keeps    *)
(* the top_rank signals of artists of different runs MinInterval apart,    *)
(* whatever fails or is cut off.                                           *)
(***************************************************************************)
THEOREM GateHolds == Spec /\ []OneCall => []ArtistSignalsApart
<1>1. Init /\ Inv => GateInv
  BY DEF Init, GateInv, RowsApart, ArtistRows, Gated, Fetching
<1>2. GateInv /\ OneCall /\ OneCall' /\ Inv' /\ [Next]_vars => GateInv'
  BY GateStep DEF GateInv
<1>3. GateInv => ArtistSignalsApart
  <2> SUFFICES ASSUME GateInv, NEW a \in log, NEW b \in log,
                      a.item.kind = "artist", b.item.kind = "artist", a.run # b.run
               PROVE  Apart(a, b)
    BY DEF ArtistSignalsApart
  <2>1. PICK s \in snapshots : s.run = a.run /\ s.item = a.item /\ s.at = a.at
    BY DEF GateInv, Inv, RowsKnown
  <2>2. PICK t \in snapshots : t.run = b.run /\ t.item = b.item /\ t.at = b.at
    BY DEF GateInv, Inv, RowsKnown
  <2>3. s \in ArtistRows /\ t \in ArtistRows
    BY <2>1, <2>2 DEF ArtistRows
  <2> QED
    BY <2>1, <2>2, <2>3 DEF GateInv, RowsApart, Apart
<1> QED
  BY <1>1, <1>2, <1>3, InvHolds, PTL DEF Spec
=============================================================================
