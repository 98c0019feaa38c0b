-------------------------- MODULE DiscoverScanProofs --------------------------
(***************************************************************************)
(* Theorems of DiscoverScan, for any number of callers that may overlap,   *)
(* any catalog and any limits: its types, that every candidate has its     *)
(* album and artist, that the gate keeps runs apart, and that what was     *)
(* known before a run is not promoted by it.  If no two calls of one       *)
(* service overlap: that a run which ends "ok" covered its leads.          *)
(***************************************************************************)
EXTENDS DiscoverScan, FiniteSetTheorems, TLAPS

Places == {"idle", "start", "seeds", "exclusions", "seed", "lead", "release", "candidate"}

\* What is set in the locals j of a call at a place, when n runs are recorded.
LocalsSet(at, j, n) ==
    /\ at \in Places /\ j \in Job
    /\ at # "idle" => j.source \in Source
    /\ at \notin {"idle", "start"} => j.run \in 1..n
    /\ j.leads \subseteq LeadsFor(j.source)
    /\ at \in {"release", "candidate"} => j.lead \in LeadsFor(j.source)
    /\ at = "candidate" => j.release \in Release

\* TypeOK but for the runs and the calls.
Rows ==
    /\ now \in Nat
    /\ known \subseteq Subject
    /\ artists \subseteq Artist /\ labels \subseteq Label
    /\ albums \in [Album -> Artist \cup {None, "no row"}]
    /\ links \subseteq Album \X Label
    /\ candidates \subseteq Candidate

Typing == TypeOK /\ \A w \in Syncer : LocalsSet(pc[w], job[w], Len(runs))

-----------------------------------------------------------------------------
(* Types. *)

LEMMA NoJobTyped ==
    \A n \in Nat : LocalsSet("idle", NoJob, n)
<1>1. {} \in SUBSET Subject /\ {} \in SUBSET Seeds /\ {} \in SUBSET Label
      /\ {} \in SUBSET Lead /\ {} \in SUBSET Release /\ FALSE \in BOOLEAN
  OBVIOUS
<1>2. NoJob \in Job
  BY <1>1 DEF NoJob, Job
<1> QED
  BY <1>2 DEF LocalsSet, Places, NoJob

LEMMA Gated ==
    ASSUME NEW source \in Source, NEW t \in Nat, NEW n \in Nat
    PROVE  LocalsSet("start", [NoJob EXCEPT !.source = source, !.started = t, !.seen = n], n)
<1>1. NoJob \in Job /\ NoJob.leads = {}
  BY NoJobTyped DEF LocalsSet, NoJob
<1> DEFINE j == [NoJob EXCEPT !.source = source, !.started = t, !.seen = n]
<1>2. j \in Job /\ j.leads = {} /\ j.source = source
  BY <1>1 DEF Job
<1>3. LocalsSet("start", j, n)
  <2> HIDE DEF j
  <2> QED
    BY <1>2 DEF LocalsSet, Places
<1> QED
  BY <1>3

\* One caller moves, the others stay where they are.
LEMMA Moves ==
    ASSUME Typing, NEW w \in Syncer, NEW at, NEW j,
           runs' \in Seq(Run), Len(runs) <= Len(runs'),
           LocalsSet(at, j, Len(runs')),
           job' = [job EXCEPT ![w] = j], pc' = [pc EXCEPT ![w] = at], Rows'
    PROVE  Typing'
<1>1. Len(runs) \in Nat /\ Len(runs') \in Nat
  <2>1. runs \in Seq(Run)
    BY DEF Typing, TypeOK
  <2> QED
    BY ONLY <2>1, runs' \in Seq(Run)
<1>2. pc \in [Syncer -> Places] /\ job \in [Syncer -> Job]
  BY DEF Typing, TypeOK, Places
<1>3. at \in Places /\ j \in Job
  BY DEF LocalsSet
<1>4. pc' \in [Syncer -> Places] /\ job' \in [Syncer -> Job]
  BY <1>2, <1>3
<1>5. ASSUME NEW v \in Syncer PROVE LocalsSet(pc[v], job[v], Len(runs))'
  <2>1. CASE v = w
    BY <1>2, <2>1
  <2>2. CASE v # w
    <3>1. LocalsSet(pc[v], job[v], Len(runs)) /\ pc'[v] = pc[v] /\ job'[v] = job[v]
      BY <1>2, <2>2 DEF Typing
    <3>2. 1..Len(runs) \subseteq 1..Len(runs')
      BY <1>1
    <3> QED
      BY <3>1, <3>2 DEF LocalsSet
  <2> QED
    BY <2>1, <2>2
<1>6. TypeOK'
  BY <1>4 DEF TypeOK, Rows, Places
<1> QED
  BY <1>5, <1>6 DEF Typing

LEMMA RowsStay ==
    ASSUME Typing
    PROVE  /\ Rows
           /\ UNCHANGED <<now, known, catalog, candidates>> => Rows'
BY DEF Typing, TypeOK, Rows, catalog

LEMMA RunsTyped ==
    ASSUME runs \in Seq(Run), NEW i
    PROVE  /\ \A status \in {"ok", "partial", "failed"} :
                [runs EXCEPT ![i].status = status] \in Seq(Run)
           /\ \A n \in Nat : [runs EXCEPT ![i].loaded = n] \in Seq(Run)
           /\ \A some \in SUBSET Subject : [runs EXCEPT ![i].excluded = some] \in Seq(Run)
           /\ \A some \in SUBSET (Seeds \X Lead) :
                [runs EXCEPT ![i].offered = @ \cup some] \in Seq(Run)
<1>1. runs \in [1..Len(runs) -> Run] /\ Len(runs) \in Nat
  OBVIOUS
<1>2. \A s \in [1..Len(runs) -> Run] : s \in Seq(Run)
  BY <1>1
<1>3. ASSUME NEW r, i \in 1..Len(runs) => r \in Run
      PROVE  [runs EXCEPT ![i] = r] \in Seq(Run)
  BY <1>1, <1>2, <1>3
<1>4. ASSUME NEW status \in {"ok", "partial", "failed"}
      PROVE  [runs EXCEPT ![i].status = status] \in Seq(Run)
  <2> DEFINE r == [runs[i] EXCEPT !.status = status]
  <2>1. i \in 1..Len(runs) => r \in Run
    BY <1>1 DEF Run
  <2>2. [runs EXCEPT ![i] = r] \in Seq(Run)
    <3> HIDE DEF r
    <3> QED
      BY <1>3, <2>1
  <2> QED
    BY <2>2
<1>5. ASSUME NEW n \in Nat PROVE [runs EXCEPT ![i].loaded = n] \in Seq(Run)
  <2> DEFINE r == [runs[i] EXCEPT !.loaded = n]
  <2>1. i \in 1..Len(runs) => r \in Run
    BY <1>1 DEF Run
  <2>2. [runs EXCEPT ![i] = r] \in Seq(Run)
    <3> HIDE DEF r
    <3> QED
      BY <1>3, <2>1
  <2> QED
    BY <2>2
<1>6. ASSUME NEW some \in SUBSET Subject PROVE [runs EXCEPT ![i].excluded = some] \in Seq(Run)
  <2> DEFINE r == [runs[i] EXCEPT !.excluded = some]
  <2>1. i \in 1..Len(runs) => r \in Run
    BY <1>1 DEF Run
  <2>2. [runs EXCEPT ![i] = r] \in Seq(Run)
    <3> HIDE DEF r
    <3> QED
      BY <1>3, <2>1
  <2> QED
    BY <2>2
<1>7. ASSUME NEW some \in SUBSET (Seeds \X Lead)
      PROVE  [runs EXCEPT ![i].offered = @ \cup some] \in Seq(Run)
  <2> DEFINE r == [runs[i] EXCEPT !.offered = runs[i].offered \cup some]
  <2>1. i \in 1..Len(runs) => r \in Run
    BY <1>1 DEF Run
  <2>2. [runs EXCEPT ![i] = r] \in Seq(Run)
    <3> HIDE DEF r
    <3> QED
      BY <1>3, <2>1
  <2> QED
    BY <2>2
<1> QED
  BY <1>4, <1>5, <1>6, <1>7

LEMMA SameLength ==
    ASSUME runs \in Seq(Run), runs' \in Seq(Run), DOMAIN runs' = DOMAIN runs
    PROVE  Len(runs') = Len(runs) /\ Len(runs) <= Len(runs')
OBVIOUS

LEMMA AnswersTyped ==
    ASSUME Typing, NEW w \in Syncer, job[w].source \in Source, NEW seed \in Seeds,
           NEW answer \in Answers(w, seed)
    PROVE  Acceptable(w, answer) \subseteq LeadsFor(job[w].source)
<1>1. seed \in Artist /\ labels \subseteq Label
  BY ScanConstants DEF Typing, TypeOK
<1>2. LeadsOf[job[w].source, seed] \subseteq LeadsFor(job[w].source)
  BY ScanConstants
<1>3. answer \subseteq LeadsFor(job[w].source)
  <2>1. CASE job[w].source = "releases"
    <3>1. answer = {[target |-> seed, place |-> 1, weak |-> FALSE]}
      BY <2>1 DEF Answers
    <3>2. [target |-> seed, place |-> 1, weak |-> FALSE] \in Lead
      BY <1>1 DEF Lead
    <3> QED
      BY <1>1, <2>1, <3>1, <3>2 DEF LeadsFor
  <2>2. CASE job[w].source = "samelabel"
    <3>1. CASE CachedLabels(seed) # {}
      <4>1. answer = {[target |-> l, place |-> 1, weak |-> FALSE] : l \in CachedLabels(seed)}
        BY <2>2, <3>1 DEF Answers
      <4>2. \A l \in CachedLabels(seed) :
              l \in Label /\ [target |-> l, place |-> 1, weak |-> FALSE] \in Lead
        BY <1>1 DEF CachedLabels, Lead
      <4> QED
        BY <2>2, <4>1, <4>2 DEF LeadsFor
    <3>2. CASE CachedLabels(seed) = {}
      BY <1>2, <2>2, <3>2 DEF Answers
    <3> QED
      BY <3>1, <3>2
  <2>3. CASE job[w].source \notin {"releases", "samelabel"}
    BY <1>2, <2>3 DEF Answers
  <2> QED
    BY <2>1, <2>2, <2>3
<1> QED
  BY <1>3 DEF Acceptable
\* A run is recorded, read and closed.
LEMMA BeginTyped ==
    ASSUME Typing, NEW w \in Syncer, Begin(w) \/ Finish(w)
    PROVE  Typing'
<1>1. /\ runs \in Seq(Run) /\ Len(runs) \in Nat /\ now \in Nat /\ known \subseteq Subject
      /\ LocalsSet(pc[w], job[w], Len(runs)) /\ job \in [Syncer -> Job]
  <2>1. runs \in Seq(Run) /\ now \in Nat /\ known \subseteq Subject /\ job \in [Syncer -> Job]
    BY DEF Typing, TypeOK
  <2>2. Len(runs) \in Nat
    BY ONLY <2>1
  <2> QED
    BY <2>1, <2>2 DEF Typing
<1>2. ASSUME NEW source \in Source, PassGate(w, source)
      PROVE  Typing'
  <2> DEFINE j == [NoJob EXCEPT !.source = source, !.started = now, !.seen = Len(runs)]
  <2>1. /\ runs' = runs /\ job' = [job EXCEPT ![w] = j] /\ pc' = [pc EXCEPT ![w] = "start"]
        /\ Rows'
    BY <1>2, RowsStay DEF PassGate, Goto
  <2>2. LocalsSet("start", j, Len(runs'))
    BY <1>1, <2>1, Gated
  <2>3. runs' \in Seq(Run) /\ Len(runs) <= Len(runs')
    BY <1>1, <2>1
  <2> HIDE DEF j
  <2> QED
    BY <2>1, <2>2, <2>3, Moves
<1>3. CASE StartRun(w)
  <2> DEFINE n == Len(runs) + 1
             j == [job[w] EXCEPT !.run = n]
             r == [source |-> job[w].source, started |-> job[w].started,
                   status |-> "running", known |-> known, seen |-> job[w].seen,
                   loaded |-> 0, excluded |-> {}, offered |-> {}]
  <2>1. /\ pc[w] = "start" /\ runs' = Append(runs, r) /\ pc' = [pc EXCEPT ![w] = "seeds"]
        /\ Rows'
    BY <1>3, RowsStay DEF StartRun, Goto
  <2>2. job' = [job EXCEPT ![w] = j]
    BY <1>1, <1>3 DEF StartRun
  <2>3. job[w] \in Job /\ job[w].source \in Source /\ job[w].leads \subseteq LeadsFor(job[w].source)
    BY <1>1, <2>1 DEF LocalsSet
  <2>4. r \in Run
    <3>1. job[w].started \in Nat /\ job[w].seen \in Nat
      BY <2>3 DEF Job
    <3>2. {} \in SUBSET Subject /\ {} \in SUBSET (Seeds \X Lead) /\ known \in SUBSET Subject
      BY <1>1
    <3> QED
      BY <2>3, <3>1, <3>2 DEF Run
  <2>5. runs' \in Seq(Run) /\ Len(runs') = Len(runs) + 1 /\ Len(runs) <= Len(runs')
    <3> HIDE DEF r
    <3>1. runs' = Append(runs, r)
      BY <2>1
    <3> QED
      BY ONLY <1>1, <2>4, <3>1
  <2>6. LocalsSet("seeds", j, Len(runs'))
    <3>0. n \in Nat
      BY <1>1
    <3>1. j \in Job /\ j.source = job[w].source /\ j.leads = job[w].leads /\ j.run = n
      <4> HIDE DEF n
      <4> QED
        BY <2>3, <3>0 DEF Job
    <3> HIDE DEF j
    <3> QED
      BY <1>1, <2>3, <2>5, <3>1 DEF LocalsSet, Places
  <2> HIDE DEF j, n, r
  <2> QED
    BY <2>1, <2>2, <2>5, <2>6, Moves
<1>4. ASSUME NEW status \in {"ok", "partial", "failed"}, FinishRun(w, status)
      PROVE  Typing'
  <2>1. /\ runs' = [runs EXCEPT ![job[w].run].status = status]
        /\ job' = [job EXCEPT ![w] = NoJob] /\ pc' = [pc EXCEPT ![w] = "idle"]
        /\ Rows'
    BY <1>4, RowsStay DEF FinishRun, Goto
  <2>2. runs' \in Seq(Run) /\ Len(runs') = Len(runs) /\ Len(runs) <= Len(runs')
    <3>1. runs' \in Seq(Run)
      BY <1>1, <2>1, RunsTyped
    <3>2. DOMAIN runs' = DOMAIN runs
      BY <2>1
    <3> QED
      BY <1>1, <3>1, <3>2, SameLength
  <2>3. LocalsSet("idle", NoJob, Len(runs'))
    BY <1>1, <2>2, NoJobTyped
  <2> QED
    BY <2>1, <2>2, <2>3, Moves
<1>5. CASE LoadSeeds(w)
  <2>1. PICK some \in SUBSET Seeds \ {{}} :
          /\ job' = [job EXCEPT ![w].seeds = some]
          /\ runs' = [runs EXCEPT ![job[w].run].loaded = Cardinality(some)]
    BY <1>5 DEF LoadSeeds
  <2> DEFINE j == [job[w] EXCEPT !.seeds = some]
             at == IF job[w].source = "releases" THEN "seed" ELSE "exclusions"
  <2>2. pc[w] = "seeds" /\ pc' = [pc EXCEPT ![w] = at] /\ job' = [job EXCEPT ![w] = j]
        /\ Rows'
    BY <1>1, <1>5, <2>1, RowsStay DEF LoadSeeds, Goto
  <2>3. Cardinality(some) \in Nat
    BY ScanConstants, FS_Subset, FS_CardinalityType
  <2>4. runs' \in Seq(Run) /\ Len(runs') = Len(runs) /\ Len(runs) <= Len(runs')
    <3>1. runs' \in Seq(Run)
      BY <1>1, <2>1, <2>3, RunsTyped
    <3>2. DOMAIN runs' = DOMAIN runs
      BY <2>1
    <3> QED
      BY <1>1, <3>1, <3>2, SameLength
  <2>5. LocalsSet(at, j, Len(runs'))
    <3>1. /\ job[w] \in Job /\ job[w].source \in Source /\ job[w].run \in 1..Len(runs)
          /\ job[w].leads \subseteq LeadsFor(job[w].source)
      BY <1>1, <2>2 DEF LocalsSet
    <3>2. j \in Job /\ j.source = job[w].source /\ j.leads = job[w].leads /\ j.run = job[w].run
      BY <3>1 DEF Job
    <3> HIDE DEF j
    <3> QED
      BY <2>4, <3>1, <3>2 DEF LocalsSet, Places
  <2> HIDE DEF j, at
  <2> QED
    BY <2>2, <2>4, <2>5, Moves
<1>6. CASE LoadExclusions(w)
  <2> DEFINE excluded == Exclusions(job[w].source)
             j == [job[w] EXCEPT !.excluded = excluded]
  <2>1. /\ pc[w] = "exclusions" /\ pc' = [pc EXCEPT ![w] = "seed"]
        /\ job' = [job EXCEPT ![w] = j]
        /\ runs' = [runs EXCEPT ![job[w].run].excluded = excluded]
        /\ Rows'
    BY <1>1, <1>6, RowsStay DEF LoadExclusions, Goto
  <2>2. excluded \in SUBSET Subject
    BY <1>1 DEF Exclusions, ArtistExclusions, AlbumExclusions
  <2> HIDE DEF excluded
  <2>3. runs' \in Seq(Run) /\ Len(runs') = Len(runs) /\ Len(runs) <= Len(runs')
    <3>1. runs' \in Seq(Run)
      BY <1>1, <2>1, <2>2, RunsTyped
    <3>2. DOMAIN runs' = DOMAIN runs
      BY <2>1
    <3> QED
      BY <1>1, <3>1, <3>2, SameLength
  <2>4. LocalsSet("seed", j, Len(runs'))
    <3>1. /\ job[w] \in Job /\ job[w].source \in Source /\ job[w].run \in 1..Len(runs)
          /\ job[w].leads \subseteq LeadsFor(job[w].source)
      BY <1>1, <2>1 DEF LocalsSet
    <3>2. j \in Job /\ j.source = job[w].source /\ j.leads = job[w].leads /\ j.run = job[w].run
      BY <2>2, <3>1 DEF Job
    <3> HIDE DEF j
    <3> QED
      BY <2>3, <3>1, <3>2 DEF LocalsSet, Places
  <2> HIDE DEF j
  <2> QED
    BY <2>1, <2>3, <2>4, Moves
<1> QED
  BY <1>2, <1>3, <1>4, <1>5, <1>6 DEF Begin, NoSeeds, LoadFails, Finish

\* A step that leaves the runs alone.
LEMMA Walks ==
    ASSUME Typing, NEW w \in Syncer, NEW at, NEW j,
           runs' = runs, LocalsSet(at, j, Len(runs)),
           job' = [job EXCEPT ![w] = j], pc' = [pc EXCEPT ![w] = at], Rows'
    PROVE  Typing'
<1>1. runs \in Seq(Run)
  BY DEF Typing, TypeOK
<1>2. runs' \in Seq(Run) /\ Len(runs') = Len(runs) /\ Len(runs) <= Len(runs')
  BY ONLY <1>1, runs' = runs
<1> QED
  BY <1>2, Moves

LEMMA Here ==
    ASSUME Typing, NEW w \in Syncer
    PROVE  /\ LocalsSet(pc[w], job[w], Len(runs))
           /\ job \in [Syncer -> Job] /\ pc \in [Syncer -> Places]
           /\ job[w] \in Job
           /\ pc[w] \notin {"idle", "start"} => job[w].source \in Source /\ job[w].run \in 1..Len(runs)
           /\ pc[w] \in {"release", "candidate"} => job[w].lead \in LeadsFor(job[w].source)
           /\ pc[w] = "candidate" => job[w].release \in Release
           /\ job[w].leads \subseteq LeadsFor(job[w].source)
<1>1. LocalsSet(pc[w], job[w], Len(runs))
  BY DEF Typing
<1>2. job \in [Syncer -> Job] /\ pc \in [Syncer -> Places]
  BY DEF Typing, TypeOK, Places
<1> QED
  BY <1>1, <1>2 DEF LocalsSet

LEMMA EachSeedTyped ==
    ASSUME Typing, NEW w \in Syncer, NEW seed \in Seeds, FetchLeads(w, seed) \/ FetchFails(w, seed)
    PROVE  Typing'
<1>1. runs \in Seq(Run) /\ job \in [Syncer -> Job] /\ pc \in [Syncer -> Places]
  BY Here DEF Typing, TypeOK
<1>2. /\ pc[w] = "seed" /\ job[w] \in Job /\ job[w].source \in Source
      /\ job[w].run \in 1..Len(runs) /\ job[w].leads \subseteq LeadsFor(job[w].source)
      /\ Rows'
  BY Here, RowsStay DEF FetchLeads, FetchFails
<1>3. CASE FetchLeads(w, seed)
  <2>1. PICK answer \in Answers(w, seed) :
          LET leads == Acceptable(w, answer) IN
          /\ job' = [job EXCEPT ![w].seeds = @ \ {seed}, ![w].leads = leads,
                                ![w].followed = 0]
          /\ runs' = [runs EXCEPT ![job[w].run].offered = @ \cup ({seed} \X leads)]
    BY <1>3 DEF FetchLeads
  <2> DEFINE leads == Acceptable(w, answer)
             j == [job[w] EXCEPT !.seeds = job[w].seeds \ {seed}, !.leads = leads, !.followed = 0]
  <2>2. leads \subseteq LeadsFor(job[w].source)
    BY <1>2, AnswersTyped
  <2> HIDE DEF leads
  <2>3. job' = [job EXCEPT ![w] = j] /\ pc' = [pc EXCEPT ![w] = "lead"]
    BY <1>1, <1>3, <2>1 DEF FetchLeads, Goto, leads
  <2>4. runs' = [runs EXCEPT ![job[w].run].offered = @ \cup ({seed} \X leads)]
    BY <2>1 DEF leads
  <2>5. {seed} \X leads \in SUBSET (Seeds \X Lead)
    BY <2>2 DEF LeadsFor
  <2>6. runs' \in Seq(Run)
    BY <1>1, <2>4, <2>5, RunsTyped
  <2>7. Len(runs') = Len(runs) /\ Len(runs) <= Len(runs')
    <3>1. DOMAIN runs' = DOMAIN runs
      BY <2>4
    <3> QED
      BY <1>1, <2>6, <3>1, SameLength
  <2>8. LocalsSet("lead", j, Len(runs'))
    <3>1. leads \in SUBSET Lead /\ job[w].seeds \ {seed} \in SUBSET Seeds
      BY <1>2, <2>2 DEF Job, LeadsFor
    <3>2. j \in Job /\ j.source = job[w].source /\ j.leads = leads /\ j.run = job[w].run
      BY <1>2, <3>1 DEF Job
    <3> HIDE DEF j
    <3> QED
      BY <1>2, <2>2, <2>7, <3>2 DEF LocalsSet, Places
  <2> HIDE DEF j
  <2> QED
    BY <1>2, <2>3, <2>6, <2>7, <2>8, Moves
<1>4. CASE FetchFails(w, seed)
  <2> DEFINE j == [job[w] EXCEPT !.seeds = job[w].seeds \ {seed}, !.flawed = TRUE]
  <2>1. job' = [job EXCEPT ![w] = j] /\ pc' = [pc EXCEPT ![w] = "seed"] /\ runs' = runs
    BY <1>1, <1>2, <1>4 DEF FetchFails
  <2>2. LocalsSet("seed", j, Len(runs))
    <3>1. job[w].seeds \ {seed} \in SUBSET Seeds
      BY <1>2 DEF Job
    <3>2. j \in Job /\ j.source = job[w].source /\ j.leads = job[w].leads /\ j.run = job[w].run
      BY <1>2, <3>1 DEF Job
    <3> HIDE DEF j
    <3> QED
      BY <1>2, <3>2 DEF LocalsSet, Places
  <2> HIDE DEF j
  <2> QED
    BY <1>2, <2>1, <2>2, Walks
<1> QED
  BY <1>3, <1>4

LEMMA WantedTyped ==
    ASSUME NEW source, NEW excluded, NEW lead \in Lead
    PROVE  Wanted(source, excluded, lead) \in SUBSET Release
<1>1. lead.target \in Artist \cup Label
  BY DEF Lead
<1>2. ReleasesOf[lead.target] \in SUBSET Release
  BY <1>1, ScanConstants
<1> QED
  BY <1>2 DEF Wanted

LEMMA EachLeadTyped ==
    ASSUME Typing, NEW w \in Syncer, NEW lead, BrowseLead(w, lead) \/ BrowseFails(w, lead)
    PROVE  Typing'
<1>1. /\ pc[w] = "lead" /\ lead \in LeadsFor(job[w].source) /\ lead \in job[w].leads
      /\ UpsertLabel(w, lead)
  BY Here DEF BrowseLead, BrowseFails, IsNextLead
<1>2. /\ job \in [Syncer -> Job] /\ pc \in [Syncer -> Places]
      /\ job[w] \in Job /\ job[w].source \in Source
      /\ job[w].run \in 1..Len(runs) /\ job[w].leads \subseteq LeadsFor(job[w].source)
  BY <1>1, Here
<1>3. /\ labels' \subseteq Label /\ artists' \subseteq Artist
      /\ now' = now /\ known' = known /\ runs' = runs /\ albums' = albums
      /\ links' = links /\ candidates' = candidates
  <2>1. labels \subseteq Label /\ artists \subseteq Artist
    BY RowsStay DEF Rows
  <2>2. labels' \subseteq Label
    BY <1>1, <2>1 DEF UpsertLabel, LeadsFor
  <2>3. CASE BrowseLead(w, lead)
    BY <1>1, <2>1, <2>2, <2>3 DEF BrowseLead, UpsertArtist, LeadsFor
  <2>4. CASE BrowseFails(w, lead)
    BY <2>1, <2>2, <2>4 DEF BrowseFails
  <2> QED
    BY <2>3, <2>4
<1>4. Rows'
  BY <1>3, RowsStay DEF Rows
<1>5. /\ lead \in Lead /\ job[w].leads \ {lead} \in SUBSET Lead
      /\ job[w].processed \cup ({lead.target} \cap Label) \in SUBSET Label
      /\ job[w].followed \in Nat /\ job[w].followed + 1 \in Nat
  BY <1>1, <1>2 DEF LeadsFor, Job
<1>6. CASE BrowseLead(w, lead)
  <2> DEFINE shown == Wanted(job[w].source, job[w].excluded, lead)
             processed == job[w].processed \cup ({lead.target} \cap Label)
             leads == job[w].leads \ {lead}
             followed == job[w].followed + 1
             j == [job[w] EXCEPT !.leads = leads, !.lead = lead, !.followed = followed,
                                 !.shown = shown, !.picked = 0, !.processed = processed]
  <2>1. shown \in SUBSET Release
    BY <1>5, WantedTyped
  <2>2. pc' = [pc EXCEPT ![w] = "release"] /\ job' = [job EXCEPT ![w] = j]
    BY <1>2, <1>6 DEF BrowseLead, Goto
  <2>3. LocalsSet("release", j, Len(runs))
    <3>0. leads \in SUBSET Lead /\ processed \in SUBSET Label /\ followed \in Nat
      BY <1>5
    <3> HIDE DEF shown, processed, leads, followed
    <3>1. j \in Job /\ j.source = job[w].source /\ j.leads = leads /\ j.run = job[w].run
          /\ j.lead = lead
      BY <1>2, <1>5, <2>1, <3>0 DEF Job
    <3>2. leads \subseteq LeadsFor(job[w].source)
      BY <1>2 DEF leads
    <3> HIDE DEF j
    <3> QED
      BY <1>1, <1>2, <3>1, <3>2 DEF LocalsSet, Places
  <2> HIDE DEF j
  <2> QED
    BY <1>3, <1>4, <2>2, <2>3, Walks
<1>7. CASE BrowseFails(w, lead)
  <2> DEFINE processed == job[w].processed \cup ({lead.target} \cap Label)
             leads == job[w].leads \ {lead}
             followed == IF CountsTries(w) THEN job[w].followed + 1 ELSE job[w].followed
             j == [job[w] EXCEPT !.leads = leads, !.flawed = TRUE, !.followed = followed,
                                 !.processed = processed]
  <2>1. pc' = [pc EXCEPT ![w] = "lead"] /\ job' = [job EXCEPT ![w] = j]
    BY <1>1, <1>2, <1>7 DEF BrowseFails
  <2>2. LocalsSet("lead", j, Len(runs))
    <3>0. leads \in SUBSET Lead /\ processed \in SUBSET Label /\ followed \in Nat
      BY <1>5
    <3> HIDE DEF processed, leads, followed
    <3>1. j \in Job /\ j.source = job[w].source /\ j.leads = leads /\ j.run = job[w].run
      BY <1>2, <3>0 DEF Job
    <3>2. leads \subseteq LeadsFor(job[w].source)
      BY <1>2 DEF leads
    <3> HIDE DEF j
    <3> QED
      BY <1>2, <3>1, <3>2 DEF LocalsSet, Places
  <2> HIDE DEF j
  <2> QED
    BY <1>3, <1>4, <2>1, <2>2, Walks
<1> QED
  BY <1>6, <1>7

LEMMA LeadsDoneTyped ==
    ASSUME Typing, NEW w \in Syncer, LeadsDone(w)
    PROVE  Typing'
<1> DEFINE j == [job[w] EXCEPT !.leads = {}]
<1>1. /\ pc[w] = "lead" /\ job \in [Syncer -> Job]
      /\ job[w] \in Job /\ job[w].source \in Source /\ job[w].run \in 1..Len(runs)
  BY Here DEF LeadsDone
<1>2. /\ pc' = [pc EXCEPT ![w] = "seed"] /\ runs' = runs /\ Rows'
      /\ job' = [job EXCEPT ![w] = j]
  BY <1>1, RowsStay DEF LeadsDone, Goto
<1>3. LocalsSet("seed", j, Len(runs))
  <2>1. {} \in SUBSET Lead
    OBVIOUS
  <2>2. j \in Job /\ j.source = job[w].source /\ j.leads = {} /\ j.run = job[w].run
    BY <1>1, <2>1 DEF Job
  <2> HIDE DEF j
  <2> QED
    BY <1>1, <2>2 DEF LocalsSet, Places
<1> HIDE DEF j
<1> QED
  BY <1>2, <1>3, Walks

LEMMA ReleasesDoneTyped ==
    ASSUME Typing, NEW w \in Syncer, ReleasesDone(w)
    PROVE  Typing'
<1> DEFINE j == [job[w] EXCEPT !.shown = {}, !.lead = None, !.picked = 0]
<1>1. /\ pc[w] = "release" /\ job \in [Syncer -> Job]
      /\ job[w] \in Job /\ job[w].source \in Source /\ job[w].run \in 1..Len(runs)
      /\ job[w].leads \subseteq LeadsFor(job[w].source)
  BY Here DEF ReleasesDone
<1>2. /\ pc' = [pc EXCEPT ![w] = "lead"] /\ runs' = runs /\ Rows'
      /\ job' = [job EXCEPT ![w] = j]
  BY <1>1, RowsStay DEF ReleasesDone, Goto
<1>3. LocalsSet("lead", j, Len(runs))
  <2>1. {} \in SUBSET Release
    OBVIOUS
  <2>2. j \in Job /\ j.source = job[w].source /\ j.leads = job[w].leads /\ j.run = job[w].run
    BY <1>1, <2>1 DEF Job
  <2> HIDE DEF j
  <2> QED
    BY <1>1, <2>2 DEF LocalsSet, Places
<1> HIDE DEF j
<1> QED
  BY <1>2, <1>3, Walks

LEMMA CutOffTyped ==
    ASSUME Typing, NEW w \in Syncer, CutOff(w)
    PROVE  Typing'
<1>1. /\ pc' = [pc EXCEPT ![w] = "idle"] /\ runs' = runs /\ Rows'
      /\ job' = [job EXCEPT ![w] = NoJob]
  BY RowsStay DEF CutOff, Goto
<1>2. Len(runs) \in Nat
  <2>1. runs \in Seq(Run)
    BY DEF Typing, TypeOK
  <2> QED
    BY ONLY <2>1
<1>3. LocalsSet("idle", NoJob, Len(runs))
  BY <1>2, NoJobTyped
<1> QED
  BY <1>1, <1>3, Walks

LEMMA UpsertedTyped ==
    ASSUME Typing, NEW w \in Syncer, NEW release \in job[w].shown,
           UpsertAlbum(w, release) \/ AlbumFails(w, release)
    PROVE  /\ Rows' /\ pc[w] = "release" /\ release \in Release
           /\ UpsertAlbum(w, release) => PrimaryOf(w, release) \in Artist \cup {None}
<1>1. /\ pc[w] = "release" /\ UpsertPrimary(w, release)
      /\ now' = now /\ known' = known /\ labels' = labels /\ candidates' = candidates
  BY DEF UpsertAlbum, AlbumFails, IsNextRelease
<1>2. job[w] \in Job /\ job[w].source \in Source /\ job[w].lead \in LeadsFor(job[w].source)
  BY <1>1, Here
<1>3. release \in Release /\ release.album \in Album /\ release.artist \in Artist \cup {None}
  BY <1>2 DEF Job, Release
<1>4. /\ now \in Nat /\ known \subseteq Subject /\ artists \subseteq Artist /\ labels \subseteq Label
      /\ albums \in [Album -> Artist \cup {None, "no row"}]
      /\ links \subseteq Album \X Label /\ candidates \subseteq Candidate
  BY RowsStay DEF Rows
<1>5. artists' \subseteq Artist
  BY <1>1, <1>3, <1>4 DEF UpsertPrimary, UpsertArtist
<1>6. PrimaryOf(w, release) \in Artist \cup {None}
  BY <1>2, <1>3 DEF PrimaryOf, LeadsFor
<1>7. albums' \in [Album -> Artist \cup {None, "no row"}] /\ links' \subseteq Album \X Label
  <2>1. CASE UpsertAlbum(w, release)
    <3> DEFINE primary == Primary(release.album, PrimaryOf(w, release))
    <3>1. primary \in Artist \cup {None, "no row"}
      BY <1>3, <1>4, <1>6 DEF Primary
    <3>2. albums' = [albums EXCEPT ![release.album] = primary] /\ LinkLabel(w, release.album)
      BY <2>1 DEF UpsertAlbum
    <3> HIDE DEF primary
    <3>3. albums' \in [Album -> Artist \cup {None, "no row"}]
      BY <1>4, <3>1, <3>2
    <3>4. links' \subseteq Album \X Label
      <4>1. CASE links' = links
        BY <1>4, <4>1
      <4>2. CASE job[w].lead.target \in labels
                 /\ links' = links \cup {<<release.album, job[w].lead.target>>}
        <5>1. <<release.album, job[w].lead.target>> \in Album \X Label
          BY <1>3, <1>4, <4>2
        <5> QED
          BY <1>4, <4>2, <5>1
      <4> QED
        BY <3>2, <4>1, <4>2 DEF LinkLabel
    <3> QED
      BY <3>3, <3>4
  <2>2. CASE AlbumFails(w, release)
    BY <1>4, <2>2 DEF AlbumFails
  <2> QED
    BY <2>1, <2>2
<1> QED
  BY <1>1, <1>3, <1>4, <1>5, <1>6, <1>7 DEF Rows

LEMMA AlbumTyped ==
    ASSUME Typing, NEW w \in Syncer, NEW release \in job[w].shown,
           UpsertAlbum(w, release) \/ AlbumFails(w, release)
    PROVE  Typing'
<1>1. Rows' /\ pc[w] = "release" /\ release \in Release
  BY UpsertedTyped
<1>2. /\ job \in [Syncer -> Job] /\ pc \in [Syncer -> Places]
      /\ job[w] \in Job /\ job[w].source \in Source /\ job[w].run \in 1..Len(runs)
      /\ job[w].leads \subseteq LeadsFor(job[w].source)
      /\ job[w].lead \in LeadsFor(job[w].source)
  BY <1>1, Here
<1> DEFINE shown == job[w].shown \ {release}
<1>3. shown \in SUBSET Release /\ job[w].picked \in Nat /\ job[w].picked + 1 \in Nat
  BY <1>2 DEF Job
<1>4. CASE UpsertAlbum(w, release)
  <2> DEFINE j == [job[w] EXCEPT !.shown = shown, !.release = release]
  <2>1. /\ pc' = [pc EXCEPT ![w] = "candidate"] /\ runs' = runs
        /\ job' = [job EXCEPT ![w] = j]
    BY <1>2, <1>4 DEF UpsertAlbum, Goto
  <2>2. LocalsSet("candidate", j, Len(runs))
    <3> HIDE DEF shown
    <3>1. j \in Job /\ j.source = job[w].source /\ j.leads = job[w].leads /\ j.run = job[w].run
          /\ j.lead = job[w].lead /\ j.release = release
      BY <1>1, <1>2, <1>3 DEF Job
    <3> HIDE DEF j
    <3> QED
      BY <1>1, <1>2, <3>1 DEF LocalsSet, Places
  <2> HIDE DEF j
  <2> QED
    BY <1>1, <2>1, <2>2, Walks
<1>5. CASE AlbumFails(w, release)
  <2> DEFINE picked == IF CountsFailures(w) THEN job[w].picked + 1 ELSE job[w].picked
             j == [job[w] EXCEPT !.shown = shown, !.flawed = TRUE, !.picked = picked]
  <2>1. /\ pc' = [pc EXCEPT ![w] = "release"] /\ runs' = runs
        /\ job' = [job EXCEPT ![w] = j]
    BY <1>1, <1>2, <1>5 DEF AlbumFails
  <2>2. LocalsSet("release", j, Len(runs))
    <3>0. picked \in Nat
      BY <1>3
    <3> HIDE DEF shown, picked
    <3>1. j \in Job /\ j.source = job[w].source /\ j.leads = job[w].leads /\ j.run = job[w].run
          /\ j.lead = job[w].lead
      BY <1>2, <1>3, <3>0 DEF Job
    <3> HIDE DEF j
    <3> QED
      BY <1>2, <3>1 DEF LocalsSet, Places
  <2> HIDE DEF j
  <2> QED
    BY <1>1, <2>1, <2>2, Walks
<1> QED
  BY <1>4, <1>5

LEMMA RowTyped ==
    ASSUME Typing, NEW w \in Syncer, pc[w] = "candidate"
    PROVE  [album |-> job[w].release.album, source |-> job[w].source,
            expires |-> job[w].started + TTLForSource(job[w].source),
            run |-> job[w].run, lead |-> job[w].lead] \in Candidate
<1>1. /\ job[w] \in Job /\ job[w].source \in Source /\ job[w].release \in Release
      /\ job[w].lead \in LeadsFor(job[w].source)
  BY Here
<1>2. job[w].started \in Nat /\ job[w].run \in Nat /\ job[w].release.album \in Album
      /\ job[w].lead \in Lead
  BY <1>1 DEF Job, Release, LeadsFor
<1> DEFINE expires == job[w].started + TTLForSource(job[w].source)
<1>3. expires \in Nat
  <2> DEFINE ttl == TTLForSource(job[w].source)
  <2>1. ttl \in Nat
    BY ScanConstants DEF TTLForSource
  <2> HIDE DEF ttl
  <2>2. job[w].started + ttl \in Nat
    BY <1>2, <2>1
  <2> QED
    BY <2>2 DEF ttl
<1>4. [album |-> job[w].release.album, source |-> job[w].source,
       expires |-> expires, run |-> job[w].run, lead |-> job[w].lead] \in Candidate
  <2> HIDE DEF expires
  <2> QED
    BY <1>1, <1>2, <1>3 DEF Candidate
<1> QED
  BY <1>4

LEMMA CandidateTyped ==
    ASSUME Typing, NEW w \in Syncer, UpsertCandidate(w) \/ CandidateFails(w)
    PROVE  Typing'
<1>1. pc[w] = "candidate" /\ runs' = runs /\ pc' = [pc EXCEPT ![w] = "release"]
  BY DEF UpsertCandidate, CandidateFails, Goto
<1>2. /\ job \in [Syncer -> Job]
      /\ job[w] \in Job /\ job[w].source \in Source /\ job[w].run \in 1..Len(runs)
      /\ job[w].leads \subseteq LeadsFor(job[w].source)
      /\ job[w].lead \in LeadsFor(job[w].source)
  BY <1>1, Here
<1>3. job[w].picked \in Nat /\ job[w].picked + 1 \in Nat
  BY <1>2 DEF Job
<1>4. CASE UpsertCandidate(w)
  <2> DEFINE picked == job[w].picked + 1
             j == [job[w] EXCEPT !.release = None, !.picked = picked]
             row == [album |-> job[w].release.album, source |-> job[w].source,
                     expires |-> job[w].started + TTLForSource(job[w].source),
                     run |-> job[w].run, lead |-> job[w].lead]
  <2>1. job' = [job EXCEPT ![w] = j]
    BY <1>2, <1>4 DEF UpsertCandidate
  <2>2. /\ candidates' = Replacing(row)
        /\ now' = now /\ known' = known /\ artists' = artists /\ labels' = labels
        /\ albums' = albums /\ links' = links
    BY <1>4 DEF UpsertCandidate, catalog
  <2>3. row \in Candidate
    BY <1>1, RowTyped
  <2>4. Rows'
    <3> HIDE DEF row
    <3> QED
      BY <2>2, <2>3, RowsStay DEF Rows, Replacing
  <2>5. LocalsSet("release", j, Len(runs))
    <3> HIDE DEF picked
    <3>1. j \in Job /\ j.source = job[w].source /\ j.leads = job[w].leads /\ j.run = job[w].run
          /\ j.lead = job[w].lead
      BY <1>2, <1>3 DEF Job, picked
    <3> HIDE DEF j
    <3> QED
      BY <1>2, <3>1 DEF LocalsSet, Places
  <2> HIDE DEF j
  <2> QED
    BY <1>1, <2>1, <2>4, <2>5, Walks
<1>5. CASE CandidateFails(w)
  <2> DEFINE picked == IF CountsFailures(w) THEN job[w].picked + 1 ELSE job[w].picked
             j == [job[w] EXCEPT !.release = None, !.flawed = TRUE, !.picked = picked]
  <2>1. job' = [job EXCEPT ![w] = j] /\ Rows'
    BY <1>2, <1>5, RowsStay DEF CandidateFails
  <2>2. LocalsSet("release", j, Len(runs))
    <3>0. picked \in Nat
      BY <1>3
    <3> HIDE DEF picked
    <3>1. j \in Job /\ j.source = job[w].source /\ j.leads = job[w].leads /\ j.run = job[w].run
          /\ j.lead = job[w].lead
      BY <1>2, <3>0 DEF Job
    <3> HIDE DEF j
    <3> QED
      BY <1>2, <3>1 DEF LocalsSet, Places
  <2> HIDE DEF j
  <2> QED
    BY <1>1, <2>1, <2>2, Walks
<1> QED
  BY <1>4, <1>5

LEMMA TypingHolds == Spec => []Typing
<1>1. Init => Typing
  <2> SUFFICES ASSUME Init PROVE Typing
    OBVIOUS
  <2>1. runs \in Seq(Run) /\ Len(runs) = 0
    <3>1. runs = <<>>
      BY DEF Init
    <3> QED
      BY ONLY <3>1
  <2>2. LocalsSet("idle", NoJob, Len(runs)) /\ NoJob \in Job
    BY <2>1, NoJobTyped DEF LocalsSet
  <2>3. Seeds \subseteq Artist
    BY ScanConstants
  <2>4. TypeOK
    BY <2>1, <2>2, <2>3 DEF Init, TypeOK
  <2> QED
    BY <2>2, <2>4 DEF Init, Typing
<1>2. ASSUME Typing, [Next]_vars
      PROVE  Typing'
  <2>1. CASE Tick \/ (\E s \in Subject : Know(s)) \/ UNCHANGED vars
    <3>1. runs' = runs /\ pc' = pc /\ job' = job
      BY <2>1 DEF Tick, Know, vars
    <3>2. Rows
      BY <1>2, RowsStay
    <3>3. Rows'
      <4>1. CASE Tick
        <5>1. /\ now' = now + 1 /\ known' = known /\ artists' = artists /\ labels' = labels
              /\ albums' = albums /\ links' = links /\ candidates' = candidates
          BY <4>1 DEF Tick, catalog
        <5>2. now' \in Nat
          <6>1. now \in Nat
            BY <3>2 DEF Rows
          <6> QED
            BY <5>1, <6>1
        <5> QED
          BY <3>2, <5>1, <5>2 DEF Rows
      <4>2. ASSUME NEW s \in Subject, Know(s) PROVE Rows'
        <5>1. /\ now' = now /\ known' = known \cup {s} /\ artists' = artists
              /\ labels' = labels /\ albums' = albums /\ links' = links
              /\ candidates' = candidates
          BY <4>2 DEF Know, catalog
        <5> QED
          BY <3>2, <5>1 DEF Rows
      <4>3. CASE UNCHANGED vars
        BY <1>2, <4>3, RowsStay DEF vars, catalog
      <4> QED
        BY <2>1, <4>1, <4>2, <4>3
    <3> QED
      BY <1>2, <3>1, <3>3 DEF Typing, TypeOK, Rows
  <2>2. ASSUME NEW w \in Syncer, Sync(w)
        PROVE  Typing'
    BY <1>2, <2>2, BeginTyped, EachSeedTyped, EachLeadTyped, LeadsDoneTyped, AlbumTyped,
       CandidateTyped, ReleasesDoneTyped, CutOffTyped
       DEF Sync, EachSeed, EachLead, EachRelease
  <2> QED
    BY <1>2, <2>1, <2>2 DEF Next
<1> QED
  BY <1>1, <1>2, PTL DEF Spec

(***************************************************************************)
(* Every reachable state is well typed, for any number of callers of the   *)
(* five services and whatever the providers answer.                        *)
(***************************************************************************)
THEOREM TypeCorrect == Spec => []TypeOK
<1>1. Typing => TypeOK
  BY DEF Typing
<1> QED
  BY <1>1, TypingHolds, PTL

-----------------------------------------------------------------------------
(* Candidates have their albums. *)

\* What a step of one caller leaves alone.
LEMMA OneMoves ==
    ASSUME Typing, NEW w \in Syncer, Sync(w)
    PROVE  /\ artists \subseteq artists'
           /\ \A v \in Syncer \ {w} : pc'[v] = pc[v] /\ job'[v] = job[v]
           /\ \/ \E release \in job[w].shown : UpsertAlbum(w, release)
              \/ albums' = albums /\ pc'[w] # "candidate"
           /\ UpsertCandidate(w) \/ candidates' = candidates
<1>1. job \in [Syncer -> Job] /\ pc \in [Syncer -> Places]
  BY Here
<1>2. CASE Begin(w)
  <2>1. /\ artists' = artists /\ albums' = albums /\ candidates' = candidates
    BY <1>2 DEF Begin, PassGate, StartRun, LoadSeeds, NoSeeds, LoadExclusions, LoadFails,
                FinishRun, catalog
  <2>2. \E at \in Places \ {"candidate"} : pc' = [pc EXCEPT ![w] = at]
    BY <1>2 DEF Begin, PassGate, StartRun, LoadSeeds, NoSeeds, LoadExclusions, LoadFails,
                FinishRun, Goto, Places
  <2>3. \A v \in Syncer \ {w} : job'[v] = job[v]
    BY <1>1, <1>2 DEF Begin, PassGate, StartRun, LoadSeeds, NoSeeds, LoadExclusions,
                      LoadFails, FinishRun
  <2> QED
    BY <1>1, <2>1, <2>2, <2>3
<1>3. CASE EachSeed(w)
  <2>1. PICK seed \in Seeds : FetchLeads(w, seed) \/ FetchFails(w, seed)
    BY <1>3 DEF EachSeed
  <2>2. artists' = artists /\ albums' = albums /\ candidates' = candidates
    BY <2>1 DEF FetchLeads, FetchFails, catalog
  <2>3. \/ pc' = [pc EXCEPT ![w] = "lead"]
        \/ pc' = pc /\ pc[w] = "seed"
    BY <2>1 DEF FetchLeads, FetchFails, Goto
  <2>4. \A v \in Syncer \ {w} : job'[v] = job[v]
    BY <1>1, <2>1 DEF FetchLeads, FetchFails
  <2> QED
    BY <1>1, <2>2, <2>3, <2>4
<1>4. CASE EachLead(w)
  <2>1. PICK lead \in job[w].leads : BrowseLead(w, lead) \/ BrowseFails(w, lead)
    BY <1>4 DEF EachLead
  <2>2. artists \subseteq artists' /\ albums' = albums /\ candidates' = candidates
    BY <2>1 DEF BrowseLead, BrowseFails, UpsertArtist
  <2>3. \/ pc' = [pc EXCEPT ![w] = "release"]
        \/ pc' = pc /\ pc[w] = "lead"
    BY <2>1 DEF BrowseLead, BrowseFails, IsNextLead, Goto
  <2>4. \A v \in Syncer \ {w} : job'[v] = job[v]
    BY <1>1, <2>1 DEF BrowseLead, BrowseFails
  <2> QED
    BY <1>1, <2>2, <2>3, <2>4
<1>5. ASSUME NEW release \in job[w].shown, UpsertAlbum(w, release) \/ AlbumFails(w, release)
      PROVE  /\ artists \subseteq artists'
             /\ \A v \in Syncer \ {w} : pc'[v] = pc[v] /\ job'[v] = job[v]
             /\ \/ UpsertAlbum(w, release)
                \/ albums' = albums /\ pc'[w] # "candidate"
             /\ candidates' = candidates
  <2>1. artists \subseteq artists' /\ candidates' = candidates
    BY <1>5 DEF UpsertAlbum, AlbumFails, UpsertPrimary, UpsertArtist
  <2>2. \/ pc' = [pc EXCEPT ![w] = "candidate"]
        \/ pc' = pc /\ pc[w] = "release"
    BY <1>5 DEF UpsertAlbum, AlbumFails, IsNextRelease, Goto
  <2>3. \A v \in Syncer \ {w} : job'[v] = job[v]
    BY <1>1, <1>5 DEF UpsertAlbum, AlbumFails
  <2>4. AlbumFails(w, release) => albums' = albums /\ pc'[w] # "candidate"
    BY DEF AlbumFails, IsNextRelease
  <2>5. \A v \in Syncer \ {w} : pc'[v] = pc[v]
    BY <1>1, <2>2
  <2> QED
    BY <1>5, <2>1, <2>3, <2>4, <2>5
<1>6. CASE UpsertCandidate(w) \/ CandidateFails(w)
  <2>1. /\ artists' = artists /\ albums' = albums /\ pc' = [pc EXCEPT ![w] = "release"]
        /\ UpsertCandidate(w) \/ candidates' = candidates
    BY <1>6 DEF UpsertCandidate, CandidateFails, Goto, catalog
  <2>2. \A v \in Syncer \ {w} : job'[v] = job[v]
    BY <1>1, <1>6 DEF UpsertCandidate, CandidateFails
  <2> QED
    BY <1>1, <2>1, <2>2
<1>7. CASE LeadsDone(w) \/ ReleasesDone(w) \/ Finish(w) \/ CutOff(w)
  <2>1. artists' = artists /\ albums' = albums /\ candidates' = candidates
    BY <1>7 DEF LeadsDone, ReleasesDone, Finish, FinishRun, CutOff, catalog
  <2>2. \E at \in Places \ {"candidate"} : pc' = [pc EXCEPT ![w] = at]
    BY <1>7 DEF LeadsDone, ReleasesDone, Finish, FinishRun, CutOff, Goto, Places
  <2>3. \A v \in Syncer \ {w} : job'[v] = job[v]
    BY <1>1, <1>7 DEF LeadsDone, ReleasesDone, Finish, FinishRun, CutOff
  <2> QED
    BY <1>1, <2>1, <2>2, <2>3
<1> QED
  BY <1>2, <1>3, <1>4, <1>5, <1>6, <1>7 DEF Sync, EachRelease

\* A row's artist is there, and stays; an album is there before its candidate is.
Joinable ==
    /\ \A a \in Album : albums[a] \in artists \cup {None, "no row"}
    /\ \A c \in candidates : albums[c.album] # "no row"
    /\ \A w \in Syncer : pc[w] = "candidate" => albums[job[w].release.album] # "no row"

LEMMA AlbumJoinable ==
    ASSUME Typing, Joinable, NEW w \in Syncer, NEW release \in job[w].shown,
           UpsertAlbum(w, release)
    PROVE  Joinable'
<1>1. /\ job \in [Syncer -> Job] /\ pc \in [Syncer -> Places] /\ pc[w] = "release"
      /\ albums \in [Album -> Artist \cup {None, "no row"}] /\ candidates \subseteq Candidate
  BY Here, RowsStay DEF Rows, UpsertAlbum, IsNextRelease
<1>2. release.album \in Album /\ PrimaryOf(w, release) \in Artist \cup {None}
  BY UpsertedTyped DEF Release
<1> DEFINE primary == Primary(release.album, PrimaryOf(w, release))
<1>3. /\ artists \subseteq artists'
      /\ PrimaryOf(w, release) = None \/ PrimaryOf(w, release) \in artists'
      /\ albums' = [albums EXCEPT ![release.album] = primary]
      /\ candidates' = candidates
      /\ pc' = [pc EXCEPT ![w] = "candidate"]
      /\ \A v \in Syncer \ {w} : job'[v] = job[v]
      /\ job'[w].release = release
  <2>1. artists \subseteq artists'
    BY DEF UpsertAlbum, UpsertPrimary, UpsertArtist
  <2>2. job'[w].release = release /\ \A v \in Syncer \ {w} : job'[v] = job[v]
    <3>1. job[w] \in Job
      BY <1>1
    <3> QED
      BY <1>1, <3>1 DEF UpsertAlbum, Job
  <2> QED
    BY <2>1, <2>2 DEF UpsertAlbum, Goto
<1>4. primary \in artists' \cup {None} /\ primary # "no row"
  <2>1. albums[release.album] \in artists \cup {None, "no row"}
    BY <1>2 DEF Joinable
  <2>2. primary \in artists' \cup {None}
    BY <1>3, <2>1 DEF Primary
  <2>3. primary \in Artist \cup {None}
    BY <1>1, <1>2 DEF Primary
  <2> QED
    BY <2>2, <2>3, ScanConstants
<1> HIDE DEF primary
<1>5. \A a \in Album : /\ albums'[a] \in artists' \cup {None, "no row"}
                       /\ albums[a] # "no row" => albums'[a] # "no row"
  BY <1>1, <1>3, <1>4 DEF Joinable
<1>6. \A c \in candidates' : albums'[c.album] # "no row"
  BY <1>1, <1>3, <1>5 DEF Joinable, Candidate
<1>7. ASSUME NEW v \in Syncer, pc'[v] = "candidate"
      PROVE  albums'[job'[v].release.album] # "no row"
  <2>1. CASE v = w
    BY <1>1, <1>2, <1>3, <1>4, <2>1
  <2>2. CASE v # w
    <3>1. pc[v] = "candidate" /\ job'[v] = job[v]
      BY <1>1, <1>3, <1>7, <2>2
    <3>2. job[v].release.album \in Album
      BY <3>1, Here DEF Release
    <3> QED
      BY <1>5, <3>1, <3>2 DEF Joinable
  <2> QED
    BY <2>1, <2>2
<1> QED
  BY <1>5, <1>6, <1>7 DEF Joinable

LEMMA JoinableKept ==
    ASSUME Typing, Joinable, [Next]_vars
    PROVE  Joinable'
<1>1. ASSUME NEW w \in Syncer, Sync(w), albums' = albums, pc'[w] # "candidate"
      PROVE  Joinable'
  <2>1. /\ artists \subseteq artists'
        /\ \A v \in Syncer \ {w} : pc'[v] = pc[v] /\ job'[v] = job[v]
        /\ UpsertCandidate(w) \/ candidates' = candidates
    BY <1>1, OneMoves
  <2>2. \A c \in candidates' \ candidates : albums[c.album] # "no row"
    <3>1. CASE UpsertCandidate(w)
      <4>1. albums[job[w].release.album] # "no row"
        BY <3>1 DEF UpsertCandidate, Joinable
      <4>2. \A c \in candidates' \ candidates : c.album = job[w].release.album
        BY <3>1 DEF UpsertCandidate, Replacing
      <4> QED
        BY <4>1, <4>2
    <3> QED
      BY <2>1, <3>1
  <2> QED
    BY <1>1, <2>1, <2>2 DEF Joinable
<1>2. ASSUME NEW w \in Syncer, Sync(w)
      PROVE  Joinable'
  BY <1>1, <1>2, OneMoves, AlbumJoinable
<1>3. CASE Tick \/ (\E s \in Subject : Know(s)) \/ UNCHANGED vars
  <2>1. /\ artists' = artists /\ albums' = albums /\ candidates' = candidates
        /\ pc' = pc /\ job' = job
    BY <1>3 DEF Tick, Know, vars, catalog
  <2> QED
    BY <2>1 DEF Joinable
<1> QED
  BY <1>2, <1>3 DEF Next

(***************************************************************************)
(* "Ensure the album row exists so the feed can look up title etc.": any   *)
(* number of runs may write the same albums at once, with different        *)
(* artists or none, and each candidate can still be joined.                *)
(***************************************************************************)
THEOREM CandidatesRenderHolds == Spec => []CandidatesRender
<1>1. Init => Joinable
  BY DEF Init, Joinable
<1>2. Typing /\ Joinable => CandidatesRender
  <2>1. Typing => \A c \in candidates : c.album \in Album
    BY RowsStay DEF Rows, Candidate
  <2> QED
    BY <2>1 DEF Joinable, CandidatesRender
<1>3. Typing /\ Joinable /\ [Next]_vars => Joinable'
  BY JoinableKept
<1> QED
  BY <1>1, <1>2, <1>3, TypingHolds, PTL DEF Spec

-----------------------------------------------------------------------------
(* The gate. *)

Working(w) == pc[w] \notin {"idle", "start"}

\* The runs but for what a working call notes in its own.
SameRuns ==
    /\ Len(runs') = Len(runs)
    /\ \A i \in 1..Len(runs) :
        /\ runs'[i].source = runs[i].source /\ runs'[i].started = runs[i].started
        /\ runs'[i].status = runs[i].status /\ runs'[i].known = runs[i].known
        /\ runs'[i].seen = runs[i].seen

LEMMA Length == Typing => runs \in Seq(Run) /\ Len(runs) \in Nat /\ DOMAIN runs = 1..Len(runs)
                          /\ runs \in [1..Len(runs) -> Run]
<1>1. Typing => runs \in Seq(Run)
  BY DEF Typing, TypeOK
<1>2. runs \in Seq(Run) => /\ Len(runs) \in Nat /\ DOMAIN runs = 1..Len(runs)
                           /\ runs \in [1..Len(runs) -> Run]
  OBVIOUS
<1> QED
  BY <1>1, <1>2

\* Within a run only its own notes change, and it stays the caller's.
LEMMA WorkOn ==
    ASSUME Typing, NEW w \in Syncer, Sync(w),
           \A source \in Source : ~PassGate(w, source), ~StartRun(w),
           ~NoSeeds(w), ~LoadFails(w), ~Finish(w)
    PROVE  /\ SameRuns
           /\ \/ pc'[w] = "idle"
              \/ Working(w) /\ Working(w)' /\ job'[w].run = job[w].run
<1>1. job \in [Syncer -> Job] /\ pc \in [Syncer -> Places] /\ job[w] \in Job
  BY Here
<1>2. runs \in [1..Len(runs) -> Run] /\ Len(runs) \in Nat
  BY Length
<1>3. runs' = runs => SameRuns
  BY DEF SameRuns
<1> DEFINE Alike(r, s) == /\ r.source = s.source /\ r.started = s.started
                          /\ r.status = s.status /\ r.known = s.known /\ r.seen = s.seen
<1>4. ASSUME NEW r, runs' = [runs EXCEPT ![job[w].run] = r],
             job[w].run \in 1..Len(runs) => Alike(r, runs[job[w].run])
      PROVE  SameRuns
  <2>1. DOMAIN runs' = DOMAIN runs
    BY <1>4
  <2>2. runs' \in Seq(Run)
    BY BeginTyped, EachSeedTyped, EachLeadTyped, LeadsDoneTyped, AlbumTyped, Length,
       CandidateTyped, ReleasesDoneTyped, CutOffTyped
       DEF Sync, EachSeed, EachLead, EachRelease, Typing, TypeOK
  <2>3. Len(runs') = Len(runs)
    BY <2>1, <2>2, Length, SameLength
  <2>4. \A i \in 1..Len(runs) : Alike(runs'[i], runs[i])
    BY <1>2, <1>4
  <2> QED
    BY <2>3, <2>4 DEF SameRuns
<1>5. ASSUME NEW n, runs' = [runs EXCEPT ![job[w].run].loaded = n]
      PROVE  SameRuns
  <2> DEFINE r == [runs[job[w].run] EXCEPT !.loaded = n]
  <2>1. runs' = [runs EXCEPT ![job[w].run] = r]
    BY <1>5
  <2>2. job[w].run \in 1..Len(runs) => Alike(r, runs[job[w].run])
    BY <1>2 DEF Run
  <2> HIDE DEF r, Alike
  <2> QED
    BY <1>4, <2>1, <2>2
<1>6. ASSUME NEW s, runs' = [runs EXCEPT ![job[w].run].excluded = s]
      PROVE  SameRuns
  <2> DEFINE r == [runs[job[w].run] EXCEPT !.excluded = s]
  <2>1. runs' = [runs EXCEPT ![job[w].run] = r]
    BY <1>6
  <2>2. job[w].run \in 1..Len(runs) => Alike(r, runs[job[w].run])
    BY <1>2 DEF Run
  <2> HIDE DEF r, Alike
  <2> QED
    BY <1>4, <2>1, <2>2
<1>7. ASSUME NEW s, runs' = [runs EXCEPT ![job[w].run].offered = @ \cup s]
      PROVE  SameRuns
  <2> DEFINE r == [runs[job[w].run] EXCEPT !.offered = runs[job[w].run].offered \cup s]
  <2>1. runs' = [runs EXCEPT ![job[w].run] = r]
    BY <1>7
  <2>2. job[w].run \in 1..Len(runs) => Alike(r, runs[job[w].run])
    BY <1>2 DEF Run
  <2> HIDE DEF r, Alike
  <2> QED
    BY <1>4, <2>1, <2>2
<1>8. CASE LoadSeeds(w) \/ LoadExclusions(w)
  <2>1. SameRuns
    <3>1. CASE LoadSeeds(w)
      <4>1. \E n : runs' = [runs EXCEPT ![job[w].run].loaded = n]
        BY <3>1 DEF LoadSeeds
      <4> QED
        BY <1>5, <4>1
    <3>2. CASE LoadExclusions(w)
      <4>1. \E s : runs' = [runs EXCEPT ![job[w].run].excluded = s]
        BY <3>2 DEF LoadExclusions
      <4> QED
        BY <1>6, <4>1
    <3> QED
      BY <1>8, <3>1, <3>2
  <2>2. pc[w] \in {"seeds", "exclusions"} /\ pc'[w] \in {"seed", "exclusions"}
    BY <1>1, <1>8 DEF LoadSeeds, LoadExclusions, Goto
  <2>3. job'[w].run = job[w].run
    <3>1. \/ \E some : job' = [job EXCEPT ![w].seeds = some]
          \/ \E some : job' = [job EXCEPT ![w].excluded = some]
      BY <1>8 DEF LoadSeeds, LoadExclusions
    <3> QED
      BY <1>1, <3>1 DEF Job
  <2> QED
    BY <2>1, <2>2, <2>3 DEF Working
<1>9. ASSUME NEW seed \in Seeds, FetchLeads(w, seed) \/ FetchFails(w, seed)
      PROVE  SameRuns /\ Working(w) /\ Working(w)' /\ job'[w].run = job[w].run
  <2>1. SameRuns
    <3>1. CASE FetchLeads(w, seed)
      <4>1. \E s : runs' = [runs EXCEPT ![job[w].run].offered = @ \cup s]
        BY <3>1 DEF FetchLeads
      <4> QED
        BY <1>7, <4>1
    <3>2. CASE FetchFails(w, seed)
      BY <1>3, <3>2 DEF FetchFails
    <3> QED
      BY <1>9, <3>1, <3>2
  <2>2. pc[w] = "seed" /\ pc'[w] \in {"seed", "lead"}
    BY <1>1, <1>9 DEF FetchLeads, FetchFails, Goto
  <2>3. job'[w].run = job[w].run
    <3>1. \/ \E seeds, leads : job' = [job EXCEPT ![w].seeds = seeds, ![w].leads = leads,
                                                  ![w].followed = 0]
          \/ \E seeds : job' = [job EXCEPT ![w].seeds = seeds, ![w].flawed = TRUE]
      BY <1>9 DEF FetchLeads, FetchFails
    <3> QED
      BY <1>1, <3>1 DEF Job
  <2> QED
    BY <2>1, <2>2, <2>3 DEF Working
<1>10. ASSUME NEW lead, BrowseLead(w, lead) \/ BrowseFails(w, lead)
      PROVE  SameRuns /\ Working(w) /\ Working(w)' /\ job'[w].run = job[w].run
  <2>1. runs' = runs /\ pc[w] = "lead" /\ pc'[w] \in {"lead", "release"}
    BY <1>1, <1>10 DEF BrowseLead, BrowseFails, IsNextLead, Goto
  <2>2. job'[w].run = job[w].run
    BY <1>1, <1>10 DEF BrowseLead, BrowseFails, Job
  <2> QED
    BY <1>3, <2>1, <2>2 DEF Working
<1>11. ASSUME NEW release, UpsertAlbum(w, release) \/ AlbumFails(w, release)
      PROVE  SameRuns /\ Working(w) /\ Working(w)' /\ job'[w].run = job[w].run
  <2>1. runs' = runs /\ pc[w] = "release" /\ pc'[w] \in {"candidate", "release"}
    BY <1>1, <1>11 DEF UpsertAlbum, AlbumFails, IsNextRelease, Goto
  <2>2. job'[w].run = job[w].run
    BY <1>1, <1>11 DEF UpsertAlbum, AlbumFails, Job
  <2> QED
    BY <1>3, <2>1, <2>2 DEF Working
<1>12. CASE UpsertCandidate(w) \/ CandidateFails(w) \/ LeadsDone(w) \/ ReleasesDone(w)
  <2>1. /\ runs' = runs /\ pc[w] \in {"candidate", "lead", "release"}
        /\ pc'[w] \in {"release", "seed", "lead"}
    BY <1>1, <1>12 DEF UpsertCandidate, CandidateFails, LeadsDone, ReleasesDone, Goto
  <2>2. job'[w].run = job[w].run
    BY <1>1, <1>12 DEF UpsertCandidate, CandidateFails, LeadsDone, ReleasesDone, Job
  <2> QED
    BY <1>3, <2>1, <2>2 DEF Working
<1>13. CASE CutOff(w)
  BY <1>1, <1>3, <1>13 DEF CutOff, Goto
<1> QED
  BY <1>8, <1>9, <1>10, <1>11, <1>12, <1>13
     DEF Sync, Begin, EachSeed, EachLead, EachRelease

PassedGate(w) ==
    /\ job[w].seen <= Len(runs)
    /\ \A i \in 1..job[w].seen :
         runs[i].source = job[w].source /\ runs[i].status # "failed" =>
             runs[i].started + MinInterval[runs[i].source] <= job[w].started

\* A run that a call works on is its own and "running": once failed, always failed.
Apart ==
    /\ \A j \in 1..Len(runs) : runs[j].seen <= Len(runs)
    /\ \A i, j \in 1..Len(runs) :
        /\ i <= runs[j].seen /\ runs[i].source = runs[j].source
        /\ runs[i].status # "failed" /\ runs[j].status # "failed"
        => runs[i].started + MinInterval[runs[i].source] <= runs[j].started
    /\ \A w \in Syncer : pc[w] = "start" => PassedGate(w)
    /\ \A w \in Syncer : Working(w) => runs[job[w].run].status = "running"
    /\ \A v, w \in Syncer : v # w /\ Working(v) /\ Working(w) => job[v].run # job[w].run

LEMMA ApartKept ==
    ASSUME Typing, Apart, Len(runs') = Len(runs),
           \A i \in 1..Len(runs) :
               /\ runs'[i].source = runs[i].source /\ runs'[i].started = runs[i].started
               /\ runs'[i].seen = runs[i].seen
               /\ runs'[i].status # "failed" => runs[i].status # "failed",
           \A v \in Syncer :
               /\ pc'[v] = "start" => pc[v] = "start" /\ job'[v] = job[v]
               /\ Working(v)' => /\ Working(v) /\ job'[v].run = job[v].run
                                 /\ runs'[job[v].run].status = "running"
    PROVE  Apart'
<1>1. /\ \A j \in 1..Len(runs') : runs'[j].seen <= Len(runs')
      /\ \A i, j \in 1..Len(runs') :
          /\ i <= runs'[j].seen /\ runs'[i].source = runs'[j].source
          /\ runs'[i].status # "failed" /\ runs'[j].status # "failed"
          => runs'[i].started + MinInterval[runs'[i].source] <= runs'[j].started
  BY DEF Apart
<1>2. ASSUME NEW v \in Syncer, pc'[v] = "start"
      PROVE  PassedGate(v)'
  <2>1. PassedGate(v) /\ job'[v] = job[v]
    BY <1>2 DEF Apart
  <2>2. Len(runs) \in Nat /\ job[v].seen \in Nat
    BY Here, Length DEF Job
  <2>3. 1..job[v].seen \subseteq 1..Len(runs)
    BY <2>1, <2>2 DEF PassedGate
  <2> QED
    BY <2>1, <2>3 DEF PassedGate
<1>3. \A v \in Syncer : Working(v)' => (runs[job[v].run].status = "running")'
  OBVIOUS
<1>4. \A v, u \in Syncer : v # u /\ Working(v)' /\ Working(u)' => job'[v].run # job'[u].run
  BY DEF Apart
<1> QED
  BY <1>1, <1>2, <1>3, <1>4 DEF Apart

LEMMA GatePassed ==
    ASSUME Typing, Apart, NEW w \in Syncer, NEW source \in Source, PassGate(w, source)
    PROVE  Apart'
<1>1. job \in [Syncer -> Job] /\ pc \in [Syncer -> Places] /\ now \in Nat
  BY Here, RowsStay DEF Rows
<1>2. Len(runs) \in Nat /\ runs \in [1..Len(runs) -> Run] /\ DOMAIN runs = 1..Len(runs)
  BY Length
<1>3. /\ runs' = runs /\ pc' = [pc EXCEPT ![w] = "start"]
      /\ job'[w].source = source /\ job'[w].started = now /\ job'[w].seen = Len(runs)
      /\ \A v \in Syncer \ {w} : job'[v] = job[v]
  BY <1>1 DEF PassGate, Goto, NoJob
<1>4. ASSUME NEW i \in 1..Len(runs), runs[i].source = source, runs[i].status # "failed"
      PROVE  runs[i].started + MinInterval[runs[i].source] <= now
  <2>1. runs[i].started \in Nat /\ MinInterval[source] \in Nat
    BY <1>2, ScanConstants DEF Run
  <2>2. ~(now - runs[i].started < MinInterval[source])
    BY <1>2, <1>4 DEF PassGate, FreshRun
  <2> QED
    BY <1>1, <1>4, <2>1, <2>2
<1>5. PassedGate(w)'
  BY <1>2, <1>3, <1>4 DEF PassedGate
<1>6. \A v \in Syncer \ {w} : pc'[v] = pc[v] /\ job'[v] = job[v]
  BY <1>1, <1>3
<1>7. pc'[w] = "start"
  BY <1>1, <1>3
<1> QED
  BY <1>3, <1>5, <1>6, <1>7 DEF Apart, Working, PassedGate

LEMMA RunStarted ==
    ASSUME Typing, Apart, NEW w \in Syncer, StartRun(w)
    PROVE  Apart'
<1> DEFINE n == Len(runs) + 1
           r == [source |-> job[w].source, started |-> job[w].started,
                 status |-> "running", known |-> known, seen |-> job[w].seen,
                 loaded |-> 0, excluded |-> {}, offered |-> {}]
<1>1. /\ job \in [Syncer -> Job] /\ pc \in [Syncer -> Places] /\ pc[w] = "start"
      /\ job[w].seen \in Nat
  BY Here DEF StartRun, Job
<1>2. /\ Len(runs) \in Nat /\ runs \in [1..Len(runs) -> Run]
      /\ \A i \in 1..Len(runs) : runs[i].seen \in Nat
  BY Length DEF Run
<1>3. runs' = Append(runs, r) /\ pc' = [pc EXCEPT ![w] = "seeds"]
      /\ \A v \in Syncer \ {w} : job'[v] = job[v] /\ pc'[v] = pc[v]
  BY <1>1 DEF StartRun, Goto
<1>4. job'[w].run = n
  BY <1>1 DEF StartRun, Job
<1>5. Len(runs') = n /\ n \notin 1..Len(runs) /\ n \in Nat
      /\ runs'[n] = r /\ \A i \in 1..Len(runs) : runs'[i] = runs[i]
  <2> HIDE DEF r
  <2>1. runs \in Seq(Run) /\ runs' = Append(runs, r)
    BY <1>3, Length
  <2> QED
    BY ONLY <2>1
<1>6. 1..n = 1..Len(runs) \cup {n}
  BY <1>2
<1>7. PassedGate(w)
  BY <1>1 DEF Apart
<1>8. r.seen = job[w].seen /\ r.source = job[w].source /\ r.started = job[w].started
      /\ r.status = "running"
  OBVIOUS
<1> HIDE DEF r
<1>9. \A j \in 1..n : runs'[j].seen \in Nat /\ runs'[j].seen <= Len(runs)
  BY <1>1, <1>2, <1>5, <1>6, <1>7, <1>8 DEF Apart, PassedGate
<1>10. \A j \in 1..n : runs'[j].seen <= n
  BY <1>2, <1>9
<1>11. ASSUME NEW i \in 1..n, NEW j \in 1..n,
              i <= runs'[j].seen, runs'[i].source = runs'[j].source,
              runs'[i].status # "failed", runs'[j].status # "failed"
       PROVE  runs'[i].started + MinInterval[runs'[i].source] <= runs'[j].started
  <2>1. i \in 1..Len(runs)
    BY <1>2, <1>9, <1>11
  <2>2. CASE j = n
    <3>1. i \in 1..job[w].seen
      BY <1>1, <1>5, <1>8, <1>11, <2>2
    <3> QED
      BY <1>5, <1>7, <1>8, <1>11, <2>1, <2>2, <3>1 DEF PassedGate
  <2>3. CASE j \in 1..Len(runs)
    BY <1>5, <1>11, <2>1, <2>3 DEF Apart
  <2> QED
    BY <1>6, <2>2, <2>3
<1>12. ASSUME NEW v \in Syncer, pc'[v] = "start"
       PROVE  PassedGate(v)'
  <2>1. v # w /\ pc[v] = "start" /\ job'[v] = job[v]
    BY <1>1, <1>3, <1>12
  <2>2. PassedGate(v) /\ job[v].seen \in Nat
    BY <2>1, Here DEF Apart, Job
  <2>3. job[v].seen <= n /\ 1..job[v].seen \subseteq 1..Len(runs)
    BY <1>2, <2>2 DEF PassedGate
  <2> QED
    BY <1>5, <2>1, <2>2, <2>3 DEF PassedGate
<1>13. \A v \in Syncer \ {w} : Working(v)' => Working(v) /\ job[v].run \in 1..Len(runs)
  BY <1>3, Here DEF Working
<1>14. \A v \in Syncer : Working(v)' => runs'[job'[v].run].status = "running"
  BY <1>3, <1>4, <1>5, <1>8, <1>13 DEF Apart
<1>15. \A v, u \in Syncer : v # u /\ Working(v)' /\ Working(u)' => job'[v].run # job'[u].run
  BY <1>3, <1>4, <1>5, <1>13 DEF Apart
<1> HIDE DEF n
<1> QED
  BY <1>5, <1>10, <1>11, <1>12, <1>14, <1>15 DEF Apart

LEMMA RunFinished ==
    ASSUME Typing, Apart, NEW w \in Syncer, Working(w),
           NEW status \in {"ok", "partial", "failed"}, FinishRun(w, status)
    PROVE  Apart'
<1>1. /\ job \in [Syncer -> Job] /\ pc \in [Syncer -> Places]
      /\ job[w].run \in 1..Len(runs)
  BY Here DEF Working
<1>2. runs \in [1..Len(runs) -> Run] /\ runs \in Seq(Run)
  BY Length
<1>3. /\ runs' = [runs EXCEPT ![job[w].run].status = status]
      /\ pc' = [pc EXCEPT ![w] = "idle"]
      /\ \A v \in Syncer \ {w} : job'[v] = job[v] /\ pc'[v] = pc[v]
  BY <1>1 DEF FinishRun, Goto
<1>4. Len(runs') = Len(runs)
  <2>1. runs' \in Seq(Run)
    BY <1>2, <1>3, RunsTyped
  <2>2. DOMAIN runs' = DOMAIN runs
    BY <1>3
  <2> QED
    BY <1>2, <2>1, <2>2, SameLength
<1>5. runs[job[w].run].status = "running"
  BY DEF Apart
<1>6. \A i \in 1..Len(runs) :
        /\ runs'[i].source = runs[i].source /\ runs'[i].started = runs[i].started
        /\ runs'[i].seen = runs[i].seen
        /\ i # job[w].run => runs'[i].status = runs[i].status
  BY <1>2, <1>3 DEF Run
<1>7. ASSUME NEW v \in Syncer
      PROVE  /\ pc'[v] = "start" => pc[v] = "start" /\ job'[v] = job[v]
             /\ Working(v)' => /\ Working(v) /\ job'[v].run = job[v].run
                               /\ runs'[job[v].run].status = "running"
  <2>1. CASE v = w
    BY <1>1, <1>3, <2>1 DEF Working
  <2>2. CASE v # w
    <3>1. pc'[v] = pc[v] /\ job'[v] = job[v]
      BY <1>3, <2>2
    <3>2. Working(v) => /\ job[v].run \in 1..Len(runs) /\ job[v].run # job[w].run
                        /\ runs[job[v].run].status = "running"
      BY <2>2, Here DEF Apart, Working
    <3> QED
      BY <1>6, <3>1, <3>2 DEF Working
  <2> QED
    BY <2>1, <2>2
<1> QED
  BY <1>4, <1>5, <1>6, <1>7, ApartKept

LEMMA ApartHolds ==
    ASSUME Typing, Apart, [Next]_vars
    PROVE  Apart'
<1>1. ASSUME NEW w \in Syncer, Sync(w),
             \A source \in Source : ~PassGate(w, source), ~StartRun(w),
             ~NoSeeds(w), ~LoadFails(w), ~Finish(w)
      PROVE  Apart'
  <2>1. /\ SameRuns
        /\ \/ pc'[w] = "idle"
           \/ Working(w) /\ Working(w)' /\ job'[w].run = job[w].run
    BY <1>1, WorkOn
  <2>2. \A v \in Syncer \ {w} : pc'[v] = pc[v] /\ job'[v] = job[v]
    BY <1>1, OneMoves
  <2>3. ASSUME NEW v \in Syncer
        PROVE  /\ pc'[v] = "start" => pc[v] = "start" /\ job'[v] = job[v]
               /\ Working(v)' => /\ Working(v) /\ job'[v].run = job[v].run
                                 /\ runs'[job[v].run].status = "running"
    <3>1. Working(v) => /\ job[v].run \in 1..Len(runs)
                        /\ runs'[job[v].run].status = "running"
      BY <2>1, Here DEF Apart, Working, SameRuns
    <3>2. CASE v = w
      BY <2>1, <3>1, <3>2 DEF Working
    <3>3. CASE v # w
      BY <2>2, <3>1, <3>3 DEF Working
    <3> QED
      BY <3>2, <3>3
  <2> QED
    BY <2>1, <2>3, ApartKept DEF SameRuns
<1>2. ASSUME NEW w \in Syncer, Sync(w)
      PROVE  Apart'
  <2>1. NoSeeds(w) \/ LoadFails(w) \/ Finish(w) =>
          Working(w) /\ \E status \in {"ok", "partial", "failed"} : FinishRun(w, status)
    BY DEF NoSeeds, LoadFails, Finish, Working
  <2> QED
    BY <1>1, <1>2, <2>1, GatePassed, RunStarted, RunFinished
<1>3. CASE Tick \/ (\E s \in Subject : Know(s)) \/ UNCHANGED vars
  <2>1. runs' = runs /\ pc' = pc /\ job' = job
    BY <1>3 DEF Tick, Know, vars
  <2> QED
    BY <2>1 DEF Apart, PassedGate, Working
<1> QED
  BY <1>2, <1>3 DEF Next

LEMMA ApartAlways == Spec => []Apart
<1>1. Init => Apart
  <2>1. runs = <<>> => Len(runs) = 0 /\ 1..Len(runs) = {}
    OBVIOUS
  <2> QED
    BY <2>1 DEF Init, Apart, Working
<1>2. Typing /\ Apart /\ [Next]_vars => Apart'
  BY ApartHolds
<1> QED
  BY <1>1, <1>2, TypingHolds, PTL DEF Spec

(***************************************************************************)
(* The gate keeps runs apart: of two runs of one service that did not fail *)
(* the later one, if its gate saw the earlier one, started MinInterval     *)
(* after it, however many callers overlap.                                 *)
(***************************************************************************)
THEOREM GateKeepsRunsApartHolds == Spec => []GateKeepsRunsApart
<1>1. Typing /\ Apart => GateKeepsRunsApart
  BY Length DEF Apart, GateKeepsRunsApart
<1> QED
  BY <1>1, TypingHolds, ApartAlways, PTL

-----------------------------------------------------------------------------
(* What was known stays out. *)

BySimilarity == {"lbsimilar", "lfsimilar", "mbrels"}

\* The locals j of a call at a place leave out what its run knew.
Heeds(at, j, own) ==
    /\ at \in {"seed", "lead", "release", "candidate"} =>
         /\ j.source = "samelabel" => own \cap Album \subseteq j.excluded
         /\ j.source \in BySimilarity => own \cap Artist \subseteq j.excluded
    /\ at \in {"lead", "release", "candidate"} /\ j.source \in BySimilarity =>
         \A l \in j.leads : l.target \notin j.excluded
    /\ at \in {"release", "candidate"} =>
         /\ j.source = "samelabel" => \A r \in j.shown : r.album \notin j.excluded
         /\ j.source \in BySimilarity => j.lead.target \notin j.excluded
    /\ at = "candidate" /\ j.source = "samelabel" => j.release.album \notin j.excluded

LeavesOut(c, own) ==
    /\ c.source = "samelabel" => c.album \notin own
    /\ c.source \in BySimilarity => c.lead.target \notin own

Heeded ==
    /\ \A i \in 1..Len(runs) : runs[i].known \subseteq known
    /\ \A c \in candidates : /\ c.run \in 1..Len(runs)
                             /\ LeavesOut(c, runs[c.run].known)
    /\ \A w \in Syncer : Heeds(pc[w], job[w], runs[job[w].run].known)

LEMMA HeededKept ==
    ASSUME Typing, Heeded, NEW w \in Syncer, Sync(w),
           Len(runs) <= Len(runs'), known' = known, Len(runs') \in Nat,
           \A i \in 1..Len(runs) : runs'[i].known = runs[i].known,
           \A i \in 1..Len(runs') \ 1..Len(runs) : runs'[i].known = known,
           Heeds(pc[w], job[w], runs[job[w].run].known)',
           UpsertCandidate(w) =>
             \A c \in candidates' \ candidates :
               c.run \in 1..Len(runs) /\ LeavesOut(c, runs[c.run].known)
    PROVE  Heeded'
<1>1. Len(runs) \in Nat /\ 1..Len(runs) \subseteq 1..Len(runs')
  BY Length
<1>2. \A i \in 1..Len(runs') : runs'[i].known \subseteq known'
  BY DEF Heeded
<1>3. \A c \in candidates' : c.run \in 1..Len(runs) /\ LeavesOut(c, runs[c.run].known)
  BY OneMoves DEF Heeded
<1>4. \A c \in candidates' : c.run \in 1..Len(runs') /\ LeavesOut(c, runs'[c.run].known)
  BY <1>1, <1>3
<1>5. ASSUME NEW v \in Syncer \ {w}
      PROVE  Heeds(pc[v], job[v], runs[job[v].run].known)'
  <2>1. pc'[v] = pc[v] /\ job'[v] = job[v]
    BY OneMoves
  <2>2. CASE pc[v] \in {"idle", "start"}
    BY <2>1, <2>2 DEF Heeds
  <2>3. CASE pc[v] \notin {"idle", "start"}
    <3>1. job[v].run \in 1..Len(runs)
      BY <2>3, Here
    <3>2. Heeds(pc[v], job[v], runs[job[v].run].known)
      BY DEF Heeded
    <3> QED
      BY <2>1, <3>1, <3>2
  <2> QED
    BY <2>2, <2>3
<1> QED
  BY <1>2, <1>4, <1>5 DEF Heeded

\* A step that is no candidate's, and after which the call is nowhere it must heed
\* anything, or heeds it.
LEMMA SameKnown ==
    ASSUME Typing, Heeded, NEW w \in Syncer, Sync(w), SameRuns, known' = known,
           Heeds(pc'[w], job'[w], runs[job[w].run].known),
           ~UpsertCandidate(w),
           pc'[w] \in {"idle", "start"} \/ (Working(w) /\ job'[w].run = job[w].run)
    PROVE  Heeded'
<1>1. Len(runs) \in Nat /\ Len(runs') = Len(runs)
  BY Length DEF SameRuns
<1>2. Heeds(pc[w], job[w], runs[job[w].run].known)'
  <2>1. CASE pc'[w] \in {"idle", "start"}
    BY <2>1 DEF Heeds
  <2>2. CASE Working(w) /\ job'[w].run = job[w].run
    <3>1. job[w].run \in 1..Len(runs)
      BY <2>2, Here DEF Working
    <3> QED
      BY <2>2, <3>1 DEF SameRuns
  <2> QED
    BY <2>1, <2>2
<1> QED
  BY <1>1, <1>2, HeededKept DEF SameRuns

LEMMA BeginHeeds ==
    ASSUME Typing, Heeded, NEW w \in Syncer, Begin(w) \/ Finish(w) \/ CutOff(w)
    PROVE  Heeded'
<1>1. /\ job \in [Syncer -> Job] /\ pc \in [Syncer -> Places] /\ job[w] \in Job
      /\ Len(runs) \in Nat /\ runs \in [1..Len(runs) -> Run] /\ runs \in Seq(Run)
      /\ Sync(w)
  BY Here, Length DEF Sync
<1>2. known' = known /\ candidates' = candidates
  BY DEF Begin, PassGate, StartRun, LoadSeeds, NoSeeds, LoadExclusions, LoadFails, Finish,
         FinishRun, CutOff
<1>3. CASE pc'[w] \in {"idle", "start", "seeds", "exclusions"} /\ ~StartRun(w)
  <2>1. Len(runs') = Len(runs) /\ \A i \in 1..Len(runs) : runs'[i].known = runs[i].known
    <3>1. CASE runs' = runs
      BY <3>1
    <3>2. CASE LoadSeeds(w) \/ LoadExclusions(w)
      <4>1. /\ \A source \in Source : ~PassGate(w, source)
            /\ ~NoSeeds(w) /\ ~LoadFails(w) /\ ~Finish(w)
        BY <1>1, <3>2 DEF LoadSeeds, LoadExclusions, PassGate, NoSeeds, LoadFails, Finish,
                          FinishRun, Goto
      <4> QED
        BY <1>1, <1>3, <4>1, WorkOn DEF SameRuns
    <3>3. ASSUME NEW status \in {"ok", "partial", "failed"}, FinishRun(w, status)
          PROVE  /\ Len(runs') = Len(runs)
                 /\ \A i \in 1..Len(runs) : runs'[i].known = runs[i].known
      <4>1. runs' = [runs EXCEPT ![job[w].run].status = status]
        BY <3>3 DEF FinishRun
      <4>2. runs' \in Seq(Run)
        BY <1>1, <4>1, RunsTyped
      <4>3. DOMAIN runs' = DOMAIN runs
        BY <4>1
      <4>4. Len(runs') = Len(runs)
        BY <1>1, <4>2, <4>3, SameLength
      <4> QED
        BY <1>1, <4>1, <4>4 DEF Run
    <3> QED
      BY <1>3, <3>1, <3>2, <3>3 DEF Begin, PassGate, NoSeeds, LoadFails, Finish, CutOff
  <2>2. Heeds(pc[w], job[w], runs[job[w].run].known)'
    BY <1>3 DEF Heeds
  <2>3. 1..Len(runs') \ 1..Len(runs) = {} /\ Len(runs) <= Len(runs') /\ Len(runs') \in Nat
    BY <1>1, <2>1
  <2> QED
    BY <1>1, <1>2, <2>1, <2>2, <2>3, HeededKept
<1>4. CASE StartRun(w)
  <2> DEFINE r == [source |-> job[w].source, started |-> job[w].started,
                   status |-> "running", known |-> known, seen |-> job[w].seen,
                   loaded |-> 0, excluded |-> {}, offered |-> {}]
  <2>1. runs' = Append(runs, r) /\ pc'[w] = "seeds"
    BY <1>1, <1>4 DEF StartRun, Goto
  <2>2. Heeds(pc[w], job[w], runs[job[w].run].known)'
    BY <2>1 DEF Heeds
  <2>3. r.known = known
    OBVIOUS
  <2> HIDE DEF r
  <2>4. /\ Len(runs') = Len(runs) + 1 /\ runs'[Len(runs) + 1] = r
        /\ \A i \in 1..Len(runs) : runs'[i] = runs[i]
    BY ONLY <1>1, <2>1
  <2>5. 1..Len(runs') \ 1..Len(runs) = {Len(runs) + 1}
    BY <1>1, <2>4
  <2>6. Len(runs) <= Len(runs') /\ Len(runs') \in Nat
    BY <1>1, <2>4
  <2>7. /\ \A i \in 1..Len(runs) : runs'[i].known = runs[i].known
        /\ \A i \in 1..Len(runs') \ 1..Len(runs) : runs'[i].known = known
    BY <2>3, <2>4, <2>5
  <2> QED
    BY <1>1, <1>2, <2>2, <2>6, <2>7, HeededKept
<1>5. CASE LoadSeeds(w) /\ pc'[w] = "seed"
  <2>1. job[w].source = "releases"
    BY <1>1, <1>5 DEF LoadSeeds, Goto
  <2>2. job'[w].source = job[w].source
    <3>1. \E some : job' = [job EXCEPT ![w].seeds = some]
      BY <1>5 DEF LoadSeeds
    <3> QED
      BY <1>1, <3>1 DEF Job
  <2>3. Heeds(pc'[w], job'[w], runs[job[w].run].known)
    BY <1>5, <2>1, <2>2 DEF Heeds, BySimilarity
  <2>4. /\ pc[w] = "seeds" /\ \A source \in Source : ~PassGate(w, source)
        /\ ~StartRun(w) /\ ~NoSeeds(w) /\ ~LoadFails(w) /\ ~Finish(w) /\ ~UpsertCandidate(w)
    BY <1>1, <1>5 DEF LoadSeeds, PassGate, StartRun, NoSeeds, LoadFails, Finish, FinishRun,
                      UpsertCandidate, Goto
  <2> QED
    BY <1>1, <1>2, <1>5, <2>3, <2>4, WorkOn, SameKnown
<1>6. CASE LoadExclusions(w)
  <2> DEFINE excluded == Exclusions(job[w].source)
  <2>1. /\ pc[w] = "exclusions" /\ pc'[w] = "seed"
        /\ job' = [job EXCEPT ![w].excluded = excluded]
    BY <1>1, <1>6 DEF LoadExclusions, Goto
  <2>2. /\ job'[w].source = job[w].source /\ job'[w].excluded = excluded
    BY <1>1, <2>1 DEF Job
  <2>3. runs[job[w].run].known \subseteq known
    <3>1. job[w].run \in 1..Len(runs)
      BY <2>1, Here
    <3> QED
      BY <3>1 DEF Heeded
  <2>4. Heeds(pc'[w], job'[w], runs[job[w].run].known)
    BY <2>1, <2>2, <2>3
       DEF Heeds, BySimilarity, Exclusions, ArtistExclusions, AlbumExclusions
  <2>5. /\ \A source \in Source : ~PassGate(w, source)
        /\ ~StartRun(w) /\ ~NoSeeds(w) /\ ~LoadFails(w) /\ ~Finish(w) /\ ~UpsertCandidate(w)
    BY <1>1, <2>1 DEF PassGate, StartRun, NoSeeds, LoadFails, Finish, FinishRun,
                      UpsertCandidate, Goto
  <2> QED
    BY <1>1, <1>2, <2>1, <2>4, <2>5, WorkOn, SameKnown
<1>7. pc'[w] \in {"idle", "start", "seeds", "exclusions", "seed"}
  BY <1>1 DEF Begin, PassGate, StartRun, LoadSeeds, NoSeeds, LoadExclusions, LoadFails,
              Finish, FinishRun, CutOff, Goto
<1>8. pc'[w] = "seed" => LoadSeeds(w) \/ LoadExclusions(w)
  BY <1>1 DEF Begin, PassGate, StartRun, NoSeeds, LoadFails, Finish, FinishRun, CutOff, Goto
<1> QED
  BY <1>3, <1>4, <1>5, <1>6, <1>7, <1>8

LEMMA MidRun ==
    ASSUME Typing, NEW w \in Syncer, Sync(w),
           pc[w] \in {"seed", "lead", "release", "candidate"}, pc'[w] # "idle"
    PROVE  SameRuns /\ Working(w) /\ job'[w].run = job[w].run
<1>1. pc \in [Syncer -> Places]
  BY Here
<1>2. /\ \A source \in Source : ~PassGate(w, source)
      /\ ~StartRun(w) /\ ~NoSeeds(w) /\ ~LoadFails(w) /\ ~Finish(w)
  BY <1>1 DEF PassGate, StartRun, NoSeeds, LoadFails, Finish, FinishRun, Goto
<1> QED
  BY <1>2, WorkOn DEF Working

LEMMA OnwardHeeds ==
    ASSUME Typing, Heeded, NEW w \in Syncer, Sync(w),
           pc[w] \in {"seed", "lead", "release"}, pc'[w] # "idle", known' = known,
           Heeds(pc'[w], job'[w], runs[job[w].run].known)
    PROVE  Heeded'
<1>1. ~UpsertCandidate(w)
  BY DEF UpsertCandidate
<1> QED
  BY <1>1, MidRun, SameKnown

LEMMA SeedHeeds ==
    ASSUME Typing, Heeded, NEW w \in Syncer, NEW seed \in Seeds,
           FetchLeads(w, seed) \/ FetchFails(w, seed)
    PROVE  Heeded'
<1>1. /\ job \in [Syncer -> Job] /\ pc \in [Syncer -> Places] /\ job[w] \in Job
      /\ Sync(w) /\ pc[w] = "seed" /\ known' = known
      /\ Heeds("seed", job[w], runs[job[w].run].known)
  BY Here DEF Sync, EachSeed, FetchLeads, FetchFails, Heeded
<1>2. CASE FetchLeads(w, seed)
  <2>1. PICK answer \in Answers(w, seed) :
          job' = [job EXCEPT ![w].seeds = @ \ {seed}, ![w].leads = Acceptable(w, answer),
                             ![w].followed = 0]
    BY <1>2 DEF FetchLeads
  <2> DEFINE leads == Acceptable(w, answer)
  <2>2. \A l \in leads : l.target \notin job[w].excluded
    BY DEF Acceptable
  <2> HIDE DEF leads
  <2>3. /\ job'[w].source = job[w].source /\ job'[w].excluded = job[w].excluded
        /\ job'[w].leads = leads
    BY <1>1, <2>1 DEF Job, leads
  <2>4. pc'[w] = "lead"
    BY <1>1, <1>2 DEF FetchLeads, Goto
  <2>5. Heeds(pc'[w], job'[w], runs[job[w].run].known)
    BY <1>1, <2>2, <2>3, <2>4 DEF Heeds
  <2> QED
    BY <1>1, <2>4, <2>5, OnwardHeeds
<1>3. CASE FetchFails(w, seed)
  <2>1. /\ job'[w].source = job[w].source /\ job'[w].excluded = job[w].excluded
        /\ pc'[w] = "seed"
    BY <1>1, <1>3 DEF FetchFails, Job
  <2>2. Heeds(pc'[w], job'[w], runs[job[w].run].known)
    BY <1>1, <2>1 DEF Heeds
  <2> QED
    BY <1>1, <2>1, <2>2, OnwardHeeds
<1> QED
  BY <1>2, <1>3

LEMMA LeadHeeds ==
    ASSUME Typing, Heeded, NEW w \in Syncer, NEW lead \in job[w].leads,
           BrowseLead(w, lead) \/ BrowseFails(w, lead)
    PROVE  Heeded'
<1>1. /\ job \in [Syncer -> Job] /\ pc \in [Syncer -> Places] /\ job[w] \in Job
      /\ Sync(w) /\ pc[w] = "lead" /\ known' = known
      /\ Heeds("lead", job[w], runs[job[w].run].known)
  BY Here DEF Sync, EachLead, BrowseLead, BrowseFails, IsNextLead, Heeded
<1>2. CASE BrowseLead(w, lead)
  <2> DEFINE shown == Wanted(job[w].source, job[w].excluded, lead)
  <2>1. /\ job'[w].source = job[w].source /\ job'[w].excluded = job[w].excluded
        /\ job'[w].leads = job[w].leads \ {lead} /\ job'[w].lead = lead
        /\ job'[w].shown = shown /\ pc'[w] = "release"
    <3> HIDE DEF shown
    <3>1. \E followed, processed :
            job' = [job EXCEPT ![w].leads = @ \ {lead}, ![w].lead = lead,
                               ![w].followed = followed, ![w].shown = shown,
                               ![w].picked = 0, ![w].processed = processed]
      BY <1>2 DEF BrowseLead, shown
    <3> QED
      BY <1>1, <1>2, <3>1 DEF BrowseLead, Goto, Job
  <2>2. job[w].source = "samelabel" => \A r \in shown : r.album \notin job[w].excluded
    BY DEF Wanted
  <2> HIDE DEF shown
  <2>3. Heeds(pc'[w], job'[w], runs[job[w].run].known)
    BY <1>1, <2>1, <2>2 DEF Heeds
  <2> QED
    BY <1>1, <2>1, <2>3, OnwardHeeds
<1>3. CASE BrowseFails(w, lead)
  <2>1. /\ job'[w].source = job[w].source /\ job'[w].excluded = job[w].excluded
        /\ job'[w].leads = job[w].leads \ {lead} /\ pc'[w] = "lead"
    BY <1>1, <1>3 DEF BrowseFails, Job
  <2>2. Heeds(pc'[w], job'[w], runs[job[w].run].known)
    BY <1>1, <2>1 DEF Heeds
  <2> QED
    BY <1>1, <2>1, <2>2, OnwardHeeds
<1> QED
  BY <1>2, <1>3

LEMMA DoneHeeds ==
    ASSUME Typing, Heeded, NEW w \in Syncer, LeadsDone(w) \/ ReleasesDone(w)
    PROVE  Heeded'
<1>1. /\ job \in [Syncer -> Job] /\ pc \in [Syncer -> Places] /\ job[w] \in Job
      /\ Sync(w) /\ known' = known
      /\ Heeds(pc[w], job[w], runs[job[w].run].known)
  BY Here DEF Sync, LeadsDone, ReleasesDone, Heeded
<1>2. /\ job'[w].source = job[w].source /\ job'[w].excluded = job[w].excluded
      /\ \/ pc[w] = "lead" /\ pc'[w] = "seed"
         \/ pc[w] = "release" /\ pc'[w] = "lead" /\ job'[w].leads = job[w].leads
  BY <1>1 DEF LeadsDone, ReleasesDone, Goto, Job
<1>3. Heeds(pc'[w], job'[w], runs[job[w].run].known)
  BY <1>1, <1>2 DEF Heeds
<1> QED
  BY <1>1, <1>2, <1>3, OnwardHeeds

LEMMA ReleaseHeeds ==
    ASSUME Typing, Heeded, NEW w \in Syncer, NEW release \in job[w].shown,
           UpsertAlbum(w, release) \/ AlbumFails(w, release)
    PROVE  Heeded'
<1>1. /\ job \in [Syncer -> Job] /\ pc \in [Syncer -> Places] /\ job[w] \in Job
      /\ Sync(w) /\ pc[w] = "release" /\ known' = known
      /\ Heeds("release", job[w], runs[job[w].run].known)
  BY Here DEF Sync, EachRelease, UpsertAlbum, AlbumFails, IsNextRelease, Heeded
<1>2. /\ job'[w].source = job[w].source /\ job'[w].excluded = job[w].excluded
      /\ job'[w].leads = job[w].leads /\ job'[w].lead = job[w].lead
      /\ job'[w].shown \subseteq job[w].shown
      /\ \/ pc'[w] = "candidate" /\ job'[w].release = release
         \/ pc'[w] = "release"
  BY <1>1 DEF UpsertAlbum, AlbumFails, Goto, Job
<1>3. Heeds(pc'[w], job'[w], runs[job[w].run].known)
  BY <1>1, <1>2 DEF Heeds
<1> QED
  BY <1>1, <1>2, <1>3, OnwardHeeds

LEMMA CandidateHeeds ==
    ASSUME Typing, Heeded, NEW w \in Syncer, UpsertCandidate(w) \/ CandidateFails(w)
    PROVE  Heeded'
<1> DEFINE own == runs[job[w].run].known
<1>1. /\ job \in [Syncer -> Job] /\ pc \in [Syncer -> Places] /\ job[w] \in Job
      /\ Sync(w) /\ pc[w] = "candidate" /\ known' = known /\ Len(runs) \in Nat
      /\ Heeds("candidate", job[w], own) /\ job[w].run \in 1..Len(runs)
      /\ job[w].lead \in LeadsFor(job[w].source) /\ job[w].release \in Release
  BY Here, Length DEF Sync, EachRelease, UpsertCandidate, CandidateFails, Heeded
<1>2. /\ job'[w].source = job[w].source /\ job'[w].excluded = job[w].excluded
      /\ job'[w].leads = job[w].leads /\ job'[w].lead = job[w].lead
      /\ job'[w].shown = job[w].shown /\ pc'[w] = "release"
  BY <1>1 DEF UpsertCandidate, CandidateFails, Goto, Job
<1>3. SameRuns /\ job'[w].run = job[w].run
  BY <1>1, <1>2, MidRun
<1>4. Heeds(pc[w], job[w], own)'
  BY <1>1, <1>2, <1>3 DEF Heeds, SameRuns
<1>5. ASSUME UpsertCandidate(w), NEW c \in candidates' \ candidates
      PROVE  c.run \in 1..Len(runs) /\ LeavesOut(c, runs[c.run].known)
  <2>1. /\ c.album = job[w].release.album /\ c.source = job[w].source
        /\ c.run = job[w].run /\ c.lead = job[w].lead
    BY <1>5 DEF UpsertCandidate, Replacing
  <2>2. job[w].release.album \in Album
    BY <1>1 DEF Release
  <2>3. job[w].source \in BySimilarity => job[w].lead.target \in Artist
    BY <1>1 DEF LeadsFor, BySimilarity
  <2>4. LeavesOut(c, own)
    <3> HIDE DEF own
    <3> QED
      BY <1>1, <2>1, <2>2, <2>3 DEF Heeds, LeavesOut, BySimilarity
  <2> QED
    BY <1>1, <2>1, <2>4
<1>6. Len(runs) <= Len(runs') /\ Len(runs') \in Nat /\ 1..Len(runs') \ 1..Len(runs) = {}
      /\ \A i \in 1..Len(runs) : runs'[i].known = runs[i].known
  BY <1>1, <1>3 DEF SameRuns
<1> QED
  BY <1>1, <1>4, <1>5, <1>6, HeededKept

(***************************************************************************)
(* What the user followed, saved or dismissed before a run began is not    *)
(* promoted by it, however many runs overlap and whatever the user does    *)
(* while they work.                                                        *)
(***************************************************************************)
THEOREM KnownStaysOutHolds == Spec => []KnownStaysOut
<1>1. Init => Heeded
  <2>1. runs = <<>> => 1..Len(runs) = {}
    OBVIOUS
  <2> QED
    BY <2>1 DEF Init, Heeded, Heeds
<1>2. Heeded => KnownStaysOut
  BY DEF Heeded, LeavesOut, BySimilarity, KnownStaysOut
<1>3. ASSUME Typing, Heeded, [Next]_vars
      PROVE  Heeded'
  <2>1. CASE Tick \/ (\E s \in Subject : Know(s)) \/ UNCHANGED vars
    <3>1. /\ runs' = runs /\ pc' = pc /\ job' = job /\ candidates' = candidates
          /\ known \subseteq known'
      BY <2>1 DEF Tick, Know, vars
    <3> QED
      BY <1>3, <3>1 DEF Heeded
  <2>2. ASSUME NEW w \in Syncer, Sync(w)
        PROVE  Heeded'
    BY <1>3, <2>2, BeginHeeds, SeedHeeds, LeadHeeds, DoneHeeds, ReleaseHeeds, CandidateHeeds
       DEF Sync, EachSeed, EachLead, EachRelease
  <2> QED
    BY <1>3, <2>1, <2>2 DEF Next
<1> QED
  BY <1>1, <1>2, <1>3, TypingHolds, PTL DEF Spec

-----------------------------------------------------------------------------
(* What an "ok" run has covered. *)

\* The property's notions, of a set of candidates cs and of a run r.
PromotedIn(cs, r, album) ==
    \E c \in cs : /\ c.album = album /\ c.source = r.source
                  /\ c.expires >= r.started + TTLForSource(r.source)

WantedOf(r, lead) == Wanted(r.source, r.excluded, lead)

\* The others of the lead that a release may be passed over for.
Before(r, lead, release) ==
    {q \in WantedOf(r, lead) \ {release} : NewestFirst(r.source) => q.date >= release.date}

ServedIn(cs, r, lead, release) ==
    \/ PromotedIn(cs, r, release.album)
    \/ /\ r.source # "releases"
       /\ MaxPicks <= Cardinality({q \in Before(r, lead, release) : PromotedIn(cs, r, q.album)})

CoveredIn(cs, r, lead) == \A q \in WantedOf(r, lead) : ServedIn(cs, r, lead, q)

OfferedOf(r, seed) == {l \in Lead : <<seed, l>> \in r.offered}

\* The other leads of the seed that a lead may be passed over for.
Above(r, seed, lead) ==
    {l \in OfferedOf(r, seed) \ {lead} : r.source # "samelabel" => l.place <= lead.place}

SeedDone(cs, r, seed) ==
    \A lead \in OfferedOf(r, seed) :
        \/ CoveredIn(cs, r, lead)
        \/ MaxLeads <= Cardinality({l \in Above(r, seed, lead) : CoveredIn(cs, r, l)})

\* Of the lead in hand: the releases that were shown, and those of them dealt with.
Seen(r, j) == WantedOf(r, j.lead) \ j.shown
Dealt(r, j, at) == IF at = "candidate" THEN Seen(r, j) \ {j.release} ELSE Seen(r, j)

LeadGoing(cs, r, j, at) ==
    /\ j.shown \subseteq WantedOf(r, j.lead)
    /\ at = "candidate" => j.release \in Seen(r, j)
    /\ j.picked = Cardinality(Dealt(r, j, at))
    /\ \A q \in Dealt(r, j, at) : PromotedIn(cs, r, q.album)
    /\ NewestFirst(r.source) => \A q \in Seen(r, j), s \in j.shown : s.date <= q.date

Followed(r, j, seed) == OfferedOf(r, seed) \ j.leads

SeedGoing(cs, r, j, at, seed) ==
    /\ j.leads \subseteq OfferedOf(r, seed)
    /\ j.followed = Cardinality(Followed(r, j, seed))
    /\ r.source # "samelabel" =>
         \A f \in Followed(r, j, seed), l \in j.leads : f.place <= l.place
    /\ \A f \in Followed(r, j, seed) : (at # "lead" /\ f = j.lead) \/ CoveredIn(cs, r, f)
    /\ at # "lead" => j.lead \in Followed(r, j, seed) /\ LeadGoing(cs, r, j, at)

\* Where a call with locals j is in its run r, as long as nothing has failed.
Progress(cs, r, j, at) ==
    /\ r.source = j.source /\ r.started = j.started /\ r.excluded = j.excluded
    /\ r.status = "running"
    /\ \A seed \in Seeds : IsFiniteSet(OfferedOf(r, seed))
    /\ at \in {"seeds", "exclusions"} => \A seed \in Seeds : OfferedOf(r, seed) = {}
    /\ \A seed \in j.seeds : OfferedOf(r, seed) = {}
    /\ at = "seed" /\ ~j.flawed => \A seed \in Seeds : SeedDone(cs, r, seed)
    /\ at \in {"lead", "release", "candidate"} /\ ~j.flawed =>
         \E seed \in Seeds : /\ SeedGoing(cs, r, j, at, seed)
                             /\ \A s \in Seeds \ {seed} : SeedDone(cs, r, s)

\* A run between steps: its leads are finitely many, and covered if it ended "ok".
Settled(cs, r) ==
    /\ \A seed \in Seeds : IsFiniteSet(OfferedOf(r, seed))
    /\ r.status = "ok" => \A seed \in Seeds : SeedDone(cs, r, seed)

\* A call is no older than any run of its service.
InTime(at, j) ==
    at # "idle" => /\ j.started <= now
                   /\ \A i \in 1..Len(runs) :
                        runs[i].source = j.source => runs[i].started <= j.started
                   /\ at = "start" => j.excluded = {}

Covers ==
    /\ IsFiniteSet(labels)
    /\ \A i \in 1..Len(runs) : runs[i].started <= now /\ Settled(candidates, runs[i])
    /\ \A w \in Syncer : InTime(pc[w], job[w])
    /\ \A w \in Syncer : Working(w) =>
         Progress(candidates, runs[job[w].run], job[w], pc[w])

\* Calls of one service do not overlap; those of different services do as they like.
OnePerSource ==
    \A v, w \in Syncer :
        v # w /\ pc[v] # "idle" /\ pc[w] # "idle" => job[v].source # job[w].source

\* A step of w moves no other call.
OthersStay(w) == \A v \in Syncer \ {w} : pc'[v] = pc[v] /\ job'[v] = job[v]

\* Two runs that the definitions above do not tell apart but by their leads.
Alike(r, s) == r.source = s.source /\ r.started = s.started /\ r.excluded = s.excluded

\* What was promoted for a run stays so.
Renews(cs, ds, r) == \A album : PromotedIn(cs, r, album) => PromotedIn(ds, r, album)

LEMMA Limits == MaxLeads \in Nat /\ MaxPicks \in Nat
BY ScanConstants

LEMMA FiniteWanted ==
    ASSUME NEW r, NEW lead \in Lead
    PROVE  IsFiniteSet(WantedOf(r, lead))
<1>1. lead.target \in Artist \cup Label
  BY DEF Lead
<1>2. IsFiniteSet(ReleasesOf[lead.target])
  BY <1>1, ScanConstants
<1>3. WantedOf(r, lead) \in SUBSET ReleasesOf[lead.target]
  BY DEF WantedOf, Wanted
<1> QED
  BY <1>2, <1>3, FS_Subset

\* A larger part of a finite set has no fewer members.
LEMMA NoFewer ==
    ASSUME NEW S, IsFiniteSet(S), NEW A, NEW B, A \subseteq B, B \subseteq S
    PROVE  Cardinality(A) <= Cardinality(B) /\ Cardinality(A) \in Nat /\ Cardinality(B) \in Nat
<1>1. IsFiniteSet(B)
  BY FS_Subset
<1>2. IsFiniteSet(A) /\ Cardinality(A) <= Cardinality(B)
  BY <1>1, FS_Subset
<1> QED
  BY <1>1, <1>2, FS_CardinalityType

\* A lead stays covered while what was promoted stays so.
LEMMA CoveredKept ==
    ASSUME NEW cs, NEW ds, NEW r, NEW s, Alike(r, s), Renews(cs, ds, r),
           NEW lead \in Lead, CoveredIn(cs, r, lead)
    PROVE  CoveredIn(ds, s, lead)
<1>1. WantedOf(s, lead) = WantedOf(r, lead)
  BY DEF WantedOf, Alike
<1>2. \A album : PromotedIn(cs, r, album) => PromotedIn(ds, s, album)
  BY DEF Alike, Renews, PromotedIn
<1>3. ASSUME NEW q \in WantedOf(s, lead)
      PROVE  ServedIn(ds, s, lead, q)
  <2>1. ServedIn(cs, r, lead, q)
    BY <1>1, <1>3 DEF CoveredIn
  <2>2. Before(s, lead, q) = Before(r, lead, q)
    BY <1>1 DEF Before, Alike
  <2> DEFINE A == {p \in Before(r, lead, q) : PromotedIn(cs, r, p.album)}
             B == {p \in Before(s, lead, q) : PromotedIn(ds, s, p.album)}
  <2>3. A \subseteq B
    BY <1>2, <2>2
  <2>4. B \subseteq WantedOf(s, lead)
    BY DEF Before
  <2> HIDE DEF A, B
  <2>5. Cardinality(A) <= Cardinality(B) /\ Cardinality(A) \in Nat /\ Cardinality(B) \in Nat
    BY <2>3, <2>4, FiniteWanted, NoFewer
  <2>6. CASE PromotedIn(cs, r, q.album)
    BY <1>2, <2>6 DEF ServedIn
  <2>7. CASE r.source # "releases" /\ MaxPicks <= Cardinality(A)
    <3>1. MaxPicks <= Cardinality(B)
      BY <2>5, <2>7, Limits
    <3> QED
      BY <2>7, <3>1 DEF ServedIn, Alike, B
  <2> QED
    BY <2>1, <2>6, <2>7 DEF ServedIn, A
<1> QED
  BY <1>3 DEF CoveredIn

\* So does a seed.
LEMMA SeedKept ==
    ASSUME NEW cs, NEW ds, NEW r, NEW s, Alike(r, s), Renews(cs, ds, r),
           NEW seed, OfferedOf(r, seed) = OfferedOf(s, seed), IsFiniteSet(OfferedOf(r, seed)),
           SeedDone(cs, r, seed)
    PROVE  SeedDone(ds, s, seed)
<1>1. OfferedOf(s, seed) \subseteq Lead
  BY DEF OfferedOf
<1>2. \A l \in OfferedOf(s, seed) : CoveredIn(cs, r, l) => CoveredIn(ds, s, l)
  BY <1>1, CoveredKept
<1>3. ASSUME NEW lead \in OfferedOf(s, seed)
      PROVE  \/ CoveredIn(ds, s, lead)
             \/ MaxLeads <= Cardinality({l \in Above(s, seed, lead) : CoveredIn(ds, s, l)})
  <2>1. Above(s, seed, lead) = Above(r, seed, lead)
    BY DEF Above, Alike
  <2> DEFINE A == {l \in Above(r, seed, lead) : CoveredIn(cs, r, l)}
             B == {l \in Above(s, seed, lead) : CoveredIn(ds, s, l)}
  <2>2. B \subseteq OfferedOf(s, seed)
    BY DEF Above
  <2>3. A \subseteq B
    BY <1>2, <2>1 DEF Above
  <2>4. \/ CoveredIn(cs, r, lead)
        \/ MaxLeads <= Cardinality(A)
    BY DEF SeedDone
  <2> HIDE DEF A, B
  <2>5. Cardinality(A) <= Cardinality(B) /\ Cardinality(A) \in Nat /\ Cardinality(B) \in Nat
    BY <2>2, <2>3, NoFewer
  <2>6. MaxLeads <= Cardinality(A) => MaxLeads <= Cardinality(B)
    BY <2>5, Limits
  <2> QED
    BY <1>2, <2>4, <2>6 DEF B
<1> QED
  BY <1>3 DEF SeedDone

\* The releases of a lead: those not shown were promoted, and enough of them.
LEMMA LeadFinished ==
    ASSUME NEW cs, NEW r, NEW j, LeadGoing(cs, r, j, "release"), j.lead \in Lead,
           j.shown = {} \/ (r.source # "releases" /\ j.picked >= MaxPicks)
    PROVE  CoveredIn(cs, r, j.lead)
<1> DEFINE D == WantedOf(r, j.lead) \ j.shown
<1>1. /\ j.shown \subseteq WantedOf(r, j.lead) /\ j.picked = Cardinality(D)
      /\ \A p \in D : PromotedIn(cs, r, p.album)
      /\ NewestFirst(r.source) => \A p \in D, q \in j.shown : q.date <= p.date
  BY DEF LeadGoing, Dealt, Seen
<1>2. \A p \in WantedOf(r, j.lead) : p.date \in Nat
  BY WantedTyped DEF WantedOf, Release
<1>3. ASSUME NEW q \in j.shown, r.source # "releases", j.picked >= MaxPicks
      PROVE  ServedIn(cs, r, j.lead, q)
  <2> DEFINE B == {p \in Before(r, j.lead, q) : PromotedIn(cs, r, p.album)}
  <2>1. D \subseteq Before(r, j.lead, q)
    BY <1>1, <1>2, <1>3 DEF Before
  <2>2. D \subseteq B
    BY <1>1, <2>1
  <2>3. B \subseteq WantedOf(r, j.lead)
    BY DEF Before
  <2> HIDE DEF B, D
  <2>4. Cardinality(D) <= Cardinality(B) /\ Cardinality(D) \in Nat /\ Cardinality(B) \in Nat
    BY <2>2, <2>3, FiniteWanted, NoFewer
  <2>5. MaxPicks <= Cardinality(B)
    BY <1>1, <1>3, <2>4, Limits
  <2> QED
    BY <1>3, <2>5 DEF ServedIn, B
<1>4. ASSUME NEW q \in WantedOf(r, j.lead)
      PROVE  ServedIn(cs, r, j.lead, q)
  <2>1. CASE q \in j.shown
    BY <1>3, <2>1
  <2>2. CASE q \notin j.shown
    BY <1>1, <2>2 DEF ServedIn
  <2> QED
    BY <2>1, <2>2
<1> QED
  BY <1>4 DEF CoveredIn

\* The leads of a seed: those followed are covered, and enough of them.
LEMMA SeedFinished ==
    ASSUME NEW cs, NEW r, NEW j, NEW seed, SeedGoing(cs, r, j, "lead", seed),
           IsFiniteSet(OfferedOf(r, seed)),
           j.leads = {} \/ j.followed >= MaxLeads
    PROVE  SeedDone(cs, r, seed)
<1> DEFINE F == OfferedOf(r, seed) \ j.leads
<1>1. /\ j.leads \subseteq OfferedOf(r, seed) /\ j.followed = Cardinality(F)
      /\ \A f \in F : CoveredIn(cs, r, f)
      /\ r.source # "samelabel" => \A f \in F, l \in j.leads : f.place <= l.place
  BY DEF SeedGoing, Followed
<1>2. ASSUME NEW lead \in j.leads, j.followed >= MaxLeads
      PROVE  MaxLeads <= Cardinality({l \in Above(r, seed, lead) : CoveredIn(cs, r, l)})
  <2> DEFINE B == {l \in Above(r, seed, lead) : CoveredIn(cs, r, l)}
  <2>1. F \subseteq Above(r, seed, lead)
    BY <1>1 DEF Above
  <2>2. F \subseteq B
    BY <1>1, <2>1
  <2>3. B \subseteq OfferedOf(r, seed)
    BY DEF Above
  <2> HIDE DEF B, F
  <2>4. Cardinality(F) <= Cardinality(B) /\ Cardinality(F) \in Nat /\ Cardinality(B) \in Nat
    BY <2>2, <2>3, NoFewer
  <2> QED
    BY <1>1, <1>2, <2>4, Limits DEF B
<1>3. ASSUME NEW lead \in OfferedOf(r, seed)
      PROVE  \/ CoveredIn(cs, r, lead)
             \/ MaxLeads <= Cardinality({l \in Above(r, seed, lead) : CoveredIn(cs, r, l)})
  BY <1>1, <1>2
<1> QED
  BY <1>3 DEF SeedDone

LEMMA LeadTaken ==
    ASSUME NEW cs, NEW r, NEW j, NEW k, NEW seed, SeedGoing(cs, r, j, "lead", seed),
           IsFiniteSet(OfferedOf(r, seed)), NEW lead \in j.leads,
           r.source # "samelabel" => \A l \in j.leads : lead.place <= l.place,
           k.leads = j.leads \ {lead}, k.lead = lead, k.followed = j.followed + 1,
           k.shown = WantedOf(r, lead), k.picked = 0
    PROVE  SeedGoing(cs, r, k, "release", seed)
<1>1. /\ j.leads \subseteq OfferedOf(r, seed)
      /\ j.followed = Cardinality(Followed(r, j, seed))
      /\ \A f \in Followed(r, j, seed) : CoveredIn(cs, r, f)
      /\ r.source # "samelabel" =>
           \A f \in Followed(r, j, seed), l \in j.leads : f.place <= l.place
  BY DEF SeedGoing
<1>2. /\ Followed(r, k, seed) = Followed(r, j, seed) \cup {lead}
      /\ lead \notin Followed(r, j, seed)
  BY <1>1 DEF Followed
<1>3. Followed(r, j, seed) \in SUBSET OfferedOf(r, seed)
  BY DEF Followed
<1>4. IsFiniteSet(Followed(r, j, seed))
  BY <1>3, FS_Subset
<1>5. Cardinality(Followed(r, k, seed)) = Cardinality(Followed(r, j, seed)) + 1
  <2>1. Cardinality(Followed(r, j, seed) \cup {lead}) = Cardinality(Followed(r, j, seed)) + 1
    BY <1>2, <1>4, FS_AddElement
  <2> QED
    BY <1>2, <2>1
<1>6. LeadGoing(cs, r, k, "release")
  <2>1. Seen(r, k) = {} /\ Dealt(r, k, "release") = {}
    BY DEF Seen, Dealt
  <2>2. Cardinality({}) = 0
    BY FS_EmptySet
  <2> QED
    BY <2>1, <2>2 DEF LeadGoing
<1>7. r.source # "samelabel" =>
        \A f \in Followed(r, k, seed), l \in k.leads : f.place <= l.place
  BY <1>1, <1>2
<1>8. \A f \in Followed(r, k, seed) : f = k.lead \/ CoveredIn(cs, r, f)
  BY <1>1, <1>2
<1>9. k.lead \in Followed(r, k, seed) /\ k.leads \subseteq OfferedOf(r, seed)
  BY <1>1, <1>2
<1> QED
  BY <1>1, <1>5, <1>6, <1>7, <1>8, <1>9 DEF SeedGoing

LEMMA ReleaseTaken ==
    ASSUME NEW cs, NEW r, NEW j, NEW k, NEW seed, SeedGoing(cs, r, j, "release", seed),
           NEW release \in j.shown,
           NewestFirst(r.source) => \A q \in j.shown : q.date <= release.date,
           k.shown = j.shown \ {release}, k.release = release, k.leads = j.leads,
           k.lead = j.lead, k.followed = j.followed, k.picked = j.picked
    PROVE  SeedGoing(cs, r, k, "candidate", seed)
<1>1. /\ j.shown \subseteq WantedOf(r, j.lead)
      /\ j.picked = Cardinality(Seen(r, j))
      /\ \A q \in Seen(r, j) : PromotedIn(cs, r, q.album)
      /\ NewestFirst(r.source) => \A q \in Seen(r, j), s \in j.shown : s.date <= q.date
  BY DEF SeedGoing, LeadGoing, Dealt
<1>2. Seen(r, k) = Seen(r, j) \cup {release} /\ Dealt(r, k, "candidate") = Seen(r, j)
  BY <1>1 DEF Seen, Dealt
<1>3. LeadGoing(cs, r, k, "candidate")
  BY <1>1, <1>2 DEF LeadGoing
<1>4. Followed(r, k, seed) = Followed(r, j, seed)
  BY DEF Followed
<1> QED
  BY <1>3, <1>4 DEF SeedGoing

LEMMA CandidateKept ==
    ASSUME NEW cs, NEW ds, NEW r, NEW j, NEW k, NEW seed,
           SeedGoing(cs, r, j, "candidate", seed), Renews(cs, ds, r),
           PromotedIn(ds, r, j.release.album), j.lead \in Lead,
           k.shown = j.shown, k.leads = j.leads, k.lead = j.lead,
           k.followed = j.followed, k.picked = j.picked + 1
    PROVE  SeedGoing(ds, r, k, "release", seed)
<1>1. /\ j.shown \subseteq WantedOf(r, j.lead) /\ j.release \in Seen(r, j)
      /\ j.picked = Cardinality(Seen(r, j) \ {j.release})
      /\ \A q \in Seen(r, j) \ {j.release} : PromotedIn(cs, r, q.album)
      /\ NewestFirst(r.source) => \A q \in Seen(r, j), s \in j.shown : s.date <= q.date
  BY DEF SeedGoing, LeadGoing, Dealt
<1>2. Seen(r, k) = Seen(r, j) /\ Dealt(r, k, "release") = Seen(r, j)
  BY DEF Seen, Dealt
<1>3. Cardinality(Seen(r, j)) = j.picked + 1
  <2>1. Seen(r, j) \in SUBSET WantedOf(r, j.lead)
    BY DEF Seen
  <2>2. IsFiniteSet(Seen(r, j))
    BY <2>1, FiniteWanted, FS_Subset
  <2>3. Cardinality(Seen(r, j) \ {j.release}) = Cardinality(Seen(r, j)) - 1
    BY <1>1, <2>2, FS_RemoveElement
  <2>4. Cardinality(Seen(r, j)) \in Nat
    BY <2>2, FS_CardinalityType
  <2> QED
    BY <1>1, <2>3, <2>4
<1>4. \A q \in Seen(r, j) : PromotedIn(ds, r, q.album)
  BY <1>1 DEF Renews
<1>5. LeadGoing(ds, r, k, "release")
  BY <1>1, <1>2, <1>3, <1>4 DEF LeadGoing
<1>6. Followed(r, k, seed) = Followed(r, j, seed) /\ Followed(r, j, seed) \subseteq Lead
  BY DEF Followed, OfferedOf
<1>7. \A f \in Followed(r, k, seed) : f = k.lead \/ CoveredIn(ds, r, f)
  BY <1>6, CoveredKept DEF SeedGoing, Alike
<1> QED
  BY <1>5, <1>6, <1>7 DEF SeedGoing

LEMMA LeadLeft ==
    ASSUME NEW cs, NEW r, NEW j, NEW k, NEW seed, SeedGoing(cs, r, j, "release", seed),
           j.lead \in Lead, j.shown = {} \/ (r.source # "releases" /\ j.picked >= MaxPicks),
           k.leads = j.leads, k.followed = j.followed
    PROVE  SeedGoing(cs, r, k, "lead", seed)
<1>1. CoveredIn(cs, r, j.lead)
  BY LeadFinished DEF SeedGoing
<1>2. Followed(r, k, seed) = Followed(r, j, seed)
  BY DEF Followed
<1> QED
  BY <1>1, <1>2 DEF SeedGoing

\* The steps of a call that keep Progress, by what they do to the call's locals.
SameCall(j, k) == k.source = j.source /\ k.started = j.started /\ k.excluded = j.excluded

LEMMA Spoilt ==
    ASSUME NEW cs, NEW r, NEW j, NEW at, NEW k, NEW to, Progress(cs, r, j, at),
           SameCall(j, k), k.flawed, k.seeds \subseteq j.seeds, to \notin {"seeds", "exclusions"}
    PROVE  Progress(cs, r, k, to)
BY DEF Progress, SameCall

LEMMA SeedTaken ==
    ASSUME NEW cs, NEW r, NEW s, NEW j, NEW k, NEW seed \in j.seeds, j.seeds \subseteq Seeds,
           Progress(cs, r, j, "seed"), SameCall(j, k), k.flawed = j.flawed,
           k.seeds = j.seeds \ {seed}, IsFiniteSet(k.leads), k.leads \subseteq Lead,
           k.followed = 0, Alike(r, s), s.status = r.status,
           s.offered = r.offered \cup ({seed} \X k.leads)
    PROVE  Progress(cs, s, k, "lead")
<1>1. OfferedOf(r, seed) = {}
  BY DEF Progress
<1>2. OfferedOf(s, seed) = k.leads
  <2>1. \A l : <<seed, l>> \in {seed} \X k.leads <=> l \in k.leads
    OBVIOUS
  <2> QED
    BY <1>1, <2>1 DEF OfferedOf
<1>3. ASSUME NEW t \in Seeds \ {seed} PROVE OfferedOf(s, t) = OfferedOf(r, t)
  <2>1. \A l : <<t, l>> \notin {seed} \X k.leads
    BY <1>3
  <2> QED
    BY <2>1 DEF OfferedOf
<1>4. \A t \in Seeds : IsFiniteSet(OfferedOf(s, t))
  BY <1>2, <1>3 DEF Progress
<1>5. \A t \in k.seeds : OfferedOf(s, t) = {}
  BY <1>3 DEF Progress
<1>6. SeedGoing(cs, s, k, "lead", seed)
  <2>1. Followed(s, k, seed) = {}
    BY <1>2 DEF Followed
  <2>2. Cardinality({}) = 0
    BY FS_EmptySet
  <2> QED
    BY <1>2, <2>1, <2>2 DEF SeedGoing
<1>7. ASSUME ~k.flawed, NEW t \in Seeds \ {seed} PROVE SeedDone(cs, s, t)
  <2>1. SeedDone(cs, r, t) /\ IsFiniteSet(OfferedOf(r, t))
    BY <1>7 DEF Progress
  <2>2. Renews(cs, cs, r)
    BY DEF Renews
  <2> QED
    BY <1>3, <2>1, <2>2, SeedKept
<1> QED
  BY <1>4, <1>5, <1>6, <1>7 DEF Progress, SameCall, Alike

\* A step on the leads or releases of the seed in hand.
LEMMA StepTaken ==
    ASSUME NEW cs, NEW ds, NEW r, NEW j, NEW k,
           NEW at \in {"lead", "release", "candidate"},
           NEW to \in {"lead", "release", "candidate"},
           Progress(cs, r, j, at), Renews(cs, ds, r), SameCall(j, k), k.flawed = j.flawed,
           k.seeds = j.seeds,
           \A seed \in Seeds : SeedGoing(cs, r, j, at, seed) /\ IsFiniteSet(OfferedOf(r, seed)) =>
                SeedGoing(ds, r, k, to, seed)
    PROVE  Progress(ds, r, k, to)
<1>1. Alike(r, r)
  BY DEF Alike
<1>2. \A s \in Seeds : IsFiniteSet(OfferedOf(r, s))
  BY DEF Progress
<1>3. ASSUME ~j.flawed
      PROVE  \E seed \in Seeds : /\ SeedGoing(ds, r, k, to, seed)
                                 /\ \A s \in Seeds \ {seed} : SeedDone(ds, r, s)
  <2>1. PICK seed \in Seeds : /\ SeedGoing(cs, r, j, at, seed)
                              /\ \A s \in Seeds \ {seed} : SeedDone(cs, r, s)
    BY <1>3 DEF Progress
  <2>2. \A s \in Seeds \ {seed} : SeedDone(ds, r, s)
    BY <1>1, <1>2, <2>1, SeedKept
  <2> QED
    BY <1>2, <2>1, <2>2
<1> QED
  BY <1>3 DEF Progress, SameCall

LEMMA SeedLeft ==
    ASSUME NEW cs, NEW r, NEW j, NEW k, Progress(cs, r, j, "lead"), SameCall(j, k),
           j.leads = {} \/ j.followed >= MaxLeads, k.flawed = j.flawed, k.seeds = j.seeds
    PROVE  Progress(cs, r, k, "seed")
<1>1. ASSUME ~j.flawed, NEW t \in Seeds
      PROVE  SeedDone(cs, r, t)
  <2>1. PICK seed \in Seeds : /\ SeedGoing(cs, r, j, "lead", seed)
                              /\ \A s \in Seeds \ {seed} : SeedDone(cs, r, s)
    BY <1>1 DEF Progress
  <2>2. IsFiniteSet(OfferedOf(r, seed))
    BY DEF Progress
  <2>3. SeedDone(cs, r, seed)
    BY <2>1, <2>2, SeedFinished
  <2> QED
    BY <2>1, <2>3
<1> QED
  BY <1>1 DEF Progress, SameCall

\* What other calls write.
LEMMA GoingKept ==
    ASSUME NEW cs, NEW ds, NEW r, NEW j, NEW at, NEW seed, SeedGoing(cs, r, j, at, seed),
           Renews(cs, ds, r)
    PROVE  SeedGoing(ds, r, j, at, seed)
<1>1. LeadGoing(cs, r, j, at) => LeadGoing(ds, r, j, at)
  BY DEF LeadGoing, Renews
<1>2. Alike(r, r) /\ Followed(r, j, seed) \subseteq Lead
  BY DEF Alike, Followed, OfferedOf
<1>3. \A f \in Followed(r, j, seed) : CoveredIn(cs, r, f) => CoveredIn(ds, r, f)
  BY <1>2, CoveredKept
<1> QED
  BY <1>1, <1>3 DEF SeedGoing

LEMMA ProgressKept ==
    ASSUME NEW cs, NEW ds, NEW r, NEW j, NEW at, Progress(cs, r, j, at), Renews(cs, ds, r)
    PROVE  Progress(ds, r, j, at)
<1>1. Alike(r, r)
  BY DEF Alike
<1>2. \A s \in Seeds : SeedDone(cs, r, s) => SeedDone(ds, r, s)
  BY <1>1, SeedKept DEF Progress
<1>3. \A s \in Seeds : SeedGoing(cs, r, j, at, s) => SeedGoing(ds, r, j, at, s)
  BY GoingKept
<1> QED
  BY <1>2, <1>3 DEF Progress

-----------------------------------------------------------------------------
(* The steps. *)

\* A call that does not move, if the step leaves its run alone and begins no other of
\* its service.
LEMMA OtherKept ==
    ASSUME Typing, Covers, NEW v \in Syncer, pc'[v] = pc[v], job'[v] = job[v], now' = now,
           \A k \in 1..Len(runs) : Renews(candidates, candidates', runs[k]),
           Working(v) => runs'[job[v].run] = runs[job[v].run],
           \A i \in 1..Len(runs') :
               pc[v] # "idle" /\ runs'[i].source = job[v].source =>
                   \E k \in 1..Len(runs) : runs[k].source = runs'[i].source
                                            /\ runs[k].started = runs'[i].started
    PROVE  /\ InTime(pc[v], job[v])'
           /\ Working(v)' => Progress(candidates, runs[job[v].run], job[v], pc[v])'
<1>1. InTime(pc[v], job[v])'
  BY DEF Covers, InTime
<1>2. ASSUME Working(v)
      PROVE  Progress(candidates', runs[job[v].run], job[v], pc[v])
  <2>1. job[v].run \in 1..Len(runs)
    BY <1>2, Here DEF Working
  <2>2. Progress(candidates, runs[job[v].run], job[v], pc[v])
    BY <1>2 DEF Covers
  <2>3. Renews(candidates, candidates', runs[job[v].run])
    BY <2>1
  <2> QED
    BY <2>2, <2>3, ProgressKept
<1>3. Working(v)' = Working(v)
  BY DEF Working
<1> QED
  BY <1>1, <1>2, <1>3

\* The run that a step rewrites, and the others, which their candidates still cover.
LEMMA RunsSettled ==
    ASSUME Typing, Covers, NEW i \in 1..Len(runs), NEW m \in Run, m.started = runs[i].started,
           m.source = runs[i].source, Settled(candidates', m), runs' = [runs EXCEPT ![i] = m],
           \A k \in 1..Len(runs) : Renews(candidates, candidates', runs[k])
    PROVE  /\ Len(runs') = Len(runs) /\ runs'[i] = m
           /\ \A k \in 1..Len(runs) : /\ k # i => runs'[k] = runs[k]
                                      /\ runs'[k].source = runs[k].source
                                      /\ runs'[k].started = runs[k].started
                                      /\ Settled(candidates', runs'[k])
<1>1. runs \in [1..Len(runs) -> Run] /\ Len(runs) \in Nat /\ runs \in Seq(Run)
  BY Length
<1>2. runs' \in [1..Len(runs) -> Run] /\ DOMAIN runs' = DOMAIN runs
  BY <1>1
<1>3. runs' \in Seq(Run)
  BY <1>1, <1>2
<1>4. Len(runs') = Len(runs)
  BY <1>1, <1>2, <1>3, SameLength
<1>5. ASSUME NEW k \in 1..Len(runs), k # i
      PROVE  Settled(candidates', runs[k])
  <2>1. Settled(candidates, runs[k])
    BY DEF Covers
  <2>2. Alike(runs[k], runs[k])
    BY DEF Alike
  <2>3. ASSUME NEW seed \in Seeds, runs[k].status = "ok"
        PROVE  SeedDone(candidates', runs[k], seed)
    BY <2>1, <2>2, <2>3, SeedKept DEF Settled
  <2> QED
    BY <2>1, <2>3 DEF Settled
<1>6. ASSUME NEW k \in 1..Len(runs)
      PROVE  /\ k # i => runs'[k] = runs[k]
             /\ runs'[k].source = runs[k].source /\ runs'[k].started = runs[k].started
             /\ Settled(candidates', runs'[k])
  <2>1. CASE k = i
    BY <1>1, <2>1
  <2>2. CASE k # i
    BY <1>1, <1>5, <2>2
  <2> QED
    BY <2>1, <2>2
<1> QED
  BY <1>1, <1>4, <1>6

\* The calls that do not move while one rewrites its run.
LEMMA OthersKept ==
    ASSUME Typing, Apart, Covers, NEW w \in Syncer, OthersStay(w), Working(w), now' = now,
           Len(runs') = Len(runs),
           \A k \in 1..Len(runs) : /\ k # job[w].run => runs'[k] = runs[k]
                                   /\ runs'[k].source = runs[k].source
                                   /\ runs'[k].started = runs[k].started,
           \A k \in 1..Len(runs) : Renews(candidates, candidates', runs[k])
    PROVE  \A v \in Syncer \ {w} :
              /\ InTime(pc[v], job[v])'
              /\ Working(v)' => Progress(candidates, runs[job[v].run], job[v], pc[v])'
<1>1. ASSUME NEW v \in Syncer, v # w
      PROVE  /\ InTime(pc[v], job[v])'
             /\ Working(v)' => Progress(candidates, runs[job[v].run], job[v], pc[v])'
  <2>1. pc'[v] = pc[v] /\ job'[v] = job[v]
    BY <1>1 DEF OthersStay
  <2>2. Working(v) => runs'[job[v].run] = runs[job[v].run]
    <3>1. Working(v) => job[v].run \in 1..Len(runs) /\ job[v].run # job[w].run
      BY <1>1, Here DEF Apart, Working
    <3> QED
      BY <3>1
  <2> QED
    BY <2>1, <2>2, OtherKept
<1> QED
  BY <1>1

\* A step within a run.
LEMMA CoversOn ==
    ASSUME Typing, Apart, Covers, NEW w \in Syncer, OthersStay(w), Working(w), Working(w)',
           IsFiniteSet(labels'), now' = now,
           job'[w].run = job[w].run, job'[w].started = job[w].started,
           NEW m \in Run, m.started = runs[job[w].run].started,
           m.source = runs[job[w].run].source, runs' = [runs EXCEPT ![job[w].run] = m],
           \A k \in 1..Len(runs) : Renews(candidates, candidates', runs[k]),
           Progress(candidates', m, job'[w], pc'[w])
    PROVE  Covers'
<1>1. job[w].run \in 1..Len(runs)
  BY Here DEF Working
<1>2. Settled(candidates', m)
  BY DEF Progress, Settled
<1>3. /\ Len(runs') = Len(runs) /\ runs'[job[w].run] = m
      /\ \A k \in 1..Len(runs) : /\ k # job[w].run => runs'[k] = runs[k]
                                 /\ runs'[k].source = runs[k].source
                                 /\ runs'[k].started = runs[k].started
                                 /\ Settled(candidates', runs'[k])
  BY <1>1, <1>2, RunsSettled
<1>4. InTime(pc[w], job[w])'
  <2>1. job'[w].source = job[w].source
    BY DEF Covers, Progress
  <2> QED
    BY <1>3, <2>1 DEF Covers, InTime, Working
<1>5. Progress(candidates, runs[job[w].run], job[w], pc[w])'
  BY <1>3
<1>6. \A v \in Syncer \ {w} :
        /\ InTime(pc[v], job[v])'
        /\ Working(v)' => Progress(candidates, runs[job[v].run], job[v], pc[v])'
  BY <1>3, OthersKept
<1>7. \A i \in 1..Len(runs') : runs'[i].started <= now' /\ Settled(candidates', runs'[i])
  BY <1>3 DEF Covers
<1> QED
  BY <1>4, <1>5, <1>6, <1>7 DEF Covers

\* A step within a run that leaves runs and candidates alone.
LEMMA CoversStep ==
    ASSUME Typing, Apart, Covers, NEW w \in Syncer, OthersStay(w), Working(w), Working(w)',
           IsFiniteSet(labels'), now' = now, runs' = runs, candidates' = candidates,
           job'[w].run = job[w].run, job'[w].started = job[w].started,
           Progress(candidates, runs[job[w].run], job'[w], pc'[w])
    PROVE  Covers'
<1>1. /\ runs \in [1..Len(runs) -> Run] /\ job[w].run \in 1..Len(runs)
  BY Length, Here DEF Working
<1> DEFINE m == runs[job[w].run]
<1>2. m \in Run /\ runs' = [runs EXCEPT ![job[w].run] = m] /\ m.started = runs[job[w].run].started
      /\ m.source = runs[job[w].run].source
  BY <1>1
<1>3. \A k \in 1..Len(runs) : Renews(candidates, candidates', runs[k])
  BY DEF Renews
<1>4. Progress(candidates', m, job'[w], pc'[w])
  OBVIOUS
<1> HIDE DEF m
<1> QED
  BY <1>2, <1>3, <1>4, CoversOn

\* The end of a run.
LEMMA CoversEnd ==
    ASSUME Typing, Apart, Covers, NEW w \in Syncer, OthersStay(w), Working(w),
           NEW status \in {"ok", "partial", "failed"}, FinishRun(w, status),
           status = "ok" =>
               \A seed \in Seeds : SeedDone(candidates, runs[job[w].run], seed)
    PROVE  Covers'
<1>1. /\ runs \in [1..Len(runs) -> Run] /\ job[w].run \in 1..Len(runs)
      /\ pc \in [Syncer -> Places]
  BY Length, Here DEF Working
<1> DEFINE r == runs[job[w].run]
           m == [r EXCEPT !.status = status]
<1>2. m \in Run /\ Alike(r, m) /\ m.started = r.started /\ m.status = status
      /\ m.offered = r.offered
  BY <1>1 DEF Run, Alike
<1>3. runs' = [runs EXCEPT ![job[w].run] = m]
  BY DEF FinishRun
<1> HIDE DEF m
<1>4. candidates' = candidates /\ now' = now /\ labels' = labels /\ pc'[w] = "idle"
  BY <1>1 DEF FinishRun, Goto, catalog
<1>5. \A k \in 1..Len(runs) : Renews(candidates, candidates', runs[k])
  BY <1>4 DEF Renews
<1>6. Settled(candidates', m)
  <2>1. \A seed : OfferedOf(r, seed) = OfferedOf(m, seed)
    BY <1>2 DEF OfferedOf
  <2>2. \A seed \in Seeds : IsFiniteSet(OfferedOf(r, seed))
    BY DEF Covers, Progress
  <2>3. Renews(candidates, candidates, r)
    BY DEF Renews
  <2>4. ASSUME NEW seed \in Seeds, status = "ok"
        PROVE  SeedDone(candidates, m, seed)
    BY <1>2, <2>1, <2>2, <2>3, <2>4, SeedKept
  <2> QED
    BY <1>2, <1>4, <2>1, <2>2, <2>4 DEF Settled
<1>7. /\ Len(runs') = Len(runs)
      /\ \A k \in 1..Len(runs) : /\ k # job[w].run => runs'[k] = runs[k]
                                 /\ runs'[k].source = runs[k].source
                                 /\ runs'[k].started = runs[k].started
                                 /\ Settled(candidates', runs'[k])
  <2>1. m.source = r.source
    BY <1>2 DEF Alike
  <2> QED
    BY <1>1, <1>2, <1>3, <1>5, <1>6, <2>1, RunsSettled
<1>8. \A v \in Syncer \ {w} :
        /\ InTime(pc[v], job[v])'
        /\ Working(v)' => Progress(candidates, runs[job[v].run], job[v], pc[v])'
  BY <1>4, <1>5, <1>7, OthersKept
<1>9. InTime(pc[w], job[w])' /\ ~Working(w)'
  BY <1>4 DEF InTime, Working
<1>10. \A i \in 1..Len(runs') : runs'[i].started <= now' /\ Settled(candidates', runs'[i])
  BY <1>4, <1>7 DEF Covers
<1>11. IsFiniteSet(labels')
  BY <1>4 DEF Covers
<1> QED
  BY <1>8, <1>9, <1>10, <1>11 DEF Covers

LEMMA GateCovers ==
    ASSUME Typing, Apart, Covers, NEW w \in Syncer, OthersStay(w), NEW source \in Source,
           PassGate(w, source)
    PROVE  Covers'
<1>1. job \in [Syncer -> Job] /\ pc \in [Syncer -> Places] /\ now \in Nat
  BY Here, RowsStay DEF Rows
<1>2. /\ runs' = runs /\ candidates' = candidates /\ now' = now /\ labels' = labels
      /\ pc'[w] = "start" /\ job'[w].started = now /\ job'[w].excluded = {}
  BY <1>1 DEF PassGate, Goto, catalog, NoJob
<1>3. InTime(pc[w], job[w])' /\ ~Working(w)'
  BY <1>1, <1>2 DEF InTime, Covers, Working
<1>4. \A v \in Syncer \ {w} : pc'[v] = pc[v] /\ job'[v] = job[v]
  BY DEF OthersStay
<1> QED
  BY <1>2, <1>3, <1>4 DEF Covers, Working, InTime

LEMMA StartCovers ==
    ASSUME Typing, Apart, Covers, OnePerSource, NEW w \in Syncer, OthersStay(w), StartRun(w)
    PROVE  Covers'
<1> DEFINE r == [source |-> job[w].source, started |-> job[w].started,
                 status |-> "running", known |-> known, seen |-> job[w].seen,
                 loaded |-> 0, excluded |-> {}, offered |-> {}]
<1>1. /\ job \in [Syncer -> Job] /\ pc \in [Syncer -> Places] /\ job[w] \in Job
      /\ runs \in Seq(Run) /\ Len(runs) \in Nat
  BY Here, Length
<1>2. InTime("start", job[w])
  BY DEF Covers, StartRun
<1>3. /\ runs' = Append(runs, r) /\ candidates' = candidates /\ now' = now
      /\ labels' = labels /\ pc'[w] = "seeds"
  BY <1>1 DEF StartRun, Goto, catalog
<1>4. job'[w].run = Len(runs) + 1 /\ SameCall(job[w], job'[w])
  BY <1>1 DEF StartRun, SameCall, Job
<1>5. /\ r.source = job[w].source /\ r.started = job[w].started /\ r.excluded = {}
      /\ r.status = "running" /\ \A seed : OfferedOf(r, seed) = {}
  BY DEF OfferedOf
<1> HIDE DEF r
<1>6. /\ Len(runs') = Len(runs) + 1 /\ runs'[Len(runs) + 1] = r
      /\ \A i \in 1..Len(runs) : runs'[i] = runs[i]
  BY ONLY <1>1, <1>3
<1>7. IsFiniteSet({})
  BY FS_EmptySet
<1>8. Settled(candidates', r)
  BY <1>5, <1>7 DEF Settled
<1>9. r.started <= now' /\ job'[w].started = r.started
  BY <1>2, <1>3, <1>4, <1>5 DEF InTime, SameCall
<1>10. \A i \in 1..Len(runs') : i \in 1..Len(runs) \/ i = Len(runs) + 1
  BY <1>1, <1>6
<1>11. r.started <= r.started
  BY <1>1, <1>5 DEF Job
<1>12. InTime(pc[w], job[w])'
  <2>1. job'[w].source = job[w].source
    BY <1>4 DEF SameCall
  <2>2. \A i \in 1..Len(runs) : runs[i].source = job[w].source => runs[i].started <= r.started
    BY <1>2, <1>5 DEF InTime
  <2>3. \A i \in 1..Len(runs') : runs'[i].source = job'[w].source =>
                                     runs'[i].started <= job'[w].started
    BY <1>6, <1>9, <1>10, <1>11, <2>1, <2>2
  <2> QED
    BY <1>3, <1>9, <2>3 DEF InTime
<1>13. Progress(candidates', r, job'[w], pc'[w])
  BY <1>2, <1>3, <1>4, <1>5, <1>7 DEF Progress, SameCall, InTime
<1>14. Progress(candidates, runs[job[w].run], job[w], pc[w])'
  BY <1>4, <1>6, <1>13
<1>15. ASSUME NEW v \in Syncer, v # w
       PROVE  /\ InTime(pc[v], job[v])'
              /\ Working(v)' => Progress(candidates, runs[job[v].run], job[v], pc[v])'
  <2>1. pc'[v] = pc[v] /\ job'[v] = job[v]
    BY <1>15 DEF OthersStay
  <2>2. pc[v] # "idle" => r.source # job[v].source
    BY <1>5, <1>15 DEF OnePerSource, StartRun
  <2>3. Working(v) => runs'[job[v].run] = runs[job[v].run]
    BY <1>6, Here DEF Working
  <2>4. \A k \in 1..Len(runs) : Renews(candidates, candidates', runs[k])
    BY <1>3 DEF Renews
  <2>5. \A i \in 1..Len(runs') :
           pc[v] # "idle" /\ runs'[i].source = job[v].source =>
               \E k \in 1..Len(runs) : runs[k].source = runs'[i].source
                                        /\ runs[k].started = runs'[i].started
    BY <1>6, <1>10, <2>2
  <2> QED
    BY <1>3, <2>1, <2>3, <2>4, <2>5, OtherKept
<1>16. \A i \in 1..Len(runs') : runs'[i].started <= now' /\ Settled(candidates', runs'[i])
  BY <1>3, <1>6, <1>8, <1>9, <1>10 DEF Covers
<1> QED
  BY <1>3, <1>12, <1>14, <1>15, <1>16 DEF Covers

\* What a working call knows of itself.
LEMMA OwnRun ==
    ASSUME Typing, Covers, NEW w \in Syncer, Working(w)
    PROVE  /\ job \in [Syncer -> Job] /\ pc \in [Syncer -> Places] /\ job[w] \in Job
           /\ job[w].run \in 1..Len(runs) /\ runs[job[w].run] \in Run
           /\ runs \in [1..Len(runs) -> Run] /\ IsFiniteSet(labels)
           /\ Progress(candidates, runs[job[w].run], job[w], pc[w])
BY Here, Length DEF Covers, Working

LEMMA LoadsCover ==
    ASSUME Typing, Apart, Covers, NEW w \in Syncer, OthersStay(w), LoadSeeds(w) \/ LoadExclusions(w)
    PROVE  Covers'
<1> DEFINE r == runs[job[w].run]
<1>1. Working(w) /\ pc[w] \in {"seeds", "exclusions"}
  BY DEF LoadSeeds, LoadExclusions, Working
<1>2. /\ job \in [Syncer -> Job] /\ pc \in [Syncer -> Places] /\ job[w] \in Job
      /\ job[w].run \in 1..Len(runs) /\ r \in Run /\ IsFiniteSet(labels)
      /\ runs \in [1..Len(runs) -> Run]
      /\ Progress(candidates, r, job[w], pc[w])
  BY <1>1, OwnRun
<1>3. /\ candidates' = candidates /\ now' = now /\ labels' = labels
      /\ pc'[w] \in {"exclusions", "seed"}
  BY <1>2 DEF LoadSeeds, LoadExclusions, Goto, catalog
<1>4. /\ \A seed \in Seeds : OfferedOf(r, seed) = {}
      /\ r.source = job[w].source /\ r.started = job[w].started
      /\ r.excluded = job[w].excluded /\ r.status = "running"
  BY <1>1, <1>2 DEF Progress
<1>5. \A k \in 1..Len(runs) : Renews(candidates, candidates', runs[k])
  BY <1>3 DEF Renews
<1>6. ASSUME NEW m \in Run, runs' = [runs EXCEPT ![job[w].run] = m],
             m.source = job'[w].source, m.started = job'[w].started,
             m.excluded = job'[w].excluded, m.status = "running",
             m.source = r.source, m.started = r.started, m.offered = r.offered,
             job'[w].run = job[w].run, job'[w].seeds \subseteq Seeds
      PROVE  Covers'
  <2>1. \A seed \in Seeds : OfferedOf(m, seed) = {}
    BY <1>4, <1>6 DEF OfferedOf
  <2>2. IsFiniteSet({})
    BY FS_EmptySet
  <2>3. \A seed \in Seeds : SeedDone(candidates', m, seed)
    BY <2>1 DEF SeedDone
  <2>4. Progress(candidates', m, job'[w], pc'[w])
    BY <1>3, <1>6, <2>1, <2>2, <2>3 DEF Progress
  <2>5. job'[w].started = job[w].started
    BY <1>4, <1>6
  <2>6. Working(w)'
    BY <1>3 DEF Working
  <2> QED
    BY <1>1, <1>2, <1>3, <1>5, <1>6, <2>4, <2>5, <2>6, CoversOn
<1>7. CASE LoadSeeds(w)
  <2>1. PICK some \in SUBSET Seeds :
          /\ job' = [job EXCEPT ![w].seeds = some]
          /\ runs' = [runs EXCEPT ![job[w].run].loaded = Cardinality(some)]
          /\ Cardinality(some) \in Nat
    <3>1. PICK some \in SUBSET Seeds :
            /\ job' = [job EXCEPT ![w].seeds = some]
            /\ runs' = [runs EXCEPT ![job[w].run].loaded = Cardinality(some)]
      BY <1>7 DEF LoadSeeds
    <3>2. IsFiniteSet(some)
      BY FS_Subset, ScanConstants
    <3> QED
      BY <3>1, <3>2, FS_CardinalityType
  <2> DEFINE m == [r EXCEPT !.loaded = Cardinality(some)]
  <2>2. runs' = [runs EXCEPT ![job[w].run] = m]
    BY <2>1
  <2>3. /\ m \in Run /\ m.source = r.source /\ m.started = r.started
        /\ m.excluded = r.excluded /\ m.status = r.status /\ m.offered = r.offered
    BY <1>2, <2>1 DEF Run
  <2>4. SameCall(job[w], job'[w]) /\ job'[w].run = job[w].run /\ job'[w].seeds = some
    BY <1>2, <2>1 DEF SameCall, Job
  <2> HIDE DEF m, r
  <2> QED
    BY <1>4, <1>6, <2>2, <2>3, <2>4 DEF SameCall
<1>8. CASE LoadExclusions(w)
  <2> DEFINE excluded == Exclusions(job[w].source)
             m == [r EXCEPT !.excluded = excluded]
  <2>1. /\ job' = [job EXCEPT ![w].excluded = excluded]
        /\ runs' = [runs EXCEPT ![job[w].run] = m]
    BY <1>8 DEF LoadExclusions
  <2>2. excluded \in SUBSET Subject
    BY DEF Exclusions, ArtistExclusions, AlbumExclusions, Subject
  <2> HIDE DEF excluded
  <2>3. /\ m \in Run /\ m.source = r.source /\ m.started = r.started
        /\ m.excluded = excluded /\ m.status = r.status /\ m.offered = r.offered
    BY <1>2, <2>2 DEF Run
  <2>4. /\ job'[w].source = job[w].source /\ job'[w].started = job[w].started
        /\ job'[w].excluded = excluded /\ job'[w].run = job[w].run
        /\ job'[w].seeds = job[w].seeds /\ job[w].seeds \subseteq Seeds
    BY <1>2, <2>1 DEF Job
  <2> HIDE DEF m, r
  <2> QED
    BY <1>4, <1>6, <2>1, <2>3, <2>4
<1> QED
  BY <1>7, <1>8

LEMMA EndCovers ==
    ASSUME Typing, Apart, Covers, NEW w \in Syncer, OthersStay(w),
           NoSeeds(w) \/ LoadFails(w) \/ Finish(w)
    PROVE  Covers'
<1>1. Working(w) /\ pc[w] \in {"seeds", "exclusions", "seed"}
  BY DEF NoSeeds, LoadFails, Finish, Working
<1>2. Progress(candidates, runs[job[w].run], job[w], pc[w])
  BY <1>1, OwnRun
<1>3. CASE LoadFails(w)
  <2>1. FinishRun(w, "failed")
    BY <1>3 DEF LoadFails
  <2> QED
    BY <1>1, <2>1, CoversEnd
<1>4. CASE NoSeeds(w)
  <2>1. FinishRun(w, "ok") /\ pc[w] = "seeds"
    BY <1>4 DEF NoSeeds
  <2>2. \A seed \in Seeds : SeedDone(candidates, runs[job[w].run], seed)
    BY <1>2, <2>1 DEF Progress, SeedDone
  <2> QED
    BY <1>1, <2>1, <2>2, CoversEnd
<1>5. CASE Finish(w)
  <2>1. CASE job[w].flawed
    <3>1. FinishRun(w, "partial")
      BY <1>5, <2>1 DEF Finish
    <3> QED
      BY <1>1, <3>1, CoversEnd
  <2>2. CASE ~job[w].flawed
    <3>1. FinishRun(w, "ok") /\ pc[w] = "seed"
      BY <1>5, <2>2 DEF Finish
    <3>2. \A seed \in Seeds : SeedDone(candidates, runs[job[w].run], seed)
      BY <1>2, <2>2, <3>1 DEF Progress
    <3> QED
      BY <1>1, <3>1, <3>2, CoversEnd
  <2> QED
    BY <2>1, <2>2
<1> QED
  BY <1>3, <1>4, <1>5

LEMMA CutOffCovers ==
    ASSUME Typing, Apart, Covers, NEW w \in Syncer, OthersStay(w), CutOff(w)
    PROVE  Covers'
<1>1. pc \in [Syncer -> Places]
  BY Here
<1>2. /\ runs' = runs /\ candidates' = candidates /\ now' = now /\ labels' = labels
      /\ pc'[w] = "idle"
  BY <1>1 DEF CutOff, Goto, catalog
<1>3. \A v \in Syncer \ {w} : pc'[v] = pc[v] /\ job'[v] = job[v]
  BY DEF OthersStay
<1> QED
  BY <1>2, <1>3 DEF Covers, InTime, Working

LEMMA FiniteAnswers ==
    ASSUME Typing, IsFiniteSet(labels), NEW w \in Syncer, job[w].source \in Source,
           NEW seed \in Seeds, NEW answer \in Answers(w, seed)
    PROVE  IsFiniteSet(answer)
<1>1. \A x : IsFiniteSet({x})
  BY FS_Singleton
<1>2. IsFiniteSet(LeadsOf[job[w].source, seed])
  BY ScanConstants
<1>3. CASE job[w].source = "releases"
  BY <1>1, <1>3 DEF Answers
<1>4. CASE job[w].source = "samelabel"
  <2>1. CASE CachedLabels(seed) # {}
    <3> DEFINE C == CachedLabels(seed)
               f == [l \in C |-> [target |-> l, place |-> 1, weak |-> FALSE]]
    <3>1. answer = {[target |-> l, place |-> 1, weak |-> FALSE] : l \in C}
      BY <1>4, <2>1 DEF Answers
    <3>2. C \in SUBSET labels
      BY DEF CachedLabels
    <3>3. IsFiniteSet(C)
      BY <3>2, FS_Subset
    <3>4. f \in Surjection(C, answer)
      <4> HIDE DEF C
      <4>1. f \in [C -> answer]
        BY <3>1
      <4>2. \A t \in answer : \E l \in C : f[l] = t
        BY <3>1
      <4> QED
        BY <4>1, <4>2 DEF Surjection
    <3> HIDE DEF C, f
    <3> QED
      BY <3>3, <3>4, FS_Surjection
  <2>2. CASE CachedLabels(seed) = {}
    <3>1. answer \in SUBSET LeadsOf[job[w].source, seed]
      BY <1>4, <2>2 DEF Answers
    <3> QED
      BY <1>2, <3>1, FS_Subset
  <2> QED
    BY <2>1, <2>2
<1>5. CASE job[w].source \notin {"releases", "samelabel"}
  BY <1>2, <1>5 DEF Answers
<1> QED
  BY <1>3, <1>4, <1>5

LEMMA FetchCovers ==
    ASSUME Typing, Apart, Covers, NEW w \in Syncer, OthersStay(w),
           NEW seed \in Seeds, FetchLeads(w, seed)
    PROVE  Covers'
<1> DEFINE r == runs[job[w].run]
<1>1. Working(w) /\ pc[w] = "seed" /\ seed \in job[w].seeds
  BY DEF FetchLeads, Working
<1>2. /\ job \in [Syncer -> Job] /\ pc \in [Syncer -> Places] /\ job[w] \in Job
      /\ job[w].run \in 1..Len(runs) /\ r \in Run /\ IsFiniteSet(labels)
      /\ runs \in [1..Len(runs) -> Run] /\ Progress(candidates, r, job[w], "seed")
  BY <1>1, OwnRun
<1>3. PICK answer \in Answers(w, seed) :
        /\ job' = [job EXCEPT ![w].seeds = @ \ {seed}, ![w].leads = Acceptable(w, answer),
                              ![w].followed = 0]
        /\ runs' = [runs EXCEPT ![job[w].run].offered =
                                    @ \cup ({seed} \X Acceptable(w, answer))]
  BY DEF FetchLeads
<1> DEFINE leads == Acceptable(w, answer)
           m == [r EXCEPT !.offered = r.offered \cup ({seed} \X leads)]
<1>4. IsFiniteSet(leads) /\ leads \subseteq Lead
  <2>1. job[w].source \in Source
    BY <1>1, Here
  <2>2. IsFiniteSet(answer)
    BY <1>2, <1>3, <2>1, FiniteAnswers
  <2>3. leads \in SUBSET answer
    BY DEF Acceptable
  <2>4. leads \subseteq Lead
    BY <2>1, AnswersTyped DEF LeadsFor
  <2> QED
    BY <2>2, <2>3, <2>4, FS_Subset
<1>5. runs' = [runs EXCEPT ![job[w].run] = m]
  BY <1>3
<1> HIDE DEF leads
<1>6. /\ m \in Run /\ Alike(r, m) /\ m.status = r.status /\ m.started = r.started
      /\ m.offered = r.offered \cup ({seed} \X leads)
  <2>1. r.offered \cup ({seed} \X leads) \in SUBSET (Seeds \X Lead)
    BY <1>2, <1>4 DEF Run
  <2> QED
    BY <1>2, <2>1 DEF Run, Alike
<1>7. /\ SameCall(job[w], job'[w]) /\ job'[w].run = job[w].run
      /\ job'[w].flawed = job[w].flawed /\ job'[w].seeds = job[w].seeds \ {seed}
      /\ job'[w].leads = leads /\ job'[w].followed = 0 /\ job[w].seeds \subseteq Seeds
  BY <1>2, <1>3 DEF SameCall, Job, leads
<1>8. /\ candidates' = candidates /\ now' = now /\ labels' = labels /\ pc'[w] = "lead"
  BY <1>2 DEF FetchLeads, Goto, catalog
<1> HIDE DEF m, r
<1>9. Progress(candidates, m, job'[w], "lead")
  BY <1>1, <1>2, <1>4, <1>6, <1>7, SeedTaken
<1>10. \A k \in 1..Len(runs) : Renews(candidates, candidates', runs[k])
  BY <1>8 DEF Renews
<1>11. Working(w)' /\ job'[w].started = job[w].started
  BY <1>7, <1>8 DEF Working, SameCall
<1>12. Progress(candidates', m, job'[w], pc'[w]) /\ IsFiniteSet(labels')
  BY <1>2, <1>8, <1>9
<1>13. m \in Run /\ m.started = runs[job[w].run].started /\ m.source = runs[job[w].run].source
  BY <1>6 DEF r, Alike
<1> QED
  BY <1>1, <1>5, <1>7, <1>8, <1>10, <1>11, <1>12, <1>13, CoversOn

\* A step that fails: the run will not end "ok".
LEMMA FlawedCovers ==
    ASSUME Typing, Apart, Covers, NEW w \in Syncer, OthersStay(w),
           \/ \E seed \in Seeds : FetchFails(w, seed)
           \/ \E lead \in job[w].leads : BrowseFails(w, lead)
           \/ \E release \in job[w].shown : AlbumFails(w, release)
           \/ CandidateFails(w)
    PROVE  Covers'
<1>1. /\ Working(w) /\ pc[w] \in {"seed", "lead", "release", "candidate"}
      /\ runs' = runs /\ candidates' = candidates /\ now' = now
  BY DEF FetchFails, BrowseFails, IsNextLead, AlbumFails, IsNextRelease, CandidateFails, Working
<1>2. /\ job \in [Syncer -> Job] /\ pc \in [Syncer -> Places] /\ job[w] \in Job
      /\ IsFiniteSet(labels) /\ Progress(candidates, runs[job[w].run], job[w], pc[w])
  BY <1>1, OwnRun
<1>3. pc'[w] \in {"seed", "lead", "release", "candidate"}
  BY <1>2 DEF FetchFails, BrowseFails, IsNextLead, AlbumFails, IsNextRelease, CandidateFails, Goto
<1>4. /\ SameCall(job[w], job'[w]) /\ job'[w].run = job[w].run /\ job'[w].flawed
      /\ job'[w].seeds \subseteq job[w].seeds
  <2>1. CASE \E seed \in Seeds : FetchFails(w, seed)
    <3>1. \E seed : job' = [job EXCEPT ![w].seeds = job[w].seeds \ {seed}, ![w].flawed = TRUE]
      BY <2>1 DEF FetchFails
    <3> QED
      BY <1>2, <3>1 DEF SameCall, Job
  <2>2. CASE \E lead \in job[w].leads : BrowseFails(w, lead)
    <3>1. \E leads, followed, processed :
            job' = [job EXCEPT ![w].leads = leads, ![w].flawed = TRUE,
                               ![w].followed = followed, ![w].processed = processed]
      BY <2>2 DEF BrowseFails
    <3> QED
      BY <1>2, <3>1 DEF SameCall, Job
  <2>3. CASE \E release \in job[w].shown : AlbumFails(w, release)
    <3>1. \E shown, picked :
            job' = [job EXCEPT ![w].shown = shown, ![w].flawed = TRUE, ![w].picked = picked]
      BY <2>3 DEF AlbumFails
    <3> QED
      BY <1>2, <3>1 DEF SameCall, Job
  <2>4. CASE CandidateFails(w)
    <3>1. \E picked :
            job' = [job EXCEPT ![w].release = None, ![w].flawed = TRUE, ![w].picked = picked]
      BY <2>4 DEF CandidateFails
    <3> QED
      BY <1>2, <3>1 DEF SameCall, Job
  <2> QED
    BY <2>1, <2>2, <2>3, <2>4
<1>5. Progress(candidates, runs[job[w].run], job'[w], pc'[w])
  BY <1>2, <1>3, <1>4, Spoilt
<1>6. IsFiniteSet(labels')
  <2>1. \A t : IsFiniteSet(labels \cup {t})
    BY <1>2, FS_AddElement
  <2>2. labels' = labels \/ \E t : labels' = labels \cup {t}
    BY DEF FetchFails, BrowseFails, UpsertLabel, AlbumFails, CandidateFails, catalog
  <2> QED
    BY <1>2, <2>1, <2>2
<1>7. Working(w)' /\ job'[w].started = job[w].started
  BY <1>3, <1>4 DEF Working, SameCall
<1> QED
  BY <1>1, <1>4, <1>5, <1>6, <1>7, CoversStep

LEMMA BrowseCovers ==
    ASSUME Typing, Apart, Covers, NEW w \in Syncer, OthersStay(w), NEW lead \in job[w].leads,
           BrowseLead(w, lead)
    PROVE  Covers'
<1> DEFINE r == runs[job[w].run]
<1>1. /\ Working(w) /\ pc[w] = "lead" /\ runs' = runs /\ candidates' = candidates /\ now' = now
      /\ job[w].source # "samelabel" => \A l \in job[w].leads : lead.place <= l.place
  BY DEF BrowseLead, IsNextLead, Working
<1>2. /\ job \in [Syncer -> Job] /\ pc \in [Syncer -> Places] /\ job[w] \in Job
      /\ IsFiniteSet(labels) /\ Progress(candidates, r, job[w], "lead")
  BY <1>1, OwnRun
<1>3. r.source = job[w].source /\ r.excluded = job[w].excluded
  BY <1>2 DEF Progress
<1> DEFINE shown == Wanted(job[w].source, job[w].excluded, lead)
<1>4. shown = WantedOf(r, lead)
  BY <1>3 DEF WantedOf
<1>5. \E processed :
        job' = [job EXCEPT ![w].leads = @ \ {lead}, ![w].lead = lead, ![w].followed = @ + 1,
                           ![w].shown = shown, ![w].picked = 0, ![w].processed = processed]
  BY DEF BrowseLead
<1> HIDE DEF shown
<1>6. /\ SameCall(job[w], job'[w]) /\ job'[w].run = job[w].run
      /\ job'[w].flawed = job[w].flawed /\ job'[w].seeds = job[w].seeds
      /\ job'[w].leads = job[w].leads \ {lead} /\ job'[w].lead = lead
      /\ job'[w].followed = job[w].followed + 1
      /\ job'[w].shown = shown /\ job'[w].picked = 0
  BY <1>2, <1>5 DEF SameCall, Job
<1>7. pc'[w] = "release"
  BY <1>2 DEF BrowseLead, Goto
<1> HIDE DEF r
<1>8. Renews(candidates, candidates, r)
  BY DEF Renews
<1>9. ASSUME NEW seed \in Seeds, SeedGoing(candidates, r, job[w], "lead", seed),
             IsFiniteSet(OfferedOf(r, seed))
      PROVE  SeedGoing(candidates, r, job'[w], "release", seed)
  BY <1>1, <1>3, <1>4, <1>6, <1>9, LeadTaken
<1>10. Progress(candidates, r, job'[w], "release")
  BY <1>2, <1>6, <1>8, <1>9, StepTaken
<1>11. IsFiniteSet(labels')
  <2>1. \A t : IsFiniteSet(labels \cup {t})
    BY <1>2, FS_AddElement
  <2>2. labels' = labels \/ \E t : labels' = labels \cup {t}
    BY DEF BrowseLead, UpsertLabel
  <2> QED
    BY <1>2, <2>1, <2>2
<1>12. Working(w)' /\ job'[w].started = job[w].started
  BY <1>6, <1>7 DEF Working, SameCall
<1> QED
  BY <1>1, <1>6, <1>7, <1>10, <1>11, <1>12, CoversStep DEF r

LEMMA LeavesCover ==
    ASSUME Typing, Apart, Covers, NEW w \in Syncer, OthersStay(w), LeadsDone(w) \/ ReleasesDone(w)
    PROVE  Covers'
<1> DEFINE r == runs[job[w].run]
<1>1. /\ Working(w) /\ pc[w] \in {"lead", "release"}
      /\ runs' = runs /\ candidates' = candidates /\ now' = now /\ labels' = labels
  BY DEF LeadsDone, ReleasesDone, catalog, Working
<1>2. /\ job \in [Syncer -> Job] /\ pc \in [Syncer -> Places] /\ job[w] \in Job
      /\ IsFiniteSet(labels) /\ Progress(candidates, r, job[w], pc[w])
  BY <1>1, OwnRun
<1>3. /\ SameCall(job[w], job'[w]) /\ job'[w].run = job[w].run
      /\ job'[w].flawed = job[w].flawed /\ job'[w].seeds = job[w].seeds
      /\ pc'[w] \in {"seed", "lead"}
  BY <1>2 DEF LeadsDone, ReleasesDone, SameCall, Job, Goto
<1>4. job[w].followed \in Nat /\ job[w].picked \in Nat
  BY <1>2 DEF Job
<1>5. ASSUME LeadsDone(w)
      PROVE  Progress(candidates, r, job'[w], pc'[w])
  <2>1. /\ pc[w] = "lead" /\ pc'[w] = "seed"
        /\ job[w].leads = {} \/ job[w].followed >= MaxLeads
    BY <1>2, <1>5 DEF LeadsDone, Goto
  <2> HIDE DEF r
  <2>2. Progress(candidates, r, job'[w], pc'[w])
    BY <1>2, <1>3, <2>1, SeedLeft
  <2> QED
    BY <2>2 DEF r
<1>6. ASSUME ReleasesDone(w)
      PROVE  Progress(candidates, r, job'[w], pc'[w])
  <2>1. /\ pc[w] = "release" /\ pc'[w] = "lead"
        /\ job[w].shown = {} \/ ~PicksLeft(w)
        /\ job'[w].leads = job[w].leads /\ job'[w].followed = job[w].followed
    BY <1>2, <1>6 DEF ReleasesDone, Goto, Job
  <2>2. job[w].lead \in Lead
    BY <2>1, Here DEF LeadsFor
  <2>3. r.source = job[w].source
    BY <1>2 DEF Progress
  <2>4. job[w].shown = {} \/ (r.source # "releases" /\ job[w].picked >= MaxPicks)
    BY <1>4, <2>1, <2>3, Limits DEF PicksLeft
  <2> HIDE DEF r
  <2>5. Renews(candidates, candidates, r)
    BY DEF Renews
  <2>6. \A seed \in Seeds : SeedGoing(candidates, r, job[w], "release", seed) =>
                              SeedGoing(candidates, r, job'[w], "lead", seed)
    BY <2>1, <2>2, <2>4, LeadLeft
  <2>7. Progress(candidates, r, job'[w], pc'[w])
    BY <1>2, <1>3, <2>1, <2>5, <2>6, StepTaken
  <2> QED
    BY <2>7 DEF r
<1>7. Progress(candidates, r, job'[w], pc'[w])
  BY <1>5, <1>6
<1>8. Working(w)' /\ job'[w].started = job[w].started
  BY <1>3 DEF Working, SameCall
<1> QED
  BY <1>1, <1>2, <1>3, <1>7, <1>8, CoversStep

LEMMA UpsertCovers ==
    ASSUME Typing, Apart, Covers, NEW w \in Syncer, OthersStay(w), NEW release \in job[w].shown,
           UpsertAlbum(w, release)
    PROVE  Covers'
<1> DEFINE r == runs[job[w].run]
<1>1. /\ Working(w) /\ pc[w] = "release"
      /\ runs' = runs /\ candidates' = candidates /\ now' = now /\ labels' = labels
      /\ NewestFirst(job[w].source) => \A q \in job[w].shown : q.date <= release.date
  BY DEF UpsertAlbum, IsNextRelease, Working
<1>2. /\ job \in [Syncer -> Job] /\ pc \in [Syncer -> Places] /\ job[w] \in Job
      /\ IsFiniteSet(labels) /\ Progress(candidates, r, job[w], "release")
  BY <1>1, OwnRun
<1>3. /\ SameCall(job[w], job'[w]) /\ job'[w].run = job[w].run
      /\ job'[w].flawed = job[w].flawed /\ job'[w].seeds = job[w].seeds
      /\ job'[w].shown = job[w].shown \ {release} /\ job'[w].release = release
      /\ job'[w].leads = job[w].leads /\ job'[w].lead = job[w].lead
      /\ job'[w].followed = job[w].followed /\ job'[w].picked = job[w].picked
  BY <1>2 DEF UpsertAlbum, SameCall, Job
<1>4. pc'[w] = "candidate"
  BY <1>2 DEF UpsertAlbum, Goto
<1>5. r.source = job[w].source
  BY <1>2 DEF Progress
<1> HIDE DEF r
<1>6. Renews(candidates, candidates, r)
  BY DEF Renews
<1>7. NewestFirst(r.source) => \A q \in job[w].shown : q.date <= release.date
  BY <1>1, <1>5
<1>8. \A seed \in Seeds : SeedGoing(candidates, r, job[w], "release", seed) =>
                            SeedGoing(candidates, r, job'[w], "candidate", seed)
  BY <1>3, <1>7, ReleaseTaken
<1>9. Progress(candidates, r, job'[w], pc'[w])
  BY <1>2, <1>3, <1>4, <1>6, <1>8, StepTaken
<1>10. Working(w)' /\ job'[w].started = job[w].started
  BY <1>3, <1>4 DEF Working, SameCall
<1>11. IsFiniteSet(labels')
  BY <1>1, <1>2
<1> QED
  BY <1>1, <1>3, <1>9, <1>10, <1>11, CoversStep DEF r

\* A row that replaces another of its source expires no earlier.
LEMMA RowRenews ==
    ASSUME NEW r \in Run, NEW cs, NEW row, NEW t \in Nat,
           r.source = row.source => r.started <= t,
           row.expires = t + TTLForSource(row.source)
    PROVE  Renews(cs, {c \in cs : c.album # row.album \/ c.source # row.source} \cup {row}, r)
<1> DEFINE ds == {c \in cs : c.album # row.album \/ c.source # row.source} \cup {row}
<1>1. r.started \in Nat /\ TTLForSource(row.source) \in Nat
  BY ScanConstants DEF Run, TTLForSource
<1>2. r.source = row.source => row.expires >= r.started + TTLForSource(row.source)
  <2>1. \A a, b, c \in Nat : a <= b => b + c >= a + c
    OBVIOUS
  <2> HIDE DEF ds
  <2> QED
    BY <1>1, <2>1
<1>3. ASSUME NEW album, PromotedIn(cs, r, album)
      PROVE  PromotedIn(ds, r, album)
  <2>1. PICK c \in cs : /\ c.album = album /\ c.source = r.source
                        /\ c.expires >= r.started + TTLForSource(r.source)
    BY <1>3 DEF PromotedIn
  <2>2. CASE c \in ds
    BY <2>1, <2>2 DEF PromotedIn
  <2>3. CASE c \notin ds
    <3>1. row.album = album /\ row.source = r.source /\ row \in ds
      BY <2>1, <2>3
    <3> QED
      BY <1>2, <3>1 DEF PromotedIn
  <2> QED
    BY <2>2, <2>3
<1> QED
  BY <1>3 DEF Renews

LEMMA CandidateCovers ==
    ASSUME Typing, Apart, Covers, NEW w \in Syncer, OthersStay(w), UpsertCandidate(w)
    PROVE  Covers'
<1> DEFINE r == runs[job[w].run]
           row == [album |-> job[w].release.album, source |-> job[w].source,
                   expires |-> job[w].started + TTLForSource(job[w].source),
                   run |-> job[w].run, lead |-> job[w].lead]
<1>1. /\ Working(w) /\ pc[w] = "candidate"
      /\ runs' = runs /\ now' = now /\ labels' = labels
      /\ candidates' = {c \in candidates : c.album # row.album \/ c.source # row.source}
                         \cup {row}
  BY DEF UpsertCandidate, Replacing, catalog, Working
<1>2. /\ job \in [Syncer -> Job] /\ pc \in [Syncer -> Places] /\ job[w] \in Job
      /\ job[w].run \in 1..Len(runs) /\ r \in Run /\ runs \in [1..Len(runs) -> Run]
      /\ IsFiniteSet(labels) /\ Progress(candidates, r, job[w], "candidate")
  BY <1>1, OwnRun
<1>3. /\ SameCall(job[w], job'[w]) /\ job'[w].run = job[w].run
      /\ job'[w].flawed = job[w].flawed /\ job'[w].seeds = job[w].seeds
      /\ job'[w].shown = job[w].shown
      /\ job'[w].leads = job[w].leads /\ job'[w].lead = job[w].lead
      /\ job'[w].followed = job[w].followed /\ job'[w].picked = job[w].picked + 1
  BY <1>2 DEF UpsertCandidate, SameCall, Job
<1>4. pc'[w] = "release"
  BY <1>2 DEF UpsertCandidate, Goto
<1>5. r.source = job[w].source /\ r.started = job[w].started
  BY <1>2 DEF Progress
<1>6. /\ row.album = job[w].release.album /\ row.source = job[w].source
      /\ row.expires = job[w].started + TTLForSource(row.source)
  OBVIOUS
<1> HIDE DEF row
<1>7. ASSUME NEW k \in 1..Len(runs) PROVE Renews(candidates, candidates', runs[k])
  <2>1. runs[k] \in Run /\ job[w].started \in Nat
    BY <1>2 DEF Job
  <2>2. runs[k].source = row.source => runs[k].started <= job[w].started
    BY <1>1, <1>6 DEF Covers, InTime, Working
  <2> HIDE DEF r
  <2> QED
    BY <1>1, <1>6, <2>1, <2>2, RowRenews
<1>8. Renews(candidates, candidates', r)
  BY <1>2, <1>7
<1> HIDE DEF r
<1>9. PromotedIn(candidates', r, job[w].release.album)
  <2>1. row \in candidates'
    BY <1>1
  <2>2. job[w].started + TTLForSource(r.source) \in Nat
    <3>1. job[w].started \in Nat
      BY <1>2 DEF Job
    <3>2. TTLForSource(r.source) \in Nat
      BY ScanConstants DEF TTLForSource
    <3> QED
      BY <3>1, <3>2
  <2>3. \A n \in Nat : n >= n
    OBVIOUS
  <2>4. row.expires >= r.started + TTLForSource(r.source)
    BY <1>5, <1>6, <2>2, <2>3
  <2> QED
    BY <1>5, <1>6, <2>1, <2>4 DEF PromotedIn
<1>10. job[w].lead \in Lead
  BY <1>1, Here DEF LeadsFor
<1>11. \A seed \in Seeds : SeedGoing(candidates, r, job[w], "candidate", seed) =>
                             SeedGoing(candidates', r, job'[w], "release", seed)
  BY <1>3, <1>8, <1>9, <1>10, CandidateKept
<1>12. Progress(candidates', r, job'[w], pc'[w])
  BY <1>2, <1>3, <1>4, <1>8, <1>11, StepTaken
<1>13. Working(w)' /\ job'[w].started = job[w].started
  BY <1>3, <1>4 DEF Working, SameCall
<1>14. runs' = [runs EXCEPT ![job[w].run] = r] /\ r.started = runs[job[w].run].started
       /\ r.source = runs[job[w].run].source
  BY <1>1, <1>2 DEF r
<1>15. IsFiniteSet(labels')
  BY <1>1, <1>2
<1> QED
  BY <1>1, <1>2, <1>3, <1>7, <1>12, <1>13, <1>14, <1>15, CoversOn

LEMMA CoversHolds ==
    ASSUME Typing, Apart, Covers, OnePerSource, [Next]_vars
    PROVE  Covers'
<1>1. CASE Tick
  <2>1. /\ runs' = runs /\ pc' = pc /\ job' = job /\ candidates' = candidates
        /\ labels' = labels /\ now' = now + 1 /\ now \in Nat
    BY <1>1, RowsStay DEF Tick, catalog, Rows
  <2>2. \A n \in Nat : n <= now => n <= now'
    BY <2>1
  <2>3. \A i \in 1..Len(runs) : runs[i].started \in Nat
    BY Length DEF Run
  <2>4. \A v \in Syncer : job[v].started \in Nat
    BY Here DEF Job
  <2>5. \A v \in Syncer : InTime(pc[v], job[v])'
    BY <2>1, <2>2, <2>4 DEF Covers, InTime
  <2> QED
    BY <2>1, <2>2, <2>3, <2>5 DEF Covers, Working
<1>2. CASE (\E s \in Subject : Know(s)) \/ UNCHANGED vars
  <2>1. /\ runs' = runs /\ pc' = pc /\ job' = job /\ candidates' = candidates
        /\ labels' = labels /\ now' = now
    BY <1>2 DEF Know, vars, catalog
  <2> QED
    BY <2>1 DEF Covers, InTime, Working
<1>3. ASSUME NEW w \in Syncer, Sync(w)
      PROVE  Covers'
  <2>1. OthersStay(w)
    BY <1>3, OneMoves DEF OthersStay
  <2> QED
    BY <1>3, <2>1, GateCovers, StartCovers, LoadsCover, EndCovers, CutOffCovers, FetchCovers,
       FlawedCovers, BrowseCovers, LeavesCover, UpsertCovers, CandidateCovers
       DEF Sync, Begin, EachSeed, EachLead, EachRelease
<1> QED
  BY <1>1, <1>2, <1>3 DEF Next

(***************************************************************************)
(* A run that ends "ok" covered what its limits allow: of each seed's      *)
(* leads the best MaxLeads or all of them, and of each lead the newest     *)
(* MaxPicks release groups or all there are; for any catalog and limits,   *)
(* and for any number of calls that overlap as they like, as long as no    *)
(* two of one service do.  Two of those that passed the gate together may  *)
(* end the other way round, and the row that the older one writes last     *)
(* expires before the younger one promised.                                *)
(***************************************************************************)
THEOREM OkRunCoversLeadsHolds ==
    Spec /\ []OnePerSource => []OkRunCoversLeads
<1>1. Init => Covers
  <2>1. runs = <<>> => 1..Len(runs) = {}
    OBVIOUS
  <2>2. IsFiniteSet({})
    BY FS_EmptySet
  <2> QED
    BY <2>1, <2>2 DEF Init, Covers, InTime, Working
<1>2. ASSUME Typing, Covers
      PROVE  OkRunCoversLeads
  <2>1. runs \in [1..Len(runs) -> Run] /\ DOMAIN runs = 1..Len(runs)
    BY <1>2, Length
  <2>2. ASSUME NEW i \in DOMAIN runs, runs[i].status = "ok", NEW seed \in Seeds,
               NEW lead \in Lead, <<seed, lead>> \in runs[i].offered,
               NEW O, O = {p[2] : p \in {p \in runs[i].offered : p[1] = seed}}
        PROVE  \/ Covered(i, lead)
               \/ MaxLeads <= Cardinality(
                    {l \in O \ {lead} :
                        /\ runs[i].source # "samelabel" => l.place <= lead.place
                        /\ Covered(i, l)})
    <3> DEFINE r == runs[i]
    <3>1. r \in Run /\ r.offered \subseteq Seeds \X Lead
      BY <2>1 DEF Run
    <3>2. SeedDone(candidates, r, seed)
      BY <1>2, <2>1, <2>2 DEF Covers, Settled
    <3>3. O = OfferedOf(r, seed)
      <4>1. \A l : l \in O <=> \E p \in r.offered : p[1] = seed /\ p[2] = l
        BY <2>2
      <4>2. \A p \in r.offered : p = <<p[1], p[2]>> /\ p[2] \in Lead
        BY <3>1
      <4>3. ASSUME NEW l PROVE l \in O <=> l \in OfferedOf(r, seed)
        <5> HIDE DEF r
        <5>1. l \in O => l \in OfferedOf(r, seed)
          BY <4>1, <4>2 DEF OfferedOf
        <5>2. l \in OfferedOf(r, seed) => l \in O
          <6>1. <<seed, l>>[1] = seed /\ <<seed, l>>[2] = l
            OBVIOUS
          <6> QED
            BY <4>1, <6>1 DEF OfferedOf
        <5> QED
          BY <5>1, <5>2
      <4> QED
        BY <4>3
    <3>4. \A l : Covered(i, l) <=> CoveredIn(candidates, r, l)
      <4>1. ASSUME NEW l, NEW q \in Wanted(r.source, r.excluded, l)
            PROVE  Served(i, l, q) <=> ServedIn(candidates, r, l, q)
        <5>1. \A album : Promoted(i, album) <=> PromotedIn(candidates, r, album)
          BY DEF Promoted, PromotedIn
        <5>2. {p \in Wanted(r.source, r.excluded, l) \ {q} :
                  /\ NewestFirst(r.source) => p.date >= q.date
                  /\ Promoted(i, p.album)}
              = {p \in Before(r, l, q) : PromotedIn(candidates, r, p.album)}
          BY <5>1 DEF Before, WantedOf
        <5> QED
          BY <5>1, <5>2 DEF Served, ServedIn
      <4> QED
        BY <4>1 DEF Covered, CoveredIn, WantedOf
    <3>5. {l \in O \ {lead} : /\ r.source # "samelabel" => l.place <= lead.place
                              /\ Covered(i, l)}
          = {l \in Above(r, seed, lead) : CoveredIn(candidates, r, l)}
      BY <3>3, <3>4 DEF Above
    <3>6. lead \in OfferedOf(r, seed)
      BY <2>2 DEF OfferedOf
    <3> QED
      BY <3>2, <3>4, <3>5, <3>6 DEF SeedDone
  <2>3. ASSUME NEW i \in DOMAIN runs, runs[i].status = "ok", NEW o \in runs[i].offered
        PROVE  \/ Covered(i, o[2])
               \/ MaxLeads <= Cardinality(
                    {l \in {p[2] : p \in {p \in runs[i].offered : p[1] = o[1]}} \ {o[2]} :
                        /\ runs[i].source # "samelabel" => l.place <= o[2].place
                        /\ Covered(i, l)})
    <3>1. runs[i].offered \subseteq Seeds \X Lead
      BY <2>1 DEF Run
    <3>2. o[1] \in Seeds /\ o[2] \in Lead /\ <<o[1], o[2]>> \in runs[i].offered
      BY <2>3, <3>1
    <3> QED
      BY <2>2, <2>3, <3>2
  <2> QED
    BY <2>3 DEF OkRunCoversLeads
<1>3. Typing /\ Apart /\ Covers /\ OnePerSource /\ [Next]_vars => Covers'
  BY CoversHolds
<1> QED
  BY <1>1, <1>2, <1>3, TypingHolds, ApartAlways, PTL DEF Spec

=============================================================================
