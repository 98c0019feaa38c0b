-------------------------- MODULE LibrarySyncProofs --------------------------
(* Theorems about LibrarySync, for any workers, artists, albums and mbids. *)
EXTENDS LibrarySync, TLAPS

USE ConstantsOK

LEMMA PlaceholderKeys ==
    /\ \A s \in SpArtist : Placeholder(s) \in ArtistKey
    /\ \A a \in SpAlbum : Placeholder(a) \in AlbumKey
    /\ Mbid \subseteq ArtistKey
    /\ RgMbid \subseteq AlbumKey
  BY DEF ArtistKey, AlbumKey

LEMMA NoJobType == NoJob \in Job
  BY DEF NoJob, Job

LEMMA InitTypeOK == Init => TypeOK
<1> SUFFICES ASSUME Init PROVE TypeOK
  OBVIOUS
<1>1. PICK known \in SUBSET Mbid, played \in SUBSET SpAlbum :
        /\ artists = [k \in ArtistKey |->
               IF k \in known THEN Null
               ELSE IF \E a \in played : k = Placeholder(ArtistOf[a])
                    THEN CHOOSE s \in SpArtist : k = Placeholder(s)
                    ELSE NoRow]
        /\ albums = [k \in AlbumKey |->
               IF \E a \in played : k = Placeholder(a)
               THEN LET a == CHOOSE a \in played : k = Placeholder(a)
                    IN  [spotify_id |-> a, primary |-> Placeholder(ArtistOf[a])]
               ELSE NoRow]
  BY DEF Init
<1>2. artists \in [ArtistKey -> SpArtist \cup {Null, NoRow}]
  <2>1. ASSUME NEW k \in ArtistKey,
               \E a \in played : k = Placeholder(ArtistOf[a])
        PROVE  (CHOOSE s \in SpArtist : k = Placeholder(s)) \in SpArtist
    BY <2>1 DEF ConstantsOK
  <2> QED
    BY <1>1, <2>1
<1>3. albums \in [AlbumKey -> AlbumRow \cup {NoRow}]
  <2>1. ASSUME NEW k \in AlbumKey, \E a \in played : k = Placeholder(a)
        PROVE  (CHOOSE a \in played : k = Placeholder(a)) \in SpAlbum
    BY <2>1
  <2>2. \A a \in SpAlbum :
           [spotify_id |-> a, primary |-> Placeholder(ArtistOf[a])] \in AlbumRow
    BY PlaceholderKeys DEF AlbumRow, ConstantsOK
  <2> QED
    BY <1>1, <2>1, <2>2
<1>4. /\ saved \subseteq Subject
      /\ signals \in [Subject -> Nat]
      /\ run \in [Worker -> {"none", "running", "ok", "partial", "failed"}]
      /\ pc \in [Worker -> Label]
      /\ job \in [Worker -> Job]
  BY NoJobType DEF Init, Label
<1>5. \A w \in Worker : LocalsSet(w)
  BY DEF Init, LocalsSet, InBucket, InArtist, InAlbum
<1> QED
  BY <1>2, <1>3, <1>4, <1>5 DEF TypeOK

(***************************************************************************)
(* Only worker w moves, and its record keeps its type, action by action.   *)
(***************************************************************************)
LEMMA StepJobType ==
    ASSUME TypeOK, NEW w \in Worker, Step(w) \/ Abort(w)
    PROVE  \E j \in Job : job' = [job EXCEPT ![w] = j]
<1>0. job \in [Worker -> Job] /\ job[w] \in Job /\ LocalsSet(w)
  BY DEF TypeOK
<1>1. CASE job' = job
  BY <1>0, <1>1
<1>2. CASE Start(w) \/ Abort(w)
  BY <1>2, NoJobType DEF Start, Abort
<1>3. CASE Gather(w)
  <2>1. PICK f \in SUBSET SpArtist, l \in SUBSET SpAlbum, err \in BOOLEAN :
         job' = [job EXCEPT ![w] =
                   [@ EXCEPT !.follows = f, !.library = l, !.flawed = err,
                             !.todo = f \cup {ArtistOf[a] : a \in l}]]
    BY <1>3 DEF Gather
  <2> DEFINE T == f \cup {ArtistOf[a] : a \in l}
  <2>2. T \in SUBSET SpArtist
    BY DEF ConstantsOK
  <2> HIDE DEF T
  <2>3. [job[w] EXCEPT !.follows = f, !.library = l, !.flawed = err,
                       !.todo = T] \in Job
    BY <1>0, <2>2 DEF Job
  <2> QED
    BY <2>1, <2>3 DEF T
<1>4. CASE NextBucket(w)
  <2>1. PICK s \in job[w].todo :
          job' = [job EXCEPT ![w] =
              [@ EXCEPT !.todo = job[w].todo \ {s}, !.bucket = s,
                        !.albumsTodo = {a \in job[w].library : ArtistOf[a] = s}]]
    BY <1>4 DEF NextBucket
  <2> DEFINE T == {a \in job[w].library : ArtistOf[a] = s}
  <2>2. s \in SpArtist /\ T \in SUBSET SpAlbum
    BY <1>0 DEF Job
  <2> HIDE DEF T
  <2>3. [job[w] EXCEPT !.todo = job[w].todo \ {s}, !.bucket = s, !.albumsTodo = T] \in Job
    BY <1>0, <2>2 DEF Job
  <2> QED
    BY <2>1, <2>3 DEF T
<1>5. CASE ResolveArtist(w)
  <2>1. PICK m \in Mbid : job' = [job EXCEPT ![w].mbid = m]
    BY <1>5 DEF ResolveArtist
  <2>2. [job[w] EXCEPT !.mbid = m] \in Job
    BY <1>0, PlaceholderKeys DEF Job
  <2> QED
    BY <2>1, <2>2
<1>6. CASE ArtistUnresolved(w)
  <2>1. Placeholder(job[w].bucket) \in ArtistKey
    BY <1>6, <1>0, PlaceholderKeys
       DEF ArtistUnresolved, LocalsSet, InBucket, Label
  <2>2. [job[w] EXCEPT !.flawed = TRUE] \in Job
    BY <1>0 DEF Job
  <2>3. [job[w] EXCEPT !.flawed = TRUE,
                       !.mbid = Placeholder(job[w].bucket)] \in Job
    BY <1>0, <2>1 DEF Job
  <2>4. CASE job' = [job EXCEPT ![w].flawed = TRUE,
                               ![w].mbid = Placeholder(job[w].bucket)]
    <3>1. job' = [job EXCEPT ![w] = [job[w] EXCEPT !.flawed = TRUE,
                                     !.mbid = Placeholder(job[w].bucket)]]
      BY <2>4, <1>0
    <3> QED
      BY <2>3, <3>1
  <2>5. CASE Spoil(w)
    BY <2>5, <2>2 DEF Spoil
  <2> QED
    BY <1>1, <1>6, <2>4, <2>5 DEF ArtistUnresolved
<1>7. CASE InsertSavedArtist(w)
  <2>1. job[w].bucket \in SpArtist
    BY <1>7, <1>0 DEF InsertSavedArtist, LocalsSet, InBucket, Label
  <2>2. [job[w] EXCEPT !.kept = @ \cup {job[w].bucket}] \in Job
    BY <1>0, <2>1 DEF Job
  <2> QED
    BY <1>7, <2>2 DEF InsertSavedArtist
<1>8. CASE ResolveAlbum(w)
  <2>1. PICK a \in SpAlbum, r \in RgMbid, credit \in Mbid \cup {Null} :
          job' = [job EXCEPT ![w] =
              [@ EXCEPT !.albumsTodo = job[w].albumsTodo \ {a},
                 !.album = a, !.rg = r, !.primary = IF credit = Null THEN job[w].mbid ELSE credit]]
    BY <1>8 DEF ResolveAlbum
  <2> DEFINE p == IF credit = Null THEN job[w].mbid ELSE credit
  <2>2. p \in ArtistKey \cup {Null}
    BY <1>0, PlaceholderKeys DEF Job
  <2> HIDE DEF p
  <2>3. [job[w] EXCEPT !.albumsTodo = job[w].albumsTodo \ {a}, !.album = a, !.rg = r,
                       !.primary = p] \in Job
    BY <1>0, <2>2 DEF Job
  <2> QED
    BY <2>1, <2>3 DEF p
<1>9. CASE AlbumUnresolved(w)
  <2>1. PICK a \in SpAlbum : job' = [job EXCEPT ![w] =
              [@ EXCEPT !.albumsTodo = job[w].albumsTodo \ {a}, !.flawed = TRUE]]
    BY <1>9 DEF AlbumUnresolved
  <2>2. [job[w] EXCEPT !.albumsTodo = job[w].albumsTodo \ {a}, !.flawed = TRUE] \in Job
    BY <1>0 DEF Job
  <2> QED
    BY <2>1, <2>2
<1>10. CASE InsertSavedAlbum(w)
  <2>1. job[w].album \in SpAlbum
    BY <1>10, <1>0 DEF InsertSavedAlbum, LocalsSet, InAlbum
  <2>2. [job[w] EXCEPT !.kept = @ \cup {job[w].album}] \in Job
    BY <1>0, <2>1 DEF Job
  <2> QED
    BY <1>10, <2>2 DEF InsertSavedAlbum
<1>11. CASE BucketDone(w) \/ ArtistFails(w)
  <2>1. LeaveBucket(w) \in Job /\ [LeaveBucket(w) EXCEPT !.flawed = TRUE] \in Job
    BY <1>0 DEF LeaveBucket, Job
  <2> QED
    BY <1>11, <2>1 DEF BucketDone, ArtistFails
<1>12. CASE SaveFails(w)
  <2>1. [job[w] EXCEPT !.flawed = TRUE] \in Job
    BY <1>0 DEF Job
  <2> QED
    BY <1>12, <2>1 DEF SaveFails, Spoil
<1>13. CASE Finish(w)
  <2>1. [NoJob EXCEPT !.follows = job[w].follows,
                      !.library = job[w].library, !.kept = job[w].kept] \in Job
    BY <1>0, NoJobType DEF Job
  <2> QED
    BY <1>13, <2>1, NoJobType DEF Finish
<1> QED
  BY <1>1, <1>2, <1>3, <1>4, <1>5, <1>6, <1>7, <1>8, <1>9, <1>10, <1>11,
     <1>12, <1>13
     DEF Step, AccessTokenOK, AccessTokenFails, UpdateArtist, InsertArtist,
         AppendFollowAdd, UpdateAlbumArtist, InsertAlbumArtist, UpdateAlbum,
         InsertAlbum, AppendLibraryAdd, AlbumArtistFails

LEMMA StepControl ==
    ASSUME TypeOK, NEW w \in Worker, Step(w) \/ Abort(w)
    PROVE  \E l \in Label : pc' = [pc EXCEPT ![w] = l]
<1>0. pc[w] \in Label /\ pc = [pc EXCEPT ![w] = pc[w]]
  BY DEF TypeOK
<1> USE DEF Goto, Label
<1>1. CASE Start(w) \/ AccessTokenOK(w) \/ AccessTokenFails(w) \/ Gather(w) \/ NextBucket(w)
  BY <1>0, <1>1 DEF Start, AccessTokenOK, AccessTokenFails, Gather, NextBucket
<1>2. CASE ResolveArtist(w) \/ ArtistUnresolved(w) \/ UpdateArtist(w) \/ InsertArtist(w)
  BY <1>0, <1>2 DEF ResolveArtist, ArtistUnresolved, UpdateArtist, InsertArtist, AfterArtist
<1>3. CASE InsertSavedArtist(w) \/ AppendFollowAdd(w) \/ ResolveAlbum(w) \/ AlbumUnresolved(w)
  BY <1>0, <1>3 DEF InsertSavedArtist, AppendFollowAdd, ResolveAlbum, AlbumUnresolved
<1>4. CASE UpdateAlbumArtist(w) \/ InsertAlbumArtist(w) \/ UpdateAlbum(w) \/ InsertAlbum(w)
  BY <1>0, <1>4 DEF UpdateAlbumArtist, InsertAlbumArtist, UpdateAlbum, InsertAlbum
<1>5. CASE InsertSavedAlbum(w) \/ AppendLibraryAdd(w) \/ BucketDone(w) \/ ArtistFails(w)
  BY <1>0, <1>5 DEF InsertSavedAlbum, AppendLibraryAdd, BucketDone, ArtistFails
<1>6. CASE SaveFails(w) \/ AlbumArtistFails(w) \/ Finish(w) \/ Abort(w)
  BY <1>0, <1>6 DEF SaveFails, AlbumArtistFails, Finish, Abort
<1> QED
  BY <1>1, <1>2, <1>3, <1>4, <1>5, <1>6 DEF Step

(***************************************************************************)
(* The locals each label relies on are set when the label is reached.      *)
(***************************************************************************)
LEMMA StepLocalsSet ==
    ASSUME TypeOK, NEW w \in Worker, Step(w) \/ Abort(w)
    PROVE  LocalsSet(w)'
<1> USE DEF Goto, Label, LocalsSet, InBucket, InArtist, InAlbum
<1>0. /\ pc[w] \in Label /\ job \in [Worker -> Job] /\ job[w] \in Job
      /\ pc \in [Worker -> Label]
      /\ LocalsSet(w)
  BY DEF TypeOK
<1>1. CASE Start(w)
  BY <1>0, <1>1 DEF Start
<1>2. CASE AccessTokenOK(w)
  BY <1>0, <1>2 DEF AccessTokenOK
<1>3. CASE AccessTokenFails(w)
  BY <1>0, <1>3 DEF AccessTokenFails
<1>4. CASE Gather(w)
  BY <1>0, <1>4 DEF Gather, Job
<1>5. CASE NextBucket(w)
  BY <1>0, <1>5 DEF NextBucket, Job
<1>6. CASE ResolveArtist(w)
  BY <1>0, <1>6, PlaceholderKeys DEF ResolveArtist
<1>7. CASE ArtistUnresolved(w)
  BY <1>0, <1>7, PlaceholderKeys DEF ArtistUnresolved, Spoil, Followed, Job
<1>8. CASE UpdateArtist(w)
  BY <1>0, <1>8 DEF UpdateArtist, AfterArtist
<1>9. CASE InsertArtist(w)
  BY <1>0, <1>9 DEF InsertArtist, AfterArtist
<1>10. CASE InsertSavedArtist(w)
  BY <1>0, <1>10 DEF InsertSavedArtist
<1>11. CASE AppendFollowAdd(w)
  BY <1>0, <1>11 DEF AppendFollowAdd
<1>12. CASE ResolveAlbum(w)
  <2>1. PICK a \in SpAlbum, r \in RgMbid, credit \in Mbid \cup {Null} :
          /\ NextAlbum(w, a)
          /\ job' = [job EXCEPT ![w] =
              [@ EXCEPT !.albumsTodo = job[w].albumsTodo \ {a},
                 !.album = a, !.rg = r,
                 !.primary = IF credit = Null THEN job[w].mbid ELSE credit]]
          /\ Goto(w, IF credit = Null THEN "upsertAlbum" ELSE "upsertAlbumArtist")
    BY <1>12 DEF ResolveAlbum
  <2>2. /\ job'[w].bucket = job[w].bucket /\ job'[w].album = a
        /\ job'[w].rg = r
        /\ job'[w].primary = IF credit = Null THEN job[w].mbid ELSE credit
    BY <2>1, <1>0 DEF Job
  <2>3. pc[w] = "albums" /\ pc'[w] \in {"upsertAlbum", "upsertAlbumArtist"}
        /\ (pc'[w] = "upsertAlbumArtist" => credit # Null)
    BY <2>1, <1>0 DEF NextAlbum
  <2> QED
    BY <1>0, <2>2, <2>3, PlaceholderKeys
<1>13. CASE AlbumUnresolved(w)
  BY <1>0, <1>13 DEF AlbumUnresolved
<1>14. CASE UpdateAlbumArtist(w)
  BY <1>0, <1>14 DEF UpdateAlbumArtist
<1>15. CASE InsertAlbumArtist(w)
  BY <1>0, <1>15 DEF InsertAlbumArtist
<1>16. CASE UpdateAlbum(w)
  BY <1>0, <1>16 DEF UpdateAlbum
<1>17. CASE InsertAlbum(w)
  BY <1>0, <1>17 DEF InsertAlbum
<1>18. CASE InsertSavedAlbum(w)
  BY <1>0, <1>18 DEF InsertSavedAlbum
<1>19. CASE AppendLibraryAdd(w)
  BY <1>0, <1>19 DEF AppendLibraryAdd
<1>20. CASE BucketDone(w)
  BY <1>0, <1>20 DEF BucketDone
<1>21. CASE ArtistFails(w)
  BY <1>0, <1>21 DEF ArtistFails
<1>22. CASE SaveFails(w)
  BY <1>0, <1>22 DEF SaveFails, Spoil
<1>23. CASE AlbumArtistFails(w)
  BY <1>0, <1>23 DEF AlbumArtistFails
<1>24. CASE Finish(w)
  BY <1>0, <1>24 DEF Finish
<1>25. CASE Abort(w)
  BY <1>0, <1>25 DEF Abort
<1> QED
  BY <1>1, <1>2, <1>3, <1>4, <1>5, <1>6, <1>7, <1>8, <1>9, <1>10,
            <1>11, <1>12, <1>13, <1>14, <1>15, <1>16, <1>17, <1>18, <1>19,
            <1>20, <1>21, <1>22, <1>23, <1>24, <1>25
     DEF Step

LEMMA NewPrimaryType ==
    ASSUME TypeOK, NEW w \in Worker, NEW k \in AlbumKey
    PROVE  NewPrimary(w, k) \in ArtistKey \cup {Null}
  BY DEF NewPrimary, TypeOK, Job, AlbumRow

(***************************************************************************)
(* The rows written keep the tables' types.                                *)
(***************************************************************************)
LEMMA StepTables ==
    ASSUME TypeOK, NEW w \in Worker, Step(w) \/ Abort(w)
    PROVE  /\ artists' \in [ArtistKey -> SpArtist \cup {Null, NoRow}]
           /\ albums' \in [AlbumKey -> AlbumRow \cup {NoRow}]
           /\ saved' \subseteq Subject
           /\ signals' \in [Subject -> Nat]
           /\ run' \in [Worker -> {"none", "running", "ok", "partial", "failed"}]
<1> USE DEF catalogVars
<1>0. /\ artists \in [ArtistKey -> SpArtist \cup {Null, NoRow}]
      /\ albums \in [AlbumKey -> AlbumRow \cup {NoRow}]
      /\ saved \subseteq Subject
      /\ signals \in [Subject -> Nat]
      /\ run \in [Worker -> {"none", "running", "ok", "partial", "failed"}]
      /\ job[w] \in Job /\ LocalsSet(w)
  BY DEF TypeOK
<1>1. CASE Start(w) \/ AccessTokenFails(w) \/ Finish(w)
  BY <1>0, <1>1 DEF Start, AccessTokenFails, Finish
<1>2. CASE InsertArtist(w)
  BY <1>0, <1>2 DEF InsertArtist, LocalsSet, InBucket, Label
<1>3. CASE InsertAlbumArtist(w)
  BY <1>0, <1>3 DEF InsertAlbumArtist, LocalsSet, InBucket, Label
<1>4. CASE InsertSavedArtist(w)
  BY <1>0, <1>4 DEF InsertSavedArtist, LocalsSet, InArtist, Subject
<1>5. CASE InsertSavedAlbum(w)
  BY <1>0, <1>5, PlaceholderKeys DEF InsertSavedAlbum, LocalsSet, InAlbum, Subject
<1>6. CASE AppendFollowAdd(w)
  <2>1. job[w].bucket \in SpArtist /\ job[w].mbid \in Subject
    BY <1>0, <1>6
       DEF AppendFollowAdd, LocalsSet, InBucket, InArtist, Label, Subject
  <2> QED
    BY <1>0, <1>6, <2>1 DEF AppendFollowAdd
<1>7. CASE AppendLibraryAdd(w)
  <2>1. job[w].rg \in Subject
    BY <1>0, <1>7, PlaceholderKeys
       DEF AppendLibraryAdd, LocalsSet, InAlbum, Subject
  <2> QED
    BY <1>0, <1>7, <2>1 DEF AppendLibraryAdd
<1>8. CASE UpdateAlbum(w)
  <2>1. CASE OtherAlbumRows(w) = {}
    BY <1>0, <1>8, <2>1 DEF UpdateAlbum
  <2>2. CASE OtherAlbumRows(w) # {}
    <3>1. albums' = [k \in AlbumKey |->
                 IF k \in OtherAlbumRows(w)
                 THEN [albums[k] EXCEPT !.primary = NewPrimary(w, k)]
                 ELSE albums[k]]
      BY <1>8, <2>2 DEF UpdateAlbum
    <3>2. ASSUME NEW k \in OtherAlbumRows(w)
          PROVE  [albums[k] EXCEPT !.primary = NewPrimary(w, k)] \in AlbumRow
      <4>1. k \in AlbumKey /\ albums[k] \in AlbumRow
        BY <1>0 DEF OtherAlbumRows
      <4>2. NewPrimary(w, k) \in ArtistKey \cup {Null}
        BY <4>1, NewPrimaryType
      <4> QED
        BY <4>1, <4>2 DEF AlbumRow
    <3> QED
      BY <1>0, <1>8, <3>1, <3>2 DEF UpdateAlbum
  <2> QED
    BY <2>1, <2>2
<1>9. CASE InsertAlbum(w)
  <2>1. job[w].rg \in AlbumKey /\ job[w].album \in SpAlbum
    BY <1>0, <1>9, PlaceholderKeys DEF InsertAlbum, LocalsSet, InAlbum
  <2>2. NewPrimary(w, job[w].rg) \in ArtistKey \cup {Null}
    BY <2>1, NewPrimaryType
  <2> QED
    BY <1>0, <1>9, <2>1, <2>2 DEF InsertAlbum, AlbumRow
<1> QED
  BY <1>0, <1>1, <1>2, <1>3, <1>4, <1>5, <1>6, <1>7, <1>8, <1>9
     DEF Step, AccessTokenOK, Gather, NextBucket, ResolveArtist,
         ArtistUnresolved, UpdateArtist, ResolveAlbum, AlbumUnresolved,
         UpdateAlbumArtist, BucketDone, ArtistFails, SaveFails,
         AlbumArtistFails, Abort

LEMMA StepTypeOK ==
    ASSUME TypeOK, NEW w \in Worker, Step(w) \/ Abort(w)
    PROVE  TypeOK'
<1>1. PICK l \in Label : pc' = [pc EXCEPT ![w] = l]
  BY StepControl
<1>2. PICK j \in Job : job' = [job EXCEPT ![w] = j]
  BY StepJobType
<1>3. pc' \in [Worker -> Label] /\ job' \in [Worker -> Job]
  BY <1>1, <1>2 DEF TypeOK
<1>4. ASSUME NEW v \in Worker PROVE LocalsSet(v)'
  <2>1. CASE v = w
    BY <2>1, StepLocalsSet
  <2>2. CASE v # w
    BY <2>2, <1>1, <1>2 DEF TypeOK, LocalsSet
  <2> QED
    BY <2>1, <2>2
<1> QED
  BY <1>3, <1>4, StepTables DEF TypeOK

LEMMA StutterTypeOK == TypeOK /\ UNCHANGED vars => TypeOK'
  BY DEF TypeOK, LocalsSet, vars

(***************************************************************************)
(* Type correctness, with the locals each program point relies on set.     *)
(***************************************************************************)
THEOREM TypeCorrect == Spec => []TypeOK
<1>1. TypeOK /\ [Next]_vars => TypeOK'
  BY StepTypeOK, StutterTypeOK DEF Next
<1> QED
  BY InitTypeOK, <1>1, PTL DEF Spec

-----------------------------------------------------------------------------
(***************************************************************************)
(* A step of w leaves what the other workers owe alone.                    *)
(***************************************************************************)
LEMMA OthersOwe ==
    ASSUME TypeOK, NEW w \in Worker, Step(w) \/ Abort(w),
           NEW v \in Worker, v # w, NEW x
    PROVE  Owes(v, x)' <=> Owes(v, x)
<1>1. PICK l \in Label : pc' = [pc EXCEPT ![w] = l]
  BY StepControl
<1>2. PICK j \in Job : job' = [job EXCEPT ![w] = j]
  BY StepJobType
<1> QED
  BY <1>1, <1>2 DEF TypeOK, Owes

(***************************************************************************)
(* Saves and appends aside, a step writes neither the saved rows nor the   *)
(* log, and leaves its worker owing nothing.                               *)
(***************************************************************************)
LEMMA QuietStep ==
    ASSUME TypeOK, NEW w \in Worker, Step(w) \/ Abort(w),
           ~InsertSavedArtist(w), ~InsertSavedAlbum(w),
           ~AppendFollowAdd(w), ~AppendLibraryAdd(w)
    PROVE  /\ UNCHANGED <<saved, signals>>
           /\ \A x : ~Owes(w, x)'
<1>0. w \in DOMAIN pc
  BY DEF TypeOK
<1>1. /\ UNCHANGED <<saved, signals>>
      /\ pc'[w] \notin {"appendFollowAdd", "appendLibraryAdd"}
  <2> USE <1>0 DEF Goto, catalogVars
  <2>1. CASE Start(w) \/ AccessTokenOK(w) \/ AccessTokenFails(w)
         \/ Gather(w) \/ NextBucket(w)
    BY <2>1 DEF Start, AccessTokenOK, AccessTokenFails, Gather, NextBucket
  <2>2. CASE ResolveArtist(w) \/ ArtistUnresolved(w) \/ ResolveAlbum(w)
    BY <2>2 DEF ResolveArtist, ArtistUnresolved, ResolveAlbum
  <2>3. CASE UpdateArtist(w) \/ InsertArtist(w) \/ UpdateAlbumArtist(w)
         \/ InsertAlbumArtist(w)
    BY <2>3 DEF UpdateArtist, InsertArtist, UpdateAlbumArtist, InsertAlbumArtist,
              AfterArtist
  <2>4. CASE UpdateAlbum(w) \/ InsertAlbum(w)
    BY <2>4 DEF UpdateAlbum, InsertAlbum
  <2>5. CASE BucketDone(w) \/ ArtistFails(w) \/ SaveFails(w) \/ AlbumArtistFails(w)
         \/ Finish(w) \/ Abort(w)
    BY <2>5 DEF BucketDone, ArtistFails, SaveFails, AlbumArtistFails,
              Finish, Abort
  <2>6. CASE AlbumUnresolved(w)
    BY <2>6 DEF AlbumUnresolved, NextAlbum
  <2> QED
    BY <2>1, <2>2, <2>3, <2>4, <2>5, <2>6 DEF Step
<1> QED
  BY <1>1 DEF Owes

(***************************************************************************)
(* The step of a worker that saves x: if the row is new, the worker now    *)
(* owes the signal of x, which nobody has appended and nobody else owes.   *)
(***************************************************************************)
LEMMA SaveStep ==
    ASSUME TypeOK, SignalOncePerSave, NEW w \in Worker, NEW m \in Subject,
           Step(w) \/ Abort(w),
           saved' = saved \cup {m}, UNCHANGED signals,
           \A x : Owes(w, x)' <=> x = m /\ m \notin saved
    PROVE  SignalOncePerSave'
<1> SUFFICES ASSUME NEW x \in Subject
             PROVE  /\ signals'[x] <= 1
                    /\ signals'[x] = 1 => x \in saved'
                    /\ \A v \in Worker : Owes(v, x)' =>
                         /\ x \in saved'
                         /\ signals'[x] = 0
                         /\ \A u \in Worker : Owes(u, x)' => u = v
  BY DEF SignalOncePerSave
<1>1. /\ signals[x] \in Nat /\ signals[x] <= 1
      /\ signals[x] = 1 => x \in saved
      /\ \A v \in Worker : Owes(v, x) =>
            /\ x \in saved
            /\ signals[x] = 0
            /\ \A u \in Worker : Owes(u, x) => u = v
  BY DEF SignalOncePerSave, TypeOK
<1>2. \A v \in Worker \ {w} : Owes(v, x)' <=> Owes(v, x)
  BY OthersOwe
<1>3. CASE Owes(w, x)'
  <2>1. x = m /\ x \notin saved
    BY <1>3
  <2>2. signals[x] = 0 /\ \A v \in Worker \ {w} : ~Owes(v, x)'
    BY <2>1, <1>1, <1>2
  <2> QED
    BY <2>1, <2>2
<1>4. CASE ~Owes(w, x)'
  BY <1>1, <1>2, <1>4
<1> QED
  BY <1>3, <1>4

(***************************************************************************)
(* The step of a worker that appends the signal it owes.                   *)
(***************************************************************************)
LEMMA AppendStep ==
    ASSUME TypeOK, SignalOncePerSave, NEW w \in Worker, NEW m \in Subject,
           Step(w) \/ Abort(w), Owes(w, m),
           UNCHANGED saved, signals' = [signals EXCEPT ![m] = @ + 1],
           \A x : ~Owes(w, x)'
    PROVE  SignalOncePerSave'
<1> SUFFICES ASSUME NEW x \in Subject
             PROVE  /\ signals'[x] <= 1
                    /\ signals'[x] = 1 => x \in saved'
                    /\ \A v \in Worker : Owes(v, x)' =>
                         /\ x \in saved'
                         /\ signals'[x] = 0
                         /\ \A u \in Worker : Owes(u, x)' => u = v
  BY DEF SignalOncePerSave
<1>1. /\ signals[x] \in Nat /\ signals[x] <= 1
      /\ signals[x] = 1 => x \in saved
      /\ \A v \in Worker : Owes(v, x) =>
            /\ x \in saved
            /\ signals[x] = 0
            /\ \A u \in Worker : Owes(u, x) => u = v
  BY DEF SignalOncePerSave, TypeOK
<1>2. \A v \in Worker \ {w} : Owes(v, x)' <=> Owes(v, x)
  BY OthersOwe
<1>3. CASE x = m
  <2>1. signals'[x] = 1 /\ x \in saved'
    BY <1>1, <1>3 DEF TypeOK
  <2>2. \A v \in Worker : ~Owes(v, x)'
    BY <1>1, <1>2, <1>3
  <2> QED
    BY <2>1, <2>2
<1>4. CASE x # m
  <2>1. signals'[x] = signals[x]
    BY <1>4 DEF TypeOK
  <2> QED
    BY <1>1, <1>2, <2>1
<1> QED
  BY <1>3, <1>4

LEMMA StepSignalOncePerSave ==
    ASSUME TypeOK, SignalOncePerSave, NEW w \in Worker, Step(w) \/ Abort(w)
    PROVE  SignalOncePerSave'
<1> USE DEF Goto, catalogVars
<1>0. /\ pc \in [Worker -> Label] /\ job \in [Worker -> Job]
      /\ job[w] \in Job /\ LocalsSet(w)
  BY DEF TypeOK
<1>1. CASE InsertSavedArtist(w)
  <2>1. job[w].mbid \in Subject
    BY <1>0, <1>1 DEF InsertSavedArtist, LocalsSet, InArtist, Subject
  <2>2. job'[w].mbid = job[w].mbid
    BY <1>0, <1>1 DEF InsertSavedArtist, Job
  <2>3. \A x : Owes(w, x)' <=> x = job[w].mbid /\ job[w].mbid \notin saved
    BY <1>0, <1>1, <2>2 DEF InsertSavedArtist, Owes
  <2> QED
    BY <1>1, <2>1, <2>3, SaveStep DEF InsertSavedArtist
<1>2. CASE InsertSavedAlbum(w)
  <2>1. job[w].rg \in Subject
    BY <1>0, <1>2, PlaceholderKeys
       DEF InsertSavedAlbum, LocalsSet, InAlbum, Subject
  <2>2. job'[w].rg = job[w].rg
    BY <1>0, <1>2 DEF InsertSavedAlbum, Job
  <2>3. \A x : Owes(w, x)' <=> x = job[w].rg /\ job[w].rg \notin saved
    BY <1>0, <1>2, <2>2 DEF InsertSavedAlbum, Owes
  <2> QED
    BY <1>2, <2>1, <2>3, SaveStep DEF InsertSavedAlbum
<1>3. CASE AppendFollowAdd(w)
  <2>1. job[w].mbid \in Subject /\ Owes(w, job[w].mbid)
    BY <1>0, <1>3 DEF AppendFollowAdd, LocalsSet, InArtist, Subject, Owes
  <2>2. \A x : ~Owes(w, x)'
    BY <1>0, <1>3 DEF AppendFollowAdd, Owes
  <2> QED
    BY <1>3, <2>1, <2>2, AppendStep DEF AppendFollowAdd
<1>4. CASE AppendLibraryAdd(w)
  <2>1. job[w].rg \in Subject /\ Owes(w, job[w].rg)
    BY <1>0, <1>4, PlaceholderKeys
       DEF AppendLibraryAdd, LocalsSet, InAlbum, Subject, Owes
  <2>2. \A x : ~Owes(w, x)'
    BY <1>0, <1>4 DEF AppendLibraryAdd, Owes
  <2> QED
    BY <1>4, <2>1, <2>2, AppendStep DEF AppendLibraryAdd
<1>5. CASE /\ ~InsertSavedArtist(w) /\ ~InsertSavedAlbum(w)
           /\ ~AppendFollowAdd(w) /\ ~AppendLibraryAdd(w)
  <2>1. UNCHANGED <<saved, signals>> /\ \A x : ~Owes(w, x)'
    BY <1>5, QuietStep
  <2>2. \A v \in Worker : \A x : Owes(v, x)' => Owes(v, x)
    BY <2>1, OthersOwe
  <2> QED
    BY <2>1, <2>2 DEF SignalOncePerSave
<1> QED
  BY <1>1, <1>2, <1>3, <1>4, <1>5

(***************************************************************************)
(* However many syncs overlap, fail or die, no saved subject has two       *)
(* signals.                                                                *)
(***************************************************************************)
THEOREM AtMostOneSignal == Spec => []SignalOncePerSave
<1>1. Init => SignalOncePerSave
  BY DEF Init, SignalOncePerSave, Owes
<1>2. TypeOK /\ SignalOncePerSave /\ [Next]_vars => SignalOncePerSave'
  <2>1. CASE UNCHANGED vars
    BY <2>1 DEF vars, SignalOncePerSave, Owes
  <2> QED
    BY <2>1, StepSignalOncePerSave DEF Next
<1> QED
  BY <1>1, <1>2, TypeCorrect, PTL DEF Spec

-----------------------------------------------------------------------------
(* Library sync implements SignalOnce. *)

(***************************************************************************)
(* A subject keeps its fate when the step neither saves it, nor signals    *)
(* it, nor changes whether the stepping worker owes its signal.            *)
(***************************************************************************)
LEMMA FateKept ==
    ASSUME TypeOK, NEW w \in Worker, Step(w) \/ Abort(w), NEW x \in Subject,
           x \in saved' <=> x \in saved, signals'[x] = signals[x],
           Owes(w, x)' <=> Owes(w, x)
    PROVE  FateOf(x)' = FateOf(x)
<1>1. (\E v \in Worker : Owes(v, x)') <=> (\E v \in Worker : Owes(v, x))
  BY OthersOwe
<1> QED
  BY <1>1 DEF FateOf

LEMMA SaveRefines ==
    ASSUME TypeOK, SignalOncePerSave, NEW w \in Worker, NEW m \in Subject,
           Step(w) \/ Abort(w),
           saved' = saved \cup {m}, UNCHANGED signals,
           \A x : ~Owes(w, x),
           \A x : Owes(w, x)' <=> x = m /\ m \notin saved
    PROVE  Once!OnceNext \/ UNCHANGED Once!onceVars
<1>1. CASE m \in saved
  <2>1. \A x \in Subject : FateOf(x)' = FateOf(x)
    BY <1>1, FateKept
  <2> QED
    BY <2>1 DEF Once!onceVars
<1>2. CASE m \notin saved
  <2>1. \A x \in Subject \ {m} : FateOf(x)' = FateOf(x)
    BY <1>2, FateKept
  <2>2. FateOf(m) = "unsaved"
    BY <1>2 DEF FateOf
  <2>3. FateOf(m)' = "owed"
    <3>1. signals'[m] = 0
      BY <1>2 DEF SignalOncePerSave, TypeOK
    <3>2. Owes(w, m)'
      BY <1>2
    <3> QED
      BY <3>1, <3>2 DEF FateOf
  <2>4. Once!Save(m)
    BY <2>1, <2>2, <2>3 DEF Once!Save
  <2> QED
    BY <2>4 DEF Once!OnceNext
<1> QED
  BY <1>1, <1>2

LEMMA AppendRefines ==
    ASSUME TypeOK, SignalOncePerSave, NEW w \in Worker, NEW m \in Subject,
           Step(w) \/ Abort(w), Owes(w, m), \A x : Owes(w, x) => x = m,
           UNCHANGED saved, signals' = [signals EXCEPT ![m] = @ + 1],
           \A x : ~Owes(w, x)'
    PROVE  Once!OnceNext
<1>1. \A x \in Subject \ {m} : FateOf(x)' = FateOf(x)
  <2> SUFFICES ASSUME NEW x \in Subject \ {m} PROVE FateOf(x)' = FateOf(x)
    OBVIOUS
  <2>1. signals'[x] = signals[x]
    BY DEF TypeOK
  <2> QED
    BY <2>1, FateKept
<1>2. m \in saved /\ signals[m] = 0 /\ signals'[m] = 1
  BY DEF SignalOncePerSave, TypeOK
<1>3. FateOf(m) = "owed" /\ FateOf(m)' = "signalled"
  BY <1>2 DEF FateOf
<1>4. Once!Emit(m)
  BY <1>1, <1>3 DEF Once!Emit
<1> QED
  BY <1>4 DEF Once!OnceNext

LEMMA LoseRefines ==
    ASSUME TypeOK, SignalOncePerSave, NEW w \in Worker, NEW m \in Subject,
           Step(w) \/ Abort(w), Owes(w, m), \A x : Owes(w, x) => x = m,
           UNCHANGED <<saved, signals>>, \A x : ~Owes(w, x)'
    PROVE  Once!OnceNext
<1>1. \A x \in Subject \ {m} : FateOf(x)' = FateOf(x)
  BY FateKept
<1>2. m \in saved /\ signals[m] = 0 /\ \A v \in Worker : Owes(v, m) => v = w
  BY DEF SignalOncePerSave
<1>3. \A v \in Worker : ~Owes(v, m)'
  BY <1>2, OthersOwe
<1>4. FateOf(m) = "owed" /\ FateOf(m)' = "lost"
  BY <1>2, <1>3 DEF FateOf
<1>5. Once!Lose(m)
  BY <1>1, <1>4 DEF Once!Lose
<1> QED
  BY <1>5 DEF Once!OnceNext

LEMMA StepRefines ==
    ASSUME TypeOK, SignalOncePerSave, NEW w \in Worker, Step(w) \/ Abort(w)
    PROVE  Once!OnceNext \/ UNCHANGED Once!onceVars
<1> USE DEF Goto, catalogVars
<1>0. /\ pc \in [Worker -> Label] /\ job \in [Worker -> Job]
      /\ job[w] \in Job /\ LocalsSet(w)
  BY DEF TypeOK
<1>1. CASE InsertSavedArtist(w)
  <2>1. job[w].mbid \in Subject
    BY <1>0, <1>1 DEF InsertSavedArtist, LocalsSet, InArtist, Subject
  <2>2. job'[w].mbid = job[w].mbid
    BY <1>0, <1>1 DEF InsertSavedArtist, Job
  <2>3. /\ \A x : Owes(w, x)' <=> x = job[w].mbid /\ job[w].mbid \notin saved
        /\ \A x : ~Owes(w, x)
    BY <1>0, <1>1, <2>2 DEF InsertSavedArtist, Owes
  <2> QED
    BY <1>1, <2>1, <2>3, SaveRefines DEF InsertSavedArtist
<1>2. CASE InsertSavedAlbum(w)
  <2>1. job[w].rg \in Subject
    BY <1>0, <1>2, PlaceholderKeys
       DEF InsertSavedAlbum, LocalsSet, InAlbum, Subject
  <2>2. job'[w].rg = job[w].rg
    BY <1>0, <1>2 DEF InsertSavedAlbum, Job
  <2>3. /\ \A x : Owes(w, x)' <=> x = job[w].rg /\ job[w].rg \notin saved
        /\ \A x : ~Owes(w, x)
    BY <1>0, <1>2, <2>2 DEF InsertSavedAlbum, Owes
  <2> QED
    BY <1>2, <2>1, <2>3, SaveRefines DEF InsertSavedAlbum
<1>3. CASE AppendFollowAdd(w)
  <2>1. /\ job[w].mbid \in Subject /\ Owes(w, job[w].mbid)
        /\ \A x : Owes(w, x) => x = job[w].mbid
    BY <1>0, <1>3 DEF AppendFollowAdd, LocalsSet, InArtist, Subject, Owes
  <2>2. \A x : ~Owes(w, x)'
    BY <1>0, <1>3 DEF AppendFollowAdd, Owes
  <2> QED
    BY <1>3, <2>1, <2>2, AppendRefines DEF AppendFollowAdd
<1>4. CASE AppendLibraryAdd(w)
  <2>1. /\ job[w].rg \in Subject /\ Owes(w, job[w].rg)
        /\ \A x : Owes(w, x) => x = job[w].rg
    BY <1>0, <1>4, PlaceholderKeys
       DEF AppendLibraryAdd, LocalsSet, InAlbum, Subject, Owes
  <2>2. \A x : ~Owes(w, x)'
    BY <1>0, <1>4 DEF AppendLibraryAdd, Owes
  <2> QED
    BY <1>4, <2>1, <2>2, AppendRefines DEF AppendLibraryAdd
<1>5. CASE /\ ~InsertSavedArtist(w) /\ ~InsertSavedAlbum(w)
           /\ ~AppendFollowAdd(w) /\ ~AppendLibraryAdd(w)
  <2>1. UNCHANGED <<saved, signals>> /\ \A x : ~Owes(w, x)'
    BY <1>5, QuietStep
  <2>2. CASE \A x : ~Owes(w, x)
    <3>1. \A x \in Subject : FateOf(x)' = FateOf(x)
      BY <2>1, <2>2, FateKept
    <3> QED
      BY <2>1, <3>1 DEF Once!onceVars
  <2>3. CASE \E x : Owes(w, x)
    <3>1. PICK m : Owes(w, m) /\ m \in Subject /\ \A x : Owes(w, x) => x = m
      BY <1>0, <2>3, PlaceholderKeys
         DEF Owes, LocalsSet, InArtist, InAlbum, Subject
    <3> QED
      BY <2>1, <3>1, LoseRefines
  <2> QED
    BY <2>2, <2>3
<1> QED
  BY <1>1, <1>2, <1>3, <1>4, <1>5

(***************************************************************************)
(* A library sync, whatever overlaps it and wherever it dies, does to the  *)
(* saved rows and the signal log only what SignalOnce allows.              *)
(***************************************************************************)
THEOREM Refinement == Spec => ImplementsSignalOnce
<1>1. Init => Once!OnceInit
  BY DEF Init, Once!OnceInit, FateOf
<1>2. TypeOK /\ SignalOncePerSave /\ [Next]_vars
        => Once!OnceNext \/ UNCHANGED Once!onceVars
  <2>1. CASE UNCHANGED vars
    BY <2>1 DEF vars, Once!onceVars, FateOf, Owes
  <2> QED
    BY <2>1, StepRefines DEF Next
<1> QED
  BY <1>1, <1>2, TypeCorrect, AtMostOneSignal, PTL
     DEF Spec, ImplementsSignalOnce, Once!OnceSpec
-----------------------------------------------------------------------------
(* What a run that is reported "ok" has done. *)

\* The artist s of follows is not through yet.
ArtistAhead(l, j, s) ==
    \/ s \in j.todo
    \/ s = j.bucket /\ l \in {"resolveArtist", "upsertArtist", "insertArtist",
                              "insertSavedArtist"}

\* The album a of library is not through yet.
AlbumAhead(l, j, a) ==
    \/ ArtistOf[a] \in j.todo
    \/ a \in j.albumsTodo /\ l \in InBucket
    \/ a = j.album /\ l \in InAlbum \ {"appendLibraryAdd"}

\* Until a run counts an error, what it gathered is kept or still to come.
Accounted(l, j) ==
    l \in Label \ {"idle", "token", "gather"} /\ ~j.flawed =>
        /\ \A s \in j.follows : s \in j.kept \/ ArtistAhead(l, j, s)
        /\ \A a \in j.library : a \in j.kept \/ AlbumAhead(l, j, a)

KeptInv == OkRunKeptEverything /\ \A w \in Worker : Accounted(pc[w], job[w])

\* A step to label l with locals j keeps KeptInv if it accounts for what it leaves.
LEMMA KeptByMove ==
    ASSUME TypeOK, KeptInv, NEW w \in Worker, NEW l, NEW j,
           pc' = [pc EXCEPT ![w] = l], job' = [job EXCEPT ![w] = j],
           \A v \in Worker \ {w} : run'[v] = run[v],
           Accounted(l, j),
           l = "idle" /\ run'[w] = "ok" => j.follows \cup j.library \subseteq j.kept
    PROVE  KeptInv'
<1>1. /\ pc'[w] = l /\ job'[w] = j
      /\ \A v \in Worker \ {w} : pc'[v] = pc[v] /\ job'[v] = job[v]
  BY DEF TypeOK
<1>2. ASSUME NEW v \in Worker
      PROVE  /\ Accounted(pc'[v], job'[v])
             /\ run'[v] = "ok" /\ pc'[v] = "idle" =>
                  job'[v].follows \cup job'[v].library \subseteq job'[v].kept
  <2>1. CASE v = w
    BY <1>1, <2>1
  <2>2. CASE v # w
    BY <1>1, <2>2 DEF KeptInv, OkRunKeptEverything
  <2> QED  BY <2>1, <2>2
<1>3. OkRunKeptEverything'
  BY <1>2 DEF OkRunKeptEverything
<1> QED  BY <1>2, <1>3 DEF KeptInv

\* The same, for a step that leaves the locals alone, as every step but a few does.
LEMMA KeptByGoto ==
    ASSUME TypeOK, KeptInv, NEW w \in Worker, NEW l,
           pc' = [pc EXCEPT ![w] = l], UNCHANGED <<job, run>>, l # "idle",
           Accounted(l, job[w])
    PROVE  KeptInv'
<1>1. job' = [job EXCEPT ![w] = job[w]]
  BY DEF TypeOK
<1> QED  BY <1>1, KeptByMove

LEMMA StepKept ==
    ASSUME TypeOK, KeptInv, NEW w \in Worker, Step(w) \/ Abort(w)
    PROVE  KeptInv'
<1>0. /\ pc[w] \in Label /\ job[w] \in Job /\ LocalsSet(w) /\ Accounted(pc[w], job[w])
      /\ w \in DOMAIN run /\ w \in DOMAIN job
  BY DEF TypeOK, KeptInv
<1>1. CASE Start(w) \/ Abort(w)
  <2>1. PICK l \in {"token", "idle"} :
          /\ pc' = [pc EXCEPT ![w] = l] /\ job' = [job EXCEPT ![w] = NoJob]
          /\ \A v \in Worker \ {w} : run'[v] = run[v]
    BY <1>1 DEF Start, Abort, Goto, TypeOK
  <2>2. NoJob.follows \cup NoJob.library \subseteq NoJob.kept
    BY DEF NoJob
  <2>3. Accounted(l, NoJob)
    BY <2>1 DEF Accounted
  <2> QED  BY <2>1, <2>2, <2>3, KeptByMove
<1>2. CASE AccessTokenOK(w)
  BY <1>2, KeptByGoto DEF AccessTokenOK, Goto, Accounted
<1>3. CASE AccessTokenFails(w)
  <2>1. /\ pc' = [pc EXCEPT ![w] = "idle"] /\ job' = [job EXCEPT ![w] = job[w]]
        /\ run'[w] = "failed" /\ \A v \in Worker \ {w} : run'[v] = run[v]
    BY <1>3 DEF AccessTokenFails, Goto, TypeOK
  <2>2. Accounted("idle", job[w])
    BY DEF Accounted
  <2> QED  BY <2>1, <2>2, KeptByMove
<1>4. CASE Gather(w)
  <2>1. PICK f \in SUBSET SpArtist, l \in SUBSET SpAlbum, err \in BOOLEAN :
          job' = [job EXCEPT ![w] =
                   [@ EXCEPT !.follows = f, !.library = l, !.flawed = err,
                             !.todo = f \cup {ArtistOf[a] : a \in l}]]
    BY <1>4 DEF Gather
  <2> DEFINE todo == f \cup {ArtistOf[a] : a \in l}
             j == [job[w] EXCEPT !.follows = f, !.library = l, !.flawed = err,
                                 !.todo = todo]
  <2>2. job' = [job EXCEPT ![w] = j]
    BY <1>0, <2>1
  <2>3. f \subseteq todo /\ \A a \in l : ArtistOf[a] \in todo
    OBVIOUS
  <2> HIDE DEF todo
  <2>4. j.follows = f /\ j.library = l /\ j.todo = todo
    BY <1>0 DEF Job
  <2>5. Accounted("next", j)
    BY <2>3, <2>4 DEF Accounted, ArtistAhead, AlbumAhead
  <2> HIDE DEF j
  <2> QED  BY <1>4, <2>2, <2>5, KeptByMove DEF Gather, Goto
<1>5. CASE NextBucket(w)
  <2>1. PICK s \in job[w].todo :
          job' = [job EXCEPT ![w] =
              [@ EXCEPT !.todo = job[w].todo \ {s}, !.bucket = s,
                        !.albumsTodo = {a \in job[w].library : ArtistOf[a] = s}]]
    BY <1>5 DEF NextBucket
  <2> DEFINE albumsTodo == {a \in job[w].library : ArtistOf[a] = s}
             j == [job[w] EXCEPT !.todo = job[w].todo \ {s}, !.bucket = s,
                                 !.albumsTodo = albumsTodo]
  <2>2. job' = [job EXCEPT ![w] = j]
    BY <1>0, <2>1
  <2>3. \A a \in job[w].library : ArtistOf[a] = s => a \in albumsTodo
    OBVIOUS
  <2> HIDE DEF albumsTodo
  <2>4. /\ j.follows = job[w].follows /\ j.library = job[w].library
        /\ j.todo = job[w].todo \ {s} /\ j.bucket = s /\ j.albumsTodo = albumsTodo
        /\ j.kept = job[w].kept /\ j.flawed = job[w].flawed
    BY <1>0 DEF Job
  <2>5. pc[w] = "next"
    BY <1>5 DEF NextBucket
  <2>6. Accounted("resolveArtist", j)
    BY <1>0, <2>3, <2>4, <2>5
    DEF Accounted, ArtistAhead, AlbumAhead, InBucket, InAlbum, Label
  <2> HIDE DEF j
  <2> QED  BY <1>5, <2>2, <2>6, KeptByMove DEF NextBucket, Goto
<1>6. CASE ResolveArtist(w)
  <2>1. PICK m \in Mbid : job' = [job EXCEPT ![w].mbid = m]
    BY <1>6 DEF ResolveArtist
  <2> DEFINE j == [job[w] EXCEPT !.mbid = m]
  <2>2. job' = [job EXCEPT ![w] = j]
    BY <1>0, <2>1
  <2>3. Accounted("upsertArtist", j)
    BY <1>0, <1>6
    DEF ResolveArtist, Accounted, ArtistAhead, AlbumAhead, InBucket, InAlbum, Label, Job
  <2> HIDE DEF j
  <2> QED  BY <1>6, <2>2, <2>3, KeptByMove DEF ResolveArtist, Goto
<1>7. CASE ArtistUnresolved(w)
  <2>1. CASE ~Followed(w)
    <3>1. Accounted("albums", job[w])
      BY <1>0, <1>7, <2>1
      DEF ArtistUnresolved, Followed, Accounted, ArtistAhead, AlbumAhead, InBucket, InAlbum,
          Label
    <3> QED  BY <1>7, <2>1, <3>1, KeptByGoto DEF ArtistUnresolved, Goto
  <2>2. CASE Followed(w)
    <3>1. ASSUME NEW l \in {"upsertArtist", "albums"}, NEW m,
                 pc' = [pc EXCEPT ![w] = l], UNCHANGED run,
                 job' = [job EXCEPT ![w] = [job[w] EXCEPT !.flawed = TRUE, !.mbid = m]]
          PROVE  KeptInv'
      <4> DEFINE j == [job[w] EXCEPT !.flawed = TRUE, !.mbid = m]
      <4>1. Accounted(l, j)
        BY <1>0 DEF Accounted, Job
      <4>2. l # "idle"
        OBVIOUS
      <4> HIDE DEF j
      <4>3. job' = [job EXCEPT ![w] = j]
        BY <3>1 DEF j
      <4> QED  BY <3>1, <4>1, <4>2, <4>3, KeptByMove
    <3>2. CASE job' = [job EXCEPT ![w].flawed = TRUE,
                                  ![w].mbid = Placeholder(job[w].bucket)]
               /\ Goto(w, "upsertArtist")
      <4>1. job' = [job EXCEPT ![w] = [job[w] EXCEPT !.flawed = TRUE,
                                          !.mbid = Placeholder(job[w].bucket)]]
        BY <1>0, <3>2
      <4>2. pc' = [pc EXCEPT ![w] = "upsertArtist"] /\ UNCHANGED run
        BY <1>7, <3>2 DEF ArtistUnresolved, Goto
      <4> QED  BY <3>1, <4>1, <4>2
    <3>3. CASE Spoil(w) /\ Goto(w, "albums")
      <4>1. [job[w] EXCEPT !.flawed = TRUE, !.mbid = job[w].mbid]
              = [job[w] EXCEPT !.flawed = TRUE]
        BY <1>0 DEF Job
      <4>2. job' = [job EXCEPT ![w] = [job[w] EXCEPT !.flawed = TRUE,
                                          !.mbid = job[w].mbid]]
        BY <1>0, <3>3, <4>1 DEF Spoil
      <4>3. pc' = [pc EXCEPT ![w] = "albums"] /\ UNCHANGED run
        BY <1>7, <3>3 DEF ArtistUnresolved, Goto
      <4> QED  BY <3>1, <4>2, <4>3
    <3> QED  BY <1>7, <2>2, <3>2, <3>3 DEF ArtistUnresolved
  <2> QED  BY <2>1, <2>2
<1>8. CASE UpdateArtist(w) \/ InsertArtist(w)
  <2>1. PICK l \in {"insertArtist", "insertSavedArtist", "albums"} :
          /\ pc' = [pc EXCEPT ![w] = l] /\ UNCHANGED <<job, run>>
          /\ l = "albums" => ~Followed(w)
          /\ pc[w] \in {"upsertArtist", "insertArtist"}
    BY <1>8 DEF UpdateArtist, InsertArtist, AfterArtist, Goto
  <2>2. Accounted(l, job[w])
    BY <1>0, <2>1
    DEF Followed, Accounted, ArtistAhead, AlbumAhead, InBucket, InAlbum, Label
  <2> QED  BY <2>1, <2>2, KeptByGoto
<1>9. CASE InsertSavedArtist(w)
  <2> DEFINE j == [job[w] EXCEPT !.kept = job[w].kept \cup {job[w].bucket}]
  <2>1. PICK l \in {"albums", "appendFollowAdd"} :
          pc' = [pc EXCEPT ![w] = l] /\ UNCHANGED run
    BY <1>9 DEF InsertSavedArtist, Goto
  <2>2. job' = [job EXCEPT ![w] = j] /\ pc[w] = "insertSavedArtist"
    BY <1>0, <1>9 DEF InsertSavedArtist
  <2>3. Accounted(l, j)
    BY <1>0, <2>1, <2>2
    DEF Accounted, ArtistAhead, AlbumAhead, InBucket, InAlbum, Label, Job
  <2> HIDE DEF j
  <2> QED  BY <2>1, <2>2, <2>3, KeptByMove
<1>10. CASE AppendFollowAdd(w) \/ AppendLibraryAdd(w)
  <2>1. Accounted("albums", job[w])
    BY <1>0, <1>10
    DEF AppendFollowAdd, AppendLibraryAdd, Accounted, ArtistAhead, AlbumAhead, InBucket,
        InAlbum, Label
  <2> QED  BY <1>10, <2>1, KeptByGoto DEF AppendFollowAdd, AppendLibraryAdd, Goto
<1>11. CASE ResolveAlbum(w)
  <2>1. PICK a \in SpAlbum, r \in RgMbid, credit \in Mbid \cup {Null} :
          /\ NextAlbum(w, a)
          /\ job' = [job EXCEPT ![w] =
              [@ EXCEPT !.albumsTodo = job[w].albumsTodo \ {a}, !.album = a, !.rg = r,
                 !.primary = IF credit = Null THEN job[w].mbid ELSE credit]]
          /\ Goto(w, IF credit = Null THEN "upsertAlbum" ELSE "upsertAlbumArtist")
    BY <1>11 DEF ResolveAlbum
  <2> DEFINE primary == IF credit = Null THEN job[w].mbid ELSE credit
             j == [job[w] EXCEPT !.albumsTodo = job[w].albumsTodo \ {a}, !.album = a,
                                 !.rg = r, !.primary = primary]
  <2>2. PICK l \in {"upsertAlbum", "upsertAlbumArtist"} : pc' = [pc EXCEPT ![w] = l]
    BY <2>1 DEF Goto
  <2>3. job' = [job EXCEPT ![w] = j] /\ UNCHANGED run /\ pc[w] = "albums"
    BY <1>0, <1>11, <2>1 DEF ResolveAlbum, NextAlbum
  <2> HIDE DEF primary
  <2>4. /\ j.follows = job[w].follows /\ j.library = job[w].library
        /\ j.todo = job[w].todo /\ j.bucket = job[w].bucket
        /\ j.albumsTodo = job[w].albumsTodo \ {a} /\ j.album = a
        /\ j.kept = job[w].kept /\ j.flawed = job[w].flawed
    BY <1>0 DEF Job
  <2> HIDE DEF j
  <2>5. Accounted(l, j)
    BY <1>0, <2>2, <2>3, <2>4
    DEF Accounted, ArtistAhead, AlbumAhead, InBucket, InAlbum, Label
  <2> QED  BY <2>2, <2>3, <2>5, KeptByMove
<1>12. CASE AlbumUnresolved(w)
  <2>1. PICK a \in SpAlbum :
          job' = [job EXCEPT ![w] =
              [@ EXCEPT !.albumsTodo = job[w].albumsTodo \ {a}, !.flawed = TRUE]]
          /\ NextAlbum(w, a)
    BY <1>12 DEF AlbumUnresolved
  <2> DEFINE j == [job[w] EXCEPT !.albumsTodo = job[w].albumsTodo \ {a}, !.flawed = TRUE]
  <2>2. job' = [job EXCEPT ![w] = j] /\ UNCHANGED run
        /\ pc' = [pc EXCEPT ![w] = "albums"]
    BY <1>0, <1>12, <2>1 DEF AlbumUnresolved, NextAlbum, TypeOK
  <2>3. Accounted("albums", j)
    BY <1>0 DEF Accounted, Job
  <2> HIDE DEF j
  <2> QED  BY <2>2, <2>3, KeptByMove
<1>13. CASE UpdateAlbumArtist(w) \/ InsertAlbumArtist(w) \/ UpdateAlbum(w) \/ InsertAlbum(w)
            \/ AlbumArtistFails(w)
  <2>1. PICK l \in {"insertAlbumArtist", "upsertAlbum", "insertAlbum", "insertSavedAlbum"} :
          /\ pc' = [pc EXCEPT ![w] = l] /\ UNCHANGED <<job, run>>
          /\ pc[w] \in {"upsertAlbumArtist", "insertAlbumArtist", "upsertAlbum", "insertAlbum"}
    BY <1>13
    DEF UpdateAlbumArtist, InsertAlbumArtist, UpdateAlbum, InsertAlbum, AlbumArtistFails, Goto
  <2>2. Accounted(l, job[w])
    BY <1>0, <2>1 DEF Accounted, ArtistAhead, AlbumAhead, InBucket, InAlbum, Label
  <2> QED  BY <2>1, <2>2, KeptByGoto
<1>14. CASE InsertSavedAlbum(w)
  <2> DEFINE j == [job[w] EXCEPT !.kept = job[w].kept \cup {job[w].album}]
  <2>1. PICK l \in {"albums", "appendLibraryAdd"} :
          pc' = [pc EXCEPT ![w] = l] /\ UNCHANGED run
    BY <1>14 DEF InsertSavedAlbum, Goto
  <2>2. job' = [job EXCEPT ![w] = j] /\ pc[w] = "insertSavedAlbum"
    BY <1>0, <1>14 DEF InsertSavedAlbum
  <2>3. Accounted(l, j)
    BY <1>0, <2>1, <2>2
    DEF Accounted, ArtistAhead, AlbumAhead, InBucket, InAlbum, Label, Job
  <2> HIDE DEF j
  <2> QED  BY <2>1, <2>2, <2>3, KeptByMove
<1>15. CASE BucketDone(w)
  <2> DEFINE j == LeaveBucket(w)
  <2>1. /\ job' = [job EXCEPT ![w] = j] /\ pc' = [pc EXCEPT ![w] = "next"]
        /\ pc[w] = "albums" /\ UNCHANGED run /\ job[w].albumsTodo = {}
    BY <1>15 DEF BucketDone, Goto
  <2>2. /\ j.follows = job[w].follows /\ j.library = job[w].library
        /\ j.todo = job[w].todo /\ j.kept = job[w].kept /\ j.flawed = job[w].flawed
    BY <1>0 DEF LeaveBucket, Job
  <2>3. Accounted("next", j)
    <3> HIDE DEF j
    <3> QED
      BY <1>0, <2>1, <2>2 DEF Accounted, ArtistAhead, AlbumAhead, InBucket, InAlbum, Label
  <2> HIDE DEF j
  <2> QED  BY <2>1, <2>3, KeptByMove
<1>16. CASE ArtistFails(w)
  <2> DEFINE j == [LeaveBucket(w) EXCEPT !.flawed = TRUE]
  <2>1. job' = [job EXCEPT ![w] = j] /\ pc' = [pc EXCEPT ![w] = "next"] /\ UNCHANGED run
    BY <1>16 DEF ArtistFails, Goto
  <2>2. j.flawed
    BY <1>0 DEF LeaveBucket, Job
  <2> HIDE DEF j
  <2>3. Accounted("next", j)
    BY <2>2 DEF Accounted
  <2> QED  BY <2>1, <2>3, KeptByMove
<1>17. CASE SaveFails(w)
  <2> DEFINE j == [job[w] EXCEPT !.flawed = TRUE]
  <2>1. job' = [job EXCEPT ![w] = j] /\ pc' = [pc EXCEPT ![w] = "albums"] /\ UNCHANGED run
    BY <1>0, <1>17 DEF SaveFails, Spoil, Goto
  <2>2. Accounted("albums", j)
    BY <1>0 DEF Accounted, Job
  <2> HIDE DEF j
  <2> QED  BY <2>1, <2>2, KeptByMove
<1>18. CASE Finish(w)
  <2> DEFINE j == IF job[w].flawed THEN NoJob
                  ELSE [NoJob EXCEPT !.follows = job[w].follows,
                                     !.library = job[w].library, !.kept = job[w].kept]
  <2>1. /\ job' = [job EXCEPT ![w] = j] /\ pc' = [pc EXCEPT ![w] = "idle"]
        /\ pc[w] = "next" /\ job[w].todo = {}
        /\ \A v \in Worker \ {w} : run'[v] = run[v]
    BY <1>0, <1>18 DEF Finish, Goto, TypeOK
  <2>2. job[w].flawed => j.follows \cup j.library \subseteq j.kept
    BY DEF NoJob
  <2>3. ~job[w].flawed => j.follows \cup j.library \subseteq j.kept
    <3>1. ~job[w].flawed => /\ j.follows = job[w].follows /\ j.library = job[w].library
                            /\ j.kept = job[w].kept
      BY DEF NoJob
    <3>2. ~job[w].flawed => /\ \A s \in job[w].follows : s \in job[w].kept
                            /\ \A a \in job[w].library : a \in job[w].kept
      BY <1>0, <2>1 DEF Accounted, ArtistAhead, AlbumAhead, InBucket, InAlbum, Label
    <3> HIDE DEF j
    <3> QED  BY <3>1, <3>2
  <2>4. Accounted("idle", j)
    BY DEF Accounted
  <2> HIDE DEF j
  <2> QED  BY <2>1, <2>2, <2>3, <2>4, KeptByMove
<1> QED
  BY <1>1, <1>2, <1>3, <1>4, <1>5, <1>6, <1>7, <1>8, <1>9, <1>10, <1>11, <1>12, <1>13,
     <1>14, <1>15, <1>16, <1>17, <1>18
  DEF Step

(***************************************************************************)
(* Sync reports "ok" only when each followed artist and each album that it *)
(* gathered has its saved_* row, however its steps overlap with those of   *)
(* other syncs, and whichever of its calls fail.                           *)
(***************************************************************************)
THEOREM OkRunsKeepEverything == Spec => []OkRunKeptEverything
<1>1. Init => KeptInv
  BY DEF Init, KeptInv, OkRunKeptEverything, Accounted
<1>2. TypeOK /\ KeptInv /\ [Next]_vars => KeptInv'
  <2>1. KeptInv /\ UNCHANGED vars => KeptInv'
    BY DEF KeptInv, OkRunKeptEverything, vars
  <2> QED  BY <2>1, StepKept DEF Next
<1>3. KeptInv => OkRunKeptEverything
  BY DEF KeptInv
<1> QED  BY <1>1, <1>2, <1>3, TypeCorrect, PTL DEF Spec
=============================================================================
