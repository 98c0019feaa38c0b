-------------------------- MODULE SignalStoreProofs --------------------------
(***************************************************************************)
(* Theorems of SignalStore, for every set of writers, any catalog and any  *)
(* links syncs write and move: an Append never waits in a circle, is one   *)
(* step of AffinityLedger whatever runs beside it, and leaves hides and    *)
(* ratings as the log has them; the affinity rows are what the log         *)
(* accounts for, and a rebuild loses no signal.                            *)
(*                                                                         *)
(* AppendInv says which affinity rows an open Append holds at each place   *)
(* of its code, and that what it will commit in each of them is the        *)
(* committed row plus its share: nobody else writes a held row.  RowInv    *)
(* adds where the parents an Append has looked up still are those the      *)
(* links name, and what the rebuild's view of each row has of the sums     *)
(* over the log, up to the statement it is at: exactly those sums, or no   *)
(* fewer signals, depending on what has happened to the row beside it.     *)
(*                                                                         *)
(* The sums are the community modules' recursive folds.  What they add up  *)
(* to is shown without induction over an operator: a smallest set that     *)
(* breaks a law exists, since the subset order of a finite set is well     *)
(* founded, and its subsets obey the law.                                  *)
(***************************************************************************)
EXTENDS SignalStore, FiniteSetTheorems, TLAPS

\* The rows writer w has written when it is at pc[w].
Held(w) ==
    IF pc[w] = "album" THEN {event[w].subject}
    ELSE IF pc[w] = "artist" THEN Ledger!Touched(event[w], album[w], Null)
    ELSE IF pc[w] = "commit" THEN Ledger!Touched(event[w], album[w], parent[w])
    ELSE {}

Typing ==
    /\ log \in Seq(Events)
    /\ hides \subseteq Key
    /\ ratings \in [Key -> {"good", "bad", NoRow}]
    /\ albumArtist \in [Album -> Artist \cup {Null}]
    /\ trackAlbum \in [Track -> Album \cup {Null}]
    /\ trackArtist \in [Track -> Artist \cup {Null}]
    /\ lock \in [Key -> Writer \cup {"rebuild", Null}]
    /\ DOMAIN dirty = Key
    /\ pc \in [Writer -> WriterPC]
    /\ event \in [Writer -> Events \cup {Null}]
    /\ album \in [Writer -> Album \cup {Null}]
    /\ parent \in [Writer -> Artist \cup {Null}]
    /\ stage \in 0..11

\* Where a writer is says what it has found out.
Placed(w) ==
    /\ Open(w) => event[w] \in Events
    /\ pc[w] = "album" => album[w] # Null
    /\ pc[w] = "artist" => parent[w] # Null
    /\ Walking(w) => Ledger!MayBeParents(event[w], album[w], parent[w])

HoldsWhatItWrote(w) == \A k \in Key : lock[k] = w <=> k \in Held(w)

WillPost(w) ==
    \A k \in Held(w) :
        dirty[k] = Ledger!Posted(affinity[k], Ledger!Part(event[w], k))

RebuildHolds ==
    /\ \A k \in Key : lock[k] = "rebuild" => RebuildOpen
    /\ RebuildOpen => Rebuilds

AppendInv ==
    /\ Typing
    /\ \A w \in Writer : Placed(w) /\ HoldsWhatItWrote(w) /\ WillPost(w)
    /\ RebuildHolds

-----------------------------------------------------------------------------
(* Facts about the constants and the helpers. *)

\* Every event has a subject with an affinity row, and its kind is in use.
LEMMA EventFields ==
    ASSUME NEW e \in Events
    PROVE  e.subject \in Key /\ e.kind \in Kind
BY SignalConstants DEF Events, EventWith

\* The four sorts of subject are apart, and Null is none of them.
LEMMA Sorts ==
    /\ Artist \cap Album = {} /\ Artist \cap Track = {} /\ Album \cap Track = {}
    /\ Null \notin Artist /\ Null \notin Album /\ Null \notin Track
    /\ Null \notin Writer /\ "rebuild" \notin Writer /\ Null # "rebuild"
    /\ Artist \subseteq Key /\ Album \subseteq Key /\ Track \subseteq Key
BY SignalConstants DEF Key

\* The rows of an event are keys.
LEMMA TouchedKeys ==
    ASSUME NEW e \in Events, NEW a \in Album \cup {Null}, NEW p \in Artist \cup {Null}
    PROVE  Ledger!Touched(e, a, p) \subseteq Key
BY EventFields, Sorts DEF Ledger!Touched

LEMMA HeldKeys ==
    ASSUME AppendInv, NEW w \in Writer
    PROVE  Held(w) \subseteq Key
<1>1. CASE pc[w] \in {"album", "artist", "commit"}
  <2>1. /\ event[w] \in Events /\ album[w] \in Album \cup {Null}
        /\ parent[w] \in Artist \cup {Null}
    BY <1>1 DEF AppendInv, Placed, Typing, Open
  <2> QED
    BY <1>1, <2>1, EventFields, TouchedKeys DEF Held
<1>2. CASE pc[w] \notin {"album", "artist", "commit"}
  BY <1>2 DEF Held
<1> QED
  BY <1>1, <1>2

-----------------------------------------------------------------------------
(* What the statements of a transaction do to the locks. *)

\* An upsert of a row the writer did not hold adds it, with its share.
LEMMA UpsertAdds ==
    ASSUME AppendInv, NEW w \in Writer, NEW k \in Key, k \notin Held(w),
           Upsert(w, k, Ledger!Part(event[w], k), 1),
           event' = event, affinity' = affinity, stage' = stage,
           Held(w)' = Held(w) \cup {k},
           \A v \in Writer \ {w} : /\ pc'[v] = pc[v] /\ album'[v] = album[v]
                                  /\ parent'[v] = parent[v]
    PROVE  /\ \A v \in Writer : HoldsWhatItWrote(v)' /\ WillPost(v)'
           /\ RebuildHolds'
           /\ lock' \in [Key -> Writer \cup {"rebuild", Null}]
           /\ DOMAIN dirty' = Key
<1> DEFINE new == Ledger!Posted(affinity[k], Ledger!Part(event[w], k))
<1>1. lock[k] = Null
  BY Sorts DEF Upsert, Write, AppendInv, HoldsWhatItWrote
<1>2. /\ lock' = [lock EXCEPT ![k] = w]
      /\ dirty' = [dirty EXCEPT ![k] = new]
  BY <1>1, Sorts DEF Upsert, Write, View, Plus, Ledger!Posted
<1> HIDE DEF new
<1>3. lock \in [Key -> Writer \cup {"rebuild", Null}] /\ DOMAIN dirty = Key
  BY DEF AppendInv, Typing
<1>4. lock' \in [Key -> Writer \cup {"rebuild", Null}] /\ DOMAIN dirty' = Key
  BY <1>2, <1>3
<1>5. /\ lock'[k] = w /\ dirty'[k] = new
      /\ \A q \in Key \ {k} : lock'[q] = lock[q] /\ dirty'[q] = dirty[q]
  BY <1>2, <1>3
<1>6. ASSUME NEW v \in Writer PROVE HoldsWhatItWrote(v)' /\ WillPost(v)'
  <2>1. HoldsWhatItWrote(v) /\ WillPost(v) /\ Held(v) \subseteq Key
    BY HeldKeys DEF AppendInv
  <2>2. CASE v = w
    <3>1. HoldsWhatItWrote(w)'
      BY <1>1, <1>5, <2>1, <2>2, Sorts DEF HoldsWhatItWrote
    <3>2. ASSUME NEW q \in Held(w)'
          PROVE  dirty'[q] = Ledger!Posted(affinity[q], Ledger!Part(event[w], q))
      BY <1>5, <2>1, <2>2, <3>2 DEF WillPost, new
    <3> QED
      BY <2>2, <3>1, <3>2 DEF WillPost
  <2>3. CASE v # w
    <3>1. Held(v)' = Held(v)
      BY <2>3 DEF Held
    <3>2. k \notin Held(v)
      BY <1>1, <2>1, Sorts DEF HoldsWhatItWrote
    <3>3. HoldsWhatItWrote(v)'
      BY <1>5, <2>1, <2>3, <3>1, <3>2 DEF HoldsWhatItWrote
    <3>4. ASSUME NEW q \in Held(v)'
          PROVE  dirty'[q] = Ledger!Posted(affinity[q], Ledger!Part(event[v], q))
      BY <1>5, <2>1, <3>1, <3>2 DEF WillPost
    <3> QED
      BY <3>3, <3>4 DEF WillPost
  <2> QED
    BY <2>2, <2>3
<1>7. RebuildHolds'
  BY <1>5, Sorts DEF RebuildHolds, RebuildOpen, AppendInv
<1> QED
  BY <1>4, <1>6, <1>7

\* The end of writer w's transaction gives back its rows and no other.
LEMMA ReleaseFrees ==
    ASSUME AppendInv, NEW w \in Writer, Release(w), Held(w)' = {},
           \A k \in Key : lock[k] # w => affinity'[k] = affinity[k],
           stage' = stage,
           \A v \in Writer \ {w} : /\ pc'[v] = pc[v] /\ event'[v] = event[v]
                                  /\ album'[v] = album[v] /\ parent'[v] = parent[v]
    PROVE  /\ \A v \in Writer : HoldsWhatItWrote(v)' /\ WillPost(v)'
           /\ RebuildHolds'
           /\ lock' \in [Key -> Writer \cup {"rebuild", Null}]
           /\ DOMAIN dirty' = Key
<1>1. \A k \in Key :
        /\ lock'[k] = IF lock[k] = w THEN Null ELSE lock[k]
        /\ dirty'[k] = IF lock[k] = w THEN NoRow ELSE dirty[k]
  BY DEF Release
<1>2. lock' \in [Key -> Writer \cup {"rebuild", Null}] /\ DOMAIN dirty' = Key
  BY DEF Release, AppendInv, Typing
<1>3. ASSUME NEW v \in Writer PROVE HoldsWhatItWrote(v)' /\ WillPost(v)'
  <2>1. HoldsWhatItWrote(v) /\ WillPost(v) /\ Held(v) \subseteq Key
    BY HeldKeys DEF AppendInv
  <2>2. CASE v = w
    BY <1>1, <2>2, Sorts DEF HoldsWhatItWrote, WillPost
  <2>3. CASE v # w
    <3>1. Held(v)' = Held(v)
      BY <2>3 DEF Held
    <3>2. HoldsWhatItWrote(v)'
      BY <1>1, <2>1, <2>3, <3>1, Sorts DEF HoldsWhatItWrote
    <3>3. ASSUME NEW q \in Held(v)'
          PROVE  dirty'[q] = Ledger!Posted(affinity'[q], Ledger!Part(event'[v], q))
      <4>1. q \in Key /\ lock[q] = v
        BY <2>1, <3>1 DEF HoldsWhatItWrote
      <4>2. dirty'[q] = dirty[q] /\ affinity'[q] = affinity[q]
        BY <1>1, <2>3, <4>1
      <4> QED
        BY <2>1, <2>3, <3>1, <4>2 DEF WillPost
    <3> QED
      BY <3>2, <3>3 DEF WillPost
  <2> QED
    BY <2>2, <2>3
<1>4. RebuildHolds'
  BY <1>1, Sorts DEF RebuildHolds, RebuildOpen, AppendInv
<1> QED
  BY <1>2, <1>3, <1>4

-----------------------------------------------------------------------------
(* One lemma per step of an Append, and one for everything else. *)

LEMMA BeginAppendKeeps ==
    ASSUME AppendInv, NEW w \in Writer, BeginAppend(w)
    PROVE  AppendInv'
<1> USE DEF BeginAppend, tables, links, rebuildVars
<1>1. PICK e \in Events : event' = [event EXCEPT ![w] = e]
  OBVIOUS
<1>2. pc \in [Writer -> WriterPC] /\ event \in [Writer -> Events \cup {Null}]
  BY DEF AppendInv, Typing
<1>3. Typing'
  BY <1>1, <1>2 DEF AppendInv, Typing, WriterPC
<1>4. ASSUME NEW v \in Writer
      PROVE  Placed(v)' /\ HoldsWhatItWrote(v)' /\ WillPost(v)'
  <2>1. Placed(v) /\ HoldsWhatItWrote(v) /\ WillPost(v)
    BY DEF AppendInv
  <2>2. CASE v = w
    <3>1. /\ pc'[v] = "subject" /\ event'[v] = e
          /\ Held(v) = {} /\ Held(v)' = {}
      BY <1>1, <1>2, <2>2 DEF Held
    <3> QED
      BY <2>1, <3>1 DEF Placed, HoldsWhatItWrote, WillPost, Walking
  <2>3. CASE v # w
    <3>1. pc'[v] = pc[v] /\ event'[v] = event[v] /\ Held(v)' = Held(v)
      BY <1>1, <1>2, <2>3 DEF Held
    <3>2. Placed(v)'
      BY <2>1, <3>1 DEF Placed, Open, Walking
    <3>3. HoldsWhatItWrote(v)' /\ WillPost(v)'
      BY <2>1, <3>1 DEF HoldsWhatItWrote, WillPost
    <3> QED
      BY <3>2, <3>3
  <2> QED
    BY <2>2, <2>3
<1>5. RebuildHolds'
  BY DEF AppendInv, RebuildHolds, RebuildOpen
<1> QED
  BY <1>3, <1>4, <1>5 DEF AppendInv

\* The steps of other writers do not move a writer.
LEMMA OthersPlaced ==
    ASSUME AppendInv, NEW v \in Writer, pc'[v] = pc[v], event'[v] = event[v],
           album'[v] = album[v], parent'[v] = parent[v]
    PROVE  Placed(v)'
BY DEF AppendInv, Placed, Open, Walking

\* A writer whose call has returned has nothing left to say.
LEMMA ReturnedPlaced ==
    ASSUME Typing, NEW w \in Writer, NEW how \in {"done", "failed"}, Return(w, how)
    PROVE  /\ Placed(w)' /\ Held(w)' = {}
           /\ pc' \in [Writer -> WriterPC] /\ event' \in [Writer -> Events \cup {Null}]
           /\ album' \in [Writer -> Album \cup {Null}]
           /\ parent' \in [Writer -> Artist \cup {Null}]
           /\ \A v \in Writer \ {w} : /\ pc'[v] = pc[v] /\ event'[v] = event[v]
                                     /\ album'[v] = album[v] /\ parent'[v] = parent[v]
<1>1. /\ pc' \in [Writer -> WriterPC] /\ event' \in [Writer -> Events \cup {Null}]
      /\ album' \in [Writer -> Album \cup {Null}]
      /\ parent' \in [Writer -> Artist \cup {Null}]
      /\ pc'[w] = how
      /\ \A v \in Writer \ {w} : /\ pc'[v] = pc[v] /\ event'[v] = event[v]
                                /\ album'[v] = album[v] /\ parent'[v] = parent[v]
  BY DEF Return, Typing, WriterPC
<1>2. Placed(w)' /\ Held(w)' = {}
  BY <1>1 DEF Placed, Held, Open, Walking
<1> QED
  BY <1>1, <1>2

LEMMA ApplySubjectKeeps ==
    ASSUME AppendInv, NEW w \in Writer, ApplySubject(w)
    PROVE  AppendInv'
<1> DEFINE e == event[w]
           a == IF e.subject \in Track THEN trackAlbum[e.subject] ELSE Null
           found == IF e.subject \in Album THEN albumArtist[e.subject]
                    ELSE IF e.subject \in Track THEN trackArtist[e.subject]
                    ELSE Null
           next == IF album'[w] # Null THEN "album"
                   ELSE IF parent'[w] # Null THEN "artist" ELSE "commit"
<1>1. /\ pc[w] = "subject" /\ Upsert(w, e.subject, e.weight, 1)
      /\ album' = [album EXCEPT ![w] = a]
      /\ parent' = [parent EXCEPT ![w] = found]
      /\ pc' = [pc EXCEPT ![w] = next]
      /\ log' = log /\ affinity' = affinity /\ hides' = hides /\ ratings' = ratings
      /\ albumArtist' = albumArtist /\ trackAlbum' = trackAlbum
      /\ trackArtist' = trackArtist /\ event' = event /\ stage' = stage
  BY DEF ApplySubject, tables, links, rebuildVars
<1>2. e \in Events /\ e.subject \in Key /\ Typing
  BY <1>1, EventFields DEF AppendInv, Placed, Open
<1>3. /\ a \in Album \cup {Null} /\ found \in Artist \cup {Null}
      /\ Ledger!MayBeParents(e, a, found)
  BY <1>2, Sorts DEF Typing, Ledger!MayBeParents
<1>4. next \in {"album", "artist", "commit"}
  OBVIOUS
<1>5. /\ album'[w] = a /\ parent'[w] = found /\ pc'[w] = next
      /\ \A v \in Writer \ {w} : /\ pc'[v] = pc[v] /\ album'[v] = album[v]
                                /\ parent'[v] = parent[v]
      /\ album' \in [Writer -> Album \cup {Null}]
      /\ parent' \in [Writer -> Artist \cup {Null}] /\ pc' \in [Writer -> WriterPC]
  <2> HIDE DEF a, found, next
  <2> QED
    BY <1>1, <1>2, <1>3, <1>4 DEF Typing, WriterPC
<1>6. Placed(w)'
  <2>1. /\ next = "album" => a # Null
        /\ next = "artist" => found # Null
    BY <1>5
  <2> HIDE DEF a, found, next
  <2> QED
    BY <1>1, <1>2, <1>3, <1>5, <2>1 DEF Placed
<1>7. Held(w) = {} /\ Held(w)' = {e.subject}
  <2>1. Held(w) = {}
    BY <1>1 DEF Held
  <2>2. /\ next # "album" => a = Null
        /\ next = "commit" => found = Null
    BY <1>5
  <2> HIDE DEF a, found, next
  <2> QED
    BY <1>1, <1>4, <1>5, <2>1, <2>2 DEF Held, Ledger!Touched
<1>8. Ledger!Part(e, e.subject) = e.weight
  BY DEF Ledger!Part
<1> HIDE DEF a, found, next
<1>9. /\ \A v \in Writer : HoldsWhatItWrote(v)' /\ WillPost(v)'
      /\ RebuildHolds'
      /\ lock' \in [Key -> Writer \cup {"rebuild", Null}] /\ DOMAIN dirty' = Key
  BY <1>1, <1>2, <1>5, <1>7, <1>8, UpsertAdds
<1>10. Typing'
  BY <1>1, <1>2, <1>5, <1>9 DEF Typing
<1>11. \A v \in Writer : Placed(v)'
  BY <1>1, <1>5, <1>6, OthersPlaced
<1> QED
  BY <1>9, <1>10, <1>11 DEF AppendInv

LEMMA ApplyAlbumKeeps ==
    ASSUME AppendInv, NEW w \in Writer, ApplyAlbum(w)
    PROVE  AppendInv'
<1> DEFINE e == event[w]
           a == album[w]
           found == IF parent[w] = Null THEN albumArtist[a] ELSE parent[w]
           next == IF parent'[w] # Null THEN "artist" ELSE "commit"
<1>1. /\ pc[w] = "album" /\ Upsert(w, a, e.weight \div 2, 1)
      /\ parent' = [parent EXCEPT ![w] = found]
      /\ pc' = [pc EXCEPT ![w] = next]
      /\ log' = log /\ affinity' = affinity /\ hides' = hides /\ ratings' = ratings
      /\ albumArtist' = albumArtist /\ trackAlbum' = trackAlbum
      /\ trackArtist' = trackArtist /\ event' = event /\ album' = album
      /\ stage' = stage
  <2>1. Typing
    BY DEF AppendInv
  <2> QED
    BY <2>1 DEF ApplyAlbum, tables, links, rebuildVars, Typing
<1>2. e \in Events /\ e.subject \in Key /\ Typing
  BY <1>1, EventFields DEF AppendInv, Placed, Open
<1>3. e.subject \in Track /\ a \in Album /\ a # Null
  BY <1>1, <1>2 DEF AppendInv, Placed, Walking, Typing, Ledger!MayBeParents
<1>4. found \in Artist \cup {Null} /\ Ledger!MayBeParents(e, a, found)
  BY <1>2, <1>3 DEF Typing, Ledger!MayBeParents
<1>5. /\ parent'[w] = found /\ pc'[w] = next
      /\ \A v \in Writer \ {w} : /\ pc'[v] = pc[v] /\ album'[v] = album[v]
                                /\ parent'[v] = parent[v]
      /\ parent' \in [Writer -> Artist \cup {Null}] /\ pc' \in [Writer -> WriterPC]
  <2>1. next \in {"artist", "commit"}
    OBVIOUS
  <2> HIDE DEF found, next
  <2> QED
    BY <1>1, <1>2, <1>4, <2>1 DEF Typing, WriterPC
<1>6. Placed(w)' /\ Held(w)' = {e.subject, a}
  <2>1. /\ next \in {"artist", "commit"}
        /\ next = "artist" => found # Null
        /\ next = "commit" => found = Null
    BY <1>5
  <2> HIDE DEF found, next
  <2>2. Placed(w)'
    BY <1>1, <1>2, <1>4, <1>5, <2>1 DEF Placed
  <2>3. Held(w)' = {e.subject, a}
    BY <1>1, <1>3, <1>5, <2>1 DEF Held, Ledger!Touched
  <2> QED
    BY <2>2, <2>3
<1>7. Held(w) = {e.subject} /\ a \notin Held(w) /\ Held(w)' = Held(w) \cup {a}
  BY <1>1, <1>3, <1>6, Sorts DEF Held
<1>8. Ledger!Part(e, a) = e.weight \div 2
  BY <1>3, Sorts DEF Ledger!Part
<1> HIDE DEF found, next, a
<1>9. /\ \A v \in Writer : HoldsWhatItWrote(v)' /\ WillPost(v)'
      /\ RebuildHolds'
      /\ lock' \in [Key -> Writer \cup {"rebuild", Null}] /\ DOMAIN dirty' = Key
  BY <1>1, <1>3, <1>5, <1>7, <1>8, Sorts, UpsertAdds
<1>10. Typing'
  BY <1>1, <1>2, <1>5, <1>9 DEF Typing
<1>11. \A v \in Writer : Placed(v)'
  BY <1>1, <1>5, <1>6, OthersPlaced
<1> QED
  BY <1>9, <1>10, <1>11 DEF AppendInv

LEMMA ApplyArtistKeeps ==
    ASSUME AppendInv, NEW w \in Writer, ApplyArtist(w)
    PROVE  AppendInv'
<1> DEFINE e == event[w]
<1>1. /\ pc[w] = "artist"
      /\ Upsert(w, parent[w],
                IF e.subject \in Album THEN e.weight \div 2 ELSE e.weight \div 4, 1)
      /\ pc' = [pc EXCEPT ![w] = "commit"] /\ parent' = parent /\ album' = album
      /\ log' = log /\ affinity' = affinity /\ hides' = hides /\ ratings' = ratings
      /\ albumArtist' = albumArtist /\ trackAlbum' = trackAlbum
      /\ trackArtist' = trackArtist /\ event' = event /\ stage' = stage
  BY DEF ApplyArtist, tables, links, locals, rebuildVars
<1>2. e \in Events /\ e.subject \in Key /\ Typing
  BY <1>1, EventFields DEF AppendInv, Placed, Open
<1>3. /\ parent[w] \in Artist /\ e.subject \in Album \cup Track
      /\ album[w] \in Album \cup {Null} /\ parent[w] # Null
      /\ Ledger!MayBeParents(e, album[w], parent[w])
  BY <1>1, <1>2 DEF AppendInv, Placed, Walking, Typing, Ledger!MayBeParents
<1>4. /\ pc'[w] = "commit"
      /\ \A v \in Writer \ {w} : /\ pc'[v] = pc[v] /\ album'[v] = album[v]
                                /\ parent'[v] = parent[v]
      /\ pc' \in [Writer -> WriterPC]
  BY <1>1, <1>2 DEF Typing, WriterPC
<1>5. Placed(w)'
  BY <1>1, <1>2, <1>3, <1>4 DEF Placed
<1>6. /\ parent[w] \notin Held(w)
      /\ Held(w)' = Held(w) \cup {parent[w]}
  BY <1>1, <1>3, <1>4, Sorts DEF Held, Ledger!Touched
<1>7. Ledger!Part(e, parent[w])
        = IF e.subject \in Album THEN e.weight \div 2 ELSE e.weight \div 4
  BY <1>3, Sorts DEF Ledger!Part
<1>8. /\ \A v \in Writer : HoldsWhatItWrote(v)' /\ WillPost(v)'
      /\ RebuildHolds'
      /\ lock' \in [Key -> Writer \cup {"rebuild", Null}] /\ DOMAIN dirty' = Key
  BY <1>1, <1>3, <1>4, <1>6, <1>7, Sorts, UpsertAdds
<1>9. Typing'
  BY <1>1, <1>2, <1>4, <1>8 DEF Typing
<1>10. \A v \in Writer : Placed(v)'
  BY <1>1, <1>4, <1>5, OthersPlaced
<1> QED
  BY <1>8, <1>9, <1>10 DEF AppendInv

LEMMA CommitAppendKeeps ==
    ASSUME AppendInv, NEW w \in Writer, CommitAppend(w)
    PROVE  AppendInv'
<1> DEFINE e == event[w]
<1>1. /\ pc[w] = "commit" /\ log' = Append(log, e)
      /\ hides' = IF e.kind = "dismiss" THEN hides \cup {e.subject} ELSE hides
      /\ CommitAffinity(w) /\ Release(w) /\ Return(w, "done")
      /\ albumArtist' = albumArtist /\ trackAlbum' = trackAlbum
      /\ trackArtist' = trackArtist /\ stage' = stage
  BY DEF CommitAppend, links, rebuildVars
<1>2. e \in Events /\ e.subject \in Key /\ Typing
  BY <1>1, EventFields DEF AppendInv, Placed, Open
<1>3. ratings' \in [Key -> {"good", "bad", NoRow}]
  <2>1. \/ ratings' = [ratings EXCEPT ![e.subject] = "good"]
        \/ ratings' = [ratings EXCEPT ![e.subject] = "bad"]
        \/ ratings' = ratings
    BY Zenon DEF CommitAppend
  <2> QED
    BY <1>2, <2>1 DEF Typing
<1>4. /\ Placed(w)' /\ Held(w)' = {}
      /\ pc' \in [Writer -> WriterPC] /\ event' \in [Writer -> Events \cup {Null}]
      /\ album' \in [Writer -> Album \cup {Null}]
      /\ parent' \in [Writer -> Artist \cup {Null}]
      /\ \A v \in Writer \ {w} : /\ pc'[v] = pc[v] /\ event'[v] = event[v]
                                /\ album'[v] = album[v] /\ parent'[v] = parent[v]
  BY <1>1, <1>2, ReturnedPlaced
<1>5. \A k \in Key : lock[k] # w => affinity'[k] = affinity[k]
  BY <1>1 DEF CommitAffinity
<1>6. /\ \A v \in Writer : HoldsWhatItWrote(v)' /\ WillPost(v)'
      /\ RebuildHolds'
      /\ lock' \in [Key -> Writer \cup {"rebuild", Null}]
      /\ DOMAIN dirty' = Key
  BY <1>1, <1>4, <1>5, ReleaseFrees
<1>7. Typing'
  <2>1. log' \in Seq(Events) /\ hides' \subseteq Key
    BY <1>1, <1>2 DEF Typing
  <2> QED
    BY <1>1, <1>2, <1>3, <1>4, <1>6, <2>1 DEF Typing
<1>8. \A v \in Writer : Placed(v)'
  BY <1>4, OthersPlaced
<1> QED
  BY <1>6, <1>7, <1>8 DEF AppendInv

LEMMA RollbackAppendKeeps ==
    ASSUME AppendInv, NEW w \in Writer, RollbackAppend(w)
    PROVE  AppendInv'
<1>1. /\ Open(w) /\ Release(w) /\ Return(w, "failed")
      /\ log' = log /\ affinity' = affinity /\ hides' = hides /\ ratings' = ratings
      /\ albumArtist' = albumArtist /\ trackAlbum' = trackAlbum
      /\ trackArtist' = trackArtist /\ stage' = stage
  BY DEF RollbackAppend, tables, links, rebuildVars
<1>2. Typing
  BY DEF AppendInv
<1>3. /\ Placed(w)' /\ Held(w)' = {}
      /\ pc' \in [Writer -> WriterPC] /\ event' \in [Writer -> Events \cup {Null}]
      /\ album' \in [Writer -> Album \cup {Null}]
      /\ parent' \in [Writer -> Artist \cup {Null}]
      /\ \A v \in Writer \ {w} : /\ pc'[v] = pc[v] /\ event'[v] = event[v]
                                /\ album'[v] = album[v] /\ parent'[v] = parent[v]
  BY <1>1, <1>2, ReturnedPlaced
<1>4. /\ \A v \in Writer : HoldsWhatItWrote(v)' /\ WillPost(v)'
      /\ RebuildHolds'
      /\ lock' \in [Key -> Writer \cup {"rebuild", Null}] /\ DOMAIN dirty' = Key
  BY <1>1, <1>3, ReleaseFrees
<1>5. Typing'
  BY <1>1, <1>2, <1>3, <1>4 DEF Typing
<1>6. \A v \in Writer : Placed(v)'
  BY <1>3, OthersPlaced
<1> QED
  BY <1>4, <1>5, <1>6 DEF AppendInv

\* The rebuild waits for rows the writers hold, and touches no other of theirs.
LEMMA RebuildKeeps ==
    ASSUME AppendInv, RebuildStep \/ RollbackRebuild
    PROVE  AppendInv'
<1>1. /\ pc' = pc /\ event' = event /\ album' = album /\ parent' = parent
      /\ log' = log /\ hides' = hides /\ ratings' = ratings
      /\ albumArtist' = albumArtist /\ trackAlbum' = trackAlbum
      /\ trackArtist' = trackArtist
  BY DEF RebuildStep, BeginRebuild, RebuildRow, NextStatement, CommitRebuild,
         RollbackRebuild, tables, links, locals
<1>2. Typing
  BY DEF AppendInv
<1>3. /\ lock' \in [Key -> Writer \cup {"rebuild", Null}] /\ DOMAIN dirty' = Key
      /\ stage' \in 0..11
      /\ \A k \in Key : lock[k] \in Writer \/ lock'[k] \in Writer =>
           /\ lock'[k] = lock[k] /\ dirty'[k] = dirty[k]
           /\ affinity'[k] = affinity[k]
      /\ RebuildHolds'
  <2>1. CASE BeginRebuild
    BY <1>2, <2>1 DEF BeginRebuild, tables, links, AppendInv, Typing, RebuildHolds,
                      RebuildOpen
  <2>2. CASE RebuildRow
    <3>1. PICK k \in DOMAIN batch :
            IF batch[k] = NoRow THEN Write("rebuild", k, NoRow)
            ELSE Upsert("rebuild", k, batch[k].score, batch[k].count)
      BY <2>2 DEF RebuildRow
    <3>2. PICK row : Write("rebuild", k, row)
      BY <3>1 DEF Upsert
    <3>3. /\ lock[k] \in {Null, "rebuild"}
          /\ lock' = [lock EXCEPT ![k] = "rebuild"]
          /\ dirty' = [dirty EXCEPT ![k] = row]
          /\ affinity' = affinity /\ stage' = stage /\ RebuildOpen
      BY <2>2, <3>2 DEF Write, RebuildRow, tables, links
    <3>4. /\ lock' \in [Key -> Writer \cup {"rebuild", Null}] /\ DOMAIN dirty' = Key
          /\ \A q \in Key : q # k => lock'[q] = lock[q] /\ dirty'[q] = dirty[q]
          /\ k \in Key => lock'[k] = "rebuild"
      BY <1>2, <3>3 DEF Typing
    <3> QED
      BY <1>2, <3>3, <3>4, Sorts DEF AppendInv, Typing, RebuildHolds, RebuildOpen
  <2>3. CASE NextStatement
    BY <1>2, <2>3 DEF NextStatement, tables, links, AppendInv, Typing, RebuildHolds,
                      RebuildOpen
  <2>4. CASE CommitRebuild \/ RollbackRebuild
    <3>1. Release("rebuild") /\ stage' = 0
      BY <2>4 DEF CommitRebuild, RollbackRebuild
    <3>2. \A k \in Key : lock[k] # "rebuild" => affinity'[k] = affinity[k]
      BY <2>4 DEF CommitRebuild, RollbackRebuild, CommitAffinity, tables, links
    <3>3. /\ DOMAIN dirty' = Key
          /\ \A k \in Key :
               /\ lock'[k] = IF lock[k] = "rebuild" THEN Null ELSE lock[k]
               /\ lock[k] # "rebuild" => dirty'[k] = dirty[k]
      BY <3>1 DEF Release
    <3>4. lock' \in [Key -> Writer \cup {"rebuild", Null}]
      BY <1>2, <3>1 DEF Release, Typing
    <3> QED
      BY <3>1, <3>2, <3>3, <3>4, Sorts DEF RebuildHolds, RebuildOpen
  <2> QED
    BY <2>1, <2>2, <2>3, <2>4 DEF RebuildStep
<1>4. ASSUME NEW v \in Writer
      PROVE  Placed(v)' /\ HoldsWhatItWrote(v)' /\ WillPost(v)'
  <2>1. HoldsWhatItWrote(v) /\ WillPost(v) /\ Held(v) \subseteq Key
    BY HeldKeys DEF AppendInv
  <2>2. Held(v)' = Held(v)
    BY <1>1 DEF Held
  <2>3. Placed(v)'
    BY <1>1, OthersPlaced
  <2>4. HoldsWhatItWrote(v)'
    BY <1>3, <2>1, <2>2 DEF HoldsWhatItWrote
  <2>5. ASSUME NEW q \in Held(v)'
        PROVE  dirty'[q] = Ledger!Posted(affinity'[q], Ledger!Part(event'[v], q))
    <3>1. q \in Key /\ lock[q] = v
      BY <2>1, <2>2 DEF HoldsWhatItWrote
    <3>2. dirty'[q] = dirty[q] /\ affinity'[q] = affinity[q] /\ event' = event
      BY <1>1, <1>3, <3>1
    <3> QED
      BY <2>1, <2>2, <3>2 DEF WillPost
  <2> QED
    BY <2>3, <2>4, <2>5 DEF WillPost
<1>5. Typing'
  BY <1>1, <1>2, <1>3 DEF Typing
<1> QED
  BY <1>3, <1>4, <1>5 DEF AppendInv

\* An upsert of the catalog keeps a link or writes another.
LEMMA LinksTyped ==
    ASSUME Typing, Relink
    PROVE  /\ albumArtist' \in [Album -> Artist \cup {Null}]
           /\ trackAlbum' \in [Track -> Album \cup {Null}]
           /\ trackArtist' \in [Track -> Artist \cup {Null}]
<1>1. CASE \E u \in AlbumUpserts : UpsertAlbum(u[1], u[2])
  <2>1. PICK u \in AlbumUpserts : UpsertAlbum(u[1], u[2])
    BY <1>1
  <2>2. u[1] \in Album /\ u[2] \in Artist \cup {Null}
    BY SignalConstants
  <2> QED
    BY <2>1, <2>2 DEF UpsertAlbum, Coalesce, Typing
<1>2. CASE \E u \in TrackUpserts : UpsertTrack(u[1], u[2], u[3])
  <2>1. PICK u \in TrackUpserts : UpsertTrack(u[1], u[2], u[3])
    BY <1>2
  <2>2. u[1] \in Track /\ u[2] \in Album \cup {Null} /\ u[3] \in Artist \cup {Null}
    BY SignalConstants
  <2> QED
    BY <2>1, <2>2 DEF UpsertTrack, Coalesce, Typing
<1> QED
  BY <1>1, <1>2 DEF Relink

LEMMA RelinkKeeps ==
    ASSUME AppendInv, Relink \/ UNCHANGED vars
    PROVE  AppendInv'
<1>1. /\ log' = log /\ affinity' = affinity /\ hides' = hides /\ ratings' = ratings
      /\ lock' = lock /\ dirty' = dirty /\ pc' = pc /\ event' = event
      /\ album' = album /\ parent' = parent /\ stage' = stage
  BY DEF Relink, vars, tables, locals, rebuildVars
<1>2. /\ albumArtist' \in [Album -> Artist \cup {Null}]
      /\ trackAlbum' \in [Track -> Album \cup {Null}]
      /\ trackArtist' \in [Track -> Artist \cup {Null}]
  BY LinksTyped DEF vars, AppendInv, Typing
<1>3. Typing' /\ RebuildHolds'
  BY <1>1, <1>2 DEF AppendInv, Typing, RebuildHolds, RebuildOpen
<1>4. ASSUME NEW v \in Writer
      PROVE  Placed(v)' /\ HoldsWhatItWrote(v)' /\ WillPost(v)'
  <2>1. Held(v)' = Held(v)
    BY <1>1 DEF Held
  <2> QED
    BY <1>1, <2>1, OthersPlaced DEF AppendInv, HoldsWhatItWrote, WillPost
<1> QED
  BY <1>3, <1>4 DEF AppendInv

LEMMA AppendInvHolds == Spec => []AppendInv
<1>1. Init => AppendInv
  <2> SUFFICES ASSUME Init PROVE AppendInv
    OBVIOUS
  <2>1. Typing
    BY Sorts DEF Init, Typing, WriterPC
  <2>2. \A w \in Writer : pc[w] = "idle" /\ Held(w) = {}
    BY DEF Init, Held
  <2>3. \A w \in Writer : Placed(w) /\ WillPost(w)
    BY <2>2 DEF Placed, WillPost, Open, Walking
  <2>4. \A w \in Writer : HoldsWhatItWrote(w)
    BY <2>2, Sorts DEF Init, HoldsWhatItWrote
  <2>5. RebuildHolds
    BY Sorts DEF Init, RebuildHolds, RebuildOpen
  <2> QED
    BY <2>1, <2>3, <2>4, <2>5 DEF AppendInv
<1>2. AppendInv /\ [Next]_vars => AppendInv'
  BY BeginAppendKeeps, ApplySubjectKeeps, ApplyAlbumKeeps, ApplyArtistKeeps,
     CommitAppendKeeps, RollbackAppendKeeps, RebuildKeeps, RelinkKeeps
     DEF Next, AppendStep
<1> QED
  BY <1>1, <1>2, PTL DEF Spec

-----------------------------------------------------------------------------
(* Sums over finite sets. *)

\* The recursion that a sum unfolds to.
Sums(g, f, S) ==
    g = [s \in SUBSET S |->
           IF s = {} THEN 0
           ELSE LET x == CHOOSE x \in s : TRUE IN f[x] + g[s \ {x}]]

\* The community modules' fold is that recursion.
LEMMA SumUnfolds ==
    ASSUME NEW f, NEW S
    PROVE  F!SumFunctionOnSet(f, S) = (CHOOSE g : Sums(g, f, S))[S]
BY DEF F!SumFunctionOnSet, F!FoldFunctionOnSet, F!MapThenFoldSet, Sums

\* A set of finite sets has one with no other of them inside.
LEMMA Smallest ==
    ASSUME NEW S, IsFiniteSet(S), NEW T \in SUBSET (SUBSET S), T # {}
    PROVE  \E t \in T : \A u \in T : u \subseteq t => u = t
<1>1. IsWellFoundedOn(StrictSubsetOrdering(S), SUBSET S)
  BY FS_StrictSubsetOrderingWellFounded, FS_FiniteSubsetsOfFinite
<1>2. PICK t \in T : \A u \in T : ~(<<u, t>> \in StrictSubsetOrdering(S))
  BY <1>1, WFMin
<1>3. ASSUME NEW u \in T, u \subseteq t, u # t PROVE FALSE
  <2>1. u \in SUBSET S /\ t \in SUBSET S
    OBVIOUS
  <2> QED
    BY <1>2, <1>3, <2>1 DEF StrictSubsetOrdering
<1> QED  BY <1>3

\* One unfolding of it.
LEMMA SumsAt ==
    ASSUME NEW g, NEW f, NEW S, Sums(g, f, S), NEW s \in SUBSET S
    PROVE  /\ s = {} => g[s] = 0
           /\ s # {} => LET x == CHOOSE x \in s : TRUE IN
                          x \in s /\ g[s] = f[x] + g[s \ {x}]
BY DEF Sums

\* Sums of functions that agree are the same.
LEMMA SumsAgree ==
    ASSUME NEW S, IsFiniteSet(S), NEW f, NEW h, \A x \in S : f[x] = h[x],
           NEW A, NEW B, S \subseteq A, S \subseteq B,
           NEW g, NEW k, Sums(g, f, A), Sums(k, h, B)
    PROVE  g[S] = k[S]
<1> DEFINE T == {t \in SUBSET S : g[t] # k[t]}
<1>1. SUFFICES ASSUME T # {} PROVE FALSE
  OBVIOUS
<1>2. PICK t \in T : \A u \in T : u \subseteq t => u = t
  <2>1. T \in SUBSET (SUBSET S)
    OBVIOUS
  <2> HIDE DEF T
  <2> QED  BY <1>1, <2>1, Smallest
<1>3. t # {}
  BY <1>2, SumsAt
<1> DEFINE x == CHOOSE x \in t : TRUE
<1>4. x \in t
  BY <1>3
<1>5. g[t \ {x}] = k[t \ {x}]
  <2>1. t \ {x} \in SUBSET S /\ t \ {x} \subseteq t /\ t \ {x} # t
    BY <1>4
  <2> QED  BY <1>2, <2>1
<1>6. g[t] = f[x] + g[t \ {x}] /\ k[t] = h[x] + k[t \ {x}]
  BY <1>3, SumsAt
<1>7. f[x] = h[x]
  BY <1>4
<1> QED  BY <1>2, <1>5, <1>6, <1>7

\* Some function unfolds the sum of a finite set.
LEMMA SumsExist ==
    ASSUME NEW S, IsFiniteSet(S), NEW f
    PROVE  Sums(CHOOSE g : Sums(g, f, S), f, S)
<1> DEFINE Over(t) == CHOOSE g : Sums(g, f, t)
           T == {t \in SUBSET S : ~Sums(Over(t), f, t)}
<1>1. SUFFICES ASSUME T # {} PROVE FALSE
  OBVIOUS
<1>2. PICK t \in T : \A u \in T : u \subseteq t => u = t
  <2>1. T \in SUBSET (SUBSET S)
    OBVIOUS
  <2> HIDE DEF T
  <2> QED  BY <1>1, <2>1, Smallest
<1>3. \A u \in SUBSET t : u # t => Sums(Over(u), f, u)
  BY <1>2
<1> DEFINE V(u) == Over(u)[u]
           G == [s \in SUBSET t |->
                   IF s = {} THEN 0
                   ELSE LET x == CHOOSE x \in s : TRUE IN f[x] + V(s \ {x})]
<1>4. ASSUME NEW u \in SUBSET t, u # t PROVE G[u] = V(u)
  <2>1. Sums(Over(u), f, u)
    BY <1>3, <1>4
  <2> HIDE DEF Over
  <2>2. CASE u = {}
    BY <2>1, <2>2, SumsAt
  <2>3. CASE u # {}
    <3> DEFINE x == CHOOSE x \in u : TRUE
    <3>1. x \in u
      BY <2>3
    <3>2. V(u) = f[x] + Over(u)[u \ {x}]
      <4>1. ASSUME NEW g, Sums(g, f, u) PROVE g[u] = f[x] + g[u \ {x}]
        <5>1. u \in SUBSET u
          OBVIOUS
        <5> QED  BY <2>3, <4>1, <5>1, SumsAt
      <4> HIDE DEF x
      <4> QED  BY <2>1, <4>1
    <3>3. Sums(Over(u \ {x}), f, u \ {x})
      BY <1>3, <1>4, <3>1
    <3>4. IsFiniteSet(u \ {x})
      <4>1. u \ {x} \subseteq S
        BY <1>2
      <4> QED  BY <4>1, FS_Subset
    <3>5. Over(u)[u \ {x}] = Over(u \ {x})[u \ {x}]
      <4>1. u \ {x} \subseteq u /\ u \ {x} \subseteq u \ {x}
        OBVIOUS
      <4> HIDE DEF x
      <4> QED  BY <2>1, <3>3, <3>4, <4>1, SumsAgree
    <3>6. G[u] = f[x] + V(u \ {x})
      BY <2>3
    <3> QED  BY <3>2, <3>5, <3>6
  <2> QED  BY <2>2, <2>3
<1>5. Sums(G, f, t)
  <2>1. ASSUME NEW s \in SUBSET t, s # {}
        PROVE  LET x == CHOOSE x \in s : TRUE IN V(s \ {x}) = G[s \ {x}]
    <3> DEFINE x == CHOOSE x \in s : TRUE
    <3>1. x \in s
      BY <2>1
    <3>2. s \ {x} \in SUBSET t /\ s \ {x} # t
      BY <3>1
    <3> HIDE DEF V, G, x
    <3>3. V(s \ {x}) = G[s \ {x}]
      BY <1>4, <3>2
    <3> QED  BY <3>3 DEF x
  <2>2. G = [s \in SUBSET t |->
               IF s = {} THEN 0
               ELSE LET x == CHOOSE x \in s : TRUE IN f[x] + G[s \ {x}]]
    <3> DEFINE H == [s \in SUBSET t |->
                       IF s = {} THEN 0
                       ELSE LET x == CHOOSE x \in s : TRUE IN f[x] + G[s \ {x}]]
    <3>1. ASSUME NEW s \in SUBSET t PROVE G[s] = H[s]
      <4>1. CASE s = {}
        BY <4>1
      <4>2. CASE s # {}
        <5> DEFINE x == CHOOSE x \in s : TRUE
        <5>1. V(s \ {x}) = G[s \ {x}]
          BY <2>1, <4>2
        <5>2. G[s] = f[x] + V(s \ {x})
          BY <4>2
        <5>3. H[s] = f[x] + G[s \ {x}]
          <6> HIDE DEF G
          <6> QED  BY <4>2
        <5> QED  BY <5>1, <5>2, <5>3
      <4> QED  BY <4>1, <4>2
    <3>2. DOMAIN G = SUBSET t /\ DOMAIN H = SUBSET t
      OBVIOUS
    <3> QED  BY <3>1
  <2> QED  BY <2>2 DEF Sums
<1>6. Sums(Over(t), f, t)
  <2> HIDE DEF G
  <2> QED  BY <1>5
<1> QED  BY <1>2, <1>6

\* The laws of sums: the empty sum, equal terms, one term taken out.
LEMMA SumEmpty ==
    ASSUME NEW f
    PROVE  F!SumFunctionOnSet(f, {}) = 0
BY SumUnfolds, SumsExist, SumsAt, FS_EmptySet

LEMMA SumAgree ==
    ASSUME NEW S, IsFiniteSet(S), NEW f, NEW h, \A x \in S : f[x] = h[x]
    PROVE  F!SumFunctionOnSet(f, S) = F!SumFunctionOnSet(h, S)
BY SumUnfolds, SumsExist, SumsAgree

LEMMA SumStep ==
    ASSUME NEW S, IsFiniteSet(S), S # {}, NEW f
    PROVE  \E x \in S : F!SumFunctionOnSet(f, S) = f[x] + F!SumFunctionOnSet(f, S \ {x})
<1> DEFINE x == CHOOSE x \in S : TRUE
           g == CHOOSE g : Sums(g, f, S)
           h == CHOOSE h : Sums(h, f, S \ {x})
<1>1. x \in S
  OBVIOUS
<1>2. IsFiniteSet(S \ {x})
  BY FS_Subset
<1>3. Sums(g, f, S) /\ Sums(h, f, S \ {x})
  <2> HIDE DEF x
  <2> QED  BY <1>2, SumsExist
<1>4. g[S] = f[x] + g[S \ {x}]
  <2> HIDE DEF g
  <2> QED  BY <1>3, SumsAt
<1>5. g[S \ {x}] = h[S \ {x}]
  <2> HIDE DEF g, h, x
  <2> QED  BY <1>2, <1>3, SumsAgree
<1>6. F!SumFunctionOnSet(f, S) = g[S] /\ F!SumFunctionOnSet(f, S \ {x}) = h[S \ {x}]
  <2> HIDE DEF x
  <2> QED  BY SumUnfolds
<1> QED  BY <1>1, <1>4, <1>5, <1>6

\* A sum of integers is one, and one of naturals is a natural.
LEMMA SumIn ==
    ASSUME NEW S, IsFiniteSet(S), NEW C \in {Nat, Int}, NEW f, \A x \in S : f[x] \in C
    PROVE  F!SumFunctionOnSet(f, S) \in C
<1> DEFINE V(t) == F!SumFunctionOnSet(f, t)
           T == {t \in SUBSET S : V(t) \notin C}
<1>1. SUFFICES ASSUME T # {} PROVE FALSE
  OBVIOUS
<1>2. PICK t \in T : \A u \in T : u \subseteq t => u = t
  <2>1. T \in SUBSET (SUBSET S)
    OBVIOUS
  <2> HIDE DEF T
  <2> QED  BY <1>1, <2>1, Smallest
<1>3. t # {} /\ IsFiniteSet(t)
  <2>1. V({}) \in C /\ t \subseteq S /\ V(t) \notin C
    BY <1>2, SumEmpty
  <2> HIDE DEF V
  <2> QED  BY <2>1, FS_Subset
<1>4. PICK x \in t : V(t) = f[x] + V(t \ {x})
  BY <1>3, SumStep
<1> HIDE DEF V
<1>5. V(t \ {x}) \in C
  BY <1>2
<1> QED  BY <1>2, <1>4, <1>5

\* Any member can be taken out first.
LEMMA SumRemove ==
    ASSUME NEW S, IsFiniteSet(S), NEW f, \A x \in S : f[x] \in Int, NEW x \in S
    PROVE  F!SumFunctionOnSet(f, S) = f[x] + F!SumFunctionOnSet(f, S \ {x})
<1> DEFINE V(t) == F!SumFunctionOnSet(f, t)
           T == {t \in SUBSET S : \E y \in t : V(t) # f[y] + V(t \ {y})}
<1>1. SUFFICES ASSUME T # {} PROVE FALSE
  OBVIOUS
<1>2. PICK t \in T : \A u \in T : u \subseteq t => u = t
  <2>1. T \in SUBSET (SUBSET S)
    OBVIOUS
  <2> HIDE DEF T
  <2> QED  BY <1>1, <2>1, Smallest
<1>3. PICK y \in t : V(t) # f[y] + V(t \ {y})
  BY <1>2
<1>4. IsFiniteSet(t)
  BY <1>2, FS_Subset
<1>5. PICK c \in t : V(t) = f[c] + V(t \ {c})
  BY <1>3, <1>4, SumStep
<1>6. \A u \in SUBSET S : V(u) \in Int
  BY SumIn, FS_Subset
<1> HIDE DEF V
<1>7. c # y
  BY <1>3, <1>5
<1>8. \A u \in SUBSET t : u # t => \A z \in u : V(u) = f[z] + V(u \ {z})
  BY <1>2
<1>9. V(t \ {c}) = f[y] + V((t \ {c}) \ {y})
  BY <1>5, <1>7, <1>8
<1>10. V(t \ {y}) = f[c] + V((t \ {y}) \ {c})
  BY <1>3, <1>7, <1>8
<1>11. (t \ {y}) \ {c} = (t \ {c}) \ {y}
  OBVIOUS
<1>12. f[c] \in Int /\ f[y] \in Int /\ V((t \ {c}) \ {y}) \in Int
  BY <1>2, <1>6
<1>13. V(t) = f[c] + (f[y] + V((t \ {c}) \ {y}))
  BY <1>5, <1>9
<1>14. V(t \ {y}) = f[c] + V((t \ {c}) \ {y})
  BY <1>10, <1>11
<1> QED  BY <1>3, <1>12, <1>13, <1>14

\* One more term, and one term that grows.
LEMMA SumInsert ==
    ASSUME NEW S, IsFiniteSet(S), NEW x, x \notin S, NEW f, NEW h, f[x] \in Int,
           \A y \in S : f[y] \in Int /\ f[y] = h[y]
    PROVE  F!SumFunctionOnSet(f, S \cup {x}) = f[x] + F!SumFunctionOnSet(h, S)
<1> DEFINE A == S \cup {x}
<1>1. IsFiniteSet(A) /\ x \in A /\ \A y \in A : f[y] \in Int
  BY FS_AddElement
<1>2. A \ {x} = S
  OBVIOUS
<1> HIDE DEF A
<1>3. F!SumFunctionOnSet(f, A) = f[x] + F!SumFunctionOnSet(f, A \ {x})
  BY <1>1, SumRemove
<1>4. F!SumFunctionOnSet(f, S) = F!SumFunctionOnSet(h, S)
  BY SumAgree
<1> QED  BY <1>2, <1>3, <1>4 DEF A

LEMMA SumGrow ==
    ASSUME NEW S, IsFiniteSet(S), NEW x \in S, NEW f, NEW h,
           f[x] \in Int, h[x] \in Int,
           \A y \in S \ {x} : f[y] \in Int /\ f[y] = h[y]
    PROVE  F!SumFunctionOnSet(f, S) = (f[x] - h[x]) + F!SumFunctionOnSet(h, S)
<1>1. \A y \in S : f[y] \in Int /\ h[y] \in Int
  OBVIOUS
<1>2. /\ F!SumFunctionOnSet(f, S) = f[x] + F!SumFunctionOnSet(f, S \ {x})
      /\ F!SumFunctionOnSet(h, S) = h[x] + F!SumFunctionOnSet(h, S \ {x})
  BY <1>1, SumRemove
<1>3. IsFiniteSet(S \ {x})
  BY FS_Subset
<1>4. F!SumFunctionOnSet(f, S \ {x}) = F!SumFunctionOnSet(h, S \ {x})
  BY <1>3, SumAgree
<1>5. F!SumFunctionOnSet(h, S \ {x}) \in Int
  BY <1>1, <1>3, SumIn
<1> QED  BY <1>2, <1>4, <1>5

-----------------------------------------------------------------------------
(* The rows the log accounts for. *)

\* The album and the artist e's shares go to, as the links stand.
AlbumOf(e) == IF e.subject \in Track THEN trackAlbum[e.subject] ELSE Null

ArtistOf(e) ==
    IF e.subject \in Album THEN albumArtist[e.subject]
    ELSE IF e.subject \notin Track THEN Null
    ELSE IF trackArtist[e.subject] # Null THEN trackArtist[e.subject]
    ELSE IF trackAlbum[e.subject] # Null THEN albumArtist[trackAlbum[e.subject]]
    ELSE Null

Goes(e) == Ledger!Touched(e, AlbumOf(e), ArtistOf(e))

LinksTypedNow ==
    /\ albumArtist \in [Album -> Artist \cup {Null}]
    /\ trackAlbum \in [Track -> Album \cup {Null}]
    /\ trackArtist \in [Track -> Artist \cup {Null}]

\* The row of k when the rebuild's statements 5..n have run.
Hitting(n, k) == {s \in 5..n : HitBy(s, k) # {}}

Upto(n, k) ==
    LET hit == Hitting(n, k) IN
    IF hit = {} THEN NoRow
    ELSE [score |-> F!SumFunctionOnSet([s \in hit |-> Total(s, k).score], hit),
          count |-> F!SumFunctionOnSet([s \in hit |-> Total(s, k).count], hit)]

\* Replay is the row after the last statement.
LEMMA ReplayIsUpto ==
    ASSUME NEW k
    PROVE  Replay(k) = Upto(11, k)
BY DEF Replay, Upto, Hitting

\* What rows and shares of weights are.
LEMMA RowFields ==
    \A row \in Row : row.score \in Int /\ row.count \in Nat
BY DEF Row

LEMMA EventWeight ==
    ASSUME NEW e \in Events
    PROVE  e.weight \in Int
<1>1. PICK kind \in Kind, k \in Key, given \in Int : e = EventWith(kind, k, given)
  BY SignalConstants DEF Events
<1>2. DefaultWeight(kind) \in Int
  BY DEF DefaultWeight, Kind
<1>3. e.weight = IF given = 0 THEN DefaultWeight(kind) ELSE given
  BY <1>1 DEF EventWith
<1> QED  BY <1>2, <1>3

LEMMA SharedWeight ==
    ASSUME NEW e \in Events, NEW s \in 5..11
    PROVE  e.weight \div Share(s) \in Int
<1>1. Share(s) \in {1, 2, 4}
  BY DEF Share
<1>2. \A w \in Int : w \div 1 \in Int /\ w \div 2 \in Int /\ w \div 4 \in Int
  OBVIOUS
<1> QED  BY <1>1, <1>2, EventWeight

\* A group's total is a row, of finitely many signals.
LEMMA TotalRow ==
    ASSUME log \in Seq(Events), NEW s \in 5..11, NEW k
    PROVE  IsFiniteSet(HitBy(s, k)) /\ Total(s, k) \in Row
<1>1. IsFiniteSet(HitBy(s, k)) /\ HitBy(s, k) \subseteq DOMAIN log
  <2>1. DOMAIN log = 1..Len(log) /\ Len(log) \in Nat
    OBVIOUS
  <2>2. IsFiniteSet(1..Len(log))
    BY <2>1, FS_Interval
  <2> QED  BY <2>1, <2>2, FS_Subset DEF HitBy
<1> DEFINE f == [i \in DOMAIN log |-> log[i].weight \div Share(s)]
<1>2. \A i \in HitBy(s, k) : f[i] \in Int
  <2>1. \A i \in DOMAIN log : log[i] \in Events
    OBVIOUS
  <2> QED  BY <1>1, <2>1, SharedWeight
<1> HIDE DEF f
<1>3. F!SumFunctionOnSet(f, HitBy(s, k)) \in Int
  BY <1>1, <1>2, SumIn
<1>4. Cardinality(HitBy(s, k)) \in Nat
  BY <1>1, FS_CardinalityType
<1>5. Total(s, k) = [score |-> F!SumFunctionOnSet(f, HitBy(s, k)),
                     count |-> Cardinality(HitBy(s, k))]
  BY DEF Total, f
<1> QED  BY <1>1, <1>3, <1>4, <1>5 DEF Row

\* Of seven statements, finitely many.
LEMMA HittingFinite ==
    ASSUME NEW n \in 4..11, NEW k
    PROVE  IsFiniteSet(Hitting(n, k)) /\ Hitting(n, k) \subseteq 5..n
<1>1. IsFiniteSet(5..n)
  BY FS_Interval
<1> QED  BY <1>1, FS_Subset DEF Hitting

\* What statements leave is a row, or none.
LEMMA UptoRow ==
    ASSUME log \in Seq(Events), NEW n \in 4..11, NEW k
    PROVE  Upto(n, k) \in Row \cup {NoRow}
<1> DEFINE A == Hitting(n, k)
           sc == [s \in A |-> Total(s, k).score]
           ct == [s \in A |-> Total(s, k).count]
<1>1. IsFiniteSet(A) /\ \A s \in A : s \in 5..11
  <2>1. A \subseteq 5..n /\ 5..n \subseteq 5..11
    BY HittingFinite
  <2> QED  BY <2>1, HittingFinite
<1>2. \A s \in A : sc[s] \in Int /\ ct[s] \in Nat
  <2>1. \A s \in A : Total(s, k) \in Row
    BY <1>1, TotalRow
  <2> QED  BY <2>1, RowFields
<1>3. Upto(n, k) = IF A = {} THEN NoRow
                   ELSE [score |-> F!SumFunctionOnSet(sc, A),
                         count |-> F!SumFunctionOnSet(ct, A)]
  BY DEF Upto
<1>4. F!SumFunctionOnSet(sc, A) \in Int /\ F!SumFunctionOnSet(ct, A) \in Nat
  <2> HIDE DEF A, sc, ct
  <2> QED  BY <1>1, <1>2, SumIn
<1> HIDE DEF sc, ct, A
<1> QED  BY <1>3, <1>4 DEF Row

\* Each statement adds its group to what the earlier ones left.
LEMMA UptoNext ==
    ASSUME log \in Seq(Events), NEW n \in 5..11, NEW k
    PROVE  /\ HitBy(n, k) = {} => Upto(n, k) = Upto(n - 1, k)
           /\ HitBy(n, k) # {} =>
                Upto(n, k) = Plus(Upto(n - 1, k), Total(n, k).score, Total(n, k).count)
<1> DEFINE A == Hitting(n - 1, k)
           B == Hitting(n, k)
<1>1. n - 1 \in 4..11 /\ n \notin A /\ IsFiniteSet(A) /\ A \subseteq 5..11
  <2>1. n - 1 \in 4..11 /\ n \in 4..11
    OBVIOUS
  <2>2. n \notin 5..(n - 1) /\ 5..(n - 1) \subseteq 5..11
    OBVIOUS
  <2> QED  BY <2>1, <2>2, HittingFinite
<1>2. B = A \cup (IF HitBy(n, k) = {} THEN {} ELSE {n})
  <2>1. 5..n = 5..(n - 1) \cup {n}
    OBVIOUS
  <2> QED  BY <2>1 DEF Hitting
<1>3. CASE HitBy(n, k) = {}
  <2>1. B = A
    BY <1>2, <1>3
  <2> QED  BY <1>3, <2>1 DEF Upto
<1>4. CASE HitBy(n, k) # {}
  <2>1. B = A \cup {n}
    BY <1>2, <1>4
  <2>2. \A s \in B : s \in 5..11 /\ Total(s, k).score \in Int /\ Total(s, k).count \in Nat
    <3>1. \A s \in B : s \in 5..11
      BY <1>1, <2>1
    <3>2. \A s \in 5..11 : Total(s, k) \in Row
      BY TotalRow
    <3> QED  BY <3>1, <3>2, RowFields
  <2> DEFINE sc(S) == [s \in S |-> Total(s, k).score]
             ct(S) == [s \in S |-> Total(s, k).count]
  <2>3. Upto(n, k) = [score |-> F!SumFunctionOnSet(sc(B), B),
                      count |-> F!SumFunctionOnSet(ct(B), B)]
    <3>1. B # {}
      BY <2>1
    <3> QED  BY <3>1 DEF Upto
  <2>4. F!SumFunctionOnSet(sc(B), B) = Total(n, k).score + F!SumFunctionOnSet(sc(A), A)
    <3> DEFINE f == sc(B)
               h == sc(A)
    <3>1. f[n] = Total(n, k).score /\ f[n] \in Int
      BY <2>1, <2>2
    <3>2. \A s \in A : f[s] \in Int /\ f[s] = h[s]
      BY <2>1, <2>2
    <3> HIDE DEF f, h, A, B
    <3>3. F!SumFunctionOnSet(f, A \cup {n}) = f[n] + F!SumFunctionOnSet(h, A)
      BY <1>1, <3>1, <3>2, SumInsert
    <3> QED  BY <2>1, <3>1, <3>3 DEF f, h
  <2>5. F!SumFunctionOnSet(ct(B), B) = Total(n, k).count + F!SumFunctionOnSet(ct(A), A)
    <3> DEFINE f == ct(B)
               h == ct(A)
    <3>1. f[n] = Total(n, k).count /\ f[n] \in Int
      BY <2>1, <2>2
    <3>2. \A s \in A : f[s] \in Int /\ f[s] = h[s]
      BY <2>1, <2>2
    <3> HIDE DEF f, h, A, B
    <3>3. F!SumFunctionOnSet(f, A \cup {n}) = f[n] + F!SumFunctionOnSet(h, A)
      BY <1>1, <3>1, <3>2, SumInsert
    <3> QED  BY <2>1, <3>1, <3>3 DEF f, h
  <2>6. F!SumFunctionOnSet(sc(A), A) \in Int /\ F!SumFunctionOnSet(ct(A), A) \in Nat
    <3>1. \A s \in A : sc(A)[s] \in Int /\ ct(A)[s] \in Nat
      BY <2>1, <2>2
    <3> HIDE DEF A, sc, ct
    <3> QED  BY <1>1, <3>1, SumIn
  <2>7. A = {} => F!SumFunctionOnSet(sc(A), A) = 0 /\ F!SumFunctionOnSet(ct(A), A) = 0
    <3> HIDE DEF A, sc, ct
    <3> QED  BY SumEmpty
  <2>8. Upto(n - 1, k) = IF A = {} THEN NoRow
                         ELSE [score |-> F!SumFunctionOnSet(sc(A), A),
                               count |-> F!SumFunctionOnSet(ct(A), A)]
    BY DEF Upto
  <2>9. Total(n, k).score \in Int /\ Total(n, k).count \in Nat
    BY <2>1, <2>2
  <2> DEFINE u == F!SumFunctionOnSet(sc(A), A)
             v == F!SumFunctionOnSet(ct(A), A)
             a == Total(n, k).score
             b == Total(n, k).count
  <2>10. u \in Int /\ v \in Nat /\ a \in Int /\ b \in Nat
    BY <2>6, <2>9
  <2>11. Upto(n, k) = [score |-> a + u, count |-> b + v]
    BY <2>3, <2>4, <2>5
  <2>12. [score |-> u, count |-> v] # NoRow
    <3> HIDE DEF u, v
    <3> QED  BY <2>10, SignalConstants DEF Row
  <2> HIDE DEF u, v, a, b, A, B
  <2>13. Upto(n - 1, k) = IF A = {} THEN NoRow ELSE [score |-> u, count |-> v]
    BY <2>8 DEF u, v
  <2>14. CASE A = {}
    <3>1. u = 0 /\ v = 0
      BY <2>7, <2>14 DEF u, v
    <3>2. Upto(n, k) = [score |-> a, count |-> b] /\ Upto(n - 1, k) = NoRow
      BY <2>10, <2>11, <2>13, <2>14, <3>1
    <3> QED  BY <1>4, <3>2 DEF Plus, a, b
  <2>15. CASE A # {}
    <3> DEFINE row == [score |-> u, count |-> v]
    <3>1. Upto(n - 1, k) = row /\ row # NoRow
      BY <2>12, <2>13, <2>15
    <3>2. Plus(row, a, b) = [score |-> u + a, count |-> v + b]
      BY <3>1 DEF Plus
    <3>3. a + u = u + a /\ b + v = v + b
      BY <2>10
    <3> HIDE DEF row
    <3> QED  BY <1>4, <2>11, <3>1, <3>2, <3>3 DEF a, b
  <2> QED  BY <2>14, <2>15
<1> QED  BY <1>3, <1>4

\* What an event contributes to, statement by statement.
LEMMA HitCases ==
    ASSUME NEW e, NEW k
    PROVE  /\ Hits(5, e, k) <=> k \in Artist /\ e.subject = k
           /\ Hits(6, e, k) <=> k \in Album /\ e.subject = k
           /\ Hits(7, e, k) <=> k \in Track /\ e.subject = k
           /\ Hits(8, e, k) <=> k \in Label /\ e.subject = k
           /\ Hits(9, e, k) <=> e.subject \in Album /\ albumArtist[e.subject] = k
           /\ Hits(10, e, k) <=> e.subject \in Track /\ trackAlbum[e.subject] = k
           /\ Hits(11, e, k) <=>
                /\ e.subject \in Track
                /\ k = IF trackArtist[e.subject] # Null THEN trackArtist[e.subject]
                       ELSE IF trackAlbum[e.subject] # Null
                       THEN albumArtist[trackAlbum[e.subject]] ELSE Null
BY DEF Hits, Tables

\* The aggregating statements by number.
LEMMA StatementNumbers ==
    \A s : s \in 5..11 <=> s \in {5, 6, 7, 8, 9, 10, 11}
OBVIOUS

\* An event contributes to exactly the rows Append would post it to now, to
\* each in one statement, and its share there is the part Append posts.
LEMMA HitsPosted ==
    ASSUME LinksTypedNow, NEW e \in Events, NEW k \in Key
    PROVE  /\ k \notin Goes(e) => \A s \in 5..11 : ~Hits(s, e, k)
           /\ k \in Goes(e) =>
                \E s \in 5..11 :
                   /\ Hits(s, e, k)
                   /\ \A r \in 5..11 : Hits(r, e, k) => r = s
                   /\ Ledger!Part(e, k) = e.weight \div Share(s)
<1>1. /\ e.subject \in Key /\ e.weight \in Int /\ e.weight \div 1 = e.weight
      /\ Share(5) = 1 /\ Share(6) = 1 /\ Share(7) = 1 /\ Share(8) = 1
      /\ Share(9) = 2 /\ Share(10) = 2 /\ Share(11) = 4
  <2>1. \A w \in Int : w \div 1 = w
    OBVIOUS
  <2> QED  BY <2>1, EventFields, EventWeight DEF Share
<1>2. /\ Artist \cap Label = {} /\ Album \cap Label = {} /\ Track \cap Label = {}
      /\ Null \notin Key /\ Null # k
  BY SignalConstants
<1> DEFINE Only(s) == /\ Hits(s, e, k)
                      /\ \A r \in 5..11 : Hits(r, e, k) => r = s
                      /\ Ledger!Part(e, k) = e.weight \div Share(s)
<1> DEFINE p == ArtistOf(e)
<1>3. k \in Goes(e) <=> k = e.subject \/ k = AlbumOf(e) \/ k = p
  BY <1>2 DEF Goes, Ledger!Touched
<1>4. CASE k = e.subject
  <2>1. Ledger!Part(e, k) = e.weight
    BY <1>4 DEF Ledger!Part
  <2>2. /\ ~Hits(9, e, k) /\ ~Hits(10, e, k) /\ ~Hits(11, e, k)
        /\ Hits(5, e, k) <=> k \in Artist
        /\ Hits(6, e, k) <=> k \in Album
        /\ Hits(7, e, k) <=> k \in Track
        /\ Hits(8, e, k) <=> k \in Label
    BY <1>2, <1>4, HitCases, Sorts DEF LinksTypedNow
  <2>3. k \in Artist => Only(5)
    BY <1>1, <1>2, <2>1, <2>2, Sorts, StatementNumbers
  <2>4. k \in Album => Only(6)
    BY <1>1, <1>2, <2>1, <2>2, Sorts, StatementNumbers
  <2>5. k \in Track => Only(7)
    BY <1>1, <1>2, <2>1, <2>2, Sorts, StatementNumbers
  <2>6. k \in Label => Only(8)
    BY <1>1, <1>2, <2>1, <2>2, Sorts, StatementNumbers
  <2>7. \E s \in 5..11 : Only(s)
    <3> HIDE DEF Only
    <3>1. 5 \in 5..11 /\ 6 \in 5..11 /\ 7 \in 5..11 /\ 8 \in 5..11
      OBVIOUS
    <3> QED  BY <2>3, <2>4, <2>5, <2>6, <3>1 DEF Key
  <2> QED  BY <1>3, <1>4, <2>7
<1>5. CASE k # e.subject /\ k = AlbumOf(e)
  <2>1. e.subject \in Track /\ trackAlbum[e.subject] = k /\ k \in Album
    BY <1>2, <1>5, Sorts DEF AlbumOf, LinksTypedNow
  <2>2. Ledger!Part(e, k) = e.weight \div 2
    BY <1>5, <2>1 DEF Ledger!Part
  <2>3. /\ Hits(10, e, k) /\ ~Hits(5, e, k) /\ ~Hits(6, e, k) /\ ~Hits(7, e, k)
        /\ ~Hits(8, e, k) /\ ~Hits(9, e, k) /\ ~Hits(11, e, k)
    BY <1>2, <1>5, <2>1, HitCases, Sorts DEF LinksTypedNow
  <2>4. Only(10) /\ 10 \in 5..11
    BY <1>1, <2>2, <2>3, StatementNumbers
  <2> HIDE DEF Only
  <2>5. \E s \in 5..11 : Only(s)
    BY <2>4
  <2> QED  BY <1>3, <1>5, <2>5 DEF Only
<1>6. CASE k # e.subject /\ k # AlbumOf(e) /\ k = p
  <2>1. k \in Artist /\ e.subject \in Album \cup Track
    BY <1>2, <1>6, Sorts DEF ArtistOf, LinksTypedNow
  <2>2. /\ ~Hits(5, e, k) /\ ~Hits(6, e, k) /\ ~Hits(7, e, k) /\ ~Hits(8, e, k)
        /\ ~Hits(10, e, k)
    BY <1>6, <2>1, HitCases, Sorts DEF LinksTypedNow
  <2>3. CASE e.subject \in Album
    <3>1. Ledger!Part(e, k) = e.weight \div 2
      BY <1>6, <2>3 DEF Ledger!Part
    <3>2. Hits(9, e, k) /\ ~Hits(11, e, k)
      BY <1>6, <2>1, <2>3, HitCases, Sorts DEF ArtistOf
    <3>3. Only(9) /\ 9 \in 5..11
      BY <1>1, <2>2, <3>1, <3>2, StatementNumbers
    <3> HIDE DEF Only
    <3>4. \E s \in 5..11 : Only(s)
      BY <3>3
    <3> QED  BY <1>3, <1>6, <3>4 DEF Only
  <2>4. CASE e.subject \in Track
    <3>1. Ledger!Part(e, k) = e.weight \div 4
      BY <1>6, <2>1, <2>4, Sorts DEF Ledger!Part
    <3>2. Hits(11, e, k) /\ ~Hits(9, e, k)
      BY <1>2, <1>6, <2>1, <2>4, HitCases, Sorts DEF ArtistOf
    <3>3. Only(11) /\ 11 \in 5..11
      BY <1>1, <2>2, <3>1, <3>2, StatementNumbers
    <3> HIDE DEF Only
    <3>4. \E s \in 5..11 : Only(s)
      BY <3>3
    <3> QED  BY <1>3, <1>6, <3>4 DEF Only
  <2> QED  BY <2>1, <2>3, <2>4
<1>7. CASE k # e.subject /\ k # AlbumOf(e) /\ k # p
  <2>1. ~Hits(5, e, k) /\ ~Hits(6, e, k) /\ ~Hits(7, e, k) /\ ~Hits(8, e, k)
    BY <1>7, HitCases
  <2>2. ~Hits(10, e, k)
    BY <1>7, HitCases DEF AlbumOf
  <2>3. ~Hits(9, e, k) /\ ~Hits(11, e, k)
    BY <1>2, <1>7, HitCases, Sorts DEF ArtistOf
  <2> QED  BY <1>3, <1>7, <2>1, <2>2, <2>3, StatementNumbers
<1> QED  BY <1>4, <1>5, <1>6, <1>7

\* So these are the rows that count as its own when it is committed.
LEMMA GoingIsGoes ==
    ASSUME LinksTypedNow, NEW w \in Writer, event[w] \in Events
    PROVE  Going(w) = Goes(event[w])
<1>1. Goes(event[w]) \subseteq Key
  <2>1. /\ AlbumOf(event[w]) \in Album \cup {Null}
        /\ ArtistOf(event[w]) \in Artist \cup {Null}
    BY Sorts DEF AlbumOf, ArtistOf, LinksTypedNow
  <2> QED  BY <2>1, TouchedKeys DEF Goes
<1>2. \A k \in Key : k \in Goes(event[w]) <=> \E s \in 5..11 : Hits(s, event[w], k)
  BY HitsPosted
<1> QED  BY <1>1, <1>2 DEF Going

\* The log's direct hits do not depend on links.
LEMMA DirectFrozen ==
    ASSUME log' = log, NEW s \in 5..8, NEW k
    PROVE  HitBy(s, k)' = HitBy(s, k)
BY DEF HitBy, Hits, Tables

\* Without a new signal, or one that a link moved, k's row stays what it was.
LEMMA ReplayFrozen ==
    ASSUME log' = log, NEW k, \A s \in 9..11 : HitBy(s, k)' = HitBy(s, k)
    PROVE  /\ \A s \in 5..11 : HitBy(s, k)' = HitBy(s, k) /\ Total(s, k)' = Total(s, k)
           /\ \A n \in 4..11 : Upto(n, k)' = Upto(n, k)
           /\ Replay(k)' = Replay(k)
<1>1. ASSUME NEW s \in 5..11 PROVE HitBy(s, k)' = HitBy(s, k) /\ Total(s, k)' = Total(s, k)
  <2>1. HitBy(s, k)' = HitBy(s, k)
    <3>1. s \in 5..8 \/ s \in 9..11
      OBVIOUS
    <3> QED  BY <3>1, DirectFrozen
  <2> QED  BY <2>1 DEF Total, Share
<1>2. ASSUME NEW n \in 4..11 PROVE Upto(n, k)' = Upto(n, k)
  <2>1. Hitting(n, k)' = Hitting(n, k) /\ Hitting(n, k) \subseteq 5..11
    BY <1>1 DEF Hitting
  <2> DEFINE A == Hitting(n, k)
  <2>2. /\ [s \in A |-> Total(s, k)'.score] = [s \in A |-> Total(s, k).score]
        /\ [s \in A |-> Total(s, k)'.count] = [s \in A |-> Total(s, k).count]
    BY <1>1, <2>1
  <2> QED  BY <2>1, <2>2 DEF Upto
<1>3. Replay(k)' = Replay(k)
  <2>1. Replay(k)' = Upto(11, k)' /\ 11 \in 4..11
    BY DEF Replay, Upto, Hitting
  <2> QED  BY <1>2, <2>1, ReplayIsUpto
<1> QED  BY <1>1, <1>2, <1>3

LEMMA LinksFrozen ==
    ASSUME UNCHANGED <<log, links>>, NEW k
    PROVE  \A s \in 9..11 : HitBy(s, k)' = HitBy(s, k)
BY DEF HitBy, Hits, links

\* A committed event changes what the log accounts for, up to any statement,
\* exactly as Append posts it, if it contributes to the row up to there.
LEMMA UptoPosts ==
    ASSUME log \in Seq(Events), NEW e \in Events, log' = Append(log, e),
           LinksTypedNow, UNCHANGED links, NEW k \in Key, NEW m \in 4..11
    PROVE  /\ (\A s \in 5..m : ~Hits(s, e, k)) =>
                 /\ Upto(m, k)' = Upto(m, k)
                 /\ \A s \in 5..m : HitBy(s, k)' = HitBy(s, k) /\ Total(s, k)' = Total(s, k)
           /\ (\E s \in 5..m : Hits(s, e, k)) =>
                 Upto(m, k)' = Ledger!Posted(Upto(m, k), Ledger!Part(e, k))
<1> DEFINE n == Len(log) + 1
           share(s) == e.weight \div Share(s)
<1>1. /\ DOMAIN log = 1..Len(log) /\ Len(log) \in Nat /\ n \notin DOMAIN log
      /\ DOMAIN log' = DOMAIN log \cup {n} /\ log'[n] = e
      /\ \A i \in DOMAIN log : log'[i] = log[i]
      /\ log' \in Seq(Events)
  OBVIOUS
<1>2. ASSUME NEW s \in 5..11
      PROVE  HitBy(s, k)' = HitBy(s, k) \cup (IF Hits(s, e, k) THEN {n} ELSE {})
  <2>1. \A x : Hits(s, x, k)' <=> Hits(s, x, k)
    BY DEF Hits, links
  <2> HIDE DEF n
  <2> QED  BY <1>1, <2>1 DEF HitBy
<1>3. \A s \in 5..11 : IsFiniteSet(HitBy(s, k)) /\ Total(s, k) \in Row
  BY TotalRow
<1>4. \A s \in 5..11 : \A i \in HitBy(s, k) :
        /\ i \in DOMAIN log /\ i # n
        /\ log[i].weight \div Share(s) \in Int
        /\ log'[i].weight \div Share(s) = log[i].weight \div Share(s)
  <2>1. \A i \in DOMAIN log : log[i] \in Events
    OBVIOUS
  <2> HIDE DEF n
  <2> QED  BY <1>1, <2>1, SharedWeight DEF HitBy
<1> HIDE DEF n
<1>5. ASSUME NEW s \in 5..11, ~Hits(s, e, k) PROVE Total(s, k)' = Total(s, k)
  <2> DEFINE f == [i \in DOMAIN log |-> log[i].weight \div Share(s)]
             h == [i \in DOMAIN log' |-> log'[i].weight \div Share(s)]
             S == HitBy(s, k)
  <2>1. HitBy(s, k)' = S
    BY <1>2, <1>5
  <2>2. \A i \in S : f[i] = h[i]
    BY <1>1, <1>4
  <2>3. F!SumFunctionOnSet(f, S) = F!SumFunctionOnSet(h, S)
    <3> HIDE DEF f, h, S
    <3> QED  BY <1>3, <2>2, SumAgree DEF S
  <2>4. Share(s)' = Share(s)
    BY DEF Share
  <2> QED  BY <2>1, <2>3, <2>4 DEF Total
<1>6. ASSUME NEW s \in 5..11, Hits(s, e, k)
      PROVE  /\ Total(s, k)'.score = share(s) + Total(s, k).score
             /\ Total(s, k)'.count = 1 + Total(s, k).count
             /\ share(s) \in Int
             /\ HitBy(s, k)' # {}
             /\ HitBy(s, k) = {} => Total(s, k).score = 0 /\ Total(s, k).count = 0
  <2> DEFINE f == [i \in DOMAIN log |-> log[i].weight \div Share(s)]
             h == [i \in DOMAIN log' |-> log'[i].weight \div Share(s)]
             S == HitBy(s, k)
  <2>1. HitBy(s, k)' = S \cup {n} /\ n \notin S /\ IsFiniteSet(S)
    BY <1>2, <1>3, <1>4, <1>6
  <2>2. \A i \in S : h[i] \in Int /\ h[i] = f[i]
    BY <1>1, <1>4
  <2>3. h[n] = share(s) /\ share(s) \in Int
    BY <1>1, SharedWeight
  <2>4. F!SumFunctionOnSet(h, S \cup {n}) = share(s) + F!SumFunctionOnSet(f, S)
    <3> HIDE DEF f, h, S, share
    <3>1. h[n] \in Int
      BY <2>3
    <3>2. F!SumFunctionOnSet(h, S \cup {n}) = h[n] + F!SumFunctionOnSet(f, S)
      BY <2>1, <2>2, <3>1, SumInsert
    <3> QED  BY <2>3, <3>2
  <2>5. Cardinality(S \cup {n}) = Cardinality(S) + 1 /\ Cardinality(S) \in Nat
    BY <2>1, FS_AddElement, FS_CardinalityType
  <2>6. /\ Total(s, k).score = F!SumFunctionOnSet(f, S)
        /\ Total(s, k).count = Cardinality(S)
    BY DEF Total
  <2>7. Share(s)' = Share(s)
    BY DEF Share
  <2>8. /\ Total(s, k)'.score = F!SumFunctionOnSet(h, S \cup {n})
        /\ Total(s, k)'.count = Cardinality(S \cup {n})
    <3>1. Total(s, k)' = [score |-> F!SumFunctionOnSet(h, HitBy(s, k)'),
                          count |-> Cardinality(HitBy(s, k)')]
      BY <2>7 DEF Total
    <3> HIDE DEF h, S
    <3> QED  BY <2>1, <3>1
  <2>9. S = {} => F!SumFunctionOnSet(f, S) = 0 /\ Cardinality(S) = 0
    <3> HIDE DEF f, S
    <3> QED  BY SumEmpty, FS_EmptySet
  <2>10. 1 + Cardinality(S) = Cardinality(S) + 1
    BY <2>5
  <2> HIDE DEF f, h, share
  <2> QED  BY <2>1, <2>3, <2>4, <2>5, <2>6, <2>8, <2>9, <2>10
<1> DEFINE A == Hitting(m, k)
           B == Hitting(m, k)'
<1>0. 5..m \subseteq 5..11
  OBVIOUS
<1>7. IsFiniteSet(A) /\ A \subseteq 5..m /\ A \subseteq 5..11
  BY <1>0, HittingFinite
<1>8. CASE \A s \in 5..m : ~Hits(s, e, k)
  <2>2. \A s \in 5..m : HitBy(s, k)' = HitBy(s, k) /\ Total(s, k)' = Total(s, k)
    BY <1>0, <1>2, <1>5, <1>8
  <2>3. B = A
    BY <2>2 DEF Hitting
  <2>4. /\ [s \in A |-> Total(s, k)'.score] = [s \in A |-> Total(s, k).score]
        /\ [s \in A |-> Total(s, k)'.count] = [s \in A |-> Total(s, k).count]
    BY <1>7, <2>2
  <2>5. Upto(m, k)' = Upto(m, k)
    BY <2>3, <2>4 DEF Upto
  <2> QED  BY <1>8, <2>2, <2>5
<1>9. CASE \E s \in 5..m : Hits(s, e, k)
  <2>1. PICK t \in 5..m : /\ Hits(t, e, k) /\ t \in 5..11
                          /\ \A r \in 5..11 : Hits(r, e, k) => r = t
                          /\ Ledger!Part(e, k) = share(t)
    <3>1. PICK t \in 5..m : Hits(t, e, k)
      BY <1>9
    <3>2. k \in Goes(e) /\ t \in 5..11
      BY <1>0, <3>1, HitsPosted
    <3>3. PICK u \in 5..11 : /\ Hits(u, e, k)
                             /\ \A r \in 5..11 : Hits(r, e, k) => r = u
                             /\ Ledger!Part(e, k) = share(u)
      BY <3>2, HitsPosted
    <3>4. t = u
      BY <3>1, <3>2, <3>3
    <3> HIDE DEF share
    <3> QED  BY <3>1, <3>2, <3>3, <3>4
  <2>2. \A s \in 5..11 \ {t} :
          HitBy(s, k)' = HitBy(s, k) /\ Total(s, k)' = Total(s, k)
    BY <1>2, <1>5, <2>1
  <2>3. B = A \cup {t}
    BY <1>0, <1>6, <2>1, <2>2 DEF Hitting
  <2> DEFINE sc == [s \in A |-> Total(s, k).score]
             ct == [s \in A |-> Total(s, k).count]
             sc2 == [s \in B |-> Total(s, k)'.score]
             ct2 == [s \in B |-> Total(s, k)'.count]
             d == share(t)
  <2>4. /\ d \in Int
        /\ sc2[t] = d + Total(t, k).score /\ sc2[t] \in Int
        /\ ct2[t] = 1 + Total(t, k).count /\ ct2[t] \in Int
        /\ Total(t, k).score \in Int /\ Total(t, k).count \in Int
        /\ t \notin A => Total(t, k).score = 0 /\ Total(t, k).count = 0
        /\ t \in A => sc[t] = Total(t, k).score /\ ct[t] = Total(t, k).count
    <3>1. Total(t, k).score \in Int /\ Total(t, k).count \in Int
      <4>1. t \in 5..11
        BY <1>0
      <4> QED  BY <1>3, <4>1, RowFields
    <3>2. t \notin A => HitBy(t, k) = {}
      <4>1. t \in 5..m
        OBVIOUS
      <4> QED  BY <4>1 DEF Hitting
    <3>3. /\ Total(t, k)'.score = d + Total(t, k).score
          /\ Total(t, k)'.count = 1 + Total(t, k).count
          /\ d \in Int
          /\ HitBy(t, k) = {} => Total(t, k).score = 0 /\ Total(t, k).count = 0
      <4>1. t \in 5..11 /\ Hits(t, e, k)
        BY <2>1
      <4> HIDE DEF share
      <4> QED  BY <1>6, <4>1
    <3>4. sc2[t] = Total(t, k)'.score /\ ct2[t] = Total(t, k)'.count
      BY <2>3
    <3>5. t \in A => sc[t] = Total(t, k).score /\ ct[t] = Total(t, k).count
      OBVIOUS
    <3> HIDE DEF share, sc, ct, sc2, ct2, A, B, d
    <3> QED  BY <3>1, <3>2, <3>3, <3>4, <3>5
  <2>5. /\ \A s \in A \ {t} : sc2[s] \in Int /\ sc2[s] = sc[s]
        /\ \A s \in A \ {t} : ct2[s] \in Int /\ ct2[s] = ct[s]
    <3>1. \A s \in A \ {t} : Total(s, k).score \in Int /\ Total(s, k).count \in Int
      <4>1. \A s \in A \ {t} : Total(s, k) \in Row
        <5> HIDE DEF A
        <5> QED  BY <1>3, <1>7
      <4> QED  BY <4>1, RowFields
    <3> QED  BY <1>7, <2>2, <2>3, <3>1
  <2>6. /\ F!SumFunctionOnSet(sc2, B) = d + F!SumFunctionOnSet(sc, A)
        /\ F!SumFunctionOnSet(ct2, B) = 1 + F!SumFunctionOnSet(ct, A)
    <3> HIDE DEF sc, ct, sc2, ct2, A, B, share
    <3>1. CASE t \in A
      <4>1. B = A
        BY <2>3, <3>1
      <4>2. F!SumFunctionOnSet(sc2, A) = d + F!SumFunctionOnSet(sc, A)
        <5> HIDE DEF d
        <5>1. sc[t] \in Int /\ sc2[t] \in Int /\ sc2[t] = d + sc[t] /\ d \in Int
          BY <2>4, <3>1
        <5>2. IsFiniteSet(A) /\ \A s \in A \ {t} : sc2[s] \in Int /\ sc2[s] = sc[s]
          BY <1>7, <2>5
        <5>3. F!SumFunctionOnSet(sc2, A) = (sc2[t] - sc[t]) + F!SumFunctionOnSet(sc, A)
          BY <3>1, <5>1, <5>2, SumGrow
        <5> QED  BY <5>1, <5>3
      <4>3. F!SumFunctionOnSet(ct2, A) = 1 + F!SumFunctionOnSet(ct, A)
        <5> HIDE DEF d
        <5>1. ct[t] \in Int /\ ct2[t] \in Int /\ ct2[t] = 1 + ct[t]
          BY <2>4, <3>1
        <5>2. IsFiniteSet(A) /\ \A s \in A \ {t} : ct2[s] \in Int /\ ct2[s] = ct[s]
          BY <1>7, <2>5
        <5>3. F!SumFunctionOnSet(ct2, A) = (ct2[t] - ct[t]) + F!SumFunctionOnSet(ct, A)
          BY <3>1, <5>1, <5>2, SumGrow
        <5> QED  BY <5>1, <5>3
      <4> QED  BY <4>1, <4>2, <4>3
    <3>2. CASE t \notin A
      <4>1. F!SumFunctionOnSet(sc2, A \cup {t}) = sc2[t] + F!SumFunctionOnSet(sc, A)
        <5>1. sc2[t] \in Int /\ \A s \in A : sc2[s] \in Int /\ sc2[s] = sc[s]
          BY <2>4, <2>5, <3>2
        <5> QED  BY <1>7, <3>2, <5>1, SumInsert
      <4>2. F!SumFunctionOnSet(ct2, A \cup {t}) = ct2[t] + F!SumFunctionOnSet(ct, A)
        <5>1. ct2[t] \in Int /\ \A s \in A : ct2[s] \in Int /\ ct2[s] = ct[s]
          BY <2>4, <2>5, <3>2
        <5> QED  BY <1>7, <3>2, <5>1, SumInsert
      <4>3. sc2[t] = d /\ ct2[t] = 1
        BY <2>4, <3>2
      <4> QED  BY <2>3, <4>1, <4>2, <4>3
    <3> QED  BY <3>1, <3>2
  <2> DEFINE u == F!SumFunctionOnSet(sc, A)
             v == F!SumFunctionOnSet(ct, A)
  <2>7. u \in Int /\ v \in Nat
    <3>1. \A s \in A : Total(s, k).score \in Int /\ Total(s, k).count \in Nat
      BY <1>3, <1>7, RowFields
    <3>2. \A s \in A : sc[s] \in Int /\ ct[s] \in Nat
      BY <3>1
    <3> HIDE DEF sc, ct, A
    <3> QED  BY <1>7, <3>2, SumIn
  <2>8. A = {} => u = 0 /\ v = 0
    <3> HIDE DEF sc, ct, A
    <3> QED  BY SumEmpty
  <2>9. Upto(m, k) = IF A = {} THEN NoRow ELSE [score |-> u, count |-> v]
    BY DEF Upto
  <2>10. Upto(m, k)' = [score |-> d + u, count |-> 1 + v]
    <3>1. B # {}
      BY <2>3
    <3>2. Upto(m, k)' = IF B = {} THEN NoRow
                       ELSE [score |-> F!SumFunctionOnSet(sc2, B),
                             count |-> F!SumFunctionOnSet(ct2, B)]
      BY DEF Upto
    <3> HIDE DEF sc, ct, sc2, ct2, A, B, share
    <3> QED  BY <2>6, <3>1, <3>2
  <2>11. [score |-> u, count |-> v] # NoRow
    <3> HIDE DEF u, v
    <3> QED  BY <2>7, SignalConstants DEF Row
  <2>12. Ledger!Posted(Upto(m, k), d) = [score |-> d + u, count |-> 1 + v]
    <3> HIDE DEF u, v, A, d
    <3>1. CASE A = {}
      BY <2>4, <2>7, <2>8, <2>9, <3>1 DEF Ledger!Posted
    <3>2. CASE A # {}
      <4>1. d + u = u + d /\ 1 + v = v + 1
        BY <2>4, <2>7
      <4> QED  BY <2>9, <2>11, <3>2, <4>1 DEF Ledger!Posted
    <3> QED  BY <3>1, <3>2
  <2>13. Ledger!Part(e, k) = d
    BY <2>1
  <2> QED  BY <1>9, <2>10, <2>12, <2>13
<1> QED  BY <1>8, <1>9

LEMMA ReplayPosts ==
    ASSUME log \in Seq(Events), NEW e \in Events, log' = Append(log, e),
           LinksTypedNow, UNCHANGED links, NEW k \in Key
    PROVE  Replay(k)' = IF k \in Goes(e)
                        THEN Ledger!Posted(Replay(k), Ledger!Part(e, k)) ELSE Replay(k)
<1>1. Replay(k) = Upto(11, k) /\ Replay(k)' = Upto(11, k)' /\ 11 \in 4..11
  BY DEF Replay, Upto, Hitting
<1>2. k \in Goes(e) <=> \E s \in 5..11 : Hits(s, e, k)
  BY HitsPosted
<1> QED  BY <1>1, <1>2, UptoPosts

-----------------------------------------------------------------------------
(* The types of the rows. *)

RowsTyped ==
    /\ affinity \in [Key -> Row \cup {NoRow}]
    /\ dirty \in [Key -> Row \cup {NoRow}]
    /\ DOMAIN batch \subseteq Key
    /\ \A k \in DOMAIN batch : batch[k] \in Row \cup {NoRow}
    /\ moved \subseteq Writer
    /\ drifted \subseteq Key /\ doubled \subseteq Key
    /\ shifting \subseteq Key /\ contested \subseteq Key

\* Adding to a row, or to none, gives a row.
LEMMA PlusRow ==
    ASSUME NEW row \in Row \cup {NoRow}, NEW score \in Int, NEW count \in Nat
    PROVE  Plus(row, score, count) \in Row
BY DEF Plus, Row

\* The four tables split the keys.
LEMMA TableFacts ==
    /\ \A s \in 1..4 : Tables[s] \subseteq Key
    /\ \A k \in Key : \E s \in 1..4 : k \in Tables[s]
    /\ \A s, r \in 1..4 : \A k : k \in Tables[s] /\ k \in Tables[r] => s = r
<1>1. Tables[1] = Artist /\ Tables[2] = Album /\ Tables[3] = Track /\ Tables[4] = Label
  BY DEF Tables
<1>2. \A s : s \in 1..4 <=> s \in {1, 2, 3, 4}
  OBVIOUS
<1> QED  BY <1>1, <1>2, SignalConstants DEF Key

\* What a statement finds: rows to delete, or totals to add.
LEMMA FoundRows ==
    /\ \A s \in 1..4 :
         /\ DOMAIN Found(s) = {q \in Tables[s] : affinity[q] # NoRow}
         /\ \A k \in DOMAIN Found(s) : Found(s)[k] = NoRow
    /\ \A s \in 5..11 :
         /\ DOMAIN Found(s) = {q \in Key : HitBy(s, q) # {}}
         /\ \A k \in DOMAIN Found(s) : Found(s)[k] = Total(s, k)
<1>1. \A s \in 5..11 : s \notin 1..4
  OBVIOUS
<1> QED  BY <1>1 DEF Found

\* What a statement still has to write is for keys, and rows.
LEMMA FoundTyped ==
    ASSUME log \in Seq(Events), NEW s \in 1..11
    PROVE  /\ DOMAIN Found(s) \subseteq Key
           /\ \A k \in DOMAIN Found(s) : Found(s)[k] \in Row \cup {NoRow}
<1>1. CASE s \in 1..4
  BY <1>1, FoundRows, TableFacts
<1>2. CASE s \in 5..11
  BY <1>2, FoundRows, TotalRow
<1> QED  BY <1>1, <1>2

\* Writing a row keeps the types; so does upserting one ...
LEMMA WriteTyped ==
    ASSUME RowsTyped, NEW t, NEW k \in Key, NEW row \in Row \cup {NoRow}, Write(t, k, row)
    PROVE  dirty' \in [Key -> Row \cup {NoRow}]
BY DEF RowsTyped, Write

LEMMA UpsertTyped ==
    ASSUME RowsTyped, NEW t, NEW k \in Key, NEW score \in Int, NEW count \in Nat,
           Upsert(t, k, score, count)
    PROVE  dirty' \in [Key -> Row \cup {NoRow}]
<1>1. View(t, k) \in Row \cup {NoRow}
  BY DEF View, RowsTyped
<1>2. Plus(View(t, k), score, count) \in Row \cup {NoRow}
  BY <1>1, PlusRow
<1> QED  BY <1>2, WriteTyped DEF Upsert

\* ... and so does the end of a transaction.
LEMMA EndTyped ==
    ASSUME RowsTyped, NEW t
    PROVE  /\ Release(t) => dirty' \in [Key -> Row \cup {NoRow}]
           /\ CommitAffinity(t) => affinity' \in [Key -> Row \cup {NoRow}]
BY DEF RowsTyped, Release, CommitAffinity

\* An Append's commit and a moved link are the steps that histories record.
LEMMA HistoryTyped ==
    ASSUME AppendInv, RowsTyped
    PROVE  /\ \A w \in Writer : CommitAppend(w) =>
                /\ Posted(w) \subseteq Key /\ Going(w) \subseteq Key
                /\ moved' \subseteq Writer /\ drifted' \subseteq Key
                /\ doubled' \subseteq Key
                /\ shifting' \subseteq Key /\ contested' \subseteq Key
           /\ Relink =>
                /\ moved' \subseteq Writer /\ drifted' \subseteq Key
                /\ doubled' \subseteq Key
                /\ shifting' \subseteq Key /\ contested' \subseteq Key
<1>1. ASSUME NEW w \in Writer, CommitAppend(w)
      PROVE  /\ Posted(w) \subseteq Key /\ Going(w) \subseteq Key
             /\ moved' \subseteq Writer /\ drifted' \subseteq Key
             /\ doubled' \subseteq Key
             /\ shifting' \subseteq Key /\ contested' \subseteq Key
  <2>1. pc[w] = "commit" /\ CommitHistory(w)
    BY <1>1 DEF CommitAppend
  <2>2. /\ event[w] \in Events /\ album[w] \in Album \cup {Null}
        /\ parent[w] \in Artist \cup {Null}
    BY <2>1 DEF AppendInv, Typing, Placed, Open
  <2>3. Posted(w) \subseteq Key
    BY <2>2, EventFields, Sorts DEF Posted
  <2>4. Going(w) \subseteq Key
    BY DEF Going
  <2> QED  BY <2>1, <2>3, <2>4 DEF CommitHistory, RowsTyped
<1>2. ASSUME Relink
      PROVE  /\ moved' \subseteq Writer /\ drifted' \subseteq Key
             /\ doubled' \subseteq Key
             /\ shifting' \subseteq Key /\ contested' \subseteq Key
  BY <1>2 DEF Relink, RelinkHistory, RowsTyped
<1> QED  BY <1>1, <1>2

\* The types of the rows are kept by every step.
LEMMA RowsTypedHolds == Spec => []RowsTyped
<1>0. DOMAIN <<>> = {}
  OBVIOUS
<1>1. Init => RowsTyped
  BY <1>0 DEF Init, RowsTyped
<1>2. ASSUME AppendInv, RowsTyped, [Next]_vars PROVE RowsTyped'
  <2> USE DEF tables, links, rebuildVars, history
  <2>1. ASSUME NEW w \in Writer, BeginAppend(w) PROVE RowsTyped'
    <3>1. affinity' = affinity /\ dirty' = dirty /\ batch' = batch /\ history' = history
      BY <2>1 DEF BeginAppend
    <3> QED  BY <1>2, <3>1 DEF RowsTyped
  <2>2. ASSUME NEW w \in Writer, ApplySubject(w) \/ ApplyAlbum(w) \/ ApplyArtist(w)
        PROVE  RowsTyped'
    <3> DEFINE e == event[w]
    <3>1. affinity' = affinity /\ batch' = batch /\ history' = history
      BY <2>2 DEF ApplySubject, ApplyAlbum, ApplyArtist
    <3>2. /\ e \in Events /\ e.subject \in Key
          /\ e.weight \in Int /\ e.weight \div 2 \in Int /\ e.weight \div 4 \in Int
      <4>1. e \in Events
        BY <1>2, <2>2 DEF AppendInv, Placed, Open, ApplySubject, ApplyAlbum, ApplyArtist
      <4>2. \A x \in Int : x \div 2 \in Int /\ x \div 4 \in Int
        OBVIOUS
      <4> QED  BY <4>1, <4>2, EventFields, EventWeight
    <3>3. PICK k \in Key, x \in Int : Upsert(w, k, x, 1)
      <4>1. CASE ApplySubject(w)
        BY <3>2, <4>1 DEF ApplySubject
      <4>2. CASE ApplyAlbum(w)
        <5>1. album[w] \in Key
          BY <1>2, <4>2, Sorts DEF ApplyAlbum, AppendInv, Placed, Typing
        <5> QED  BY <3>2, <4>2, <5>1 DEF ApplyAlbum
      <4>3. CASE ApplyArtist(w)
        <5>1. parent[w] \in Key
          BY <1>2, <4>3, Sorts DEF ApplyArtist, AppendInv, Placed, Typing
        <5> QED  BY <3>2, <4>3, <5>1 DEF ApplyArtist
      <4> QED  BY <2>2, <4>1, <4>2, <4>3
    <3>4. dirty' \in [Key -> Row \cup {NoRow}]
      BY <1>2, <3>3, UpsertTyped
    <3> QED  BY <1>2, <3>1, <3>4 DEF RowsTyped
  <2>3. ASSUME NEW w \in Writer, CommitAppend(w) \/ RollbackAppend(w) PROVE RowsTyped'
    <3>1. /\ batch' = batch /\ Release(w)
          /\ affinity' = affinity \/ CommitAffinity(w)
      BY <2>3 DEF CommitAppend, RollbackAppend
    <3>2. dirty' \in [Key -> Row \cup {NoRow}] /\ affinity' \in [Key -> Row \cup {NoRow}]
      <4>1. affinity \in [Key -> Row \cup {NoRow}]
        BY <1>2 DEF RowsTyped
      <4> QED  BY <1>2, <3>1, <4>1, EndTyped
    <3>3. /\ moved' \subseteq Writer /\ drifted' \subseteq Key
          /\ doubled' \subseteq Key
          /\ shifting' \subseteq Key /\ contested' \subseteq Key
      <4>1. CASE CommitAppend(w)
        BY <1>2, <4>1, HistoryTyped
      <4>2. CASE RollbackAppend(w)
        BY <1>2, <4>2 DEF RollbackAppend, RowsTyped
      <4> QED  BY <2>3, <4>1, <4>2
    <3> QED  BY <1>2, <3>1, <3>2, <3>3 DEF RowsTyped
  <2>4. CASE BeginRebuild \/ NextStatement
    <3>1. affinity' = affinity /\ dirty' = dirty /\ history' = history
      BY <2>4 DEF BeginRebuild, NextStatement
    <3>2. PICK s \in 1..11 : batch' = Found(s)
      <4>1. 1 \in 1..11 /\ \A s \in 1..10 : s + 1 \in 1..11
        OBVIOUS
      <4> QED  BY <2>4, <4>1 DEF BeginRebuild, NextStatement
    <3>3. log \in Seq(Events)
      BY <1>2 DEF AppendInv, Typing
    <3>4. DOMAIN batch' \subseteq Key /\ \A k \in DOMAIN batch' : batch'[k] \in Row \cup {NoRow}
      BY <3>2, <3>3, FoundTyped
    <3> QED  BY <1>2, <3>1, <3>4 DEF RowsTyped
  <2>5. CASE RebuildRow
    <3>1. PICK k \in DOMAIN batch :
            /\ IF batch[k] = NoRow THEN Write("rebuild", k, NoRow)
               ELSE Upsert("rebuild", k, batch[k].score, batch[k].count)
            /\ batch' = [q \in DOMAIN batch \ {k} |-> batch[q]]
      BY <2>5 DEF RebuildRow
    <3>2. k \in Key /\ batch[k] \in Row \cup {NoRow}
      BY <1>2 DEF RowsTyped
    <3>3. dirty' \in [Key -> Row \cup {NoRow}]
      <4>1. CASE batch[k] = NoRow
        BY <1>2, <3>1, <3>2, <4>1, WriteTyped
      <4>2. CASE batch[k] # NoRow
        <5>1. batch[k].score \in Int /\ batch[k].count \in Nat
          BY <3>2, <4>2, RowFields
        <5> QED  BY <1>2, <3>1, <3>2, <4>2, <5>1, UpsertTyped
      <4> QED  BY <4>1, <4>2
    <3>4. affinity' = affinity /\ history' = history
      BY <2>5 DEF RebuildRow
    <3> QED  BY <1>2, <3>1, <3>3, <3>4 DEF RowsTyped
  <2>6. CASE CommitRebuild \/ RollbackRebuild
    <3>1. /\ batch' = <<>> /\ Release("rebuild")
          /\ affinity' = affinity \/ CommitAffinity("rebuild")
          /\ moved' \subseteq Writer /\ drifted' \subseteq Key
          /\ doubled' \subseteq Key
          /\ shifting' \subseteq Key /\ contested' \subseteq Key
      BY <1>2, <2>6 DEF CommitRebuild, RollbackRebuild, RowsTyped
    <3>2. dirty' \in [Key -> Row \cup {NoRow}] /\ affinity' \in [Key -> Row \cup {NoRow}]
      <4>1. affinity \in [Key -> Row \cup {NoRow}]
        BY <1>2 DEF RowsTyped
      <4> QED  BY <1>2, <3>1, <4>1, EndTyped
    <3> QED  BY <1>0, <1>2, <3>1, <3>2 DEF RowsTyped
  <2>7. CASE Relink
    BY <1>2, <2>7, HistoryTyped DEF Relink, RowsTyped
  <2>8. CASE UNCHANGED vars
    BY <1>2, <2>8 DEF vars, RowsTyped
  <2> QED
    BY <1>2, <2>1, <2>2, <2>3, <2>4, <2>5, <2>6, <2>7, <2>8
       DEF Next, AppendStep, RebuildStep
<1>3. AppendInv /\ RowsTyped /\ [Next]_vars => RowsTyped'
  BY <1>2
<1> QED  BY <1>1, <1>3, AppendInvHolds, PTL DEF Spec

-----------------------------------------------------------------------------
(* The links and what a writer has found of them. *)

\* A writer no link was moved under knows the parents the links name.
FoundLinks(w) ==
    w \notin moved =>
        /\ Walking(w) => album[w] = AlbumOf(event[w])
        /\ pc[w] = "album" => parent[w] = trackArtist[event[w].subject]
        /\ pc[w] \in {"artist", "commit"} => parent[w] = ArtistOf(event[w])

\* A writer that stays where it is, under links that stay, knows as much.
LEMMA StillFound ==
    ASSUME NEW v \in Writer, FoundLinks(v), UNCHANGED links, v \notin moved' => v \notin moved,
           pc'[v] = pc[v], event'[v] = event[v], album'[v] = album[v],
           parent'[v] = parent[v]
    PROVE  FoundLinks(v)'
BY DEF FoundLinks, links, Walking, AlbumOf, ArtistOf

\* The lookups of propagate read the links the rebuild joins on.
LEMMA FoundLinksKeeps ==
    ASSUME AppendInv, [Next]_vars, NEW v \in Writer, FoundLinks(v)
    PROVE  FoundLinks(v)'
<1>0. Typing
  BY DEF AppendInv
<1>1. CASE Relink
  <2>1. pc' = pc /\ event' = event /\ album' = album /\ parent' = parent
    BY <1>1 DEF Relink, locals
  <2>2. moved' = IF UNCHANGED links THEN moved ELSE moved \cup {w \in Writer : Walking(w)}
    BY <1>1 DEF Relink, RelinkHistory
  <2>3. CASE UNCHANGED links
    BY <2>1, <2>2, <2>3, StillFound
  <2>4. CASE ~UNCHANGED links
    <3>1. v \notin moved' => ~Walking(v)
      BY <2>2, <2>4
    <3> QED  BY <2>1, <3>1 DEF FoundLinks, Walking
  <2> QED  BY <2>3, <2>4
<1>2. ASSUME NEW w \in Writer, BeginAppend(w) PROVE FoundLinks(v)'
  <2>1. /\ pc'[w] = "subject" /\ album' = album /\ parent' = parent
        /\ UNCHANGED links /\ moved' = moved
        /\ \A u \in Writer \ {w} : pc'[u] = pc[u] /\ event'[u] = event[u]
    BY <1>0, <1>2 DEF BeginAppend, Typing, history
  <2>2. CASE v = w
    BY <2>1, <2>2 DEF FoundLinks, Walking
  <2>3. CASE v # w
    BY <2>1, <2>3, StillFound
  <2> QED  BY <2>2, <2>3
<1>3. ASSUME NEW w \in Writer, ApplySubject(w) PROVE FoundLinks(v)'
  <2> DEFINE e == event[w]
             a == IF e.subject \in Track THEN trackAlbum[e.subject] ELSE Null
             found == IF e.subject \in Album THEN albumArtist[e.subject]
                      ELSE IF e.subject \in Track THEN trackArtist[e.subject]
                      ELSE Null
             next == IF album'[w] # Null THEN "album"
                     ELSE IF parent'[w] # Null THEN "artist" ELSE "commit"
  <2>1. /\ album' = [album EXCEPT ![w] = a] /\ parent' = [parent EXCEPT ![w] = found]
        /\ pc' = [pc EXCEPT ![w] = next]
        /\ event' = event /\ UNCHANGED links /\ moved' = moved
    BY <1>3 DEF ApplySubject, history
  <2>2. /\ album'[w] = a /\ parent'[w] = found /\ pc'[w] = next
        /\ \A u \in Writer \ {w} : /\ pc'[u] = pc[u] /\ album'[u] = album[u]
                                  /\ parent'[u] = parent[u]
    <3> HIDE DEF a, found, next
    <3> QED  BY <1>0, <2>1 DEF Typing
  <2>3. /\ AlbumOf(e)' = AlbumOf(e) /\ ArtistOf(e)' = ArtistOf(e)
        /\ trackArtist' = trackArtist
    BY <2>1 DEF AlbumOf, ArtistOf, links
  <2>4. a = AlbumOf(e)
    BY DEF AlbumOf
  <2>5. next = "album" => found = trackArtist[e.subject]
    BY <2>2, Sorts
  <2>6. next # "album" => found = ArtistOf(e)
    BY <2>2, Sorts DEF ArtistOf
  <2>7. CASE v = w
    <3> HIDE DEF a, found, next
    <3> QED  BY <2>1, <2>2, <2>3, <2>4, <2>5, <2>6, <2>7 DEF FoundLinks
  <2>8. CASE v # w
    BY <2>1, <2>2, <2>8, StillFound
  <2> QED  BY <2>7, <2>8
<1>4. ASSUME NEW w \in Writer, ApplyAlbum(w) PROVE FoundLinks(v)'
  <2> DEFINE e == event[w]
             found == IF parent[w] = Null THEN albumArtist[album[w]] ELSE parent[w]
             next == IF parent'[w] # Null THEN "artist" ELSE "commit"
  <2>1. /\ pc[w] = "album" /\ parent' = [parent EXCEPT ![w] = found]
        /\ pc' = [pc EXCEPT ![w] = next]
        /\ event' = event /\ album' = album /\ UNCHANGED links /\ moved' = moved
    BY <1>0, <1>4 DEF ApplyAlbum, Typing, history
  <2>2. /\ parent'[w] = found /\ pc'[w] = next
        /\ \A u \in Writer \ {w} : pc'[u] = pc[u] /\ parent'[u] = parent[u]
    <3> HIDE DEF found, next
    <3> QED  BY <1>0, <2>1 DEF Typing
  <2>3. /\ AlbumOf(e)' = AlbumOf(e) /\ ArtistOf(e)' = ArtistOf(e)
        /\ next \in {"artist", "commit"}
    BY <2>1 DEF AlbumOf, ArtistOf, links
  <2>4. e.subject \in Track /\ album[w] # Null
    BY <2>1 DEF AppendInv, Placed, Walking, Ledger!MayBeParents
  <2>5. CASE v = w
    <3>1. v \notin moved' => album[w] = AlbumOf(e) /\ found = ArtistOf(e)
      BY <2>1, <2>4, <2>5, Sorts DEF FoundLinks, Walking, AlbumOf, ArtistOf
    <3> HIDE DEF found, next
    <3> QED  BY <2>1, <2>2, <2>3, <2>5, <3>1 DEF FoundLinks
  <2>6. CASE v # w
    BY <2>1, <2>2, <2>6, StillFound
  <2> QED  BY <2>5, <2>6
<1>5. ASSUME NEW w \in Writer, ApplyArtist(w) PROVE FoundLinks(v)'
  <2>1. /\ pc[w] = "artist" /\ pc' = [pc EXCEPT ![w] = "commit"]
        /\ event' = event /\ album' = album /\ parent' = parent
        /\ UNCHANGED links /\ moved' = moved
    BY <1>5 DEF ApplyArtist, locals, history
  <2>2. pc'[w] = "commit" /\ \A u \in Writer \ {w} : pc'[u] = pc[u]
    BY <1>0, <2>1 DEF Typing
  <2>3. CASE v = w
    BY <2>1, <2>2, <2>3 DEF FoundLinks, Walking, AlbumOf, ArtistOf, links
  <2>4. CASE v # w
    BY <2>1, <2>2, <2>4, StillFound
  <2> QED  BY <2>3, <2>4
<1>6. ASSUME NEW w \in Writer, CommitAppend(w) \/ RollbackAppend(w) PROVE FoundLinks(v)'
  <2>1. /\ UNCHANGED links /\ moved' = moved \ {w}
        /\ \E how \in {"done", "failed"} : Return(w, how)
    BY <1>6 DEF CommitAppend, RollbackAppend, CommitHistory
  <2>2. PICK how \in {"done", "failed"} : Return(w, how)
    BY <2>1
  <2>3. /\ pc'[w] = how
        /\ \A u \in Writer \ {w} : /\ pc'[u] = pc[u] /\ event'[u] = event[u]
                                  /\ album'[u] = album[u] /\ parent'[u] = parent[u]
    BY <1>0, <2>2 DEF Return, Typing
  <2>4. CASE v = w
    BY <2>3, <2>4 DEF FoundLinks, Walking
  <2>5. CASE v # w
    BY <2>1, <2>3, <2>5, StillFound
  <2> QED  BY <2>4, <2>5
<1>7. CASE RebuildStep \/ RollbackRebuild \/ UNCHANGED vars
  <2>1. /\ pc' = pc /\ event' = event /\ album' = album /\ parent' = parent
        /\ UNCHANGED links /\ moved' = moved
    BY <1>7 DEF RebuildStep, BeginRebuild, RebuildRow, NextStatement, CommitRebuild,
                RollbackRebuild, vars, locals, links, history
  <2> QED  BY <2>1, StillFound
<1> QED  BY <1>1, <1>2, <1>3, <1>4, <1>5, <1>6, <1>7 DEF Next, AppendStep

-----------------------------------------------------------------------------
(* The rows are what the log accounts for. *)

\* A step that neither the log, the rows, the links nor the rebuild notices.
Quiet ==
    /\ log' = log /\ affinity' = affinity /\ UNCHANGED links
    /\ stage' = stage /\ batch' = batch
    /\ drifted' = drifted /\ doubled' = doubled
    /\ shifting' = shifting /\ contested' = contested
    /\ \A k \in Key : /\ lock'[k] = "rebuild" <=> lock[k] = "rebuild"
                      /\ View("rebuild", k)' = View("rebuild", k)

\* A row written by a writer is none of the rebuild's.
LEMMA WriteQuiet ==
    ASSUME AppendInv, NEW w \in Writer, NEW q, NEW row, Write(w, q, row), affinity' = affinity
    PROVE  \A k \in Key : /\ lock'[k] = "rebuild" <=> lock[k] = "rebuild"
                          /\ View("rebuild", k)' = View("rebuild", k)
<1> SUFFICES ASSUME NEW k \in Key
    PROVE /\ lock'[k] = "rebuild" <=> lock[k] = "rebuild"
          /\ View("rebuild", k)' = View("rebuild", k)
  OBVIOUS
<1>1. lock \in [Key -> Writer \cup {"rebuild", Null}] /\ DOMAIN dirty = Key
  BY DEF AppendInv, Typing
<1>2. /\ lock[q] \in {Null, w} /\ lock' = [lock EXCEPT ![q] = w]
      /\ dirty' = [dirty EXCEPT ![q] = row]
  BY DEF Write
<1>3. CASE k = q
  BY <1>1, <1>2, <1>3, Sorts DEF View
<1>4. CASE k # q
  BY <1>1, <1>2, <1>4 DEF View
<1> QED  BY <1>3, <1>4

\* Nor does the end of a writer's transaction touch the rebuild's rows.
LEMMA ReleaseQuiet ==
    ASSUME AppendInv, NEW w \in Writer, Release(w), NEW k \in Key
    PROVE  /\ lock'[k] = "rebuild" <=> lock[k] = "rebuild"
           /\ View("rebuild", k)' = IF lock[k] = "rebuild" THEN View("rebuild", k)
                                    ELSE affinity'[k]
<1>1. /\ lock'[k] = IF lock[k] = w THEN Null ELSE lock[k]
      /\ dirty'[k] = IF lock[k] = w THEN NoRow ELSE dirty[k]
  BY DEF Release
<1> QED  BY <1>1, Sorts DEF View

LEMMA StepKinds ==
    ASSUME AppendInv, [Next]_vars
    PROVE  \/ \E w \in Writer : CommitAppend(w)
           \/ BeginRebuild \/ RebuildRow \/ NextStatement \/ CommitRebuild
           \/ RollbackRebuild \/ Relink \/ Quiet
<1> USE DEF tables, links, rebuildVars, history
<1>1. ASSUME NEW w \in Writer, BeginAppend(w) PROVE Quiet
  <2>1. lock' = lock /\ dirty' = dirty /\ affinity' = affinity
    BY <1>1 DEF BeginAppend
  <2>2. \A k \in Key : View("rebuild", k)' = View("rebuild", k)
    BY <2>1 DEF View
  <2> QED  BY <1>1, <2>1, <2>2 DEF BeginAppend, Quiet
<1>2. ASSUME NEW w \in Writer, ApplySubject(w) \/ ApplyAlbum(w) \/ ApplyArtist(w)
      PROVE  Quiet
  <2>1. /\ log' = log /\ affinity' = affinity /\ UNCHANGED links
        /\ stage' = stage /\ batch' = batch /\ UNCHANGED history
        /\ \E q, score : Upsert(w, q, score, 1)
    BY <1>2 DEF ApplySubject, ApplyAlbum, ApplyArtist
  <2>2. PICK q, row : Write(w, q, row)
    BY <2>1 DEF Upsert
  <2>3. \A k \in Key : /\ lock'[k] = "rebuild" <=> lock[k] = "rebuild"
                       /\ View("rebuild", k)' = View("rebuild", k)
    BY <2>1, <2>2, WriteQuiet
  <2> QED  BY <2>1, <2>3 DEF Quiet
<1>3. ASSUME NEW w \in Writer, RollbackAppend(w) PROVE Quiet
  <2>1. Release(w) /\ affinity' = affinity
    BY <1>3 DEF RollbackAppend
  <2>2. \A k \in Key : /\ lock'[k] = "rebuild" <=> lock[k] = "rebuild"
                       /\ View("rebuild", k)' = View("rebuild", k)
    BY <2>1, ReleaseQuiet DEF View
  <2> QED  BY <1>3, <2>2 DEF RollbackAppend, Quiet
<1>4. ASSUME UNCHANGED vars PROVE Quiet
  <2>1. lock' = lock /\ dirty' = dirty /\ affinity' = affinity
    BY <1>4 DEF vars
  <2>2. \A k \in Key : View("rebuild", k)' = View("rebuild", k)
    BY <2>1 DEF View
  <2> QED  BY <1>4, <2>1, <2>2 DEF vars, Quiet
<1> QED  BY <1>1, <1>2, <1>3, <1>4 DEF Next, AppendStep, RebuildStep

\* What an Append does to the rows when it commits, and to the log's account
\* of them: the same, but for rows that a moved link tore off.
LEMMA CommitPosts ==
    ASSUME AppendInv, NEW w \in Writer, FoundLinks(w), CommitAppend(w), NEW k \in Key
    PROVE  /\ event[w] \in Events /\ log \in Seq(Events) /\ log' = Append(log, event[w])
           /\ LinksTypedNow /\ UNCHANGED links
           /\ Posted(w) = Held(w) /\ Going(w) = Goes(event[w])
           /\ affinity'[k] = IF k \in Posted(w)
                             THEN Ledger!Posted(affinity[k], Ledger!Part(event[w], k))
                             ELSE affinity[k]
           /\ k \notin drifted' => k \notin drifted /\ (k \in Posted(w) <=> k \in Going(w))
           /\ RebuildOpen /\ k \notin shifting' =>
                k \notin shifting /\ (k \in Posted(w) <=> k \in Going(w))
           /\ RebuildOpen /\ k \notin contested' =>
                k \notin contested /\ k \notin Posted(w) /\ k \notin Going(w)
           /\ k \in Posted(w) => lock[k] = w
<1>1. /\ pc[w] = "commit" /\ log' = Append(log, event[w]) /\ UNCHANGED links
      /\ CommitAffinity(w) /\ CommitHistory(w)
  BY DEF CommitAppend
<1>2. /\ Typing /\ Placed(w) /\ HoldsWhatItWrote(w) /\ WillPost(w)
      /\ event[w] \in Events /\ log \in Seq(Events) /\ LinksTypedNow
  BY <1>1 DEF AppendInv, Typing, Placed, Open, LinksTypedNow
<1>3. Held(w) = Ledger!Touched(event[w], album[w], parent[w])
  BY <1>1 DEF Held
<1>4. Posted(w) = Held(w)
  BY <1>3 DEF Posted, Ledger!Touched
<1>5. Going(w) = Goes(event[w])
  BY <1>2, GoingIsGoes
<1>6. w \notin moved => Posted(w) = Going(w)
  BY <1>1, <1>3, <1>4, <1>5 DEF FoundLinks, Walking, Goes
<1>7. affinity'[k] = IF k \in Posted(w)
                     THEN Ledger!Posted(affinity[k], Ledger!Part(event[w], k))
                     ELSE affinity[k]
  BY <1>1, <1>2, <1>4 DEF CommitAffinity, HoldsWhatItWrote, WillPost
<1>8. k \in Posted(w) => lock[k] = w
  BY <1>2, <1>4 DEF HoldsWhatItWrote
<1> DEFINE torn == IF w \in moved THEN (Posted(w) \ Going(w)) \cup (Going(w) \ Posted(w))
                   ELSE {}
<1>9. k \notin torn => (k \in Posted(w) <=> k \in Going(w))
  BY <1>6
<1>10. /\ drifted' = drifted \cup torn
       /\ RebuildOpen => /\ shifting' = shifting \cup torn
                         /\ contested' = contested \cup Posted(w) \cup Going(w)
  BY <1>1 DEF CommitHistory
<1> HIDE DEF torn
<1> QED  BY <1>1, <1>2, <1>4, <1>5, <1>7, <1>8, <1>9, <1>10

\* Where no link has been and no signal came, the log says what it said.
LEMMA SameRows ==
    ASSUME log' = log, UNCHANGED links, NEW k
    PROVE  /\ \A s \in 5..11 : HitBy(s, k)' = HitBy(s, k) /\ Total(s, k)' = Total(s, k)
           /\ \A n \in 4..11 : Upto(n, k)' = Upto(n, k)
           /\ Replay(k)' = Replay(k)
BY LinksFrozen, ReplayFrozen

\* A link that is moved: rows it moved no signals to or from.
LEMMA RelinkRows ==
    ASSUME Relink, NEW k \in Key
    PROVE  /\ affinity' = affinity /\ lock' = lock /\ dirty' = dirty
           /\ stage' = stage /\ batch' = batch /\ doubled' = doubled
           /\ contested' = contested
           /\ drifted \subseteq drifted' /\ shifting \subseteq shifting'
           /\ k \notin drifted' \/ (RebuildOpen /\ k \notin shifting') =>
                /\ \A s \in 5..11 : HitBy(s, k)' = HitBy(s, k) /\ Total(s, k)' = Total(s, k)
                /\ \A n \in 4..11 : Upto(n, k)' = Upto(n, k)
                /\ Replay(k)' = Replay(k)
<1>1. /\ log' = log /\ affinity' = affinity /\ lock' = lock /\ dirty' = dirty
      /\ stage' = stage /\ batch' = batch /\ RelinkHistory
  BY DEF Relink, tables, rebuildVars
<1> DEFINE gone == {q \in Key : \E s \in 9..11 : HitBy(s, q)' # HitBy(s, q)}
<1>2. /\ drifted' = drifted \cup gone /\ doubled' = doubled /\ contested' = contested
      /\ shifting' = IF RebuildOpen THEN shifting \cup gone ELSE shifting
  BY <1>1 DEF RelinkHistory
<1>3. k \notin gone => \A s \in 9..11 : HitBy(s, k)' = HitBy(s, k)
  OBVIOUS
<1> HIDE DEF gone
<1>4. k \notin gone =>
        /\ \A s \in 5..11 : HitBy(s, k)' = HitBy(s, k) /\ Total(s, k)' = Total(s, k)
        /\ \A n \in 4..11 : Upto(n, k)' = Upto(n, k)
        /\ Replay(k)' = Replay(k)
  BY <1>1, <1>3, ReplayFrozen
<1> QED  BY <1>1, <1>2, <1>4

-----------------------------------------------------------------------------
(* The rebuild, statement by statement. *)

\* Statements 1..stage empty their tables in the rebuild's view, but for rows
\* an Append committed since.
Deleting ==
    \A k \in Key :
        /\ k \in DOMAIN batch => batch[k] = NoRow /\ k \in Tables[stage]
        /\ k \notin contested /\ (\E s \in 1..stage : k \in Tables[s]) /\ k \notin DOMAIN batch
             => View("rebuild", k) = NoRow
        /\ (\A s \in 1..stage : k \notin Tables[s]) => lock[k] # "rebuild"

\* Statements 5..stage add the log's groups to it ...
Adding ==
    \A k \in Key \ (shifting \cup contested) :
        IF k \in DOMAIN batch
        THEN /\ View("rebuild", k) = Upto(stage - 1, k)
             /\ batch[k] = Total(stage, k) /\ HitBy(stage, k) # {}
        ELSE View("rebuild", k) = Upto(stage, k)

\* ... and, whatever Appends commit beside them, leave no signal out.
Pending(k) == IF k \in DOMAIN batch THEN batch[k].count ELSE 0

Covering ==
    /\ \A k \in DOMAIN batch : batch[k] \in Row
    /\ \A k \in Key \ shifting :
         Counted(View("rebuild", k)) + Pending(k) >= Counted(Upto(stage, k))

Follows ==
    /\ stage \in 1..4 => Deleting
    /\ stage \in 5..11 => Adding /\ Covering

\* A row counts as many signals as it says, and posting one adds one.
LEMMA CountPosted ==
    ASSUME NEW row \in Row \cup {NoRow}, NEW x \in Int
    PROVE  /\ Counted(row) \in Nat
           /\ Counted(Ledger!Posted(row, x)) = Counted(row) + 1
<1>1. \A r \in Row : r # NoRow
  BY SignalConstants
<1>2. [score |-> x, count |-> 1] \in Row
  BY DEF Row
<1>3. CASE row = NoRow
  BY <1>1, <1>2, <1>3 DEF Counted, Ledger!Posted
<1>4. CASE row # NoRow
  <2>1. row \in Row /\ row.score \in Int /\ row.count \in Nat
    BY <1>4, RowFields
  <2>2. [score |-> row.score + x, count |-> row.count + 1] \in Row
    BY <2>1 DEF Row
  <2> QED  BY <1>1, <1>4, <2>1, <2>2 DEF Counted, Ledger!Posted
<1> QED  BY <1>3, <1>4

LEMMA CountPlus ==
    ASSUME NEW row \in Row \cup {NoRow}, NEW score \in Int, NEW count \in Nat
    PROVE  Counted(Plus(row, score, count)) = Counted(row) + count /\ Counted(row) \in Nat
<1>1. \A r \in Row : r # NoRow
  BY SignalConstants
<1>2. Plus(row, score, count) \in Row
  BY PlusRow
<1>3. CASE row = NoRow
  <2>1. Plus(row, score, count).count = count
    BY <1>3 DEF Plus
  <2> QED  BY <1>1, <1>2, <1>3, <2>1 DEF Counted
<1>4. CASE row # NoRow
  <2>1. row \in Row /\ row.count \in Nat
    BY <1>4, RowFields
  <2>2. Plus(row, score, count).count = row.count + count
    BY <1>4 DEF Plus
  <2> QED  BY <1>1, <1>2, <1>4, <2>1, <2>2 DEF Counted
<1> QED  BY <1>3, <1>4

LEMMA PartInt ==
    ASSUME NEW e \in Events, NEW k
    PROVE  Ledger!Part(e, k) \in Int
<1>1. \A x \in Int : x \div 2 \in Int /\ x \div 4 \in Int
  OBVIOUS
<1> QED  BY <1>1, EventWeight DEF Ledger!Part

\* What a rebuild commits, so far as it is the log's account.
LEMMA RebuildCommits ==
    ASSUME RowsTyped, Follows, CommitRebuild, NEW k \in Key
    PROVE  /\ drifted' = shifting /\ doubled' = contested
           /\ Replay(k)' = Replay(k)
           /\ k \notin shifting \cup contested => affinity'[k] = Replay(k)
           /\ k \notin shifting => Counted(affinity'[k]) >= Counted(Replay(k))
<1>1. /\ stage = 11 /\ DOMAIN batch = {} /\ log' = log /\ UNCHANGED links
      /\ drifted' = shifting /\ doubled' = contested
      /\ affinity'[k] = View("rebuild", k)
  BY DEF CommitRebuild, CommitAffinity, View
<1>2. Adding /\ Covering
  BY <1>1 DEF Follows
<1>3. k \notin shifting \cup contested => View("rebuild", k) = Upto(11, k)
  BY <1>1, <1>2 DEF Adding
<1>4. k \notin shifting => Counted(View("rebuild", k)) >= Counted(Upto(11, k))
  <2>1. Pending(k) = 0
    BY <1>1 DEF Pending
  <2>2. Counted(View("rebuild", k)) \in Nat
    <3>1. View("rebuild", k) \in Row \cup {NoRow} /\ 0 \in Int
      BY DEF View, RowsTyped
    <3> QED  BY <3>1, CountPosted
  <2>3. k \notin shifting =>
          Counted(View("rebuild", k)) + Pending(k) >= Counted(Upto(11, k))
    BY <1>1, <1>2 DEF Covering
  <2> QED  BY <2>1, <2>2, <2>3
<1>5. Replay(k)' = Replay(k)
  BY <1>1, SameRows
<1> QED  BY <1>1, <1>3, <1>4, <1>5, ReplayIsUpto

\* Outside the exceptions, the rows stay the log's account of them.
LEMMA NoAffinityDriftKeeps ==
    ASSUME AppendInv, RowsTyped, \A w \in Writer : FoundLinks(w), Follows,
           NoAffinityDrift, [Next]_vars
    PROVE  NoAffinityDrift'
<1> SUFFICES ASSUME NEW k \in Key, k \notin drifted', k \notin doubled'
    PROVE affinity'[k] = Replay(k)'
  BY DEF NoAffinityDrift
<1>1. k \notin drifted /\ k \notin doubled => affinity[k] = Replay(k)
  BY DEF NoAffinityDrift
<1>2. ASSUME NEW w \in Writer, CommitAppend(w) PROVE affinity'[k] = Replay(k)'
  <2>1. doubled' = doubled
    BY <1>2 DEF CommitAppend, CommitHistory
  <2>2. /\ event[w] \in Events /\ log \in Seq(Events) /\ log' = Append(log, event[w])
        /\ LinksTypedNow /\ UNCHANGED links /\ Going(w) = Goes(event[w])
        /\ affinity'[k] = IF k \in Posted(w)
                          THEN Ledger!Posted(affinity[k], Ledger!Part(event[w], k))
                          ELSE affinity[k]
        /\ k \notin drifted /\ (k \in Posted(w) <=> k \in Going(w))
    BY <1>2, CommitPosts
  <2>3. Replay(k)' = IF k \in Goes(event[w])
                     THEN Ledger!Posted(Replay(k), Ledger!Part(event[w], k)) ELSE Replay(k)
    BY <2>2, ReplayPosts
  <2> QED  BY <1>1, <2>1, <2>2, <2>3
<1>3. CASE BeginRebuild \/ RebuildRow \/ NextStatement \/ RollbackRebuild
  <2>1. /\ log' = log /\ affinity' = affinity /\ UNCHANGED links
        /\ drifted' = drifted /\ doubled' = doubled
    BY <1>3 DEF BeginRebuild, RebuildRow, NextStatement, RollbackRebuild, tables, history
  <2> QED  BY <1>1, <2>1, SameRows
<1>4. CASE CommitRebuild
  <2>1. k \notin shifting \cup contested
    BY <1>4, RebuildCommits
  <2> QED  BY <1>4, <2>1, RebuildCommits
<1>5. CASE Relink
  BY <1>1, <1>5, RelinkRows
<1>6. CASE Quiet
  BY <1>1, <1>6, SameRows DEF Quiet
<1> QED  BY <1>2, <1>3, <1>4, <1>5, <1>6, StepKinds

\* Nor do they come to count fewer signals.
LEMMA NoSignalLostKeeps ==
    ASSUME AppendInv, RowsTyped, \A w \in Writer : FoundLinks(w), Follows, NoSignalLost,
           [Next]_vars
    PROVE  NoSignalLost'
<1> SUFFICES ASSUME NEW k \in Key, k \notin drifted'
    PROVE Counted(affinity'[k]) >= Counted(Replay(k)')
  BY DEF NoSignalLost, Counted
<1>1. k \notin drifted => Counted(affinity[k]) >= Counted(Replay(k))
  BY DEF NoSignalLost
<1>2. ASSUME NEW w \in Writer, CommitAppend(w)
      PROVE  Counted(affinity'[k]) >= Counted(Replay(k)')
  <2>1. /\ event[w] \in Events /\ log \in Seq(Events) /\ log' = Append(log, event[w])
        /\ LinksTypedNow /\ UNCHANGED links /\ Going(w) = Goes(event[w])
        /\ affinity'[k] = IF k \in Posted(w)
                          THEN Ledger!Posted(affinity[k], Ledger!Part(event[w], k))
                          ELSE affinity[k]
        /\ k \notin drifted /\ (k \in Posted(w) <=> k \in Going(w))
    BY <1>2, CommitPosts
  <2>2. Replay(k)' = IF k \in Goes(event[w])
                     THEN Ledger!Posted(Replay(k), Ledger!Part(event[w], k)) ELSE Replay(k)
    BY <2>1, ReplayPosts
  <2>3. affinity[k] \in Row \cup {NoRow} /\ Replay(k) \in Row \cup {NoRow}
    <3>1. 11 \in 4..11
      OBVIOUS
    <3> QED  BY <2>1, <3>1, UptoRow, ReplayIsUpto DEF RowsTyped
  <2>4. Ledger!Part(event[w], k) \in Int
    BY <2>1, PartInt
  <2>5. CASE k \in Posted(w)
    <3>1. Counted(affinity'[k]) = Counted(affinity[k]) + 1 /\ Counted(affinity[k]) \in Nat
      BY <2>1, <2>3, <2>4, <2>5, CountPosted
    <3>2. Counted(Replay(k)') = Counted(Replay(k)) + 1 /\ Counted(Replay(k)) \in Nat
      BY <2>1, <2>2, <2>3, <2>4, <2>5, CountPosted
    <3> QED  BY <1>1, <2>1, <3>1, <3>2
  <2>6. CASE k \notin Posted(w)
    BY <1>1, <2>1, <2>2, <2>6
  <2> QED  BY <2>5, <2>6
<1>3. CASE BeginRebuild \/ RebuildRow \/ NextStatement \/ RollbackRebuild
  <2>1. log' = log /\ affinity' = affinity /\ UNCHANGED links /\ drifted' = drifted
    BY <1>3 DEF BeginRebuild, RebuildRow, NextStatement, RollbackRebuild, tables, history
  <2> QED  BY <1>1, <2>1, SameRows
<1>4. CASE CommitRebuild
  <2>1. k \notin shifting
    BY <1>4, RebuildCommits
  <2> QED  BY <1>4, <2>1, RebuildCommits
<1>5. CASE Relink
  BY <1>1, <1>5, RelinkRows
<1>6. CASE Quiet
  BY <1>1, <1>6, SameRows DEF Quiet
<1> QED  BY <1>2, <1>3, <1>4, <1>5, <1>6, StepKinds

\* DELETE FROM artist_affinity starts on the committed rows.
LEMMA BeginFollows ==
    ASSUME AppendInv, BeginRebuild
    PROVE  Follows'
<1>1. /\ stage = 0 /\ stage' = 1 /\ batch' = Found(1)
      /\ lock' = lock /\ affinity' = affinity
  BY DEF BeginRebuild, tables
<1>2. \A k \in Key : lock[k] # "rebuild"
  BY <1>1 DEF AppendInv, RebuildHolds, RebuildOpen
<1>3. Tables' = Tables
  BY DEF Tables
<1>4. /\ DOMAIN batch' = {q \in Tables[1] : affinity[q] # NoRow}
      /\ \A k \in DOMAIN batch' : batch'[k] = NoRow
  BY <1>1, FoundRows
<1>5. Deleting'
  <2> SUFFICES ASSUME NEW k \in Key
      PROVE /\ k \in DOMAIN batch' => batch'[k] = NoRow /\ k \in Tables[1]
            /\ (\E s \in 1..1 : k \in Tables[s]) /\ k \notin DOMAIN batch'
                 => View("rebuild", k)' = NoRow
            /\ lock'[k] # "rebuild"
    BY <1>1, <1>3 DEF Deleting
  <2>1. View("rebuild", k)' = affinity[k]
    BY <1>1, <1>2 DEF View
  <2> QED  BY <1>1, <1>2, <1>4, <2>1
<1> QED  BY <1>1, <1>5 DEF Follows

\* One row of a statement.
LEMMA RowFollows ==
    ASSUME AppendInv, RowsTyped, Follows, RebuildRow
    PROVE  Follows'
<1>1. PICK r \in DOMAIN batch :
        /\ IF batch[r] = NoRow THEN Write("rebuild", r, NoRow)
           ELSE Upsert("rebuild", r, batch[r].score, batch[r].count)
        /\ batch' = [q \in DOMAIN batch \ {r} |-> batch[q]]
  BY DEF RebuildRow
<1>2. /\ log' = log /\ UNCHANGED links /\ affinity' = affinity /\ stage' = stage
      /\ shifting' = shifting /\ contested' = contested /\ stage \in 1..11
  BY DEF RebuildRow, RebuildOpen, tables, history
<1>3. r \in Key /\ lock \in [Key -> Writer \cup {"rebuild", Null}] /\ DOMAIN dirty = Key
  BY DEF RowsTyped, AppendInv, Typing
<1>4. PICK row : /\ Write("rebuild", r, row)
                 /\ row = IF batch[r] = NoRow THEN NoRow
                          ELSE Plus(View("rebuild", r), batch[r].score, batch[r].count)
  BY <1>1 DEF Upsert
<1>5. /\ lock'[r] = "rebuild" /\ dirty'[r] = row
      /\ \A q \in Key \ {r} : lock'[q] = lock[q] /\ dirty'[q] = dirty[q]
  BY <1>3, <1>4 DEF Write
<1>6. /\ View("rebuild", r)' = row
      /\ \A q \in Key \ {r} : View("rebuild", q)' = View("rebuild", q)
  BY <1>2, <1>5 DEF View
<1>7. /\ DOMAIN batch' = DOMAIN batch \ {r}
      /\ \A q \in DOMAIN batch \ {r} : batch'[q] = batch[q]
  BY <1>1
<1>8. Tables' = Tables
  BY DEF Tables
<1>9. ASSUME stage \in 1..4 PROVE Deleting'
  <2>1. Deleting
    BY <1>9 DEF Follows
  <2>2. batch[r] = NoRow /\ r \in Tables[stage] /\ row = NoRow
    BY <1>3, <1>4, <2>1 DEF Deleting
  <2>3. ASSUME NEW k \in Key
        PROVE  /\ k \in DOMAIN batch' => batch'[k] = NoRow /\ k \in Tables[stage]
               /\ k \notin contested /\ (\E s \in 1..stage : k \in Tables[s])
                    /\ k \notin DOMAIN batch' => View("rebuild", k)' = NoRow
               /\ (\A s \in 1..stage : k \notin Tables[s]) => lock'[k] # "rebuild"
    <3>1. CASE k = r
      <4>1. stage \in 1..stage
        BY <1>9
      <4> QED  BY <1>6, <1>7, <2>2, <3>1, <4>1
    <3>2. CASE k # r
      BY <1>5, <1>6, <1>7, <2>1, <3>2 DEF Deleting
    <3> QED  BY <3>1, <3>2
  <2> QED  BY <1>2, <1>8, <2>3 DEF Deleting
<1>10. ASSUME stage \in 5..11 PROVE Adding' /\ Covering'
  <2>1. Adding /\ Covering /\ log \in Seq(Events)
    BY <1>10 DEF Follows, AppendInv, Typing
  <2>2. PICK n \in 5..11 : n = stage
    BY <1>10
  <2>3. ASSUME NEW k \in Key \ (shifting \cup contested)
        PROVE  IF k \in DOMAIN batch'
               THEN /\ View("rebuild", k)' = Upto(n - 1, k)
                    /\ batch'[k] = Total(n, k) /\ HitBy(n, k) # {}
               ELSE View("rebuild", k)' = Upto(n, k)
    <3>1. CASE k # r
      BY <1>6, <1>7, <2>1, <2>2, <3>1 DEF Adding
    <3>2. CASE k = r
      <4>1. /\ View("rebuild", k) = Upto(n - 1, k)
            /\ batch[k] = Total(n, k) /\ HitBy(n, k) # {}
        BY <2>1, <2>2, <3>2 DEF Adding
      <4>2. batch[k] # NoRow
        BY <2>1, <4>1, TotalRow, SignalConstants
      <4>3. row = Upto(n, k)
        BY <1>4, <2>1, <3>2, <4>1, <4>2, UptoNext
      <4> QED  BY <1>6, <1>7, <3>2, <4>3
    <3> QED  BY <3>1, <3>2
  <2>4. ASSUME NEW k \in Key
        PROVE  /\ Upto(n - 1, k)' = Upto(n - 1, k) /\ Upto(n, k)' = Upto(n, k)
               /\ Total(n, k)' = Total(n, k) /\ HitBy(n, k)' = HitBy(n, k)
    <3>1. n - 1 \in 4..11 /\ n \in 4..11
      OBVIOUS
    <3> QED  BY <1>2, <3>1, SameRows
  <2>5. stage' = n
    BY <1>2, <2>2
  <2>6. Adding'
    <3>1. ASSUME NEW k \in Key \ (shifting' \cup contested')
          PROVE  IF k \in DOMAIN batch'
                 THEN /\ View("rebuild", k)' = Upto(n - 1, k)'
                      /\ batch'[k] = Total(n, k)' /\ HitBy(n, k)' # {}
                 ELSE View("rebuild", k)' = Upto(n, k)'
      BY <1>2, <2>3, <2>4, <3>1
    <3> QED  BY <2>5, <3>1 DEF Adding
  <2>7. Covering'
    <3>1. ASSUME NEW k \in Key, k \notin shifting'
          PROVE  Counted(View("rebuild", k)') + Pending(k)' >= Counted(Upto(n, k)')
      <4>1. Counted(View("rebuild", k)) + Pending(k) >= Counted(Upto(n, k))
        BY <1>2, <2>1, <2>2, <3>1 DEF Covering
      <4>2. CASE k # r
        BY <1>6, <1>7, <2>4, <4>1, <4>2 DEF Pending
      <4>3. CASE k = r
        <5>1. batch[k] \in Row /\ batch[k] # NoRow
          BY <2>1, <4>3, SignalConstants DEF Covering
        <5>2. View("rebuild", k) \in Row \cup {NoRow}
          BY DEF View, RowsTyped
        <5>3. Counted(row) = Counted(View("rebuild", k)) + batch[k].count
              /\ Counted(View("rebuild", k)) \in Nat /\ batch[k].count \in Nat
          BY <1>4, <4>3, <5>1, <5>2, RowFields, CountPlus
        <5>4. Pending(k) = batch[k].count /\ Pending(k)' = 0
          BY <1>7, <4>3 DEF Pending
        <5>5. Counted(View("rebuild", k)') = Counted(row) /\ Upto(n, k)' = Upto(n, k)
          BY <1>6, <2>4, <4>3
        <5> QED  BY <4>1, <5>3, <5>4, <5>5
      <4> QED  BY <4>2, <4>3
    <3>2. \A k \in DOMAIN batch' : batch'[k] \in Row
      BY <1>7, <2>1 DEF Covering
    <3> QED  BY <2>5, <3>1, <3>2 DEF Covering, Counted
  <2> QED  BY <2>6, <2>7
<1> QED  BY <1>2, <1>9, <1>10 DEF Follows

\* A statement ends with every row of its group written.
LEMMA NextFollows ==
    ASSUME AppendInv, RowsTyped, Follows, NextStatement
    PROVE  Follows'
<1>1. /\ log' = log /\ UNCHANGED links /\ affinity' = affinity
      /\ lock' = lock /\ dirty' = dirty
      /\ shifting' = shifting /\ contested' = contested
      /\ stage \in 1..10 /\ stage' = stage + 1 /\ DOMAIN batch = {}
      /\ batch' = Found(stage + 1)
  BY DEF NextStatement, tables, history
<1>2. \A k : View("rebuild", k)' = View("rebuild", k)
  BY <1>1 DEF View
<1>3. Tables' = Tables
  BY DEF Tables
<1>4. PICK n \in 2..11 : n = stage + 1 /\ stage = n - 1
  BY <1>1
<1>5. stage' = n /\ batch' = Found(n)
  BY <1>1, <1>4
<1>6. ASSUME n \in 2..4 PROVE Deleting'
  <2>1. Deleting /\ n \in 1..4 /\ n - 1 \in 1..4
    BY <1>4, <1>6 DEF Follows
  <2>2. /\ DOMAIN batch' = {q \in Tables[n] : affinity[q] # NoRow}
        /\ \A k \in DOMAIN batch' : batch'[k] = NoRow
    BY <1>5, <2>1, FoundRows
  <2>3. \A s : s \in 1..n <=> s \in 1..(n - 1) \/ s = n
    BY <1>6
  <2>4. ASSUME NEW k \in Key
        PROVE  /\ k \in DOMAIN batch' => batch'[k] = NoRow /\ k \in Tables[n]
               /\ k \notin contested /\ (\E s \in 1..n : k \in Tables[s])
                    /\ k \notin DOMAIN batch' => View("rebuild", k)' = NoRow
               /\ (\A s \in 1..n : k \notin Tables[s]) => lock'[k] # "rebuild"
    <3>1. /\ k \notin contested /\ (\E s \in 1..(n - 1) : k \in Tables[s])
               => View("rebuild", k) = NoRow
          /\ (\A s \in 1..(n - 1) : k \notin Tables[s]) => lock[k] # "rebuild"
      BY <1>1, <1>4, <2>1 DEF Deleting
    <3>2. CASE k \in Tables[n]
      <4>1. \A s \in 1..(n - 1) : k \notin Tables[s]
        <5>1. \A s \in 1..(n - 1) : s \in 1..4 /\ s # n
          BY <2>1
        <5> QED  BY <2>1, <3>2, <5>1, TableFacts
      <4>2. View("rebuild", k) = affinity[k]
        BY <3>1, <4>1 DEF View
      <4>3. n \in 1..n
        BY <2>1
      <4> QED  BY <1>2, <2>2, <3>2, <4>2, <4>3
    <3>3. CASE k \notin Tables[n]
      BY <1>1, <1>2, <2>2, <2>3, <3>1, <3>3
    <3> QED  BY <3>2, <3>3
  <2> QED  BY <1>1, <1>3, <1>5, <2>4 DEF Deleting
<1>7. ASSUME n \in 5..11 PROVE Adding' /\ Covering'
  <2>1. log \in Seq(Events)
    BY DEF AppendInv, Typing
  <2>2. /\ DOMAIN batch' = {q \in Key : HitBy(n, q) # {}}
        /\ \A k \in DOMAIN batch' : batch'[k] = Total(n, k)
    BY <1>5, <1>7, FoundRows
  <2>3. ASSUME NEW k \in Key
        PROVE  /\ k \notin shifting \cup contested => View("rebuild", k) = Upto(n - 1, k)
               /\ k \notin shifting =>
                    Counted(View("rebuild", k)) >= Counted(Upto(n - 1, k))
    <3>1. View("rebuild", k) \in Row \cup {NoRow} /\ Counted(View("rebuild", k)) \in Nat
      <4>1. View("rebuild", k) \in Row \cup {NoRow} /\ 0 \in Int
        BY DEF View, RowsTyped
      <4> QED  BY <4>1, CountPosted
    <3>2. CASE n = 5
      <4>1. Deleting /\ stage = 4
        BY <1>4, <1>7, <3>2 DEF Follows
      <4>2. k \notin contested => View("rebuild", k) = NoRow
        BY <1>1, <4>1, TableFacts DEF Deleting
      <4>3. Hitting(n - 1, k) = {}
        BY <3>2 DEF Hitting
      <4>4. Upto(n - 1, k) = NoRow
        BY <4>3 DEF Upto
      <4>5. Counted(NoRow) = 0
        BY DEF Counted
      <4> QED  BY <3>1, <4>2, <4>4, <4>5
    <3>3. CASE n \in 6..11
      <4>1. Adding /\ Covering
        <5>1. stage \in 5..11
          BY <1>4, <3>3
        <5> QED  BY <1>7, <5>1 DEF Follows
      <4>2. Pending(k) = 0
        BY <1>1 DEF Pending
      <4>3. k \notin shifting =>
              Counted(View("rebuild", k)) + Pending(k) >= Counted(Upto(n - 1, k))
        BY <1>4, <4>1 DEF Covering
      <4>4. k \notin shifting \cup contested => View("rebuild", k) = Upto(n - 1, k)
        BY <1>1, <1>4, <4>1 DEF Adding
      <4> QED  BY <3>1, <4>2, <4>3, <4>4
    <3>4. n = 5 \/ n \in 6..11
      BY <1>7
    <3> QED  BY <3>2, <3>3, <3>4
  <2>4. ASSUME NEW k \in Key
        PROVE  /\ Upto(n - 1, k)' = Upto(n - 1, k) /\ Upto(n, k)' = Upto(n, k)
               /\ Total(n, k)' = Total(n, k) /\ HitBy(n, k)' = HitBy(n, k)
    <3>1. n - 1 \in 4..11 /\ n \in 4..11
      BY <1>7
    <3> QED  BY <1>1, <1>7, <3>1, SameRows
  <2>5. Adding'
    <3>1. ASSUME NEW k \in Key \ (shifting' \cup contested')
          PROVE  IF k \in DOMAIN batch'
                 THEN /\ View("rebuild", k)' = Upto(n - 1, k)'
                      /\ batch'[k] = Total(n, k)' /\ HitBy(n, k)' # {}
                 ELSE View("rebuild", k)' = Upto(n, k)'
      <4>1. View("rebuild", k)' = Upto(n - 1, k)
        BY <1>1, <1>2, <2>3, <3>1
      <4>2. HitBy(n, k) = {} => Upto(n, k) = Upto(n - 1, k)
        BY <1>7, <2>1, UptoNext
      <4> QED  BY <2>2, <2>4, <4>1, <4>2
    <3> QED  BY <1>5, <3>1 DEF Adding
  <2>6. Covering'
    <3>1. ASSUME NEW k \in Key, k \notin shifting'
          PROVE  Counted(View("rebuild", k)') + Pending(k)' >= Counted(Upto(n, k)')
      <4>1. View("rebuild", k)' = View("rebuild", k) /\ Upto(n, k)' = Upto(n, k)
        BY <1>2, <2>4
      <4>2. Counted(View("rebuild", k)) >= Counted(Upto(n - 1, k))
        BY <1>1, <2>3, <3>1
      <4>3. /\ Upto(n - 1, k) \in Row \cup {NoRow} /\ Total(n, k) \in Row
            /\ View("rebuild", k) \in Row \cup {NoRow}
            /\ n - 1 \in 4..11
        <5>1. n - 1 \in 4..11
          BY <1>7
        <5> QED  BY <1>7, <2>1, <5>1, UptoRow, TotalRow DEF View, RowsTyped
      <4>4. Counted(View("rebuild", k)) \in Nat /\ Counted(Upto(n - 1, k)) \in Nat
        <5>1. 0 \in Int
          OBVIOUS
        <5> QED  BY <4>3, <5>1, CountPosted
      <4>5. CASE HitBy(n, k) = {}
        <5>1. Pending(k)' = 0
          BY <2>2, <4>5 DEF Pending
        <5>2. Upto(n, k) = Upto(n - 1, k)
          BY <1>7, <2>1, <4>5, UptoNext
        <5> QED  BY <4>1, <4>2, <4>4, <5>1, <5>2
      <4>6. CASE HitBy(n, k) # {}
        <5>1. Pending(k)' = Total(n, k).count
          BY <2>2, <4>6 DEF Pending
        <5>2. Upto(n, k) = Plus(Upto(n - 1, k), Total(n, k).score, Total(n, k).count)
          BY <1>7, <2>1, <4>6, UptoNext
        <5>3. Total(n, k).score \in Int /\ Total(n, k).count \in Nat
          BY <4>3, RowFields
        <5>4. Counted(Upto(n, k)) = Counted(Upto(n - 1, k)) + Total(n, k).count
          BY <4>3, <5>2, <5>3, CountPlus
        <5> QED  BY <4>1, <4>2, <4>4, <5>1, <5>3, <5>4
      <4> QED  BY <4>5, <4>6
    <3>2. \A k \in DOMAIN batch' : batch'[k] \in Row
      BY <1>7, <2>1, <2>2, TotalRow
    <3> QED  BY <1>5, <3>1, <3>2 DEF Covering, Counted
  <2> QED  BY <2>5, <2>6
<1>8. (n \in 1..4 => n \in 2..4) /\ stage' = n
  BY <1>5
<1> QED  BY <1>6, <1>7, <1>8 DEF Follows

\* An Append beside the rebuild.
LEMMA CommitFollows ==
    ASSUME AppendInv, RowsTyped, NEW w \in Writer, FoundLinks(w), Follows, CommitAppend(w)
    PROVE  Follows'
<1> DEFINE e == event[w]
           posted(row, k) == Ledger!Posted(row, Ledger!Part(e, k))
<1>1. /\ stage' = stage /\ batch' = batch /\ Release(w)
      /\ e \in Events /\ log \in Seq(Events) /\ log' = Append(log, e)
      /\ LinksTypedNow /\ UNCHANGED links /\ Going(w) = Goes(e)
  <2>1. stage' = stage /\ batch' = batch /\ Release(w)
    BY DEF CommitAppend, rebuildVars
  <2>2. PICK k : k = event[w].subject
    OBVIOUS
  <2>3. event[w] \in Events
    BY DEF AppendInv, Placed, Open, CommitAppend
  <2>4. k \in Key
    BY <2>2, <2>3, EventFields
  <2> QED  BY <2>1, <2>4, CommitPosts
<1>2. ASSUME NEW k \in Key
      PROVE  /\ lock'[k] = "rebuild" <=> lock[k] = "rebuild"
             /\ k \in Posted(w) => /\ View("rebuild", k) = affinity[k]
                                   /\ View("rebuild", k)' = posted(affinity[k], k)
             /\ k \notin Posted(w) => View("rebuild", k)' = View("rebuild", k)
  <2>1. /\ lock'[k] = "rebuild" <=> lock[k] = "rebuild"
        /\ View("rebuild", k)' = IF lock[k] = "rebuild" THEN View("rebuild", k)
                                 ELSE affinity'[k]
    BY <1>1, ReleaseQuiet
  <2>2. /\ affinity'[k] = IF k \in Posted(w) THEN posted(affinity[k], k) ELSE affinity[k]
        /\ k \in Posted(w) => lock[k] = w
    BY CommitPosts
  <2>3. lock[k] # "rebuild" => View("rebuild", k) = affinity[k]
    BY DEF View
  <2>4. "rebuild" # w
    BY Sorts
  <2> HIDE DEF posted
  <2> QED  BY <2>1, <2>2, <2>3, <2>4
<1>3. ASSUME RebuildOpen, NEW k \in Key
      PROVE  /\ k \notin shifting' => k \notin shifting /\ (k \in Posted(w) <=> k \in Going(w))
             /\ k \notin contested' => /\ k \notin contested /\ k \notin Posted(w)
                                       /\ k \notin Going(w)
  BY <1>3, CommitPosts
<1>4. Tables' = Tables
  BY DEF Tables
<1>5. ASSUME NEW k \in Key, k \notin Going(w), NEW m \in 4..11
      PROVE  /\ Upto(m, k)' = Upto(m, k)
             /\ \A s \in 5..m : HitBy(s, k)' = HitBy(s, k) /\ Total(s, k)' = Total(s, k)
  <2>1. \A s \in 5..m : ~Hits(s, e, k)
    <3>1. \A s \in 5..11 : ~Hits(s, e, k)
      BY <1>1, <1>5, HitsPosted
    <3> QED  BY <3>1
  <2> QED  BY <1>1, <2>1, UptoPosts
<1>6. ASSUME stage \in 1..4 PROVE Deleting'
  <2>1. Deleting /\ RebuildOpen
    BY <1>6 DEF Follows, RebuildOpen
  <2>2. ASSUME NEW k \in Key
        PROVE  /\ k \in DOMAIN batch => batch[k] = NoRow /\ k \in Tables[stage]
               /\ k \notin contested' /\ (\E s \in 1..stage : k \in Tables[s])
                    /\ k \notin DOMAIN batch => View("rebuild", k)' = NoRow
               /\ (\A s \in 1..stage : k \notin Tables[s]) => lock'[k] # "rebuild"
    <3>1. k \notin contested' => /\ k \notin contested
                                 /\ View("rebuild", k)' = View("rebuild", k)
      BY <1>2, <1>3, <2>1
    <3>2. lock'[k] = "rebuild" <=> lock[k] = "rebuild"
      BY <1>2
    <3> QED  BY <2>1, <3>1, <3>2 DEF Deleting
  <2> QED  BY <1>1, <1>4, <2>2 DEF Deleting
<1>7. ASSUME stage \in 5..11 PROVE Adding' /\ Covering'
  <2>1. Adding /\ Covering /\ RebuildOpen
    BY <1>7 DEF Follows, RebuildOpen
  <2>2. PICK n \in 5..11 : n = stage
    BY <1>7
  <2>3. n \in 4..11 /\ n - 1 \in 4..11 /\ n \in 5..n
    OBVIOUS
  <2>4. Adding'
    <3>1. ASSUME NEW k \in Key \ (shifting' \cup contested')
          PROVE  IF k \in DOMAIN batch
                 THEN /\ View("rebuild", k)' = Upto(n - 1, k)'
                      /\ batch[k] = Total(n, k)' /\ HitBy(n, k)' # {}
                 ELSE View("rebuild", k)' = Upto(n, k)'
      <4>1. k \notin shifting \cup contested /\ k \notin Posted(w) /\ k \notin Going(w)
        BY <1>3, <2>1, <3>1
      <4>2. View("rebuild", k)' = View("rebuild", k)
        BY <1>2, <4>1
      <4>3. /\ Upto(n - 1, k)' = Upto(n - 1, k) /\ Upto(n, k)' = Upto(n, k)
            /\ HitBy(n, k)' = HitBy(n, k) /\ Total(n, k)' = Total(n, k)
        BY <1>5, <2>3, <4>1
      <4>4. IF k \in DOMAIN batch
            THEN /\ View("rebuild", k) = Upto(n - 1, k)
                 /\ batch[k] = Total(n, k) /\ HitBy(n, k) # {}
            ELSE View("rebuild", k) = Upto(n, k)
        BY <2>1, <2>2, <4>1 DEF Adding
      <4> QED  BY <4>2, <4>3, <4>4
    <3>2. stage' = n
      BY <1>1, <2>2
    <3> QED  BY <1>1, <3>1, <3>2 DEF Adding
  <2>5. Covering'
    <3>1. ASSUME NEW k \in Key, k \notin shifting'
          PROVE  Counted(View("rebuild", k)') + Pending(k)' >= Counted(Upto(n, k)')
      <4>1. k \notin shifting /\ (k \in Posted(w) <=> k \in Going(w))
        BY <1>3, <2>1, <3>1
      <4>2. Counted(View("rebuild", k)) + Pending(k) >= Counted(Upto(n, k))
        BY <2>1, <2>2, <4>1 DEF Covering
      <4>3. Pending(k)' = Pending(k) /\ Pending(k) \in Nat
        <5>1. k \in DOMAIN batch => batch[k].count \in Nat
          BY <2>1, RowFields DEF Covering
        <5> QED  BY <1>1, <5>1 DEF Pending
      <4>4. /\ View("rebuild", k) \in Row \cup {NoRow} /\ Upto(n, k) \in Row \cup {NoRow}
            /\ Ledger!Part(e, k) \in Int
        BY <1>1, <2>3, UptoRow, PartInt DEF View, RowsTyped
      <4>5. CASE k \notin Posted(w)
        <5>1. View("rebuild", k)' = View("rebuild", k) /\ Upto(n, k)' = Upto(n, k)
          BY <1>2, <1>5, <2>3, <4>1, <4>5
        <5> QED  BY <4>2, <4>3, <5>1
      <4>6. CASE k \in Posted(w)
        <5>1. View("rebuild", k)' = posted(View("rebuild", k), k)
          BY <1>2, <4>6
        <5>2. Upto(n, k)' \in {Upto(n, k), posted(Upto(n, k), k)}
          BY <1>1, <2>3, UptoPosts
        <5>3. /\ Counted(View("rebuild", k)') = Counted(View("rebuild", k)) + 1
              /\ Counted(View("rebuild", k)) \in Nat
          BY <4>4, <5>1, CountPosted
        <5>4. /\ Counted(posted(Upto(n, k), k)) = Counted(Upto(n, k)) + 1
              /\ Counted(Upto(n, k)) \in Nat
          BY <4>4, CountPosted
        <5>5. Counted(Upto(n, k)') \in {Counted(Upto(n, k)), Counted(posted(Upto(n, k), k))}
          BY <5>2, Zenon
        <5> HIDE DEF posted
        <5> QED  BY <4>2, <4>3, <5>3, <5>4, <5>5
      <4> QED  BY <4>5, <4>6
    <3>2. stage' = n
      BY <1>1, <2>2
    <3>3. \A k \in DOMAIN batch' : batch'[k] \in Row
      BY <1>1, <2>1 DEF Covering
    <3> QED  BY <1>1, <3>1, <3>2, <3>3 DEF Covering, Counted
  <2> QED  BY <2>4, <2>5
<1> QED  BY <1>1, <1>6, <1>7 DEF Follows

\* A link that is moved beside it, and steps it does not notice.
LEMMA BesideFollows ==
    ASSUME AppendInv, Follows, Relink \/ Quiet
    PROVE  Follows'
<1>1. /\ stage' = stage /\ batch' = batch /\ contested' = contested
      /\ \A k \in Key : /\ lock'[k] = "rebuild" <=> lock[k] = "rebuild"
                        /\ View("rebuild", k)' = View("rebuild", k)
  <2>1. CASE Quiet
    BY <2>1 DEF Quiet
  <2>2. CASE Relink
    <3>1. /\ affinity' = affinity /\ lock' = lock /\ dirty' = dirty
          /\ stage' = stage /\ batch' = batch /\ contested' = contested
      BY <2>2 DEF Relink, RelinkHistory, tables, rebuildVars
    <3> QED  BY <3>1 DEF View
  <2> QED  BY <2>1, <2>2
<1>2. ASSUME NEW k \in Key, RebuildOpen, k \notin shifting'
      PROVE  /\ k \notin shifting
             /\ \A s \in 5..11 : HitBy(s, k)' = HitBy(s, k) /\ Total(s, k)' = Total(s, k)
             /\ \A n \in 4..11 : Upto(n, k)' = Upto(n, k)
  <2>1. CASE Quiet
    BY <1>2, <2>1, SameRows DEF Quiet
  <2>2. CASE Relink
    BY <1>2, <2>2, RelinkRows
  <2> QED  BY <2>1, <2>2
<1>3. Tables' = Tables
  BY DEF Tables
<1>4. stage \in 1..4 => Deleting'
  BY <1>1, <1>3 DEF Follows, Deleting
<1>5. ASSUME stage \in 5..11 PROVE Adding' /\ Covering'
  <2>1. Adding /\ Covering /\ RebuildOpen
    BY <1>5 DEF Follows, RebuildOpen
  <2>2. PICK n \in 5..11 : n = stage
    BY <1>5
  <2>3. n \in 4..11 /\ n - 1 \in 4..11 /\ stage' = n
    BY <1>1, <2>2
  <2>4. ASSUME NEW k \in Key \ (shifting' \cup contested')
        PROVE  IF k \in DOMAIN batch'
               THEN /\ View("rebuild", k)' = Upto(n - 1, k)'
                    /\ batch'[k] = Total(n, k)' /\ HitBy(n, k)' # {}
               ELSE View("rebuild", k)' = Upto(n, k)'
    <3>1. /\ k \notin shifting
          /\ Upto(n - 1, k)' = Upto(n - 1, k) /\ Upto(n, k)' = Upto(n, k)
          /\ HitBy(n, k)' = HitBy(n, k) /\ Total(n, k)' = Total(n, k)
      BY <1>2, <2>1, <2>3, <2>4
    <3>2. IF k \in DOMAIN batch
          THEN /\ View("rebuild", k) = Upto(n - 1, k)
               /\ batch[k] = Total(n, k) /\ HitBy(n, k) # {}
          ELSE View("rebuild", k) = Upto(n, k)
      BY <1>1, <2>1, <2>2, <2>4, <3>1 DEF Adding
    <3> QED  BY <1>1, <3>1, <3>2
  <2>5. ASSUME NEW k \in Key, k \notin shifting'
        PROVE  Counted(View("rebuild", k)') + Pending(k)' >= Counted(Upto(n, k)')
    <3>1. k \notin shifting /\ Upto(n, k)' = Upto(n, k)
      BY <1>2, <2>1, <2>3, <2>5
    <3>2. Pending(k)' = Pending(k) /\ View("rebuild", k)' = View("rebuild", k)
      BY <1>1 DEF Pending
    <3>3. Counted(View("rebuild", k)) + Pending(k) >= Counted(Upto(n, k))
      BY <2>1, <2>2, <3>1 DEF Covering
    <3> QED  BY <3>1, <3>2, <3>3
  <2>6. \A k \in DOMAIN batch' : batch'[k] \in Row
    BY <1>1, <2>1 DEF Covering
  <2> QED  BY <2>3, <2>4, <2>5, <2>6 DEF Adding, Covering, Counted
<1> QED  BY <1>1, <1>4, <1>5 DEF Follows

LEMMA FollowsKeeps ==
    ASSUME AppendInv, RowsTyped, \A w \in Writer : FoundLinks(w), Follows, [Next]_vars
    PROVE  Follows'
<1>1. CASE CommitRebuild \/ RollbackRebuild
  <2>1. stage' = 0
    BY <1>1 DEF CommitRebuild, RollbackRebuild
  <2> QED  BY <2>1 DEF Follows
<1> QED
  BY <1>1, CommitFollows, BeginFollows, RowFollows, NextFollows, BesideFollows, StepKinds

RowInv ==
    /\ \A w \in Writer : FoundLinks(w)
    /\ NoAffinityDrift
    /\ NoSignalLost
    /\ Follows

\* Rows, log and rebuild agree in every reachable state.
LEMMA RowInvHolds == Spec => []RowInv
<1>1. Init => RowInv
  <2> SUFFICES ASSUME Init PROVE RowInv
    OBVIOUS
  <2>1. ASSUME NEW k \in Key
        PROVE  affinity[k] = Replay(k) /\ Counted(affinity[k]) >= Counted(Replay(k))
    <3>1. \A s : HitBy(s, k) = {}
      BY DEF Init, HitBy
    <3>2. affinity[k] = NoRow /\ Replay(k) = NoRow
      BY <3>1 DEF Init, Replay
    <3>3. Counted(NoRow) = 0
      BY DEF Counted
    <3> QED  BY <3>2, <3>3
  <2>2. \A w \in Writer : FoundLinks(w)
    BY DEF Init, FoundLinks, Walking
  <2>3. Follows
    BY DEF Init, Follows
  <2> QED  BY <2>1, <2>2, <2>3 DEF RowInv, NoAffinityDrift, NoSignalLost
<1>2. AppendInv /\ RowsTyped /\ RowInv /\ [Next]_vars => RowInv'
  BY FoundLinksKeeps, NoAffinityDriftKeeps, NoSignalLostKeeps, FollowsKeeps DEF RowInv
<1> QED  BY <1>1, <1>2, AppendInvHolds, RowsTypedHolds, PTL DEF Spec

-----------------------------------------------------------------------------
(* The theorems. *)

(***************************************************************************)
(* An Append that waits for a row waits for one that is further along the  *)
(* order subject, album, artist, and the furthest waits for nobody, so     *)
(* Appends without a rebuild never deadlock, however many there are.       *)
(***************************************************************************)
THEOREM NoAppendDeadlock == Spec => []AppendsNeverDeadlock
<1>1. ASSUME AppendInv, ~RebuildOpen, NEW w0 \in Writer, Open(w0)
      PROVE  \E w \in Writer : Open(w) /\ \A k \in Wants(w) : lock[k] \in {Null, w}
  <2>1. Typing /\ \A v \in Writer : Placed(v) /\ HoldsWhatItWrote(v)
    BY <1>1 DEF AppendInv
  <2>2. ASSUME NEW k \in Key, \A v \in Writer : k \notin Held(v)
        PROVE  lock[k] = Null
    BY <1>1, <2>1, <2>2 DEF AppendInv, RebuildHolds, Typing, HoldsWhatItWrote
  <2>3. CASE \E w \in Writer : pc[w] = "commit"
    <3>1. PICK w \in Writer : pc[w] = "commit"
      BY <2>3
    <3>2. Wants(w) = {}
      BY <3>1, Zenon DEF Wants
    <3> QED
      BY <3>1, <3>2 DEF Open
  <2>4. CASE /\ \A v \in Writer : pc[v] # "commit"
             /\ \E w \in Writer : pc[w] = "artist"
    <3>1. PICK w \in Writer : pc[w] = "artist"
      BY <2>4
    <3>2. Wants(w) = {parent[w]}
      BY <3>1, Zenon DEF Wants
    <3>3. parent[w] \in Artist /\ Ledger!MayBeParents(event[w], album[w], parent[w])
      BY <2>1, <3>1 DEF Placed, Typing, Walking
    <3>4. ASSUME NEW v \in Writer PROVE parent[w] \notin Held(v)
      <4>1. pc[v] \in {"album", "artist"} => event[v].subject \in Album \cup Track
        BY <2>1 DEF Placed, Walking, Ledger!MayBeParents
      <4>2. pc[v] = "artist" => album[v] \in Album \cup {Null}
        BY <2>1 DEF Typing
      <4> QED
        BY <2>4, <3>3, <4>1, <4>2, Sorts DEF Held, Ledger!Touched
    <3>5. lock[parent[w]] = Null
      BY <2>2, <3>3, <3>4, Sorts
    <3> QED
      BY <3>1, <3>2, <3>5 DEF Open
  <2>5. CASE /\ \A v \in Writer : pc[v] \notin {"commit", "artist"}
             /\ \E w \in Writer : pc[w] = "album"
    <3>1. PICK w \in Writer : pc[w] = "album"
      BY <2>5
    <3> DEFINE a == album[w]
    <3>2. Wants(w) = {a}
      BY <3>1, Zenon DEF Wants
    <3>3. a \in Album
      BY <2>1, <3>1 DEF Placed, Typing
    <3>4. ASSUME NEW v \in Writer PROVE a \notin Held(v)
      <4>1. pc[v] = "album" => event[v].subject \in Track
        BY <2>1 DEF Placed, Walking, Ledger!MayBeParents
      <4> QED
        BY <2>5, <3>3, <4>1, Sorts DEF Held
    <3>5. lock[a] = Null
      BY <2>2, <3>3, <3>4, Sorts
    <3> QED
      BY <3>1, <3>2, <3>5 DEF Open
  <2>6. CASE \A v \in Writer : pc[v] \notin {"commit", "artist", "album"}
    <3>1. pc[w0] = "subject"
      BY <1>1, <2>6 DEF Open
    <3>2. Wants(w0) = {event[w0].subject}
      BY <3>1, Zenon DEF Wants
    <3>3. event[w0].subject \in Key
      BY <2>1, <3>1, EventFields DEF Placed, Open
    <3>4. \A v \in Writer : Held(v) = {}
      BY <2>6 DEF Held
    <3>5. lock[event[w0].subject] = Null
      BY <2>2, <3>3, <3>4
    <3> QED
      BY <1>1, <3>2, <3>5
  <2> QED
    BY <2>3, <2>4, <2>5, <2>6
<1>2. AppendInv => AppendsNeverDeadlock
  BY <1>1 DEF AppendsNeverDeadlock
<1> QED
  BY <1>2, AppendInvHolds, PTL

(***************************************************************************)
(* Whatever runs beside it, an Append that commits posts its event and the *)
(* shares of its weight in one step, on top of what all others committed.  *)
(***************************************************************************)
THEOREM Refinement == Spec => ImplementsLedger
<1>1. Init => Ledger!Init
  BY DEF Init, Ledger!Init
<1>2. ASSUME AppendInv, NEW w \in Writer, CommitAppend(w)
      PROVE  Ledger!Next
  <2>1. /\ pc[w] = "commit" /\ log' = Append(log, event[w])
        /\ affinity' = [k \in Key |-> IF lock[k] = w THEN dirty[k] ELSE affinity[k]]
    BY <1>2 DEF CommitAppend, CommitAffinity
  <2>2. /\ event[w] \in Events /\ album[w] \in Album \cup {Null}
        /\ parent[w] \in Artist \cup {Null}
        /\ Ledger!MayBeParents(event[w], album[w], parent[w])
    BY <1>2, <2>1 DEF AppendInv, Typing, Placed, Open, Walking
  <2>3. /\ Held(w) = Ledger!Touched(event[w], album[w], parent[w])
        /\ HoldsWhatItWrote(w) /\ WillPost(w)
    BY <1>2, <2>1 DEF AppendInv, Held
  <2>4. \A k \in Key :
          (IF lock[k] = w THEN dirty[k] ELSE affinity[k])
            = IF k \in Ledger!Touched(event[w], album[w], parent[w])
              THEN Ledger!Posted(affinity[k], Ledger!Part(event[w], k))
              ELSE affinity[k]
    BY <2>3 DEF HoldsWhatItWrote, WillPost
  <2>5. affinity' = [k \in Key |->
                       IF k \in Ledger!Touched(event[w], album[w], parent[w])
                       THEN Ledger!Posted(affinity[k], Ledger!Part(event[w], k))
                       ELSE affinity[k]]
    BY <2>1, <2>4
  <2>6. Ledger!Post(event[w], album[w], parent[w])
    BY <2>1, <2>2, <2>5 DEF Ledger!Post
  <2> QED
    BY <2>2, <2>6 DEF Ledger!Next
<1>3. ASSUME AppendInv, CommitRebuild
      PROVE  Ledger!Next
  BY <1>3 DEF AppendInv, RebuildHolds, RebuildOpen, CommitRebuild, Ledger!Next,
              Ledger!Recompute
<1>4. ASSUME [Next]_vars, \A w \in Writer : ~CommitAppend(w), ~CommitRebuild
      PROVE  UNCHANGED <<log, affinity>>
  BY <1>4 DEF Next, AppendStep, RebuildStep, BeginAppend, ApplySubject, ApplyAlbum,
              ApplyArtist, RollbackAppend, BeginRebuild, RebuildRow, NextStatement,
              RollbackRebuild, Relink, tables, links, vars
<1>5. AppendInv /\ [Next]_vars => [Ledger!Next]_<<log, affinity>>
  BY <1>2, <1>3, <1>4
<1>6. Spec => Ledger!Spec
  BY <1>1, <1>5, AppendInvHolds, PTL DEF Spec, Ledger!Spec
<1> QED
  BY <1>6 DEF ImplementsLedger

(***************************************************************************)
(* The rating of a subject is its last one in the log and exactly the      *)
(* dismissed subjects are hidden: sideTables runs in the transaction that  *)
(* writes the log, while the writer holds the subject's affinity row.      *)
(***************************************************************************)
THEOREM SideTables == Spec => []SideTablesMatchLog
<1>1. Init => SideTablesMatchLog
  BY DEF Init, SideTablesMatchLog, Heard
<1>2. ASSUME AppendInv, SideTablesMatchLog, NEW w \in Writer, CommitAppend(w)
      PROVE  SideTablesMatchLog'
  <2> DEFINE e == event[w]
             n == Len(log) + 1
             heard == e.kind \in {"heard_good", "heard_bad"}
  <2>1. /\ log \in Seq(Events) /\ e \in Events /\ e.subject \in Key
        /\ ratings \in [Key -> {"good", "bad", NoRow}] /\ hides \subseteq Key
        /\ log' = Append(log, e)
        /\ hides' = IF e.kind = "dismiss" THEN hides \cup {e.subject} ELSE hides
    BY <1>2, EventFields DEF AppendInv, Typing, Placed, Open, CommitAppend
  <2>2. /\ DOMAIN log = 1..Len(log) /\ DOMAIN log' = 1..n /\ Len(log) \in Nat
        /\ log'[n] = e /\ \A i \in 1..Len(log) : log'[i] = log[i]
    BY <2>1
  <2>3. /\ ~heard => ratings' = ratings
        /\ heard => ratings' = [ratings EXCEPT ![e.subject] =
                                  IF e.kind = "heard_good" THEN "good" ELSE "bad"]
    <3>1. e.kind = "heard_good" => ratings' = [ratings EXCEPT ![e.subject] = "good"]
      BY <1>2, Zenon DEF CommitAppend
    <3>2. e.kind = "heard_bad" => ratings' = [ratings EXCEPT ![e.subject] = "bad"]
      <4>1. "heard_bad" # "heard_good"
        OBVIOUS
      <4> QED
        BY <1>2, <4>1, Zenon DEF CommitAppend
    <3>3. e.kind # "heard_good" /\ e.kind # "heard_bad" => ratings' = ratings
      BY <1>2, Zenon DEF CommitAppend
    <3> QED
      BY <3>1, <3>2, <3>3
  <2> HIDE DEF e, n
  <2>4. ASSUME NEW k \in Key
        PROVE  /\ Heard(k)' = {} => ratings'[k] = NoRow
               /\ \A i \in Heard(k)' : (\A j \in Heard(k)' : j <= i) =>
                    ratings'[k] = IF log'[i].kind = "heard_good" THEN "good" ELSE "bad"
    <3>1. Heard(k)' = Heard(k) \cup (IF e.subject = k /\ heard THEN {n} ELSE {})
      BY <2>1, <2>2 DEF Heard, n
    <3>2. CASE e.subject = k /\ heard
      <4>1. ratings'[k] = IF e.kind = "heard_good" THEN "good" ELSE "bad"
        BY <2>1, <2>3, <3>2
      <4>2. \A i \in Heard(k)' : n <= i => i = n
        BY <2>2 DEF Heard, n
      <4> QED
        BY <2>2, <3>1, <3>2, <4>1, <4>2
    <3>3. CASE ~(e.subject = k /\ heard)
      <4>1. Heard(k)' = Heard(k) /\ ratings'[k] = ratings[k]
        BY <2>1, <2>3, <3>1, <3>3
      <4>2. \A i \in Heard(k) : log'[i] = log[i]
        BY <2>2 DEF Heard
      <4> QED
        BY <1>2, <4>1, <4>2 DEF SideTablesMatchLog
    <3> QED
      BY <3>2, <3>3
  <2>5. ASSUME NEW k \in Key
        PROVE  k \in hides' <=>
                 \E i \in DOMAIN log' : log'[i].subject = k /\ log'[i].kind = "dismiss"
    <3>1. (\E i \in DOMAIN log' : log'[i].subject = k /\ log'[i].kind = "dismiss")
            <=> \/ \E i \in DOMAIN log : log[i].subject = k /\ log[i].kind = "dismiss"
                \/ e.subject = k /\ e.kind = "dismiss"
      BY <2>2 DEF n
    <3> QED
      BY <1>2, <2>1, <3>1 DEF SideTablesMatchLog
  <2> QED
    BY <2>4, <2>5 DEF SideTablesMatchLog
<1>3. ASSUME SideTablesMatchLog, [Next]_vars, \A w \in Writer : ~CommitAppend(w)
      PROVE  SideTablesMatchLog'
  <2>1. log' = log /\ hides' = hides /\ ratings' = ratings
    BY <1>3 DEF Next, AppendStep, RebuildStep, BeginAppend, ApplySubject, ApplyAlbum,
                ApplyArtist, RollbackAppend, BeginRebuild, RebuildRow, NextStatement,
                CommitRebuild, RollbackRebuild, Relink, tables, links, vars
  <2> QED
    BY <1>3, <2>1 DEF SideTablesMatchLog, Heard
<1>4. AppendInv /\ SideTablesMatchLog /\ [Next]_vars => SideTablesMatchLog'
  BY <1>2, <1>3
<1> QED
  BY <1>1, <1>4, AppendInvHolds, PTL DEF Spec

(***************************************************************************)
(* The log, the rows, the locks and every writer stay of their types.      *)
(***************************************************************************)
THEOREM TypeCorrect == Spec => []TypeOK
<1>1. AppendInv /\ RowsTyped => TypeOK
  BY DEF AppendInv, Typing, RowsTyped, TypeOK
<1> QED  BY <1>1, AppendInvHolds, RowsTypedHolds, PTL

(***************************************************************************)
(* At every moment each committed affinity row is what the committed log   *)
(* accounts for by the catalog as it stands: its events' weights and, of   *)
(* tracks and albums below it, their shares, however many Appends and      *)
(* rebuilds run and whether they commit or not.  Syncs may write and move  *)
(* any link at any moment; the rows they move signals to or from, and      *)
(* those an Append committed to beside a rebuild, are excepted until a     *)
(* rebuild that met neither has run.                                       *)
(***************************************************************************)
THEOREM NoDrift == Spec => []NoAffinityDrift
<1>1. RowInv => NoAffinityDrift
  BY DEF RowInv
<1> QED  BY <1>1, RowInvHolds, PTL

(***************************************************************************)
(* A rebuild deletes the rows and aggregates a log that Appends extend     *)
(* from statement to statement, and no signal is lost: what a row counts   *)
(* never falls short of the log, except by signals a link moved.           *)
(***************************************************************************)
THEOREM NothingLost == Spec => []NoSignalLost
<1>1. RowInv => NoSignalLost
  BY DEF RowInv
<1> QED  BY <1>1, RowInvHolds, PTL
=============================================================================
