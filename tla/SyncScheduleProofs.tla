------------------------- MODULE SyncScheduleProofs -------------------------
(***************************************************************************)
(* Proofs about SyncSchedule, for any number of users, jobs and triggered  *)
(* syncs: types, the real-time bound within which each connected user is   *)
(* served, events that settle, and a clean exit.                           *)
(*                                                                         *)
(* The bound rests on an upper bound of the time until a user is served    *)
(* next, read off the loop of the job alone (Ahead): a unit of time takes  *)
(* one off it for each one it adds to since, and whenever it grows, since  *)
(* is back at 0 or below what the shut gate allows.                        *)
(***************************************************************************)
EXTENDS SyncSchedule, FiniteSetTheorems, TLAPS

-----------------------------------------------------------------------------
(* What a queue costs. *)

Cost(S) == Cardinality(S) * Timeout

LEMMA Positive == Timeout \in Nat /\ Timeout >= 1
BY ScheduleConstants

LEMMA CostOf ==
    ASSUME NEW S \in SUBSET User
    PROVE  /\ IsFiniteSet(S) /\ Cardinality(S) \in Nat
           /\ Cost(S) \in Nat /\ Cost(S) <= Cost(User)
           /\ \A u \in S : Cost(S \ {u}) = Cost(S) - Timeout /\ Timeout <= Cost(S)
           /\ \A u \in User \ S : Cost(S) + Timeout <= Cost(User)
<1>1. IsFiniteSet(User) /\ Timeout \in Nat
  BY ScheduleConstants
<1>2. IsFiniteSet(S) /\ Cardinality(S) \in Nat /\ Cardinality(User) \in Nat
      /\ Cardinality(S) <= Cardinality(User)
  BY <1>1, FS_Subset, FS_CardinalityType
<1>3. \A m, n \in Nat : m <= n => m * Timeout <= n * Timeout /\ m * Timeout \in Nat
  <2>1. \A m, k, t \in Nat : (m + k) * t = m * t + k * t /\ m * t \in Nat /\ k * t \in Nat
    OBVIOUS
  <2>2. \A m, n \in Nat : m <= n => n - m \in Nat /\ n = m + (n - m)
    OBVIOUS
  <2>3. ASSUME NEW m \in Nat, NEW n \in Nat, m <= n
        PROVE  m * Timeout <= n * Timeout /\ m * Timeout \in Nat
    <3>1. PICK k \in Nat : n = m + k
      BY <2>2, <2>3
    <3>2. n * Timeout = m * Timeout + k * Timeout /\ m * Timeout \in Nat /\ k * Timeout \in Nat
      BY <1>1, <2>1, <3>1
    <3> QED  BY <3>2
  <2> QED  BY <2>3
<1>4. \A m \in Nat : (m + 1) * Timeout = m * Timeout + Timeout
  BY <1>1
<1>5. ASSUME NEW u \in S PROVE Cost(S \ {u}) = Cost(S) - Timeout /\ Timeout <= Cost(S)
  <2>1. Cardinality(S \ {u}) = Cardinality(S) - 1 /\ Cardinality(S) >= 1
        /\ Cardinality(S \ {u}) \in Nat
    BY <1>2, FS_RemoveElement, FS_CardinalityType, FS_EmptySet, FS_Subset
  <2>2. Cardinality(S) = Cardinality(S \ {u}) + 1
    BY <1>2, <2>1
  <2>3. Cost(S) = Cost(S \ {u}) + Timeout /\ Cost(S \ {u}) \in Nat
    BY <1>3, <1>4, <2>1, <2>2 DEF Cost
  <2> QED  BY <1>1, <2>3
<1>6. ASSUME NEW u \in User \ S PROVE Cost(S) + Timeout <= Cost(User)
  <2>1. Cardinality(S \cup {u}) = Cardinality(S) + 1 /\ S \cup {u} \in SUBSET User
    BY <1>2, FS_AddElement
  <2>2. Cardinality(S \cup {u}) <= Cardinality(User)
    BY <1>1, <2>1, FS_Subset
  <2> QED  BY <1>2, <1>3, <1>4, <2>1, <2>2 DEF Cost
<1> QED  BY <1>2, <1>3, <1>5, <1>6 DEF Cost

LEMMA CostOfNone == Cost({}) = 0
<1>1. Cardinality({}) = 0 /\ Timeout \in Nat
  BY FS_EmptySet, ScheduleConstants
<1> QED  BY <1>1 DEF Cost

LEMMA BoundIs ==
    ASSUME NEW j \in Job
    PROVE  /\ Interval[j] \in Nat /\ Interval[j] >= 1
           /\ MinInterval[j] \in Nat /\ MinInterval[j] <= Interval[j]
           /\ Startup[j] \in Nat /\ Startup[j] <= Interval[j]
           /\ Cost(User) \in Nat
           /\ Bound(j) = 2 * Interval[j] + 2 * Cost(User) - Timeout
           /\ Bound(j) \in Int
<1>1. Interval[j] \in Nat /\ Interval[j] >= 1 /\ MinInterval[j] \in Nat /\ Startup[j] \in Nat
      /\ MinInterval[j] <= Interval[j] /\ Startup[j] <= Interval[j] /\ Timeout \in Nat
  BY ScheduleConstants
<1>2. Cardinality(User) \in Nat /\ Cost(User) \in Nat
  BY CostOf
<1>3. \A c, t \in Nat : (2 * c - 1) * t = 2 * (c * t) - t
  OBVIOUS
<1>4. (2 * Cardinality(User) - 1) * Timeout = 2 * Cost(User) - Timeout
  BY <1>1, <1>2, <1>3 DEF Cost
<1>5. Bound(j) = 2 * Interval[j] + (2 * Cost(User) - Timeout)
  BY <1>4 DEF Bound
<1> QED  BY <1>1, <1>2, <1>5

-----------------------------------------------------------------------------
(* How long until a user is served next. *)

\* From the end of the round, or of the startup delay, to the next round.
Idle(j, l) ==
    IF l.due THEN 0
    ELSE IF l.timer = 0 /\ l.at # "startup" THEN Interval[j]
    ELSE l.timer

\* The run in progress, the users before it in the queue; if it is not in the queue, the
\* rest of it, the wait, and all the others in the next round.
Ahead(j, l, u) ==
    IF u \in l.queue THEN l.left + Cost(l.queue) - Timeout
    ELSE l.left + Cost(l.queue) + Idle(j, l) + Cost(User) - Timeout

LEMMA LoopFields ==
    ASSUME NEW j \in Job, NEW l \in Loop(j)
    PROVE  /\ l.at \in {"new", "startup", "wait", "serve", "run", "stopped"}
           /\ l.timer \in Nat /\ l.timer <= Interval[j] /\ l.due \in BOOLEAN
           /\ l.queue \in SUBSET User /\ l.user \in User \cup {None}
           /\ l.left \in Nat /\ l.left <= Timeout
BY BoundIs, Positive DEF Loop

LEMMA AheadType ==
    ASSUME NEW j \in Job, NEW l \in Loop(j), NEW u \in User
    PROVE  /\ Idle(j, l) \in Nat /\ Idle(j, l) <= Interval[j]
           /\ Ahead(j, l, u) \in Int /\ 0 <= Ahead(j, l, u) /\ Ahead(j, l, u) < Bound(j)
           /\ u \notin l.queue => Ahead(j, l, u) <= l.left + Interval[j] + 2 * (Cost(User) - Timeout)
           /\ 0 < Bound(j) /\ Timeout <= Cost(User)
<1>1. Idle(j, l) \in Nat /\ Idle(j, l) <= Interval[j]
  BY LoopFields, BoundIs DEF Idle
<1>2. l.left \in Nat /\ l.left <= Timeout /\ l.queue \in SUBSET User
  BY LoopFields
<1>3. Cost(l.queue) \in Nat /\ Cost(l.queue) <= Cost(User)
      /\ (u \in l.queue => Timeout <= Cost(l.queue))
      /\ (u \notin l.queue => Cost(l.queue) + Timeout <= Cost(User))
  BY <1>2, CostOf
<1>4. Timeout <= Cost(User)
  BY CostOf
<1> HIDE DEF Idle
<1> DEFINE i == Idle(j, l)
           q == Cost(l.queue)
           c == Cost(User)
           d == Interval[j]
<1>5. d \in Nat /\ d >= 1 /\ c \in Nat /\ Bound(j) = 2 * d + 2 * c - Timeout
      /\ Timeout \in Nat
  BY BoundIs, Positive
<1>6. CASE u \in l.queue
  <2>1. Ahead(j, l, u) = l.left + q - Timeout
    BY <1>6 DEF Ahead
  <2> HIDE DEF i, q, c, d
  <2> QED  BY <1>1, <1>2, <1>3, <1>4, <1>5, <1>6, <2>1 DEF i, q, c, d
<1>7. CASE u \notin l.queue
  <2>1. Ahead(j, l, u) = l.left + q + i + c - Timeout
    BY <1>7 DEF Ahead
  <2>2. q + Timeout <= c
    BY <1>3, <1>7
  <2> QED  BY <1>1, <1>2, <1>3, <1>4, <1>5, <2>1, <2>2
<1> QED  BY <1>6, <1>7

\* What the loop of a job keeps to.
Settled(l) ==
    /\ l.at \in {"new", "startup", "wait"} => l.queue = {} /\ l.left = 0
    /\ l.at \in {"new", "startup"} => ~l.due
    /\ l.at = "wait" => l.timer >= 1
    /\ l.at = "serve" => l.left = 0
    /\ l.at = "run" => l.user \in User

\* A round begins with every connected user.
LEMMA BeginAhead ==
    ASSUME NEW j \in Job, NEW l \in Loop(j), NEW m \in Loop(j), NEW u \in User, Settled(l),
           l.at \in {"startup", "wait"}, m.left = l.left, u \in m.queue
    PROVE  Ahead(j, m, u) <= Ahead(j, l, u)
<1>1. l.queue = {} /\ l.left = 0 /\ Cost({}) = 0 /\ Timeout \in Nat
  BY CostOfNone, Positive DEF Settled
<1>2. Cost(m.queue) \in Nat /\ Cost(m.queue) <= Cost(User) /\ Cost(User) \in Nat
  BY LoopFields, CostOf, BoundIs
<1>3. Ahead(j, m, u) = 0 + Cost(m.queue) - Timeout
  BY <1>1 DEF Ahead
<1>4. Ahead(j, l, u) = 0 + 0 + Idle(j, l) + Cost(User) - Timeout
  BY <1>1 DEF Ahead
<1>5. Idle(j, l) \in Nat
  BY AheadType
<1> QED  BY <1>1, <1>2, <1>3, <1>4, <1>5

\* Another user leaves the queue, at once or for a run.
LEMMA DropAhead ==
    ASSUME NEW j \in Job, NEW l \in Loop(j), NEW m \in Loop(j), NEW u \in User, Settled(l),
           l.at = "serve", NEW v \in l.queue, u # v, m.queue = l.queue \ {v},
           m.timer = l.timer, m.due = l.due, m.at \in {"serve", "run"},
           m.left \in {l.left, Timeout}
    PROVE  Ahead(j, m, u) <= Ahead(j, l, u)
<1>1. /\ l.left = 0 /\ Timeout \in Nat /\ Idle(j, m) = Idle(j, l) /\ Idle(j, l) \in Nat
      /\ m.left \in Nat /\ m.left <= Timeout
  BY Positive, AheadType, LoopFields DEF Settled, Idle
<1>2. Cost(m.queue) = Cost(l.queue) - Timeout /\ Cost(l.queue) \in Nat /\ Cost(User) \in Nat
  BY LoopFields, CostOf, BoundIs
<1>3. CASE u \in l.queue
  <2>1. /\ Ahead(j, m, u) = m.left + Cost(m.queue) - Timeout
        /\ Ahead(j, l, u) = l.left + Cost(l.queue) - Timeout
    BY <1>3 DEF Ahead
  <2> QED  BY <1>1, <1>2, <2>1
<1>4. CASE u \notin l.queue
  <2>1. /\ Ahead(j, m, u) = m.left + Cost(m.queue) + Idle(j, l) + Cost(User) - Timeout
        /\ Ahead(j, l, u) = l.left + Cost(l.queue) + Idle(j, l) + Cost(User) - Timeout
    BY <1>1, <1>4 DEF Ahead
  <2> QED  BY <1>1, <1>2, <2>1
<1> QED  BY <1>3, <1>4

\* A user that is passed over because its gate is shut for s more units at most is served
\* in time.
LEMMA PassedAhead ==
    ASSUME NEW j \in Job, NEW m \in Loop(j), NEW u \in User, u \notin m.queue, m.left = 0,
           NEW s \in Nat, s < Interval[j]
    PROVE  s + Ahead(j, m, u) < Bound(j)
<1>1. Ahead(j, m, u) \in Int /\ Ahead(j, m, u) <= 0 + Interval[j] + 2 * (Cost(User) - Timeout)
  BY AheadType
<1>2. /\ Interval[j] \in Nat /\ Cost(User) \in Nat /\ Timeout \in Nat /\ Timeout >= 1
      /\ Bound(j) = 2 * Interval[j] + 2 * Cost(User) - Timeout
  BY BoundIs, Positive
<1> QED  BY <1>1, <1>2

\* A run ends.
LEMMA EndAhead ==
    ASSUME NEW j \in Job, NEW l \in Loop(j), NEW m \in Loop(j), NEW u \in User,
           l.at = "run", m.at = "serve", m.left = 0,
           m.queue = l.queue, m.timer = l.timer, m.due = l.due
    PROVE  Ahead(j, m, u) <= Ahead(j, l, u)
<1>1. /\ l.left \in Nat /\ Idle(j, m) = Idle(j, l) /\ Idle(j, l) \in Nat
      /\ Cost(l.queue) \in Nat /\ Cost(User) \in Nat /\ Timeout \in Nat
  BY Positive, AheadType, LoopFields, CostOf, BoundIs DEF Idle
<1> DEFINE i == Idle(j, l)
<1>2. CASE u \in l.queue
  <2>1. /\ Ahead(j, m, u) = 0 + Cost(l.queue) - Timeout
        /\ Ahead(j, l, u) = l.left + Cost(l.queue) - Timeout
    BY <1>2 DEF Ahead
  <2> QED  BY <1>1, <2>1
<1>3. CASE u \notin l.queue
  <2>1. /\ Ahead(j, m, u) = 0 + Cost(l.queue) + i + Cost(User) - Timeout
        /\ Ahead(j, l, u) = l.left + Cost(l.queue) + i + Cost(User) - Timeout
    BY <1>1, <1>3 DEF Ahead
  <2> QED  BY <1>1, <2>1
<1> QED  BY <1>2, <1>3

\* A round ends.
LEMMA FinishAhead ==
    ASSUME NEW j \in Job, NEW l \in Loop(j), NEW m \in Loop(j), NEW u \in User,
           l.at = "serve", l.queue = {}, m.at = "wait", m.left = l.left, m.queue = {},
           m.timer = (IF l.timer = 0 THEN Interval[j] ELSE l.timer), m.due = l.due
    PROVE  Ahead(j, m, u) <= Ahead(j, l, u)
<1>1. Idle(j, m) = Idle(j, l)
  BY BoundIs DEF Idle
<1>2. Ahead(j, m, u) = Ahead(j, l, u)
  BY <1>1 DEF Ahead
<1> QED  BY <1>2, AheadType

\* A unit of time passes.
LEMMA TurnAhead ==
    ASSUME NEW j \in Job, NEW l \in Loop(j), NEW m \in Loop(j), NEW u \in User, Settled(l),
           \/ l.at = "startup" /\ l.timer > 0
           \/ l.at = "wait" /\ ~l.due
           \/ l.at = "run" /\ l.left > 0,
           m.at = l.at, m.queue = l.queue, m.left = Less(l.left),
           m.timer = (IF l.at \in {"wait", "run"} /\ l.timer = 1 THEN Interval[j]
                      ELSE Less(l.timer)),
           m.due <=> (l.due \/ (l.at \in {"wait", "run"} /\ l.timer = 1))
    PROVE  Ahead(j, m, u) + 1 <= Ahead(j, l, u)
<1>1. /\ l.left \in Nat /\ l.timer \in Nat /\ l.queue \in SUBSET User /\ l.due \in BOOLEAN
      /\ Interval[j] \in Nat /\ Interval[j] >= 1
      /\ Cost(User) \in Nat /\ Timeout \in Nat
  BY LoopFields, BoundIs, Positive
<1>2. Cost(l.queue) \in Nat
  BY <1>1, CostOf
<1>3. Idle(j, l) \in Nat /\ Idle(j, m) \in Nat /\ m.left \in Nat
  BY AheadType, LoopFields
<1>4. CASE l.at = "run" /\ l.left > 0
  <2>1. m.left + 1 = l.left
    BY <1>1, <1>4 DEF Less
  <2>2. Idle(j, m) <= Idle(j, l)
    <3>1. CASE l.due \/ l.timer = 1
      <4>1. m.due
        BY <1>4, <3>1
      <4>2. Idle(j, m) = 0
        BY <4>1 DEF Idle
      <4> QED  BY <1>3, <4>2
    <3>2. CASE ~l.due /\ l.timer # 1
      <4>1. ~m.due /\ m.timer = Less(l.timer) /\ m.at # "startup" /\ l.at # "startup"
        BY <1>4, <3>2
      <4>2. CASE l.timer = 0
        <5>1. m.timer = 0
          BY <4>1, <4>2 DEF Less
        <5> QED  BY <1>1, <3>2, <4>1, <4>2, <5>1 DEF Idle
      <4>3. CASE l.timer # 0
        <5>1. m.timer = l.timer - 1 /\ m.timer # 0
          BY <1>1, <3>2, <4>1, <4>3 DEF Less
        <5>2. Idle(j, m) = m.timer /\ Idle(j, l) = l.timer
          BY <3>2, <4>1, <4>3, <5>1 DEF Idle
        <5> QED  BY <1>1, <5>1, <5>2
      <4> QED  BY <4>2, <4>3
    <3> QED  BY <3>1, <3>2
  <2>3. CASE u \in l.queue
    <3>1. /\ Ahead(j, m, u) = m.left + Cost(l.queue) - Timeout
          /\ Ahead(j, l, u) = l.left + Cost(l.queue) - Timeout
      BY <2>3 DEF Ahead
    <3> QED  BY <1>1, <1>2, <1>3, <2>1, <3>1
  <2>4. CASE u \notin l.queue
    <3>1. /\ Ahead(j, m, u) = m.left + Cost(l.queue) + Idle(j, m) + Cost(User) - Timeout
          /\ Ahead(j, l, u) = l.left + Cost(l.queue) + Idle(j, l) + Cost(User) - Timeout
      BY <2>4 DEF Ahead
    <3> QED  BY <1>1, <1>2, <1>3, <2>1, <2>2, <3>1
  <2> QED  BY <2>3, <2>4
<1>5. CASE (l.at = "startup" /\ l.timer > 0) \/ (l.at = "wait" /\ ~l.due)
  <2>1. l.queue = {} /\ l.left = 0 /\ m.left = 0 /\ u \notin l.queue
    BY <1>5 DEF Settled, Less
  <2>2. Idle(j, m) + 1 = Idle(j, l)
    <3>1. ~l.due /\ l.timer >= 1 /\ l.timer # 0
      BY <1>1, <1>5 DEF Settled
    <3>2. Idle(j, l) = l.timer
      BY <3>1 DEF Idle
    <3>3. CASE l.at = "wait" /\ l.timer = 1
      <4>1. m.due
        BY <3>3
      <4>2. Idle(j, m) = 0
        BY <4>1 DEF Idle
      <4> QED  BY <3>2, <3>3, <4>2
    <3>4. CASE ~(l.at = "wait" /\ l.timer = 1)
      <4>1. ~m.due /\ m.timer = Less(l.timer)
        BY <1>5, <3>1, <3>4
      <4>2. m.timer = l.timer - 1 /\ (m.at # "startup" => m.timer # 0)
        BY <1>1, <1>5, <3>1, <3>4, <4>1 DEF Less
      <4>3. Idle(j, m) = m.timer
        BY <4>1, <4>2 DEF Idle
      <4> QED  BY <1>1, <3>2, <4>2, <4>3
    <3> QED  BY <3>3, <3>4
  <2>3. /\ Ahead(j, m, u) = 0 + Cost(l.queue) + Idle(j, m) + Cost(User) - Timeout
        /\ Ahead(j, l, u) = 0 + Cost(l.queue) + Idle(j, l) + Cost(User) - Timeout
    BY <2>1 DEF Ahead
  <2> QED  BY <1>1, <1>2, <1>3, <2>2, <2>3
<1> QED  BY <1>4, <1>5

-----------------------------------------------------------------------------
(* What the loops do. *)

AnyLoop == [at : {"new", "startup", "wait", "serve", "run", "stopped"}, timer : Nat, due : BOOLEAN,
            queue : SUBSET User, user : User \cup {None}, left : Nat]

\* A loop has stopped only when the process is shutting down.
LoopsOK ==
    /\ loop \in [Job -> AnyLoop]
    /\ \A j \in Job : loop[j] \in Loop(j) /\ Settled(loop[j])
    /\ \A j \in Job : loop[j].at = "stopped" => Cancelled

LEMMA LoopIn ==
    ASSUME NEW j \in Job, NEW l \in Loop(j)
    PROVE  l \in AnyLoop
<1>1. \A k \in Job : 0..Interval[k] \subseteq Nat /\ 0..Timeout \subseteq Nat
  BY BoundIs, Positive
<1> QED  BY <1>1 DEF Loop, AnyLoop

LEMMA LoopOf ==
    ASSUME LoopsOK, NEW j \in Job
    PROVE  /\ loop[j] \in AnyLoop /\ loop[j] \in Loop(j) /\ Settled(loop[j])
           /\ loop[j].at \in {"new", "startup", "wait", "serve", "run", "stopped"}
           /\ loop[j].timer \in 0..Interval[j] /\ loop[j].due \in BOOLEAN
           /\ loop[j].queue \in SUBSET User /\ loop[j].user \in User \cup {None}
           /\ loop[j].left \in 0..Timeout
<1>1. loop[j] \in AnyLoop /\ loop[j] \in Loop(j) /\ Settled(loop[j])
  BY DEF LoopsOK
<1> QED  BY <1>1 DEF Loop

LEMMA LoopBecomes ==
    ASSUME LoopsOK, NEW j \in Job, NEW m \in Loop(j), Settled(m), Becomes(j, m),
           m.at = "stopped" => Cancelled, Cancelled => Cancelled'
    PROVE  /\ LoopsOK' /\ loop'[j] = m
           /\ \A k \in Job \ {j} : loop'[k] = loop[k]
<1>1. /\ loop'[j] = m
      /\ \A k \in Job \ {j} : loop'[k] = loop[k]
  BY DEF LoopsOK, Becomes
<1>2. loop' \in [Job -> AnyLoop]
  BY LoopIn DEF LoopsOK, Becomes
<1>3. \A k \in Job : loop'[k] \in Loop(k) /\ Settled(loop'[k])
  BY <1>1 DEF LoopsOK
<1>4. \A k \in Job : loop'[k].at = "stopped" => Cancelled'
  BY <1>1 DEF LoopsOK
<1> QED  BY <1>1, <1>2, <1>3, <1>4 DEF LoopsOK

LEMMA StartJobGoes ==
    ASSUME LoopsOK, NEW j \in Job, StartJob(j)
    PROVE  /\ loop[j].at = "new"
           /\ \E m \in Loop(j) : Settled(m) /\ Becomes(j, m) /\ m.at = "startup"
<1>1. PICK delay \in 0..Startup[j] :
         Becomes(j, [loop[j] EXCEPT !.at = "startup", !.timer = delay])
  BY DEF StartJob
<1> DEFINE m == [loop[j] EXCEPT !.at = "startup", !.timer = delay]
<1>2. loop[j].at = "new" /\ delay \in 0..Interval[j]
  BY BoundIs DEF StartJob
<1>3. /\ m.at = "startup" /\ m.timer = delay /\ m.due = loop[j].due
      /\ m.queue = loop[j].queue /\ m.user = loop[j].user /\ m.left = loop[j].left
      /\ m \in Loop(j)
  BY <1>2, LoopOf DEF AnyLoop, Loop
<1>4. Becomes(j, m)
  BY <1>1
<1> HIDE DEF m
<1>5. Settled(m)
  BY <1>2, <1>3, LoopOf DEF Settled
<1> QED  BY <1>2, <1>3, <1>4, <1>5

LEMMA BeginRoundGoes ==
    ASSUME LoopsOK, connected \in SUBSET User, NEW j \in Job, BeginRound(j)
    PROVE  \E m \in Loop(j) :
              /\ Settled(m) /\ Becomes(j, m) /\ m.at = "serve"
              /\ m.queue = connected /\ m.left = loop[j].left
              /\ loop[j].at \in {"startup", "wait"}
<1> DEFINE m == [loop[j] EXCEPT !.at = "serve", !.due = FALSE, !.queue = connected]
<1>1. loop[j].at \in {"startup", "wait"} /\ loop[j].left = 0
  BY LoopOf DEF BeginRound, TickDue, Settled
<1>2. /\ m.at = "serve" /\ m.timer = loop[j].timer /\ m.due = FALSE /\ m.queue = connected
      /\ m.user = loop[j].user /\ m.left = loop[j].left /\ m \in Loop(j)
  BY LoopOf DEF AnyLoop, Loop
<1>3. Becomes(j, m)
  BY DEF BeginRound
<1> HIDE DEF m
<1>4. Settled(m)
  BY <1>1, <1>2 DEF Settled
<1> QED  BY <1>1, <1>2, <1>3, <1>4

LEMMA EndRoundGoes ==
    ASSUME LoopsOK, NEW j \in Job, NEW due \in BOOLEAN, EndRound(j, due), loop[j].left = 0
    PROVE  \E m \in Loop(j) :
              /\ Settled(m) /\ Becomes(j, m) /\ m.at = "wait"
              /\ m.queue = {} /\ m.left = loop[j].left /\ m.due = due
              /\ m.timer = IF loop[j].timer = 0 THEN Interval[j] ELSE loop[j].timer
<1> DEFINE t == IF loop[j].timer = 0 THEN Interval[j] ELSE loop[j].timer
           m == [loop[j] EXCEPT !.at = "wait", !.due = due, !.queue = {}, !.timer = t]
<1>1. t \in 0..Interval[j] /\ t >= 1
  BY LoopOf, BoundIs
<1>2. Becomes(j, m)
  BY DEF EndRound
<1>3. t = IF loop[j].timer = 0 THEN Interval[j] ELSE loop[j].timer
  OBVIOUS
<1> HIDE DEF t
<1>4. /\ m.at = "wait" /\ m.timer = t /\ m.due = due /\ m.queue = {}
      /\ m.user = loop[j].user /\ m.left = loop[j].left /\ m \in Loop(j)
  BY <1>1, LoopOf DEF AnyLoop, Loop
<1> HIDE DEF m
<1>5. Settled(m)
  BY <1>1, <1>4 DEF Settled
<1> QED  BY <1>2, <1>3, <1>4, <1>5

LEMMA LoseRoundGoes ==
    ASSUME LoopsOK, NEW j \in Job, LoseRound(j)
    PROVE  \E m \in Loop(j) : Settled(m) /\ Becomes(j, m) /\ m.at = "wait"
<1>1. EndRound(j, FALSE) /\ loop[j].left = 0
  BY LoopOf DEF LoseRound, TickDue, Settled
<1> QED  BY <1>1, EndRoundGoes

LEMMA FinishRoundGoes ==
    ASSUME LoopsOK, NEW j \in Job, FinishRound(j)
    PROVE  \E m \in Loop(j) :
              /\ Settled(m) /\ Becomes(j, m) /\ m.at = "wait" /\ loop[j].at = "serve"
              /\ m.queue = {} /\ m.left = loop[j].left /\ m.due = loop[j].due
              /\ m.timer = IF loop[j].timer = 0 THEN Interval[j] ELSE loop[j].timer
<1>1. /\ EndRound(j, loop[j].due) /\ loop[j].left = 0 /\ loop[j].at = "serve"
      /\ loop[j].due \in BOOLEAN
  BY LoopOf DEF FinishRound, Settled
<1> QED  BY <1>1, EndRoundGoes

LEMMA QueueGoes ==
    ASSUME LoopsOK, NEW j \in Job, NEW u \in User, RunUser(j, u) \/ LoseUser(j, u)
    PROVE  \E m \in Loop(j) :
              /\ Settled(m) /\ Becomes(j, m) /\ m.at \in {"serve", "run"}
              /\ loop[j].at = "serve" /\ u \in loop[j].queue
              /\ m.queue = loop[j].queue \ {u} /\ m.timer = loop[j].timer
              /\ m.due = loop[j].due /\ m.left \in {loop[j].left, Timeout}
              /\ RunUser(j, u) /\ gate[j][u] # 0 => m.left = 0
<1> DEFINE q == loop[j].queue \ {u}
           k == [loop[j] EXCEPT !.queue = q]
           m == [loop[j] EXCEPT !.at = "run", !.queue = q, !.user = u, !.left = Timeout]
<1>1. loop[j].at = "serve" /\ u \in loop[j].queue /\ loop[j].left = 0
  BY LoopOf DEF RunUser, LoseUser, Settled
<1>2. Timeout \in 0..Timeout /\ q \in SUBSET User
  BY Positive, LoopOf
<1>3. /\ LoseUser(j, u) => Becomes(j, k)
      /\ RunUser(j, u) /\ gate[j][u] # 0 => Becomes(j, k)
      /\ RunUser(j, u) /\ gate[j][u] = 0 => Becomes(j, m)
  BY DEF LoseUser, RunUser
<1>4. q = loop[j].queue \ {u}
  OBVIOUS
<1> HIDE DEF q
<1>5. /\ k.at = "serve" /\ k.timer = loop[j].timer /\ k.due = loop[j].due /\ k.queue = q
      /\ k.user = loop[j].user /\ k.left = loop[j].left /\ k \in Loop(j)
  BY <1>1, <1>2, LoopOf DEF AnyLoop, Loop
<1>6. /\ m.at = "run" /\ m.timer = loop[j].timer /\ m.due = loop[j].due /\ m.queue = q
      /\ m.user = u /\ m.left = Timeout /\ m \in Loop(j)
  BY <1>1, <1>2, LoopOf DEF AnyLoop, Loop
<1> HIDE DEF k, m
<1>7. Settled(k)
  BY <1>1, <1>5 DEF Settled
<1>8. Settled(m)
  BY <1>6 DEF Settled
<1>9. CASE Becomes(j, k) /\ ~(RunUser(j, u) /\ gate[j][u] = 0)
  BY <1>1, <1>4, <1>5, <1>7, <1>9
<1>10. CASE RunUser(j, u) /\ gate[j][u] = 0
  BY <1>1, <1>3, <1>4, <1>6, <1>8, <1>10
<1> QED  BY <1>3, <1>9, <1>10

LEMMA EndRunGoes ==
    ASSUME LoopsOK, NEW j \in Job, EndRun(j)
    PROVE  \E m \in Loop(j) :
              /\ Settled(m) /\ Becomes(j, m) /\ m.at = "serve" /\ m.left = 0
              /\ loop[j].at = "run" /\ m.queue = loop[j].queue
              /\ m.timer = loop[j].timer /\ m.due = loop[j].due
<1> DEFINE m == [loop[j] EXCEPT !.at = "serve", !.user = None, !.left = 0]
<1>1. 0 \in 0..Timeout
  BY Positive
<1>2. /\ m.at = "serve" /\ m.timer = loop[j].timer /\ m.due = loop[j].due
      /\ m.queue = loop[j].queue /\ m.user = None /\ m.left = 0 /\ m \in Loop(j)
  BY <1>1, LoopOf DEF AnyLoop, Loop
<1>3. Becomes(j, m) /\ loop[j].at = "run"
  BY DEF EndRun
<1> HIDE DEF m
<1>4. Settled(m)
  BY <1>2 DEF Settled
<1> QED  BY <1>2, <1>3, <1>4

LEMMA StopLoopGoes ==
    ASSUME LoopsOK, NEW j \in Job, StopLoop(j)
    PROVE  /\ Cancelled /\ loop[j].at \in {"startup", "wait"}
           /\ \E m \in Loop(j) : Settled(m) /\ Becomes(j, m) /\ m.at = "stopped"
<1> DEFINE m == [loop[j] EXCEPT !.at = "stopped", !.timer = 0, !.due = FALSE]
<1>1. 0 \in 0..Interval[j]
  BY BoundIs
<1>2. m.at = "stopped" /\ m \in Loop(j)
  BY <1>1, LoopOf DEF AnyLoop, Loop
<1>3. Becomes(j, m) /\ Cancelled /\ loop[j].at \in {"startup", "wait"}
  BY DEF StopLoop
<1> HIDE DEF m
<1>4. Settled(m)
  BY <1>2 DEF Settled
<1> QED  BY <1>2, <1>3, <1>4

LEMMA TurnGoes ==
    ASSUME LoopsOK, NEW j \in Job, AtRest
    PROVE  /\ Turn(j) \in Loop(j) /\ Settled(Turn(j)) /\ Turn(j).at = loop[j].at
           /\ ~Cancelled => /\ Turn(j).queue = loop[j].queue
                            /\ \A u \in User :
                                 Ahead(j, Turn(j), u) + 1 <= Ahead(j, loop[j], u)
<1> DEFINE l == loop[j]
           rings == l.at \in {"wait", "run"} /\ l.timer = 1
           t == IF rings THEN Interval[j] ELSE Less(l.timer)
           d == l.due \/ rings
           f == Less(l.left)
           m == [l EXCEPT !.timer = t, !.due = d, !.left = f]
<1>1. l \in AnyLoop /\ l \in Loop(j) /\ Settled(l)
  BY LoopOf
<1>2. /\ t \in 0..Interval[j] /\ d \in BOOLEAN /\ f \in 0..Timeout
  <2>1. \A n \in Nat : \A k \in 0..n : Less(k) \in 0..n
    BY DEF Less
  <2>2. /\ l.timer \in 0..Interval[j] /\ l.left \in 0..Timeout
        /\ Interval[j] \in Nat /\ Timeout \in Nat
    BY LoopOf, BoundIs, Positive
  <2>3. Less(l.timer) \in 0..Interval[j] /\ f \in 0..Timeout
    BY <2>1, <2>2
  <2>4. Interval[j] \in 0..Interval[j]
    BY <2>2
  <2>5. t \in 0..Interval[j]
    BY <2>3, <2>4
  <2>6. d \in BOOLEAN
    OBVIOUS
  <2> QED  BY <2>3, <2>5, <2>6
<1>3. Turn(j) = m
  BY DEF Turn
<1>4. /\ t = (IF l.at \in {"wait", "run"} /\ l.timer = 1 THEN Interval[j] ELSE Less(l.timer))
      /\ d <=> (l.due \/ (l.at \in {"wait", "run"} /\ l.timer = 1))
      /\ f = Less(l.left)
  OBVIOUS
<1> HIDE DEF t, d, f, l
<1>5. /\ m.at = l.at /\ m.timer = t /\ m.due = d /\ m.queue = l.queue /\ m.user = l.user
      /\ m.left = f /\ m \in Loop(j)
  BY <1>1, <1>2 DEF AnyLoop, Loop
<1> HIDE DEF m
<1>6. \/ l.at = "startup" /\ l.timer > 0 /\ ~Cancelled
      \/ l.at = "wait" /\ ~l.due /\ ~Cancelled
      \/ l.at = "run" /\ l.left > 0
      \/ l.at = "stopped"
  BY DEF AtRest, l
<1>7. Settled(m)
  <2>1. l.at = "wait" => m.timer >= 1
    BY <1>1, <1>2, <1>4, <1>5, LoopFields, BoundIs DEF Settled, Less
  <2>2. l.at = "startup" => ~m.due
    BY <1>1, <1>4, <1>5 DEF Settled
  <2> QED  BY <1>1, <1>4, <1>5, <1>6, <2>1, <2>2 DEF Settled, Less
<1>8. ASSUME ~Cancelled, NEW u \in User PROVE Ahead(j, m, u) + 1 <= Ahead(j, l, u)
  <2>1. l.at # "stopped"
    BY <1>8 DEF LoopsOK, l
  <2> QED  BY <1>1, <1>4, <1>5, <1>6, <2>1, TurnAhead
<1> QED  BY <1>3, <1>5, <1>7, <1>8 DEF l

-----------------------------------------------------------------------------
(* What happens to the gates and the waiting times. *)

RowsOK ==
    /\ connected \in SUBSET User
    /\ gate \in [Job -> [User -> Nat]] /\ since \in [Job -> [User -> Nat]]
    /\ \A j \in Job, u \in User : gate[j][u] <= MinInterval[j] /\ since[j][u] <= Bound(j)

LEMMA BoundPositive ==
    ASSUME NEW j \in Job, NEW u \in User
    PROVE  Bound(j) \in Nat /\ 0 < Bound(j)
<1>1. Timeout <= Cost(User)
  BY CostOf
<1> QED  BY <1>1, BoundIs, Positive

\* A step that takes no time: a gate is opened or left as it is, unless a run passes it; a
\* waiting time is left as it is or starts again.
Steps(j, u) ==
    \/ since'[j][u] = 0 /\ gate'[j][u] \in {0, gate[j][u], MinInterval[j]}
    \/ since'[j][u] = since[j][u] /\ gate'[j][u] \in {0, gate[j][u]}

RowsStep ==
    /\ gate' \in [Job -> [User -> Nat]] /\ since' \in [Job -> [User -> Nat]]
    /\ connected' \in SUBSET User
    /\ \A j \in Job, u \in User : Steps(j, u)

LEMMA RowsStepOK ==
    ASSUME RowsOK, RowsStep
    PROVE  RowsOK'
<1>1. ASSUME NEW j \in Job, NEW u \in User
      PROVE  gate'[j][u] <= MinInterval[j] /\ since'[j][u] <= Bound(j)
  BY BoundIs, BoundPositive DEF RowsOK, RowsStep, Steps
<1> QED  BY <1>1 DEF RowsOK, RowsStep

LEMMA GateEntered ==
    ASSUME RowsOK, NEW j \in Job, NEW u \in User, EnterGate(j, u), UNCHANGED connected
    PROVE  RowsStep /\ (gate[j][u] = 0 => since'[j][u] = 0)
<1>1. CASE gate[j][u] = 0
  <2>1. /\ gate' = [gate EXCEPT ![j] = [gate[j] EXCEPT ![u] = MinInterval[j]]]
        /\ since' = [since EXCEPT ![j] = [since[j] EXCEPT ![u] = 0]]
    BY <1>1 DEF EnterGate
  <2>2. gate[j] \in [User -> Nat] /\ since[j] \in [User -> Nat] /\ MinInterval[j] \in Nat
    BY BoundIs DEF RowsOK
  <2>3. /\ [gate[j] EXCEPT ![u] = MinInterval[j]] \in [User -> Nat]
        /\ [since[j] EXCEPT ![u] = 0] \in [User -> Nat]
    BY <2>2
  <2>4. gate' \in [Job -> [User -> Nat]] /\ since' \in [Job -> [User -> Nat]]
    BY <2>1, <2>3 DEF RowsOK
  <2>5. ASSUME NEW k \in Job, NEW v \in User PROVE Steps(k, v)
    <3>1. CASE k = j /\ v = u
      BY <2>1, <2>2, <3>1 DEF RowsOK, Steps
    <3>2. CASE k = j /\ v # u
      BY <2>1, <2>2, <3>2 DEF RowsOK, Steps
    <3>3. CASE k # j
      BY <2>1, <3>3 DEF RowsOK, Steps
    <3> QED  BY <3>1, <3>2, <3>3
  <2>6. since'[j][u] = 0
    BY <2>1, <2>2 DEF RowsOK
  <2> QED  BY <2>4, <2>5, <2>6 DEF RowsStep, RowsOK
<1>2. CASE gate[j][u] # 0
  BY <1>2 DEF EnterGate, RowsStep, RowsOK, Steps
<1> QED  BY <1>1, <1>2

LEMMA GateLeft ==
    ASSUME RowsOK, NEW j \in Job, NEW u \in User, Leave(j, u), UNCHANGED <<connected, since>>
    PROVE  RowsStep
<1>1. PICK g \in {0, gate[j][u]} : gate' = [gate EXCEPT ![j] = [gate[j] EXCEPT ![u] = g]]
  BY DEF Leave
<1>2. gate[j] \in [User -> Nat] /\ g \in Nat
  BY DEF RowsOK
<1>3. [gate[j] EXCEPT ![u] = g] \in [User -> Nat]
  BY <1>2
<1>4. gate' \in [Job -> [User -> Nat]]
  BY <1>1, <1>3 DEF RowsOK
<1>5. ASSUME NEW k \in Job, NEW v \in User PROVE Steps(k, v)
  <2>1. CASE k = j /\ v = u
    BY <1>1, <1>2, <2>1 DEF RowsOK, Steps
  <2>2. CASE k = j /\ v # u
    BY <1>1, <1>2, <2>2 DEF RowsOK, Steps
  <2>3. CASE k # j
    BY <1>1, <2>3 DEF RowsOK, Steps
  <2> QED  BY <2>1, <2>2, <2>3
<1> QED  BY <1>4, <1>5 DEF RowsStep, RowsOK

LEMMA RowsStay ==
    ASSUME RowsOK, UNCHANGED rows
    PROVE  RowsStep
BY DEF rows, RowsOK, RowsStep, Steps

\* A user connects or disconnects: its waiting times start again.
LEMMA Reset ==
    ASSUME RowsOK, NEW u \in User, connected' \in SUBSET User, UNCHANGED gate,
           since' = [j \in Job |-> [since[j] EXCEPT ![u] = 0]]
    PROVE  RowsStep /\ \A j \in Job : since'[j][u] = 0
<1>1. \A j \in Job : since[j] \in [User -> Nat]
  BY DEF RowsOK
<1>2. \A j \in Job : since'[j] \in [User -> Nat] /\ since'[j][u] = 0
  BY <1>1
<1>3. since' \in [Job -> [User -> Nat]]
  BY <1>1
<1>4. ASSUME NEW j \in Job, NEW v \in User PROVE Steps(j, v)
  <2>1. CASE v = u
    BY <1>2, <2>1 DEF Steps
  <2>2. CASE v # u
    BY <1>1, <2>2 DEF Steps
  <2> QED  BY <2>1, <2>2
<1> QED  BY <1>2, <1>3, <1>4 DEF RowsStep, RowsOK

LEMMA RoundLost ==
    ASSUME RowsOK, NEW j \in Job, LoseRound(j)
    PROVE  RowsStep /\ \A u \in User : since'[j][u] = 0
<1>1. since' = [since EXCEPT ![j] = [u \in User |-> 0]] /\ UNCHANGED <<connected, gate>>
  BY DEF LoseRound
<1>2. since' \in [Job -> [User -> Nat]]
  BY <1>1 DEF RowsOK
<1>3. (\A u \in User : since'[j][u] = 0) /\ \A k \in Job \ {j} : since'[k] = since[k]
  BY <1>1 DEF RowsOK
<1> QED  BY <1>1, <1>2, <1>3 DEF RowsStep, RowsOK, Steps

LEMMA UserLost ==
    ASSUME RowsOK, NEW j \in Job, NEW u \in User, LoseUser(j, u)
    PROVE  RowsStep /\ since'[j][u] = 0
<1>1. /\ since' = [since EXCEPT ![j] = [since[j] EXCEPT ![u] = 0]]
      /\ UNCHANGED <<connected, gate>>
  BY DEF LoseUser
<1>2. since[j] \in [User -> Nat]
  BY DEF RowsOK
<1>3. [since[j] EXCEPT ![u] = 0] \in [User -> Nat]
  BY <1>2
<1>4. since' \in [Job -> [User -> Nat]] /\ since'[j][u] = 0
      /\ (\A v \in User \ {u} : since'[j][v] = since[j][v])
      /\ \A k \in Job \ {j} : since'[k] = since[k]
  BY <1>1, <1>2, <1>3 DEF RowsOK
<1>5. ASSUME NEW k \in Job, NEW v \in User PROVE Steps(k, v)
  <2>1. CASE k = j /\ v = u
    BY <1>1, <1>4, <2>1 DEF Steps
  <2>2. CASE k = j /\ v # u
    BY <1>1, <1>4, <2>2 DEF Steps
  <2>3. CASE k # j
    BY <1>1, <1>4, <2>3 DEF Steps
  <2> QED  BY <2>1, <2>2, <2>3
<1> QED  BY <1>1, <1>4, <1>5 DEF RowsStep, RowsOK

\* A unit of time passes.
LEMMA RowsTick ==
    ASSUME RowsOK, Tick
    PROVE  /\ RowsOK' /\ connected' = connected
           /\ \A j \in Job, u \in User : /\ since'[j][u] <= since[j][u] + 1
                                         /\ gate'[j][u] = Less(gate[j][u])
<1>1. /\ gate' = [j \in Job |-> [u \in User |-> Less(gate[j][u])]]
      /\ since' = [j \in Job |-> [u \in User |->
                    IF ~Cancelled /\ u \in connected /\ since[j][u] < Bound(j)
                    THEN since[j][u] + 1 ELSE since[j][u]]]
      /\ connected' = connected
  BY DEF Tick
<1>2. ASSUME NEW j \in Job, NEW u \in User
      PROVE  /\ gate'[j][u] = Less(gate[j][u]) /\ gate'[j][u] \in Nat
             /\ gate'[j][u] <= MinInterval[j]
             /\ since'[j][u] \in Nat /\ since'[j][u] <= Bound(j)
             /\ since'[j][u] <= since[j][u] + 1
  <2>1. /\ gate[j][u] \in Nat /\ gate[j][u] <= MinInterval[j] /\ MinInterval[j] \in Nat
        /\ since[j][u] \in Nat /\ since[j][u] <= Bound(j) /\ Bound(j) \in Nat
    BY BoundPositive, BoundIs DEF RowsOK
  <2>2. /\ gate'[j][u] = Less(gate[j][u])
        /\ since'[j][u] \in {since[j][u], since[j][u] + 1}
        /\ since'[j][u] = since[j][u] + 1 => since[j][u] < Bound(j) \/ since[j][u] + 1 = since[j][u]
    BY <1>1
  <2>3. Less(gate[j][u]) \in Nat /\ Less(gate[j][u]) <= MinInterval[j]
    BY <2>1 DEF Less
  <2> QED  BY <2>1, <2>2, <2>3
<1>3. gate' \in [Job -> [User -> Nat]] /\ since' \in [Job -> [User -> Nat]]
  <2>1. \A j \in Job, u \in User : gate'[j][u] \in Nat /\ since'[j][u] \in Nat
    BY <1>2
  <2>2. /\ gate' = [j \in Job |-> [u \in User |-> gate'[j][u]]]
        /\ since' = [j \in Job |-> [u \in User |-> since'[j][u]]]
    BY <1>1
  <2> QED  BY <2>1, <2>2
<1> QED  BY <1>1, <1>2, <1>3 DEF RowsOK

-----------------------------------------------------------------------------
(* Triggered syncs, main, and the types. *)

SyncOK(t) == t \in Sync /\ (t = NoSync \/ (t.user \in User /\ t.phase \in 1..Len(Phases)))

TriggersOK == trigger \in [Slot -> Sync] /\ \A s \in Slot : SyncOK(trigger[s])

\* The wait group counts the jobs that are started and have not stopped; Run has returned
\* only when they all had, and main has exited cleanly only after that.
Working == {j \in Job : loop[j].at \notin {"new", "stopped"}}

CleanInv ==
    /\ wg = Cardinality(Working) /\ schedDone \in BOOLEAN
    /\ schedDone => \A j \in Job : loop[j].at = "stopped"
    /\ server.how = "clean" => schedDone

Typing ==
    /\ RowsOK /\ LoopsOK /\ TriggersOK
    /\ started \in [User -> SUBSET Job]
    /\ server \in Main

LEMMA PhaseList ==
    /\ Len(Phases) \in Nat /\ Len(Phases) >= 1
    /\ \A i \in 1..Len(Phases) : Phases[i] \in Job
    /\ Library \in Job /\ 1 \in 1..Len(Phases)
<1>1. Phases \in Seq(Job) /\ Phases # <<>>
  BY ScheduleConstants
<1>2. Len(Phases) \in Nat /\ DOMAIN Phases = 1..Len(Phases) /\ Len(Phases) # 0
  BY <1>1
<1>3. 1 \in 1..Len(Phases) /\ Len(Phases) >= 1
  BY <1>2
<1> QED  BY <1>2, <1>3 DEF Job, Library

LEMMA NoSyncOK == SyncOK(NoSync) /\ NoSync.user \notin User /\ ~NoSync.running
BY PhaseList, ScheduleConstants DEF SyncOK, Sync, NoSync

\* The sync of a slot, when it is neither over nor starting.
LEMMA SyncFacts ==
    ASSUME TriggersOK, NEW s \in Slot
    PROVE  /\ trigger[s] \in Sync /\ trigger[s].user \in User \cup {None}
           /\ trigger[s].phase \in 0..Len(Phases) /\ trigger[s].running \in BOOLEAN
           /\ trigger[s].left \in 0..Budget
           /\ trigger[s] # NoSync => /\ trigger[s].user \in User
                                     /\ trigger[s].phase \in 1..Len(Phases)
                                     /\ Phases[trigger[s].phase] \in Job
           /\ trigger[s].running \/ trigger[s].phase = 1 => trigger[s] # NoSync
BY PhaseList DEF TriggersOK, SyncOK, Sync, NoSync

LEMMA TriggerBecomes ==
    ASSUME TriggersOK, NEW s \in Slot, NEW t, SyncOK(t), trigger' = [trigger EXCEPT ![s] = t]
    PROVE  /\ TriggersOK' /\ trigger'[s] = t
           /\ \A r \in Slot \ {s} : trigger'[r] = trigger[r]
BY DEF TriggersOK, SyncOK

LEMMA Advanced ==
    ASSUME TriggersOK, NEW s \in Slot, trigger[s] # NoSync, Advance(s)
    PROVE  /\ TriggersOK' /\ ~trigger'[s].running
           /\ \A r \in Slot \ {s} : trigger'[r] = trigger[r]
<1> DEFINE n == trigger[s].phase + 1
           t == [trigger[s] EXCEPT !.phase = n, !.running = FALSE]
<1>0. /\ trigger[s] \in Sync /\ trigger[s].user \in User
      /\ trigger[s].phase \in 1..Len(Phases)
  BY SyncFacts
<1>1. CASE trigger[s].phase = Len(Phases)
  <2>1. trigger' = [trigger EXCEPT ![s] = NoSync]
    BY <1>1 DEF Advance
  <2>2. /\ TriggersOK' /\ trigger'[s] = NoSync
        /\ \A r \in Slot \ {s} : trigger'[r] = trigger[r]
    BY <2>1, NoSyncOK, TriggerBecomes
  <2> QED  BY <2>2, NoSyncOK
<1>2. CASE trigger[s].phase # Len(Phases)
  <2>0. trigger' = [trigger EXCEPT ![s] = IF trigger[s].phase = Len(Phases) THEN NoSync ELSE t]
    BY DEF Advance
  <2>1. trigger' = [trigger EXCEPT ![s] = t]
    BY <1>2, <2>0
  <2>2. n \in 1..Len(Phases) /\ n \in 0..Len(Phases)
    BY <1>0, <1>2, PhaseList
  <2> HIDE DEF n
  <2>3. t \in Sync /\ t.user = trigger[s].user /\ t.phase = n /\ ~t.running
    BY <1>0, <2>2 DEF Sync
  <2> HIDE DEF t
  <2>4. SyncOK(t)
    BY <1>0, <2>2, <2>3 DEF SyncOK
  <2>5. /\ TriggersOK' /\ trigger'[s] = t
        /\ \A r \in Slot \ {s} : trigger'[r] = trigger[r]
    BY <2>1, <2>4, TriggerBecomes
  <2> QED  BY <2>3, <2>5
<1> QED  BY <1>1, <1>2

LEMMA Triggering ==
    ASSUME TriggersOK, NEW s \in Slot, NEW u \in User, TriggerSync(s, u)
    PROVE  /\ TriggersOK' /\ trigger[s] = NoSync
           /\ \A r \in Slot \ {s} : trigger'[r] = trigger[r]
<1> DEFINE t == [user |-> u, phase |-> 1, running |-> FALSE, left |-> Budget]
<1>1. Budget \in 0..Budget
  BY ScheduleConstants
<1>2. SyncOK(t)
  BY <1>1, PhaseList DEF SyncOK, Sync
<1>3. trigger' = [trigger EXCEPT ![s] = t] /\ trigger[s] = NoSync
  BY DEF TriggerSync
<1> HIDE DEF t
<1> QED  BY <1>2, <1>3, TriggerBecomes

LEMMA PhaseBegins ==
    ASSUME TriggersOK, NEW s \in Slot, BeginPhase(s)
    PROVE  /\ TriggersOK' /\ ~trigger[s].running
           /\ trigger'[s].running /\ trigger'[s].user = trigger[s].user
           /\ trigger'[s].phase = trigger[s].phase
           /\ \A r \in Slot \ {s} : trigger'[r] = trigger[r]
<1> DEFINE t == [trigger[s] EXCEPT !.running = TRUE]
<1>1. trigger[s] # NoSync /\ ~trigger[s].running /\ trigger' = [trigger EXCEPT ![s] = t]
  BY DEF BeginPhase
<1>2. /\ t \in Sync /\ t.user = trigger[s].user /\ t.phase = trigger[s].phase /\ t.running
  BY SyncFacts DEF Sync
<1> HIDE DEF t
<1>3. SyncOK(t)
  BY <1>1, <1>2, SyncFacts DEF SyncOK
<1> QED  BY <1>1, <1>2, <1>3, TriggerBecomes

LEMMA TriggersTick ==
    ASSUME TriggersOK, Tick
    PROVE  /\ TriggersOK'
           /\ \A s \in Slot : /\ trigger'[s].user = trigger[s].user
                              /\ trigger'[s].phase = trigger[s].phase
                              /\ trigger'[s].running = trigger[s].running
<1>1. trigger' = [s \in Slot |-> [trigger[s] EXCEPT !.left = Less(trigger[s].left)]]
  BY DEF Tick
<1>2. ASSUME NEW s \in Slot
      PROVE  /\ SyncOK(trigger'[s])
             /\ trigger'[s].user = trigger[s].user
             /\ trigger'[s].phase = trigger[s].phase
             /\ trigger'[s].running = trigger[s].running
  <2> DEFINE f == Less(trigger[s].left)
             t == [trigger[s] EXCEPT !.left = f]
  <2>1. trigger'[s] = t
    BY <1>1
  <2>2. \A n \in Nat : \A k \in 0..n : Less(k) \in 0..n
    BY DEF Less
  <2>3. f \in 0..Budget
    BY <2>2, SyncFacts, ScheduleConstants
  <2>4. trigger[s] = NoSync => f = 0 /\ t = [NoSync EXCEPT !.left = f]
    BY DEF NoSync, Less
  <2> HIDE DEF f
  <2>5. /\ t \in Sync /\ t.user = trigger[s].user /\ t.phase = trigger[s].phase
        /\ t.running = trigger[s].running
    BY <2>3, SyncFacts DEF Sync
  <2>6. trigger[s] = NoSync => t = NoSync
    <3>1. \A a, b \in Sync : a.user = b.user /\ a.phase = b.phase /\ a.running = b.running
                              /\ a.left = b.left => a = b
      BY DEF Sync
    <3>2. NoSync \in Sync /\ NoSync.left = 0 /\ (trigger[s] = NoSync => t.left = 0)
      BY <2>3, <2>4, NoSyncOK DEF SyncOK, NoSync
    <3> QED  BY <2>5, <3>1, <3>2
  <2> HIDE DEF t
  <2>7. SyncOK(t)
    BY <2>5, <2>6, SyncFacts DEF SyncOK
  <2> QED  BY <2>1, <2>5, <2>7
<1>3. trigger' \in [Slot -> Sync]
  <2>1. \A s \in Slot : trigger'[s] \in Sync
    BY <1>2 DEF SyncOK
  <2> QED  BY <1>1, <2>1
<1> QED  BY <1>2, <1>3 DEF TriggersOK

LEMMA TriggersNext ==
    ASSUME TriggersOK, [Next]_vars
    PROVE  TriggersOK'
<1>1. CASE UNCHANGED trigger
  BY <1>1 DEF TriggersOK, SyncOK
<1>2. ASSUME NEW s \in Slot, NEW u \in User, TriggerSync(s, u) PROVE TriggersOK'
  BY <1>2, Triggering
<1>3. ASSUME NEW s \in Slot, BeginPhase(s) PROVE TriggersOK'
  BY <1>3, PhaseBegins
<1>4. ASSUME NEW s \in Slot, SkipPhase(s) \/ EndPhase(s) \/ FailPhase(s) PROVE TriggersOK'
  <2>1. trigger[s] # NoSync /\ Advance(s)
    BY <1>4, SyncFacts DEF SkipPhase, EndPhase, FailPhase
  <2> QED  BY <2>1, Advanced
<1>5. ASSUME NEW s \in Slot, FailLibrary(s) PROVE TriggersOK'
  BY <1>5, NoSyncOK, TriggerBecomes DEF FailLibrary
<1>6. CASE Tick
  BY <1>6, TriggersTick
<1> QED
  BY <1>1, <1>2, <1>3, <1>4, <1>5, <1>6
  DEF Next, vars, Accounts, Scheduler, Triggered, Process, Connect, Disconnect, StartJob,
      BeginRound, LoseRound, RunUser, LoseUser, EndRun, FinishRound, StopLoop, ReturnRun,
      Signal, ListenFails, CloseServer, CloseFails, Exit, DrainTimesOut

LEMMA ServerNext ==
    ASSUME server \in Main, [Next]_vars
    PROVE  /\ server' \in Main
           /\ Cancelled => Cancelled'
           /\ server'.at = "up" => server.at = "up"
<1>0. /\ CloseWait \in Nat /\ DrainWait \in Nat
      /\ server.at \in {"up", "closing", "draining", "exit"}
      /\ server.left \in 0..(CloseWait + DrainWait)
      /\ server.how \in {"running", "clean", "timed out", "failed"}
  BY ScheduleConstants DEF Main
<1>1. ASSUME NEW at \in {"closing", "draining", "exit"}, NEW left \in 0..(CloseWait + DrainWait),
             NEW how \in {"running", "clean", "timed out", "failed"}, Goes(at, left, how)
      PROVE  server' \in Main /\ server'.at = at
  BY <1>1 DEF Goes, Main
<1>2. /\ CloseWait + DrainWait \in Nat
      /\ 0 \in 0..(CloseWait + DrainWait) /\ CloseWait \in 0..(CloseWait + DrainWait)
      /\ DrainWait \in 0..(CloseWait + DrainWait)
  <2>1. \A m, n \in Nat : /\ m + n \in Nat /\ 0 \in 0..(m + n) /\ m \in 0..(m + n)
                         /\ n \in 0..(m + n)
    OBVIOUS
  <2>2. CloseWait \in Nat /\ DrainWait \in Nat
    BY <1>0
  <2> QED  BY <2>1, <2>2
<1>3. CASE Process
  BY <1>1, <1>2, <1>3
  DEF Process, Cancelled, ReturnRun, Signal, ListenFails, CloseServer, CloseFails, Exit,
      DrainTimesOut
<1>4. CASE Tick
  <2> DEFINE f == Less(server.left)
  <2>1. \A n \in Nat : \A k \in 0..n : Less(k) \in 0..n
    BY DEF Less
  <2>3. f \in 0..(CloseWait + DrainWait)
    BY <1>0, <1>2, <2>1
  <2>4. server' = [server EXCEPT !.left = f]
    BY <1>4 DEF Tick
  <2> HIDE DEF f
  <2>5. server' \in Main /\ server'.at = server.at
    BY <2>3, <2>4 DEF Main
  <2> QED  BY <2>5 DEF Cancelled
<1>5. CASE UNCHANGED server
  BY <1>5 DEF Cancelled
<1> QED
  BY <1>3, <1>4, <1>5
  DEF Next, vars, Accounts, Scheduler, Triggered, StartJob, Connect, Disconnect, BeginRound,
      LoseRound, RunUser, LoseUser, EndRun, FinishRound, StopLoop, TriggerSync, BeginPhase,
      SkipPhase, EndPhase, FailPhase, FailLibrary

LEMMA LoopsNext ==
    ASSUME Typing, [Next]_vars
    PROVE  LoopsOK'
<1>0. /\ LoopsOK /\ connected \in SUBSET User /\ (Cancelled => Cancelled')
  BY ServerNext DEF Typing, RowsOK
<1>1. CASE UNCHANGED loop
  BY <1>0, <1>1 DEF LoopsOK
<1>2. ASSUME NEW j \in Job, NEW m \in Loop(j), Settled(m), Becomes(j, m), m.at # "stopped"
      PROVE  LoopsOK'
  BY <1>0, <1>2, LoopBecomes
<1>3. ASSUME NEW j \in Job, BeginRound(j) PROVE LoopsOK'
  BY <1>0, <1>2, <1>3, BeginRoundGoes
<1>4. ASSUME NEW j \in Job, LoseRound(j) PROVE LoopsOK'
  BY <1>0, <1>2, <1>4, LoseRoundGoes
<1>5. ASSUME NEW j \in Job, NEW u \in User, RunUser(j, u) \/ LoseUser(j, u) PROVE LoopsOK'
  BY <1>0, <1>2, <1>5, QueueGoes
<1>6. ASSUME NEW j \in Job, EndRun(j) PROVE LoopsOK'
  BY <1>0, <1>2, <1>6, EndRunGoes
<1>7. ASSUME NEW j \in Job, FinishRound(j) PROVE LoopsOK'
  BY <1>0, <1>2, <1>7, FinishRoundGoes
<1>8. ASSUME NEW j \in Job, StopLoop(j) PROVE LoopsOK'
  BY <1>0, <1>8, StopLoopGoes, LoopBecomes
<1>9. CASE Tick
  <2>1. AtRest /\ loop' = [j \in Job |-> Turn(j)]
    BY <1>9 DEF Tick
  <2>2. \A j \in Job : /\ loop'[j] = Turn(j) /\ Turn(j) \in Loop(j) /\ Settled(Turn(j))
                       /\ Turn(j).at = loop[j].at /\ Turn(j) \in AnyLoop
    BY <1>0, <2>1, TurnGoes, LoopIn
  <2>3. loop' \in [Job -> AnyLoop]
    BY <2>1, <2>2
  <2>4. \A j \in Job : loop'[j] \in Loop(j) /\ Settled(loop'[j])
    BY <2>2
  <2>5. \A j \in Job : loop'[j].at = "stopped" => Cancelled'
    BY <1>0, <2>2 DEF LoopsOK
  <2> QED  BY <2>3, <2>4, <2>5 DEF LoopsOK
<1>10. ASSUME NEW j \in Job, StartJob(j) PROVE LoopsOK'
  BY <1>0, <1>2, <1>10, StartJobGoes
<1> QED
  BY <1>1, <1>3, <1>4, <1>5, <1>6, <1>7, <1>8, <1>9, <1>10
  DEF Next, vars, Accounts, Scheduler, Triggered, Process, Connect, Disconnect, TriggerSync,
      BeginPhase, SkipPhase, EndPhase, FailPhase, FailLibrary, ReturnRun, Signal, ListenFails,
      CloseServer, CloseFails, Exit, DrainTimesOut

\* The phase of a sync that is not over, and its gate.
LEMMA PhaseGate ==
    ASSUME RowsOK, TriggersOK, NEW s \in Slot, BeginPhase(s) \/ SkipPhase(s) \/ EndPhase(s)
    PROVE  RowsStep
<1> DEFINE t == trigger[s]
           j == Phases[t.phase]
<1>1. t # NoSync
  BY SyncFacts DEF BeginPhase, SkipPhase, EndPhase
<1>2. t.user \in User /\ j \in Job
  BY <1>1, SyncFacts
<1>3. CASE BeginPhase(s) \/ SkipPhase(s)
  <2>1. EnterGate(j, t.user) /\ UNCHANGED connected
    BY <1>3 DEF BeginPhase, SkipPhase
  <2> QED  BY <1>2, <2>1, GateEntered
<1>4. CASE EndPhase(s)
  <2>1. Leave(j, t.user) /\ UNCHANGED <<connected, since>>
    BY <1>4 DEF EndPhase
  <2> QED  BY <1>2, <2>1, GateLeft
<1> QED  BY <1>3, <1>4

LEMMA RunGate ==
    ASSUME RowsOK, LoopsOK, NEW j \in Job, EndRun(j)
    PROVE  RowsStep
<1>1. loop[j].user \in User
  BY LoopOf DEF EndRun, Settled
<1>2. Leave(j, loop[j].user) /\ UNCHANGED <<connected, since>>
  BY DEF EndRun
<1> QED  BY <1>1, <1>2, GateLeft

LEMMA SignalRows ==
    ASSUME RowsOK, Signal
    PROVE  RowsStep
<1>1. since' = [j \in Job |-> [u \in User |-> 0]] /\ UNCHANGED <<connected, gate>>
  BY DEF Signal
<1> QED  BY <1>1 DEF RowsOK, RowsStep, Steps

LEMMA ConnectRows ==
    ASSUME RowsOK, NEW u \in User, Connect(u) \/ Disconnect(u)
    PROVE  RowsStep /\ \A j \in Job : since'[j][u] = 0
<1>1. /\ since' = [j \in Job |-> [since[j] EXCEPT ![u] = 0]] /\ UNCHANGED gate
      /\ connected' \in SUBSET User
  BY DEF Connect, Disconnect, RowsOK
<1> QED  BY <1>1, Reset

LEMMA RowsNext ==
    ASSUME Typing, [Next]_vars
    PROVE  RowsOK' /\ (~Tick => RowsStep)
<1>0. RowsOK /\ LoopsOK /\ TriggersOK
  BY DEF Typing
<1>1. ASSUME ~Tick PROVE RowsStep
  <2>1. CASE UNCHANGED rows
    BY <1>0, <2>1, RowsStay
  <2>2. ASSUME NEW u \in User, Connect(u) \/ Disconnect(u) PROVE RowsStep
    BY <1>0, <2>2, ConnectRows
  <2>3. ASSUME NEW j \in Job, LoseRound(j) PROVE RowsStep
    BY <1>0, <2>3, RoundLost
  <2>4. ASSUME NEW j \in Job, NEW u \in User, LoseUser(j, u) PROVE RowsStep
    BY <1>0, <2>4, UserLost
  <2>5. ASSUME NEW j \in Job, NEW u \in User, RunUser(j, u) PROVE RowsStep
    BY <1>0, <2>5, GateEntered DEF RunUser
  <2>6. ASSUME NEW j \in Job, EndRun(j) PROVE RowsStep
    BY <1>0, <2>6, RunGate
  <2>7. ASSUME NEW s \in Slot, BeginPhase(s) \/ SkipPhase(s) \/ EndPhase(s) PROVE RowsStep
    BY <1>0, <2>7, PhaseGate
  <2>8. CASE Signal
    BY <1>0, <2>8, SignalRows
  <2> QED
    BY <1>1, <2>1, <2>2, <2>3, <2>4, <2>5, <2>6, <2>7, <2>8
    DEF Next, vars, rows, Accounts, Scheduler, Triggered, Process, StartJob, BeginRound,
        FinishRound, StopLoop, ReturnRun, TriggerSync, FailPhase, FailLibrary, ListenFails, CloseServer, CloseFails,
        Exit, DrainTimesOut
<1>2. CASE Tick
  BY <1>0, <1>2, RowsTick
<1>3. CASE ~Tick
  BY <1>0, <1>1, <1>3, RowsStepOK
<1> QED  BY <1>1, <1>2, <1>3

\* What the events and the phases of the syncs say of each other.
Running(s, u, j) ==
    trigger[s].user = u /\ trigger[s].running /\ Phases[trigger[s].phase] = j

EventsInv == \A u \in User : \A j \in started[u] : \E s \in Slot : Running(s, u, j)

\* The step of a slot keeps what the others run.
LEMMA EventsKept ==
    ASSUME EventsInv, NEW s \in Slot, \A r \in Slot \ {s} : trigger'[r] = trigger[r],
           \A u \in User : \A j \in started'[u] :
              \/ j \in started[u] /\ (Running(s, u, j) => Running(s, u, j)')
              \/ Running(s, u, j)'
    PROVE  EventsInv'
BY DEF EventsInv, Running

LEMMA StartedOf ==
    ASSUME started \in [User -> SUBSET Job], NEW u \in User, NEW j \in Job
    PROVE  /\ PublishStart(u, j) =>
                /\ started' \in [User -> SUBSET Job]
                /\ started'[u] = started[u] \cup {j}
                /\ \A v \in User \ {u} : started'[v] = started[v]
           /\ PublishEnd(u, j) =>
                /\ started' \in [User -> SUBSET Job]
                /\ started'[u] = started[u] \ {j}
                /\ \A v \in User \ {u} : started'[v] = started[v]
<1>1. started[u] \cup {j} \in SUBSET Job /\ started[u] \ {j} \in SUBSET Job
  OBVIOUS
<1> QED  BY <1>1 DEF PublishStart, PublishEnd

LEMMA EventsNext ==
    ASSUME Typing, EventsInv, [Next]_vars
    PROVE  EventsInv' /\ started' \in [User -> SUBSET Job]
<1>0. TriggersOK /\ started \in [User -> SUBSET Job]
  BY DEF Typing
<1>1. CASE UNCHANGED <<trigger, started>>
  BY <1>0, <1>1 DEF EventsInv, Running
<1>2. CASE Tick
  <2>1. UNCHANGED started
    BY <1>2 DEF Tick
  <2>2. \A s \in Slot : /\ trigger'[s].user = trigger[s].user
                        /\ trigger'[s].phase = trigger[s].phase
                        /\ trigger'[s].running = trigger[s].running
    BY <1>0, <1>2, TriggersTick
  <2> QED  BY <1>0, <2>1, <2>2 DEF EventsInv, Running
<1>3. ASSUME NEW s \in Slot, NEW u \in User, TriggerSync(s, u)
      PROVE  EventsInv' /\ started' \in [User -> SUBSET Job]
  <2>1. /\ UNCHANGED started /\ ~trigger[s].running
        /\ \A r \in Slot \ {s} : trigger'[r] = trigger[r]
    BY <1>0, <1>3, Triggering DEF TriggerSync, NoSync
  <2>2. \A v \in User, j \in Job : ~Running(s, v, j)
    BY <2>1 DEF Running
  <2>3. \A v \in User : \A j \in started'[v] :
           j \in started[v] /\ (Running(s, v, j) => Running(s, v, j)')
    BY <1>0, <2>1, <2>2
  <2> QED  BY <1>0, <2>1, <2>3, EventsKept
<1>4. ASSUME NEW s \in Slot, BeginPhase(s)
      PROVE  EventsInv' /\ started' \in [User -> SUBSET Job]
  <2>1. trigger[s] # NoSync
    BY <1>4 DEF BeginPhase
  <2>2. PICK u \in User, j \in Job : u = trigger[s].user /\ j = Phases[trigger[s].phase]
    BY <1>0, <2>1, SyncFacts
  <2>3. /\ started' \in [User -> SUBSET Job] /\ started'[u] = started[u] \cup {j}
        /\ \A v \in User \ {u} : started'[v] = started[v]
    BY <1>0, <1>4, <2>2, StartedOf DEF BeginPhase
  <2>4. /\ ~trigger[s].running /\ trigger'[s].running /\ trigger'[s].user = u
        /\ Phases[trigger'[s].phase] = j
        /\ \A r \in Slot \ {s} : trigger'[r] = trigger[r]
    BY <1>0, <1>4, <2>2, PhaseBegins
  <2>5. ASSUME NEW v \in User, NEW k \in started'[v]
        PROVE  \/ k \in started[v] /\ (Running(s, v, k) => Running(s, v, k)')
               \/ Running(s, v, k)'
    <3>1. CASE v = u /\ k = j
      BY <2>4, <3>1 DEF Running
    <3>2. CASE ~(v = u /\ k = j)
      BY <2>3, <2>4, <2>5, <3>2 DEF Running
    <3> QED  BY <3>1, <3>2
  <2> QED  BY <2>3, <2>4, <2>5, EventsKept
<1>5. ASSUME NEW s \in Slot,
             SkipPhase(s) \/ EndPhase(s) \/ FailPhase(s) \/ FailLibrary(s)
      PROVE  EventsInv' /\ started' \in [User -> SUBSET Job]
  <2>1. trigger[s] # NoSync
    BY <1>0, <1>5, SyncFacts DEF SkipPhase, EndPhase, FailPhase, FailLibrary
  <2>2. PICK u \in User, j \in Job : u = trigger[s].user /\ j = Phases[trigger[s].phase]
    BY <1>0, <2>1, SyncFacts
  <2>3. PublishEnd(u, j)
    BY <1>5, <2>2 DEF SkipPhase, EndPhase, FailPhase, FailLibrary, Library
  <2>4. /\ started' \in [User -> SUBSET Job] /\ started'[u] = started[u] \ {j}
        /\ \A v \in User \ {u} : started'[v] = started[v]
    BY <1>0, <2>3, StartedOf
  <2>5. \A r \in Slot \ {s} : trigger'[r] = trigger[r]
    <3>1. CASE SkipPhase(s) \/ EndPhase(s) \/ FailPhase(s)
      BY <1>0, <2>1, <3>1, Advanced DEF SkipPhase, EndPhase, FailPhase
    <3>2. CASE FailLibrary(s)
      BY <1>0, <3>2, NoSyncOK, TriggerBecomes DEF FailLibrary
    <3> QED  BY <1>5, <3>1, <3>2
  <2>6. \A v \in User : \A k \in started'[v] : k \in started[v] /\ ~Running(s, v, k)
    BY <2>2, <2>4 DEF Running
  <2> QED  BY <2>4, <2>5, <2>6, EventsKept
<1> QED
  BY <1>1, <1>2, <1>3, <1>4, <1>5
  DEF Next, vars, Accounts, Scheduler, Triggered, Process, Connect, Disconnect, StartJob,
      BeginRound, LoseRound, RunUser, LoseUser, EndRun, FinishRound, StopLoop, ReturnRun,
      Signal, ListenFails, CloseServer, CloseFails, Exit, DrainTimesOut

LEMMA JobsFinite == IsFiniteSet(Job) /\ Cardinality(Job) = Len(Phases)
<1> DEFINE f == [i \in 1..Len(Phases) |-> Phases[i]]
<1>1. Len(Phases) \in Nat /\ DOMAIN Phases = 1..Len(Phases) /\ Cardinality(Job) = Len(Phases)
  BY ScheduleConstants
<1>2. IsFiniteSet(1..Len(Phases))
  BY <1>1, FS_Interval
<1>3. f \in Surjection(1..Len(Phases), Job)
  BY <1>1 DEF Surjection, Job
<1> QED  BY <1>1, <1>2, <1>3, FS_Surjection

LEMMA WorkingOf == IsFiniteSet(Working) /\ Cardinality(Working) \in 0..Len(Phases)
<1>1. Working \in SUBSET Job /\ Len(Phases) \in Nat
  BY ScheduleConstants DEF Working
<1>2. IsFiniteSet(Working) /\ Cardinality(Working) <= Cardinality(Job)
  BY <1>1, JobsFinite, FS_Subset
<1>3. Cardinality(Working) \in Nat
  BY <1>2, FS_CardinalityType
<1> QED  BY <1>1, <1>2, <1>3, JobsFinite

\* A step of a round neither starts a job nor stops one.
LEMMA RoundGoes ==
    ASSUME LoopsOK, connected \in SUBSET User, NEW j \in Job,
           \/ BeginRound(j) \/ LoseRound(j) \/ EndRun(j) \/ FinishRound(j)
           \/ \E u \in User : RunUser(j, u) \/ LoseUser(j, u)
    PROVE  /\ UNCHANGED <<waits, server>>
           /\ loop[j].at \notin {"new", "stopped"} /\ loop'[j].at \notin {"new", "stopped"}
           /\ \A k \in Job \ {j} : loop'[k] = loop[k]
<1>1. UNCHANGED <<waits, server>>
  BY DEF BeginRound, LoseRound, EndRun, FinishRound, RunUser, LoseUser
<1>2. loop[j].at \notin {"new", "stopped"}
  BY DEF BeginRound, LoseRound, EndRun, FinishRound, RunUser, LoseUser, TickDue
<1>3. \E m \in Loop(j) : Becomes(j, m) /\ m.at \in {"serve", "run", "wait"}
  <2>1. CASE BeginRound(j)
    BY <2>1, BeginRoundGoes
  <2>2. CASE LoseRound(j)
    BY <2>2, LoseRoundGoes
  <2>3. CASE EndRun(j)
    BY <2>3, EndRunGoes
  <2>4. CASE FinishRound(j)
    BY <2>4, FinishRoundGoes
  <2>5. ASSUME NEW u \in User, RunUser(j, u) \/ LoseUser(j, u)
        PROVE  \E m \in Loop(j) : Becomes(j, m) /\ m.at \in {"serve", "run", "wait"}
    BY <2>5, QueueGoes
  <2> QED  BY <2>1, <2>2, <2>3, <2>4, <2>5
<1>4. /\ loop'[j].at \in {"serve", "run", "wait"}
      /\ \A k \in Job \ {j} : loop'[k] = loop[k]
  BY <1>3 DEF Becomes, LoopsOK
<1> QED  BY <1>1, <1>2, <1>4

\* No job is made new again, and the counter follows the jobs that start and stop.
LEMMA WorkingNext ==
    ASSUME Typing, CleanInv, [Next]_vars
    PROVE  /\ wg' = Cardinality(Working')
           /\ \A j \in Job : /\ loop'[j].at = "new" => loop[j].at = "new"
                             /\ loop[j].at = "stopped" => loop'[j].at = "stopped"
<1>0. /\ LoopsOK /\ connected \in SUBSET User
      /\ wg = Cardinality(Working) /\ IsFiniteSet(Working)
  BY WorkingOf DEF Typing, RowsOK, CleanInv
<1>1. ASSUME UNCHANGED wg,
             \A j \in Job : /\ loop'[j].at = "new" <=> loop[j].at = "new"
                            /\ loop'[j].at = "stopped" <=> loop[j].at = "stopped"
      PROVE  wg' = Cardinality(Working')
  <2>1. Working' = Working
    BY <1>1 DEF Working
  <2> QED  BY <1>0, <1>1, <2>1
<1>2. CASE UNCHANGED <<loop, wg>>
  BY <1>1, <1>2
<1>3. ASSUME NEW j \in Job,
             \/ BeginRound(j) \/ LoseRound(j) \/ EndRun(j) \/ FinishRound(j)
             \/ \E u \in User : RunUser(j, u) \/ LoseUser(j, u)
      PROVE  /\ UNCHANGED wg
             /\ \A k \in Job : /\ loop'[k].at = "new" <=> loop[k].at = "new"
                               /\ loop'[k].at = "stopped" <=> loop[k].at = "stopped"
  BY <1>0, <1>3, RoundGoes DEF waits
<1>4. ASSUME NEW j \in Job, StartJob(j)
      PROVE  /\ wg' = Cardinality(Working')
             /\ loop[j].at = "new" /\ loop'[j].at = "startup"
             /\ \A k \in Job \ {j} : loop'[k] = loop[k]
  <2>1. /\ loop[j].at = "new" /\ loop'[j].at = "startup"
        /\ \A k \in Job \ {j} : loop'[k] = loop[k]
    BY <1>0, <1>4, StartJobGoes DEF Becomes, LoopsOK
  <2>2. Working' = Working \cup {j} /\ j \notin Working
    BY <2>1 DEF Working
  <2>3. Cardinality(Working') = Cardinality(Working) + 1
    BY <1>0, <2>2, FS_AddElement
  <2>4. wg' = wg + 1
    BY <1>4 DEF StartJob
  <2> QED  BY <1>0, <2>1, <2>3, <2>4
<1>5. ASSUME NEW j \in Job, StopLoop(j)
      PROVE  /\ wg' = Cardinality(Working')
             /\ loop[j].at # "stopped" /\ loop'[j].at = "stopped"
             /\ \A k \in Job \ {j} : loop'[k] = loop[k]
  <2>1. /\ loop[j].at \in {"startup", "wait"} /\ loop'[j].at = "stopped"
        /\ \A k \in Job \ {j} : loop'[k] = loop[k]
    BY <1>0, <1>5, StopLoopGoes DEF Becomes, LoopsOK
  <2>2. Working' = Working \ {j} /\ j \in Working
    BY <2>1 DEF Working
  <2>3. Cardinality(Working') = Cardinality(Working) - 1
    BY <1>0, <2>2, FS_RemoveElement
  <2>4. wg' = wg - 1
    BY <1>5 DEF StopLoop
  <2> QED  BY <1>0, <2>1, <2>3, <2>4
<1>6. CASE Tick
  <2>1. AtRest /\ UNCHANGED wg /\ \A j \in Job : loop'[j] = Turn(j)
    BY <1>6 DEF Tick, waits
  <2>2. \A j \in Job : loop'[j].at = loop[j].at
    BY <1>0, <2>1, TurnGoes
  <2> QED  BY <1>1, <2>1, <2>2
<1> QED
  BY <1>1, <1>2, <1>3, <1>4, <1>5, <1>6
  DEF Next, vars, waits, Accounts, Scheduler, Triggered, Process, Connect, Disconnect,
      TriggerSync, BeginPhase, SkipPhase, EndPhase, FailPhase, FailLibrary, ReturnRun, Signal,
      ListenFails, CloseServer, CloseFails, Exit, DrainTimesOut

\* Run returns when it has started every job and the counter is at zero: all have stopped.
LEMMA RunReturns ==
    ASSUME Typing, CleanInv, ReturnRun
    PROVE  \A j \in Job : loop'[j].at = "stopped"
<1>1. Cardinality(Working) = 0 /\ IsFiniteSet(Working) /\ UNCHANGED loop
  BY WorkingOf DEF CleanInv, ReturnRun, WaitOver
<1>2. Working = {}
  BY <1>1, FS_EmptySet
<1>3. \A j \in Job : loop[j].at # "new"
  BY DEF ReturnRun, WaitOver
<1> QED  BY <1>1, <1>2, <1>3 DEF Working

\* Nothing but Run's return closes schedDone, and nothing but that lets main exit cleanly.
LEMMA DoneNext ==
    ASSUME Typing, CleanInv, [Next]_vars
    PROVE  /\ ReturnRun \/ UNCHANGED schedDone
           /\ schedDone' \in BOOLEAN /\ (schedDone => schedDone')
           /\ server'.how = "clean" => server.how = "clean" \/ schedDone
<1>0. server \in Main /\ schedDone \in BOOLEAN
  BY DEF Typing, CleanInv
<1>1. ReturnRun \/ UNCHANGED schedDone
  BY DEF Next, vars, waits, Accounts, Scheduler, Triggered, Process, Tick, Connect, Disconnect,
         StartJob, BeginRound, LoseRound, RunUser, LoseUser, EndRun, FinishRound, StopLoop,
         TriggerSync, BeginPhase, SkipPhase, EndPhase, FailPhase, FailLibrary, Signal,
         ListenFails, CloseServer, CloseFails, Exit, DrainTimesOut
<1>2. server'.how = "clean" => server.how = "clean" \/ schedDone
  <2>1. CASE Process
    <3>1. \A at, left, how : Goes(at, left, how) => server'.how = how
      BY DEF Goes
    <3>2. /\ Signal \/ CloseServer => server'.how = "running"
          /\ ListenFails \/ CloseFails => server'.how = "failed"
          /\ DrainTimesOut => server'.how = "timed out"
      BY <3>1 DEF Signal, ListenFails, CloseServer, CloseFails, DrainTimesOut
    <3>3. (Exit => schedDone) /\ (ReturnRun => UNCHANGED server)
      BY DEF Exit, ReturnRun
    <3> QED  BY <2>1, <3>2, <3>3 DEF Process
  <2>2. CASE Tick
    <3> DEFINE f == Less(server.left)
    <3>1. server' = [server EXCEPT !.left = f]
      BY <2>2 DEF Tick
    <3> HIDE DEF f
    <3> QED  BY <1>0, <3>1 DEF Main
  <2>3. CASE UNCHANGED server
    BY <2>3
  <2> QED
    BY <2>1, <2>2, <2>3
    DEF Next, vars, Accounts, Scheduler, Triggered, Connect, Disconnect, StartJob, BeginRound,
        LoseRound, RunUser, LoseUser, EndRun, FinishRound, StopLoop, TriggerSync, BeginPhase,
        SkipPhase, EndPhase, FailPhase, FailLibrary
<1>3. schedDone' \in BOOLEAN /\ (schedDone => schedDone')
  BY <1>0, <1>1 DEF ReturnRun
<1> QED  BY <1>1, <1>2, <1>3

LEMMA CleanNext ==
    ASSUME Typing, CleanInv, [Next]_vars
    PROVE  CleanInv'
<1>1. /\ wg' = Cardinality(Working')
      /\ \A j \in Job : loop[j].at = "stopped" => loop'[j].at = "stopped"
  BY WorkingNext
<1>2. schedDone' => \A j \in Job : loop'[j].at = "stopped"
  BY <1>1, DoneNext, RunReturns DEF CleanInv
<1> QED  BY <1>1, <1>2, DoneNext DEF CleanInv

LEMMA TypingInit == Init => Typing /\ EventsInv /\ CleanInv
<1> SUFFICES ASSUME Init PROVE Typing /\ EventsInv /\ CleanInv
  OBVIOUS
<1>1. loop = [j \in Job |-> [at |-> "new", timer |-> 0, due |-> FALSE,
                            queue |-> {}, user |-> None, left |-> 0]]
  BY DEF Init
<1>2. ASSUME NEW j \in Job
      PROVE  loop[j] \in Loop(j) /\ Settled(loop[j]) /\ loop[j].at = "new"
  <2>1. 0 \in 0..Interval[j] /\ 0 \in 0..Timeout
    BY BoundIs, Positive
  <2>2. loop[j] = [at |-> "new", timer |-> 0, due |-> FALSE,
                   queue |-> {}, user |-> None, left |-> 0]
    BY <1>1
  <2> QED  BY <2>1, <2>2 DEF Loop, Settled
<1>3. LoopsOK
  <2>1. \A j \in Job : loop[j] \in AnyLoop
    BY <1>2, LoopIn
  <2>2. loop = [j \in Job |-> loop[j]]
    BY <1>1
  <2>3. loop \in [Job -> AnyLoop]
    BY <2>1, <2>2
  <2> QED  BY <1>2, <2>3 DEF LoopsOK
<1>4. RowsOK
  <2>1. /\ connected = {} /\ gate = [j \in Job |-> [u \in User |-> 0]]
        /\ since = [j \in Job |-> [u \in User |-> 0]]
    BY DEF Init
  <2>2. \A j \in Job, u \in User : /\ gate[j][u] = 0 /\ 0 <= MinInterval[j]
                                 /\ since[j][u] = 0 /\ 0 <= Bound(j)
    BY <2>1, BoundPositive, BoundIs
  <2> QED  BY <2>1, <2>2 DEF RowsOK
<1>5. TriggersOK
  BY NoSyncOK DEF Init, TriggersOK, SyncOK
<1>6. server \in Main /\ CleanInv
  <2>1. 0 \in 0..(CloseWait + DrainWait)
    <3>1. \A m, n \in Nat : 0 \in 0..(m + n)
      OBVIOUS
    <3> QED  BY <3>1, ScheduleConstants
  <2>2. Working = {} /\ Cardinality({}) = 0
    BY <1>2, FS_EmptySet DEF Working
  <2> QED  BY <2>1, <2>2 DEF Init, Main, CleanInv
<1>7. started \in [User -> SUBSET Job] /\ EventsInv
  BY DEF Init, EventsInv
<1> QED  BY <1>3, <1>4, <1>5, <1>6, <1>7 DEF Typing

LEMMA TypingNext ==
    Typing /\ EventsInv /\ CleanInv /\ [Next]_vars => Typing' /\ EventsInv' /\ CleanInv'
BY RowsNext, LoopsNext, TriggersNext, ServerNext, EventsNext, CleanNext DEF Typing

LEMMA TypingAlways == Spec => [](Typing /\ EventsInv /\ CleanInv)
BY TypingInit, TypingNext, PTL DEF Spec

\* Every variable keeps its type: no gate is shut, no loop waits and no sync is in a phase
\* longer or further than the constants allow.
THEOREM TypeCorrect == Spec => []TypeOK
<1>1. Typing /\ CleanInv => TypeOK
  <2> SUFFICES ASSUME Typing, CleanInv PROVE TypeOK
    OBVIOUS
  <2>1. ASSUME NEW j \in Job
        PROVE  /\ gate[j] \in [User -> 0..MinInterval[j]]
               /\ since[j] \in [User -> 0..Bound(j)] /\ loop[j] \in Loop(j)
    <3>1. gate[j] \in [User -> Nat] /\ since[j] \in [User -> Nat]
      BY DEF Typing, RowsOK
    <3>2. \A u \in User : gate[j][u] \in 0..MinInterval[j]
      BY <3>1, BoundIs DEF Typing, RowsOK
    <3>3. \A u \in User : since[j][u] \in 0..Bound(j)
      BY <3>1, BoundPositive DEF Typing, RowsOK
    <3>4. loop[j] \in Loop(j)
      BY DEF Typing, LoopsOK
    <3> QED  BY <3>1, <3>2, <3>3, <3>4
  <2>2. DOMAIN gate = Job /\ DOMAIN since = Job /\ DOMAIN loop = Job
    BY DEF Typing, RowsOK, LoopsOK
  <2>3. wg \in 0..Len(Phases) /\ schedDone \in BOOLEAN
    BY WorkingOf DEF CleanInv
  <2> QED  BY <2>1, <2>2, <2>3 DEF TypeOK, Typing, RowsOK, TriggersOK
<1> QED  BY <1>1, TypingAlways, PTL

\* A client that follows the events is never left with a phase that has started when no
\* sync of its user runs: whichever way a phase or the sync ends, an event says so.
THEOREM EventsCorrect == Spec => []EventsSettle
<1>1. Typing /\ EventsInv => EventsSettle
  BY DEF EventsInv, Running, EventsSettle, Typing
<1> QED  BY <1>1, TypingAlways, PTL

\* When main has gone on because schedDone was closed, every job has been started and has
\* stopped: whatever the signal comes between, the counter of the wait group is that of the
\* jobs that are started and have not stopped, and Run looks at it when none is left to start.
THEOREM ExitCorrect == Spec => []CleanExit
<1>1. CleanInv => CleanExit
  BY DEF CleanInv, CleanExit
<1> QED  BY <1>1, TypingAlways, PTL

-----------------------------------------------------------------------------
(* Nobody is starved. *)

\* A user's wait so far and the wait ahead of it stay below the bound.
Fresh(j, u) == since[j][u] + Ahead(j, loop[j], u) < Bound(j)

\* A gate that is shut has been for as long as the user has waited.
Shut(j, u) == gate[j][u] > 0 => gate[j][u] + since[j][u] <= MinInterval[j]

\* No time passes while Run starts the jobs.
Unstarted == \A j \in Job, u \in User : loop[j].at = "new" => since[j][u] = 0

FreshInv ==
    /\ Unstarted
    /\ server.at = "up" => \A u \in connected, j \in Job : Fresh(j, u) /\ Shut(j, u)

\* A step that takes no time starts the wait again, or makes the wait ahead no longer.
LEMMA FreshKept ==
    ASSUME RowsOK, RowsStep, LoopsOK, LoopsOK', NEW j \in Job, NEW u \in User,
           since'[j][u] # 0 => /\ Fresh(j, u) /\ Shut(j, u)
                               /\ Ahead(j, loop'[j], u) <= Ahead(j, loop[j], u)
    PROVE  Fresh(j, u)' /\ Shut(j, u)'
<1>1. /\ loop'[j] \in Loop(j) /\ loop[j] \in Loop(j)
      /\ Ahead(j, loop'[j], u) \in Int /\ Ahead(j, loop'[j], u) < Bound(j)
      /\ Ahead(j, loop[j], u) \in Int
  BY AheadType DEF LoopsOK
<1>2. /\ since[j][u] \in Nat /\ gate[j][u] \in Nat /\ since'[j][u] \in Nat
      /\ gate'[j][u] \in Nat /\ MinInterval[j] \in Nat /\ Bound(j) \in Int
      /\ gate[j][u] <= MinInterval[j]
  BY BoundIs DEF RowsOK, RowsStep
<1>3. Steps(j, u)
  BY DEF RowsStep
<1>4. Fresh(j, u)'
  <2>1. CASE since'[j][u] = 0
    BY <1>1, <1>2, <2>1 DEF Fresh
  <2>2. CASE since'[j][u] # 0
    BY <1>1, <1>2, <1>3, <2>2 DEF Fresh, Steps
  <2> QED  BY <2>1, <2>2
<1>5. Shut(j, u)'
  <2>1. CASE since'[j][u] = 0
    BY <1>2, <1>3, <2>1 DEF Shut, Steps
  <2>2. CASE since'[j][u] # 0
    BY <1>2, <1>3, <2>2 DEF Shut, Steps
  <2> QED  BY <2>1, <2>2
<1> QED  BY <1>4, <1>5

\* A loop's step makes no wait longer but those that start again, and that of a user that
\* it passes over.
LEMMA AheadStep ==
    ASSUME Typing, NEW j \in Job, NEW u \in connected', connected' = connected, ~Cancelled,
           \/ BeginRound(j) \/ EndRun(j) \/ FinishRound(j)
           \/ \E v \in User \ {u} : RunUser(j, v) \/ LoseUser(j, v)
    PROVE  Ahead(j, loop'[j], u) <= Ahead(j, loop[j], u)
<1>0. /\ LoopsOK /\ connected \in SUBSET User /\ u \in User
      /\ loop[j] \in Loop(j) /\ Settled(loop[j])
  BY DEF Typing, RowsOK, LoopsOK
<1>1. ASSUME NEW m \in Loop(j), Becomes(j, m) PROVE loop'[j] = m
  BY <1>0, <1>1 DEF LoopsOK, Becomes
<1>2. CASE BeginRound(j)
  <2>1. PICK m \in Loop(j) :
              /\ Becomes(j, m) /\ m.queue = connected /\ m.left = loop[j].left
              /\ loop[j].at \in {"startup", "wait"}
    BY <1>0, <1>2, BeginRoundGoes
  <2> QED  BY <1>0, <1>1, <2>1, BeginAhead
<1>3. CASE EndRun(j)
  BY <1>0, <1>1, <1>3, EndRunGoes, EndAhead
<1>4. CASE FinishRound(j)
  <2>1. loop[j].queue = {}
    BY <1>4 DEF FinishRound
  <2> QED  BY <1>0, <1>1, <1>4, <2>1, FinishRoundGoes, FinishAhead
<1>5. ASSUME NEW v \in User \ {u}, RunUser(j, v) \/ LoseUser(j, v)
      PROVE  Ahead(j, loop'[j], u) <= Ahead(j, loop[j], u)
  <2>1. PICK m \in Loop(j) :
              /\ Becomes(j, m) /\ m.at \in {"serve", "run"}
              /\ loop[j].at = "serve" /\ v \in loop[j].queue
              /\ m.queue = loop[j].queue \ {v} /\ m.timer = loop[j].timer
              /\ m.due = loop[j].due /\ m.left \in {loop[j].left, Timeout}
    BY <1>0, <1>5, QueueGoes
  <2> QED  BY <1>0, <1>1, <2>1, DropAhead
<1> QED  BY <1>2, <1>3, <1>4, <1>5

LEMMA FreshStep ==
    ASSUME Typing, CleanInv, FreshInv, [Next]_vars, ~Tick, server'.at = "up",
           NEW u \in connected', NEW j \in Job
    PROVE  Fresh(j, u)' /\ Shut(j, u)'
<1>0. /\ RowsOK /\ LoopsOK /\ RowsOK' /\ RowsStep /\ LoopsOK'
      /\ server.at = "up" /\ ~Cancelled /\ u \in User
  BY RowsNext, LoopsNext, ServerNext DEF Typing, RowsStep, Cancelled
<1>1. CASE since'[j][u] = 0
  BY <1>0, <1>1, FreshKept
<1>2. ASSUME u \in connected, Ahead(j, loop'[j], u) <= Ahead(j, loop[j], u)
      PROVE  Fresh(j, u)' /\ Shut(j, u)'
  BY <1>0, <1>2, FreshKept DEF FreshInv
<1>3. ASSUME u \in connected, loop'[j] = loop[j]
      PROVE  Fresh(j, u)' /\ Shut(j, u)'
  <2>1. Ahead(j, loop'[j], u) <= Ahead(j, loop[j], u)
    BY <1>0, <1>3, AheadType DEF LoopsOK
  <2> QED  BY <1>2, <1>3, <2>1
<1>4. ASSUME NEW v \in User, Connect(v) \/ Disconnect(v)
      PROVE  Fresh(j, u)' /\ Shut(j, u)'
  <2>1. CASE u = v
    BY <1>0, <1>1, <1>4, <2>1, ConnectRows
  <2>2. CASE u # v
    BY <1>3, <1>4, <2>2 DEF Connect, Disconnect
  <2> QED  BY <2>1, <2>2
<1>5. ASSUME NEW i \in Job, NEW m \in Loop(i), Becomes(i, m), i # j
      PROVE  loop'[j] = loop[j]
  BY <1>0, <1>5 DEF LoopsOK, Becomes
<1>6. ASSUME NEW i \in Job, BeginRound(i) \/ EndRun(i) \/ FinishRound(i)
      PROVE  Fresh(j, u)' /\ Shut(j, u)'
  <2>1. connected' = connected /\ connected \in SUBSET User
    BY <1>0, <1>6 DEF BeginRound, EndRun, FinishRound, rows, RowsOK
  <2>2. CASE i = j
    BY <1>0, <1>2, <1>6, <2>1, <2>2, AheadStep
  <2>3. CASE i # j
    BY <1>0, <1>3, <1>5, <1>6, <2>1, <2>3, BeginRoundGoes, EndRunGoes, FinishRoundGoes
  <2> QED  BY <2>2, <2>3
<1>7. ASSUME NEW i \in Job, LoseRound(i)
      PROVE  Fresh(j, u)' /\ Shut(j, u)'
  <2>1. CASE i = j
    BY <1>0, <1>1, <1>7, <2>1, RoundLost
  <2>2. CASE i # j
    BY <1>0, <1>3, <1>5, <1>7, <2>2, LoseRoundGoes DEF LoseRound
  <2> QED  BY <2>1, <2>2
<1>8. ASSUME NEW i \in Job, NEW v \in User, RunUser(i, v) \/ LoseUser(i, v)
      PROVE  Fresh(j, u)' /\ Shut(j, u)'
  <2>1. connected' = connected
    BY <1>8 DEF RunUser, LoseUser
  <2>2. CASE i # j
    BY <1>0, <1>3, <1>5, <1>8, <2>1, <2>2, QueueGoes
  <2>3. CASE i = j /\ v # u
    BY <1>0, <1>2, <1>8, <2>1, <2>3, AheadStep
  <2>4. CASE i = j /\ v = u /\ (LoseUser(j, u) \/ gate[j][u] = 0)
    <3>1. since'[j][u] = 0
      BY <1>0, <1>8, <2>4, UserLost, GateEntered DEF RunUser
    <3> QED  BY <1>1, <3>1
  <2>5. CASE i = j /\ v = u /\ RunUser(j, u) /\ gate[j][u] # 0
    <3>1. PICK m \in Loop(j) : /\ Settled(m) /\ Becomes(j, m)
                               /\ m.queue = loop[j].queue \ {u} /\ m.left = 0
      BY <1>0, <2>5, QueueGoes
    <3>2. loop'[j] = m /\ u \notin m.queue
      BY <1>0, <3>1 DEF LoopsOK, Becomes
    <3>3. gate' = gate /\ since' = since
      BY <2>5 DEF RunUser, EnterGate
    <3>4. Shut(j, u)
      BY <1>0, <2>1 DEF FreshInv
    <3>5. since[j][u] \in Nat /\ since[j][u] < Interval[j]
      <4>1. /\ gate[j][u] \in Nat /\ since[j][u] \in Nat
            /\ MinInterval[j] \in Nat /\ Interval[j] \in Nat /\ MinInterval[j] <= Interval[j]
        BY <1>0, BoundIs DEF RowsOK
      <4> QED  BY <2>5, <3>4, <4>1 DEF Shut
    <3>6. since[j][u] + Ahead(j, m, u) < Bound(j)
      BY <1>0, <3>1, <3>2, <3>5, PassedAhead
    <3> QED  BY <3>2, <3>3, <3>4, <3>6 DEF Fresh, Shut
  <2> QED  BY <1>8, <2>2, <2>3, <2>4, <2>5
<1>9. CASE UNCHANGED <<connected, loop>>
  BY <1>3, <1>9
<1>10. ASSUME NEW i \in Job, StartJob(i)
       PROVE  Fresh(j, u)' /\ Shut(j, u)'
  <2>1. UNCHANGED rows /\ loop[i].at = "new"
    BY <1>10 DEF StartJob
  <2>2. CASE i = j
    <3>1. since'[j][u] = 0
      BY <1>0, <2>1, <2>2 DEF rows, FreshInv, Unstarted
    <3> QED  BY <1>1, <3>1
  <2>3. CASE i # j
    BY <1>0, <1>3, <1>5, <1>10, <2>1, <2>3, StartJobGoes DEF rows
  <2> QED  BY <2>2, <2>3
<1> QED
  BY <1>0, <1>4, <1>6, <1>7, <1>8, <1>9, <1>10
  DEF Next, vars, rows, Accounts, Scheduler, Triggered, Process, StopLoop, ReturnRun, TriggerSync,
      BeginPhase, SkipPhase, EndPhase, FailPhase, FailLibrary, Signal, ListenFails,
      CloseServer, CloseFails, Exit, DrainTimesOut

LEMMA FreshTick ==
    ASSUME Typing, FreshInv, Tick, server'.at = "up", NEW u \in connected', NEW j \in Job
    PROVE  Fresh(j, u)' /\ Shut(j, u)'
<1>0. /\ RowsOK /\ LoopsOK /\ RowsOK' /\ LoopsOK' /\ server.at = "up" /\ ~Cancelled
      /\ u \in connected /\ u \in User
      /\ since'[j][u] <= since[j][u] + 1 /\ gate'[j][u] = Less(gate[j][u])
  BY LoopsNext, ServerNext, RowsTick DEF Typing, RowsOK, Cancelled, Next
<1>1. loop'[j] = Turn(j) /\ Ahead(j, Turn(j), u) + 1 <= Ahead(j, loop[j], u)
  BY <1>0, TurnGoes DEF Tick
<1>2. Fresh(j, u) /\ Shut(j, u)
  BY <1>0 DEF FreshInv
<1>3. /\ since[j][u] \in Nat /\ gate[j][u] \in Nat /\ since'[j][u] \in Nat
      /\ MinInterval[j] \in Nat /\ Bound(j) \in Int
      /\ Ahead(j, Turn(j), u) \in Int /\ Ahead(j, loop[j], u) \in Int
  BY <1>0, <1>1, BoundIs, AheadType DEF RowsOK, LoopsOK
<1>4. Fresh(j, u)'
  BY <1>0, <1>1, <1>2, <1>3 DEF Fresh
<1>5. Shut(j, u)'
  BY <1>0, <1>2, <1>3 DEF Shut, Less
<1> QED  BY <1>4, <1>5

LEMMA UnstartedNext ==
    ASSUME Typing, CleanInv, Unstarted, [Next]_vars
    PROVE  Unstarted'
<1> SUFFICES ASSUME NEW j \in Job, NEW u \in User, loop'[j].at = "new"
             PROVE  since'[j][u] = 0
  BY DEF Unstarted
<1>1. loop[j].at = "new" /\ since[j][u] = 0
  BY WorkingNext DEF Unstarted
<1>2. ~Tick
  BY <1>1 DEF Tick, AtRest
<1>3. Steps(j, u)
  BY <1>2, RowsNext DEF RowsStep
<1> QED  BY <1>1, <1>3 DEF Steps

LEMMA FreshNext == Typing /\ CleanInv /\ FreshInv /\ [Next]_vars => FreshInv'
<1> SUFFICES ASSUME Typing, CleanInv, FreshInv, [Next]_vars
             PROVE  FreshInv'
  OBVIOUS
<1>1. Unstarted'
  BY UnstartedNext DEF FreshInv
<1>2. ASSUME server'.at = "up", NEW u \in connected', NEW j \in Job
      PROVE  Fresh(j, u)' /\ Shut(j, u)'
  BY <1>2, FreshStep, FreshTick
<1> QED  BY <1>1, <1>2 DEF FreshInv

\* Whatever the order in which users are served, however long runs take and whoever triggers
\* syncs in between, each connected user's jobs run again within the bound, or a query has
\* failed: for every number of users and jobs, and all intervals and timeouts that
\* ScheduleConstants allows.
THEOREM NobodyStarves == Spec => []StaysFresh
<1>1. Init => FreshInv
  <2> SUFFICES ASSUME Init PROVE FreshInv
    OBVIOUS
  <2>1. Unstarted
    BY DEF Init, Unstarted
  <2>2. connected = {}
    BY DEF Init
  <2> QED  BY <2>1, <2>2 DEF FreshInv
<1>2. Typing /\ FreshInv => StaysFresh
  <2> SUFFICES ASSUME Typing, FreshInv, server.at = "up", NEW u \in connected, NEW j \in Job
               PROVE  since[j][u] < Bound(j)
    BY DEF StaysFresh
  <2>1. Fresh(j, u) /\ u \in User /\ since[j][u] \in Nat /\ loop[j] \in Loop(j)
    BY DEF FreshInv, Typing, RowsOK, LoopsOK
  <2>2. Ahead(j, loop[j], u) >= 0 /\ Ahead(j, loop[j], u) \in Int /\ Bound(j) \in Int
    BY <2>1, AheadType, BoundIs
  <2> QED  BY <2>1, <2>2 DEF Fresh
<1> QED  BY <1>1, <1>2, TypingAlways, FreshNext, PTL DEF Spec
=============================================================================
