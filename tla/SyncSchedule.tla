----------------------------- MODULE SyncSchedule -----------------------------
(***************************************************************************)
(* When syncs run: the scheduler, with a goroutine and a ticker for every  *)
(* job (scheduler/scheduler.go), the syncs that users trigger themselves   *)
(* (handlers/sync.go), which meet the same gates, and the process that     *)
(* starts all this and shuts it down (cmd/server/main.go).                 *)
(*                                                                         *)
(* Time is a number of units, and a unit passes (Tick) when no goroutine   *)
(* has anything to do at once: only runs, timers and the open connections  *)
(* of the server take time.  What a sync does is in the modules of the     *)
(* services; here it passes its gate or not, takes a while, and ends.      *)
(***************************************************************************)
EXTENDS Integers, Sequences, FiniteSets

CONSTANTS
    User,
    Phases,            \* the jobs, in the order of a triggered sync: library is first
    Interval,          \* of each job
    MinInterval,       \* of each job's gate; 0 of the jobs that have none
    Startup,           \* the longest startup delay of each job: at most a tenth of its Interval
    Timeout,           \* of a scheduled run: PerRunTimeout
    Budget,            \* of a triggered sync: 30 minutes
    Slot,              \* bound: the triggered syncs that run at once
    CloseWait, DrainWait,    \* how long main waits for the server and the scheduler
    None

Job == {Phases[i] : i \in DOMAIN Phases}
Library == Phases[1]

\* A run that is past a gate ends before the gate opens again.
ASSUME ScheduleConstants ==
    /\ Phases \in Seq(Job) /\ Phases # <<>> /\ Cardinality(Job) = Len(Phases)
    /\ Interval \in [Job -> Nat \ {0}] /\ MinInterval \in [Job -> Nat]
    /\ Startup \in [Job -> Nat] /\ Timeout \in Nat \ {0} /\ Budget \in Nat \ {0}
    /\ CloseWait \in Nat /\ DrainWait \in Nat
    /\ \A j \in Job : /\ MinInterval[j] <= Interval[j] /\ Startup[j] <= Interval[j]
                      /\ MinInterval[j] # 0 => Timeout <= MinInterval[j] /\ Budget <= MinInterval[j]
    /\ IsFiniteSet(User) /\ None \notin User

VARIABLES
    connected,    \* users with an account that is not locked
    gate,         \* of each job and user: how long the gate stays shut
    since,        \* history: how long ago a run passed it, or the user connected,
                  \* or a round of the job was lost; kept until main is asked to stop
    loop,         \* runJob, of each job
    wg,           \* of Run: the jobs it waits for
    schedDone,    \* Run has returned
    trigger,      \* the goroutine of each slot
    started,      \* of each user: the phases of which the event last published says so
    server        \* main

vars == <<connected, gate, since, loop, wg, schedDone, trigger, started, server>>
rows == <<connected, gate, since>>
waits == <<wg, schedDone>>

\* timer: units to the first tick or, of the ticker, to the next one; 0 when there is
\* no ticker yet.  due: a tick waits in the ticker's channel, which holds one.
Loop(j) == [at : {"new", "startup", "wait", "serve", "run", "stopped"},
            timer : 0..Interval[j], due : BOOLEAN,
            queue : SUBSET User, user : User \cup {None}, left : 0..Timeout]
Sync == [user : User \cup {None}, phase : 0..Len(Phases), running : BOOLEAN, left : 0..Budget]
NoSync == [user |-> None, phase |-> 0, running |-> FALSE, left |-> 0]
Main == [at : {"up", "closing", "draining", "exit"}, left : 0..(CloseWait + DrainWait),
         how : {"running", "clean", "timed out", "failed"}]

Alive == server.at # "exit"
Cancelled == server.at # "up"

\* What keeps a user waiting at most: its gate, for less than an Interval; the rest
\* of the first round, and the ticker that starts after it; the users before it.
Bound(j) == 2 * Interval[j] + (2 * Cardinality(User) - 1) * Timeout

Init ==
    /\ connected = {}
    /\ gate = [j \in Job |-> [u \in User |-> 0]]
    /\ since = [j \in Job |-> [u \in User |-> 0]]
    /\ loop = [j \in Job |-> [at |-> "new", timer |-> 0, due |-> FALSE,
                             queue |-> {}, user |-> None, left |-> 0]]
    /\ wg = 0 /\ schedDone = FALSE
    /\ trigger = [s \in Slot |-> NoSync]
    /\ started = [u \in User |-> {}]
    /\ server = [at |-> "up", left |-> 0, how |-> "running"]

-----------------------------------------------------------------------------
(* Accounts: a user logs in, for the first time or again, or a dead refresh *)
(* token locks the account.                                                *)

Connect(u) ==
    /\ Alive /\ u \notin connected
    /\ connected' = connected \cup {u}
    /\ since' = [j \in Job |-> [since[j] EXCEPT ![u] = 0]]
    /\ UNCHANGED <<gate, loop, trigger, started, server, waits>>

Disconnect(u) ==
    /\ Alive /\ u \in connected
    /\ connected' = connected \ {u}
    /\ since' = [j \in Job |-> [since[j] EXCEPT ![u] = 0]]
    /\ UNCHANGED <<gate, loop, trigger, started, server, waits>>

-----------------------------------------------------------------------------
(* The gate of a service. *)

EnterGate(j, u) ==
    IF gate[j][u] = 0
    THEN /\ gate' = [gate EXCEPT ![j][u] = MinInterval[j]]
         /\ since' = [since EXCEPT ![j][u] = 0]
    ELSE UNCHANGED <<gate, since>>

\* A failed run opens its gate again, unless it left a snapshot or its row unfinished.
Leave(j, u) == \E g \in {0, gate[j][u]} : gate' = [gate EXCEPT ![j][u] = g]

-----------------------------------------------------------------------------
(* The scheduler. *)

Becomes(j, l) == loop' = [loop EXCEPT ![j] = l]

\* Run adds each job to its wait group and starts it, whether main was asked to stop or not.
StartJob(j) ==
    /\ Alive /\ loop[j].at = "new"
    /\ \E delay \in 0..Startup[j] :
         Becomes(j, [loop[j] EXCEPT !.at = "startup", !.timer = delay])
    /\ wg' = wg + 1
    /\ UNCHANGED <<rows, schedDone, trigger, started, server>>

\* The startup delay is over, or there is a tick in the channel.
TickDue(j) == \/ loop[j].at = "startup" /\ loop[j].timer = 0
              \/ loop[j].at = "wait" /\ loop[j].due

\* The ticker is made when the first round is over.
EndRound(j, due) ==
    Becomes(j, [loop[j] EXCEPT !.at = "wait", !.due = due, !.queue = {},
                               !.timer = IF @ = 0 THEN Interval[j] ELSE @])

BeginRound(j) ==
    /\ Alive /\ TickDue(j) /\ ~Cancelled
    /\ Becomes(j, [loop[j] EXCEPT !.at = "serve", !.due = FALSE, !.queue = connected])
    /\ UNCHANGED <<rows, trigger, started, server, waits>>

\* listUsers fails, as every query under a context that is cancelled.
LoseRound(j) ==
    /\ Alive /\ TickDue(j)
    /\ since' = [since EXCEPT ![j] = [u \in User |-> 0]]
    /\ EndRound(j, FALSE)
    /\ UNCHANGED <<connected, gate, trigger, started, server, waits>>

RunUser(j, u) ==
    /\ Alive /\ loop[j].at = "serve" /\ ~Cancelled
    /\ u \in loop[j].queue
    /\ EnterGate(j, u)
    /\ Becomes(j, IF gate[j][u] = 0
                  THEN [loop[j] EXCEPT !.at = "run", !.queue = @ \ {u}, !.user = u,
                                       !.left = Timeout]
                  ELSE [loop[j] EXCEPT !.queue = @ \ {u}])
    /\ UNCHANGED <<connected, trigger, started, server, waits>>

\* The query of the gate fails.
LoseUser(j, u) ==
    /\ Alive /\ loop[j].at = "serve" /\ ~Cancelled
    /\ u \in loop[j].queue
    /\ since' = [since EXCEPT ![j][u] = 0]
    /\ Becomes(j, [loop[j] EXCEPT !.queue = @ \ {u}])
    /\ UNCHANGED <<connected, gate, trigger, started, server, waits>>

\* Mutant: a run that ends ends the round.
EndRunReturning(j) ==
    /\ Alive /\ loop[j].at = "run"
    /\ Becomes(j, [loop[j] EXCEPT !.at = "wait", !.queue = {}, !.user = None, !.left = 0,
                                  !.timer = IF @ = 0 THEN Interval[j] ELSE @])
    /\ Leave(j, loop[j].user)
    /\ UNCHANGED <<connected, since, trigger, started, server, waits>>

\* Whether it went well or not, the next user is served.
EndRun(j) ==
    /\ Alive /\ loop[j].at = "run"
    /\ Becomes(j, [loop[j] EXCEPT !.at = "serve", !.user = None, !.left = 0])
    /\ Leave(j, loop[j].user)
    /\ UNCHANGED <<connected, since, trigger, started, server, waits>>

FinishRound(j) ==
    /\ Alive /\ loop[j].at = "serve"
    /\ loop[j].queue = {} \/ Cancelled
    /\ EndRound(j, loop[j].due)
    /\ UNCHANGED <<rows, trigger, started, server, waits>>

\* runJob returns, and tells the wait group.
StopLoop(j) ==
    /\ Alive /\ Cancelled /\ loop[j].at \in {"startup", "wait"}
    /\ Becomes(j, [loop[j] EXCEPT !.at = "stopped", !.timer = 0, !.due = FALSE])
    /\ wg' = wg - 1
    /\ UNCHANGED <<rows, schedDone, trigger, started, server>>

\* Mutant: what Run waits for is the end of its context.
WaitForContext == Cancelled

\* Every job is started, and the wait group is back at zero.
WaitOver == (\A j \in Job : loop[j].at # "new") /\ wg = 0

\* The goroutine around Run closes schedDone.
ReturnRun ==
    /\ Alive /\ ~schedDone /\ WaitOver
    /\ schedDone' = TRUE
    /\ UNCHANGED <<rows, loop, wg, trigger, started, server>>

-----------------------------------------------------------------------------
(* A triggered sync: its phases one after the other, under one deadline. *)

PublishStart(u, j) == started' = [started EXCEPT ![u] = @ \cup {j}]
PublishEnd(u, j) == started' = [started EXCEPT ![u] = @ \ {j}]

\* The request is answered at once, also if the account is locked; nothing keeps a
\* user from triggering again.
TriggerSync(s, u) ==
    /\ Alive /\ server.at = "up" /\ trigger[s] = NoSync
    /\ trigger' = [trigger EXCEPT ![s] = [user |-> u, phase |-> 1, running |-> FALSE,
                                          left |-> Budget]]
    /\ UNCHANGED <<rows, loop, started, server, waits>>

\* Mutant: off by one.
AdvancePast(s) ==
    LET t == trigger[s] IN
    trigger' = [trigger EXCEPT ![s] =
        IF t.phase > Len(Phases) THEN NoSync
        ELSE [t EXCEPT !.phase = t.phase + 1, !.running = FALSE]]

\* Once the last phase is over the goroutine ends.
Advance(s) ==
    LET t == trigger[s] IN
    trigger' = [trigger EXCEPT ![s] =
        IF t.phase = Len(Phases) THEN NoSync
        ELSE [t EXCEPT !.phase = t.phase + 1, !.running = FALSE]]

BeginPhase(s) ==
    LET t == trigger[s]  j == Phases[t.phase] IN
    /\ Alive /\ t # NoSync /\ ~t.running /\ t.left > 0
    /\ gate[j][t.user] = 0
    /\ PublishStart(t.user, j)
    /\ EnterGate(j, t.user)
    /\ trigger' = [trigger EXCEPT ![s].running = TRUE]
    /\ UNCHANGED <<connected, loop, server, waits>>

\* Started and skipped.
SkipPhase(s) ==
    LET t == trigger[s]  j == Phases[t.phase] IN
    /\ Alive /\ t # NoSync /\ ~t.running /\ t.left > 0
    /\ gate[j][t.user] # 0
    /\ PublishEnd(t.user, j)
    /\ EnterGate(j, t.user)
    /\ Advance(s)
    /\ UNCHANGED <<connected, loop, server, waits>>

EndPhase(s) ==
    LET t == trigger[s]  j == Phases[t.phase] IN
    /\ Alive /\ t.running
    /\ PublishEnd(t.user, j)
    /\ Leave(j, t.user)
    /\ Advance(s)
    /\ UNCHANGED <<connected, since, loop, server, waits>>

\* A phase other than the first that fails before its run is recorded, as each does
\* once the deadline has passed.
FailPhase(s) ==
    LET t == trigger[s] IN
    /\ Alive /\ t # NoSync /\ ~t.running /\ t.phase > 1
    /\ PublishEnd(t.user, Phases[t.phase])
    /\ Advance(s)
    /\ UNCHANGED <<rows, loop, server, waits>>

\* Mutant: the goroutine returns without a word.
FailLibrarySilent(s) ==
    /\ Alive /\ trigger[s].phase = 1
    /\ trigger' = [trigger EXCEPT ![s] = NoSync]
    /\ UNCHANGED <<rows, loop, started, server, waits>>

\* The library sync fails, recorded or not, and nothing else is tried.
FailLibrary(s) ==
    LET t == trigger[s] IN
    /\ Alive /\ t.phase = 1
    /\ PublishEnd(t.user, Library)
    /\ trigger' = [trigger EXCEPT ![s] = NoSync]
    /\ UNCHANGED <<rows, loop, server, waits>>

-----------------------------------------------------------------------------
(* The process. *)

Goes(at, left, how) == server' = [at |-> at, left |-> left, how |-> how]

Signal ==
    /\ server.at = "up"
    /\ Goes("closing", CloseWait, "running")
    /\ since' = [j \in Job |-> [u \in User |-> 0]]
    /\ UNCHANGED <<connected, gate, loop, trigger, started, waits>>

\* The port is taken, or the listener breaks: main returns at once.
ListenFails ==
    /\ server.at = "up"
    /\ Goes("exit", 0, "failed")
    /\ UNCHANGED <<rows, loop, trigger, started, waits>>

\* The last connection is closed.
CloseServer ==
    /\ server.at = "closing"
    /\ Goes("draining", DrainWait, "running")
    /\ UNCHANGED <<rows, loop, trigger, started, waits>>

\* A connection stays open, such as a stream of events: main returns at once.
CloseFails ==
    /\ server.at = "closing" /\ server.left = 0
    /\ Goes("exit", 0, "failed")
    /\ UNCHANGED <<rows, loop, trigger, started, waits>>

Exit ==
    /\ server.at = "draining" /\ schedDone
    /\ Goes("exit", 0, "clean")
    /\ UNCHANGED <<rows, loop, trigger, started, waits>>

DrainTimesOut ==
    /\ server.at = "draining" /\ server.left = 0
    /\ Goes("exit", 0, "timed out")
    /\ UNCHANGED <<rows, loop, trigger, started, waits>>

-----------------------------------------------------------------------------
(* Time. *)

AtRest ==
    /\ \A j \in Job : \/ loop[j].at = "startup" /\ loop[j].timer > 0 /\ ~Cancelled
                      \/ loop[j].at = "wait" /\ ~loop[j].due /\ ~Cancelled
                      \/ loop[j].at = "run" /\ loop[j].left > 0
                      \/ loop[j].at = "stopped"
    /\ \A s \in Slot : trigger[s] = NoSync \/ (trigger[s].running /\ trigger[s].left > 0)
    /\ schedDone \/ ~WaitOver
    /\ server.at = "up" \/ server.left > 0
    /\ server.at = "draining" => ~schedDone

Less(n) == IF n = 0 THEN 0 ELSE n - 1

\* A tick that finds one in the channel is dropped.
Turn(j) ==
    LET l == loop[j]
        rings == l.at \in {"wait", "run"} /\ l.timer = 1
    IN  [l EXCEPT !.timer = IF rings THEN Interval[j] ELSE Less(@),
                  !.due = @ \/ rings,
                  !.left = Less(@)]

Tick ==
    /\ Alive /\ AtRest
    /\ gate' = [j \in Job |-> [u \in User |-> Less(gate[j][u])]]
    /\ since' = [j \in Job |-> [u \in User |->
                    IF ~Cancelled /\ u \in connected /\ since[j][u] < Bound(j) THEN since[j][u] + 1
                                                                  ELSE since[j][u]]]
    /\ loop' = [j \in Job |-> Turn(j)]
    /\ trigger' = [s \in Slot |-> [trigger[s] EXCEPT !.left = Less(@)]]
    /\ server' = [server EXCEPT !.left = Less(@)]
    /\ UNCHANGED <<connected, started, waits>>

-----------------------------------------------------------------------------
Accounts == \E u \in User : Connect(u) \/ Disconnect(u)

Scheduler == \E j \in Job :
    \/ StartJob(j) \/ BeginRound(j) \/ LoseRound(j)
    \/ (\E u \in User : RunUser(j, u) \/ LoseUser(j, u))
    \/ EndRun(j) \/ FinishRound(j) \/ StopLoop(j)

Triggered == \E s \in Slot :
    \/ (\E u \in User : TriggerSync(s, u))
    \/ BeginPhase(s) \/ SkipPhase(s) \/ EndPhase(s) \/ FailPhase(s) \/ FailLibrary(s)

Process == ReturnRun \/ Signal \/ ListenFails \/ CloseServer \/ CloseFails \/ Exit
           \/ DrainTimesOut

Next == Accounts \/ Scheduler \/ Triggered \/ Process \/ Tick

Spec == Init /\ [][Next]_vars

-----------------------------------------------------------------------------
(* Properties. *)

TypeOK ==
    /\ connected \subseteq User
    /\ \A j \in Job : /\ gate[j] \in [User -> 0..MinInterval[j]]
                      /\ since[j] \in [User -> 0..Bound(j)]
                      /\ loop[j] \in Loop(j)
    /\ DOMAIN gate = Job /\ DOMAIN since = Job /\ DOMAIN loop = Job
    /\ wg \in 0..Len(Phases) /\ schedDone \in BOOLEAN
    /\ trigger \in [Slot -> Sync]
    /\ started \in [User -> SUBSET Job]
    /\ server \in Main

(***************************************************************************)
(* No user is starved: whatever the order users are served in, however     *)
(* long runs take, whoever triggers syncs in between, and although a gate  *)
(* is shut for as long as the ticker's interval, so that a run that comes  *)
(* a little early is skipped until the next tick, each connected user's    *)
(* jobs run again within a bound, unless the database fails.               *)
(***************************************************************************)
StaysFresh ==
    server.at = "up" => \A u \in connected, j \in Job : since[j][u] < Bound(j)

(***************************************************************************)
(* A client that follows the events is never left with a phase that has    *)
(* started when no sync of its user runs any more.                         *)
(***************************************************************************)
EventsSettle ==
    Alive => \A u \in User :
        (\A s \in Slot : trigger[s].user # u) => started[u] = {}

(***************************************************************************)
(* "callers can safely close downstream resources after Run returns": when *)
(* main has gone on because schedDone was closed, no job is in a round or  *)
(* will begin one while the database is closed, not even one that Run had  *)
(* yet to start, or that was starting, when the signal came.  The counter  *)
(* of the wait group is all that main has to tell.                         *)
(***************************************************************************)
CleanExit ==
    server.how = "clean" => \A j \in Job : loop[j].at = "stopped"
=============================================================================
