------------------------------- MODULE FeedClient -------------------------------
(***************************************************************************)
(* The page that follows the feed (frontend hooks/useMusicAdvisor.ts and   *)
(* App.tsx) and the sync it triggers (handlers/sync.go), on top of Wakeup, *)
(* which is what SseHub promises.  The page asks GET /api/feed when it is  *)
(* mounted and again on every event of its stream, POSTs                   *)
(* /api/sync/trigger once, and shows whatever answer arrives.              *)
(*                                                                         *)
(* What a feed holds is a version: the number of changes made to what      *)
(* GET /api/feed reads.  The handler reads in several statements, header   *)
(* first; all are at least as new as the first, whose version counts.      *)
(* Streams belong to one page and follow one another, since the browser    *)
(* reconnects.  Syncs are those of the page's user, with one phase each.   *)
(***************************************************************************)
EXTENDS Wakeup, Sequences, Functions

CONSTANTS
    Sync,           \* the goroutines of TriggerSync
    MaxFetch,       \* bound: the requests for the feed in flight at once
    MaxChanges,     \* bound: the changes made to the feed
    None

ASSUME ClientConstants ==
    /\ MaxFetch \in Nat /\ MaxChanges \in Nat
    /\ None \notin Stream

VARIABLES
    changes,        \* the feed's status after each change
    sync,           \* how far each sync is
    copied,         \* the streams that its Publish call has still to notify
    page,
    post,           \* the page's POST /api/sync/trigger
    asked, read,    \* the requests for the feed that are still to be read, and for each
                    \* version those that have read it and are not back yet
    promised        \* history: the version that a notification of the page's stream
                    \* stands for; 0 if a fault took it back

server == <<changes, sync, copied>>
requests == <<asked, read>>
vars == <<wakeup, server, page, post, requests, promised>>

Statuses == {"syncing", "settled"}

\* asOf: the version the page shows.
NoPage == [open |-> FALSE, stream |-> None, stage |-> "idle", asOf |-> 0]

Version == Len(changes)

Init ==
    /\ WakeupInit
    /\ changes = <<>>
    /\ sync = [p \in Sync |-> "off"]
    /\ copied = [p \in Sync |-> {}]
    /\ page = NoPage
    /\ post = "none"
    /\ asked = 0 /\ read = [n \in 0..MaxChanges |-> 0]
    /\ promised = 0

-----------------------------------------------------------------------------
(* What the page shows. *)

\* readFeedHeader, the status of the latest run, and applyFeed, the stage for it.
StageOf(version) ==
    IF version = 0 THEN "idle"
    ELSE IF changes[version] = "syncing" THEN "loading" ELSE "ready"

Shows(n) == page.asOf >= n /\ page.stage = StageOf(page.asOf)

\* Something is under way that will bring version n to the page.
Carried(n, stream, wakes, waiting, answers) ==
    \/ stream # None /\ wakes[stream] > 0
    \/ waiting > 0
    \/ \E v \in n..MaxChanges : answers[v] > 0

\* A fault takes a promise back unless something else still carries it.
Fault ==
    promised' = IF Carried(promised, page'.stream, pending', asked', read')
                THEN promised ELSE 0

-----------------------------------------------------------------------------
(* Requests for the feed. *)

InFlight == asked + SumFunction(read)

\* refetch: another request, whatever is in flight.
Refetch ==
    /\ InFlight < MaxFetch
    /\ asked' = asked + 1 /\ UNCHANGED read

ReadFeed ==
    /\ ~over /\ asked > 0
    /\ asked' = asked - 1 /\ read' = [read EXCEPT ![Version] = @ + 1]
    /\ UNCHANGED <<wakeup, server, page, post, promised>>

\* Before the request is read or after it: an exception is caught, an answer that is not
\* ok ignored.  One exception is applyFeed's own: new_releases, ratings and hides without
\* a row are null in the JSON, and it iterates over them before it sets the stage.
FetchFails ==
    /\ asked > 0
    /\ asked' = asked - 1
    /\ UNCHANGED <<wakeup, server, page, post, read>>
    /\ Fault

AnswerFails(n) ==
    /\ read[n] > 0
    /\ read' = [read EXCEPT ![n] = @ - 1]
    /\ UNCHANGED <<wakeup, server, page, post, asked>>
    /\ Fault

\* Mutant: an answer is only applied while the page is not ready.
ApplyFeedUnlessReady(n) ==
    /\ read[n] > 0
    /\ read' = [read EXCEPT ![n] = @ - 1]
    /\ page' = IF page.stage = "ready" THEN page
               ELSE [page EXCEPT !.asOf = n, !.stage = StageOf(n)]
    /\ UNCHANGED <<wakeup, server, post, asked>>
    /\ IF n < page.asOf THEN Fault ELSE UNCHANGED promised

\* An answer may have been overtaken by a newer one.
ApplyFeed(n) ==
    /\ read[n] > 0
    /\ read' = [read EXCEPT ![n] = @ - 1]
    /\ page' = [page EXCEPT !.asOf = n, !.stage = StageOf(n)]
    /\ UNCHANGED <<wakeup, server, post, asked>>
    /\ IF n < page.asOf THEN Fault ELSE UNCHANGED promised

-----------------------------------------------------------------------------
(* The page. *)

\* The effects of the first render with a user: the first request, the EventSource, and
\* start(), since the stage is still idle.
Mount ==
    /\ ~page.open
    /\ page' = [page EXCEPT !.open = TRUE, !.stage = "connecting"]
    /\ post' = "sent"
    /\ Refetch
    /\ UNCHANGED <<wakeup, server, promised>>

\* The EventSource connects, or connects again, and the handler subscribes; the "ready"
\* before that is ignored.  No request is made: what was published meanwhile is missed.
Connect(s) ==
    /\ page.open /\ page.stream = None /\ OpenUp(s)
    /\ page' = [page EXCEPT !.stream = s]
    /\ UNCHANGED <<server, post, requests, promised>>

\* Mutant: there is no listener for the event.
ReceiveIgnored(s) ==
    /\ Wake(s)
    /\ UNCHANGED <<server, page, post, requests, promised>>

\* An event reaches the page, unless the connection is gone.
Receive(s) ==
    /\ Wake(s)
    /\ IF page.stream = s THEN Refetch ELSE UNCHANGED requests
    /\ UNCHANGED <<server, page, post, promised>>

\* The connection breaks, or the server's write timeout is over.
Disconnect ==
    /\ page.stream # None
    /\ page' = [page EXCEPT !.stream = None]
    /\ UNCHANGED <<wakeup, server, post, requests>>
    /\ Fault

\* The handler notices.
HandlerReturns(s) ==
    /\ page.stream # s /\ Leave(s)
    /\ UNCHANGED <<server, page, post, requests, promised>>

\* The answer to start(): it sets the stage, also over one that a feed has set meanwhile.
StartAnswered(stage) ==
    /\ post \in {"sent", "accepted"}
    /\ stage = "loading" => post = "accepted"
    /\ post' = "answered"
    /\ page' = [page EXCEPT !.stage = stage]
    /\ UNCHANGED <<wakeup, server, requests>>
    /\ Fault

-----------------------------------------------------------------------------
(* The syncs. *)

\* The page's POST, or one of another page.
TriggerSync(p) ==
    /\ ~over /\ sync[p] = "off"
    /\ sync' = [sync EXCEPT ![p] = "queued"]
    /\ \/ post = "sent" /\ post' = "accepted"
       \/ UNCHANGED post
    /\ UNCHANGED <<wakeup, changes, copied, page, requests, promised>>

\* The goroutine, when its last Publish has returned.
Proceeds(p, from, to) ==
    /\ ~over /\ sync[p] = from /\ copied[p] = {}
    /\ sync' = [sync EXCEPT ![p] = to]

\* Publish copies the receivers ...
Publishes(p, from, to) ==
    /\ Proceeds(p, from, to)
    /\ copied' = [copied EXCEPT ![p] = {s \in Stream : at[s] = "live"}]
    /\ UNCHANGED <<wakeup, changes, page, post, requests, promised>>

\* ... and sends to each; what goes to the page's stream promises what the feed holds now.
Send(p, s) ==
    /\ s \in copied[p] /\ Notify(s)
    /\ copied' = [copied EXCEPT ![p] = @ \ {s}]
    /\ promised' = IF page.stream = s THEN Version ELSE promised
    /\ UNCHANGED <<changes, sync, page, post, requests>>

\* A stream that has gone since gets nothing, or the send panics.
SendMisses(p, s) ==
    /\ ~over /\ s \in copied[p] /\ at[s] = "gone"
    /\ copied' = [copied EXCEPT ![p] = @ \ {s}]
    /\ UNCHANGED <<wakeup, changes, sync, page, post, requests, promised>>

SendBreaks(p, s) ==
    /\ s \in copied[p] /\ Break(s)
    /\ promised' = 0
    /\ UNCHANGED <<server, page, post, requests>>

Change(status) ==
    /\ Len(changes) < MaxChanges
    /\ changes' = Append(changes, status)

BeginRun(p) ==
    /\ Proceeds(p, "started", "running")
    /\ Change("syncing")
    /\ UNCHANGED <<wakeup, copied, page, post, requests, promised>>

\* The feed's status is that of the run started last, which may by now be a scheduled one.
EndRun(p, phase) ==
    /\ Proceeds(p, "running", phase)
    /\ \E status \in Statuses : Change(status)
    /\ UNCHANGED <<wakeup, copied, page, post, requests, promised>>

\* It fails before its run is recorded.
FailEarly(p) ==
    /\ Proceeds(p, "started", "error")
    /\ UNCHANGED <<wakeup, changes, copied, page, post, requests, promised>>

\* A scheduled run changes the feed, and publishes nothing.
ScheduledRun ==
    /\ ~over
    /\ \E status \in Statuses : Change(status)
    /\ UNCHANGED <<wakeup, sync, copied, page, post, requests, promised>>

\* "done" only follows a phase that did not fail.
RunSync(p) ==
    \/ TriggerSync(p)
    \/ Publishes(p, "queued", "started")
    \/ BeginRun(p) \/ FailEarly(p)
    \/ EndRun(p, "ready") \/ EndRun(p, "error")
    \/ Publishes(p, "ready", "told") \/ Publishes(p, "told", "done")
    \/ Publishes(p, "error", "done")
    \/ \E s \in Stream : Send(p, s) \/ SendMisses(p, s) \/ SendBreaks(p, s)

-----------------------------------------------------------------------------
Next ==
    \/ Mount \/ Disconnect
    \/ ReadFeed \/ FetchFails
    \/ \E n \in 0..MaxChanges : AnswerFails(n) \/ ApplyFeed(n)
    \/ \E s \in Stream : Connect(s) \/ Receive(s) \/ HandlerReturns(s)
    \/ \E stage \in {"loading", "ready"} : StartAnswered(stage)
    \/ \E p \in Sync : RunSync(p)
    \/ ScheduledRun

Spec == Init /\ [][Next]_vars

\* The handler writes what its channel holds, and each request for the feed ends, well
\* or not.  Nothing is assumed of the syncs, the connection or the POST.
Fairness ==
    /\ \A s \in Stream : WF_vars(Receive(s))
    /\ WF_vars(ReadFeed \/ FetchFails)
    /\ \A n \in 0..MaxChanges : WF_vars(ApplyFeed(n) \/ AnswerFails(n))

LiveSpec == Spec /\ Fairness

-----------------------------------------------------------------------------
(* Properties. *)

(***************************************************************************)
(* "a missed event just means the client waits for the next one", "network *)
(* blips are fine - next SSE event retries": what the feed held when an    *)
(* event was sent to the page's stream, or dropped for it, is shown in the *)
(* end, through buffers that are full and answers that cross, unless the   *)
(* last thing that carried it was lost: a request that failed, an answer   *)
(* that was overtaken, a stream that broke, or an answer to start().       *)
(***************************************************************************)
PageCatchesUp ==
    \A n \in 1..MaxChanges : (promised = n /\ ~Shows(n)) ~> (promised # n \/ Shows(n))
=============================================================================
