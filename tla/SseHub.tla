------------------------------- MODULE SseHub -------------------------------
(***************************************************************************)
(* The hub that carries phase events to the open feed streams (sse/hub.go) *)
(* and the handler that writes them out (http/handlers/feed_stream.go).    *)
(*                                                                         *)
(* Publishers are the goroutines of POST /api/sync/trigger: each one       *)
(* publishes one event after the other to its user.  Streams are requests  *)
(* to GET /api/feed/stream; a client that reconnects is another stream.    *)
(* Publish copies the user's channels under the lock and sends to them     *)
(* after releasing it, so streams may end between the copy and a send.     *)
(***************************************************************************)
EXTENDS Integers, Sequences, FiniteSets

CONSTANTS
    User, Stream, Publisher,
    Owner,        \* the user of each stream and of each publisher
    Requested,    \* the buffer size NewHub is asked for
    Published     \* how many events each publisher publishes (bound)

ASSUME HubConstants ==
    /\ Owner \in [Stream \cup Publisher -> User]
    /\ Stream \cap Publisher = {}
    /\ Requested \in Int
    /\ Published \in Nat

VARIABLES
    byUser,       \* the registered channels of each user
    chan,         \* what is buffered in each stream's channel
    pc,           \* each handler's place
    received,     \* the events each handler has written to its response
    count,        \* how many events each publisher has begun to publish
    targets,      \* the channels that Publish call has still to send to
    crashed,      \* a send on a closed channel has ended the process
    owes          \* events sent to or dropped for a stream since it wrote one
                  \* (history)

vars == <<byUser, chan, pc, received, count, targets, crashed, owes>>

\* A zero or negative size means the default.
Buffer == IF Requested <= 0 THEN 16 ELSE Requested

EventOf(p) == [by |-> p, n |-> count[p]]
Event == [by : Publisher, n : 1..Published]

Init ==
    /\ byUser = [u \in User |-> {}]
    /\ chan = [s \in Stream |-> <<>>]
    /\ pc = [s \in Stream |-> "new"]
    /\ received = [s \in Stream |-> <<>>]
    /\ count = [p \in Publisher |-> 0]
    /\ targets = [p \in Publisher |-> {}]
    /\ crashed = FALSE
    /\ owes = [s \in Stream |-> {}]

-----------------------------------------------------------------------------
(* FeedStream: one action per step of the handler. *)

\* The response headers and the "ready" frame.
Handshake(s) ==
    /\ ~crashed /\ pc[s] = "new"
    /\ pc' = [pc EXCEPT ![s] = "ready"]
    /\ UNCHANGED <<byUser, chan, received, count, targets, crashed, owes>>

Subscribe(s) ==
    /\ ~crashed /\ pc[s] = "ready"
    /\ byUser' = [byUser EXCEPT ![Owner[s]] = @ \cup {s}]
    /\ pc' = [pc EXCEPT ![s] = "streaming"]
    /\ UNCHANGED <<chan, received, count, targets, crashed, owes>>

\* The client will GET /api/feed for it, and so see every change made by now.
WriteEvent(s) ==
    /\ ~crashed /\ pc[s] = "streaming" /\ chan[s] # <<>>
    /\ received' = [received EXCEPT ![s] = Append(@, Head(chan[s]))]
    /\ chan' = [chan EXCEPT ![s] = Tail(@)]
    /\ owes' = [owes EXCEPT ![s] = {}]
    /\ UNCHANGED <<byUser, pc, count, targets, crashed>>

\* The client has gone: the handler returns and its deferred cancel runs, the
\* deletion under the lock ...
Unregister(s) ==
    /\ ~crashed /\ pc[s] = "streaming"
    /\ byUser' = [byUser EXCEPT ![Owner[s]] = @ \ {s}]
    /\ pc' = [pc EXCEPT ![s] = "unregistered"]
    /\ UNCHANGED <<chan, received, count, targets, crashed, owes>>

\* ... and close(ch) after it.
CloseChannel(s) ==
    /\ ~crashed /\ pc[s] = "unregistered"
    /\ pc' = [pc EXCEPT ![s] = "closed"]
    /\ UNCHANGED <<byUser, chan, received, count, targets, crashed, owes>>

-----------------------------------------------------------------------------
(* Publish. *)

\* Mutant: the receivers of every user.
CopyEveryonesReceivers(p) ==
    /\ ~crashed /\ targets[p] = {} /\ count[p] < Published
    /\ count' = [count EXCEPT ![p] = @ + 1]
    /\ targets' = [targets EXCEPT ![p] = UNION {byUser[u] : u \in User}]
    /\ UNCHANGED <<byUser, chan, pc, received, crashed, owes>>

CopyReceivers(p) ==
    /\ ~crashed /\ targets[p] = {} /\ count[p] < Published
    /\ count' = [count EXCEPT ![p] = @ + 1]
    /\ targets' = [targets EXCEPT ![p] = byUser[Owner[p]]]
    /\ UNCHANGED <<byUser, chan, pc, received, crashed, owes>>

Took(p, s) ==
    /\ targets' = [targets EXCEPT ![p] = @ \ {s}]
    /\ owes' = [owes EXCEPT ![s] = @ \cup {EventOf(p)}]
    /\ UNCHANGED <<byUser, pc, received, count>>

\* Mutants: a full buffer is emptied; a full buffer is grown.
SendEmptiesFull(p, s) ==
    /\ ~crashed /\ s \in targets[p] /\ pc[s] # "closed"
    /\ chan' = [chan EXCEPT ![s] =
         IF Len(@) < Buffer THEN Append(@, EventOf(p)) ELSE <<>>]
    /\ Took(p, s)
    /\ UNCHANGED crashed

SendGrowsFull(p, s) ==
    /\ ~crashed /\ s \in targets[p] /\ pc[s] # "closed"
    /\ chan' = [chan EXCEPT ![s] = Append(@, EventOf(p))]
    /\ Took(p, s)
    /\ UNCHANGED crashed

\* The non-blocking send, in the map's arbitrary order: a full buffer drops.
Send(p, s) ==
    /\ ~crashed /\ s \in targets[p] /\ pc[s] # "closed"
    /\ chan' = [chan EXCEPT ![s] =
         IF Len(@) < Buffer THEN Append(@, EventOf(p)) ELSE @]
    /\ Took(p, s)
    /\ UNCHANGED crashed

\* Sending on a closed channel panics, in select too; nothing recovers.
SendOnClosed(p, s) ==
    /\ ~crashed /\ s \in targets[p] /\ pc[s] = "closed"
    /\ crashed' = TRUE
    /\ Took(p, s)
    /\ UNCHANGED chan

-----------------------------------------------------------------------------
Handler(s) == \/ Handshake(s) \/ Subscribe(s) \/ WriteEvent(s)
              \/ Unregister(s) \/ CloseChannel(s)

Publish(p) == \/ CopyReceivers(p)
              \/ \E s \in Stream : Send(p, s) \/ SendOnClosed(p, s)

Next == (\E s \in Stream : Handler(s)) \/ (\E p \in Publisher : Publish(p))

\* The handler's loop takes what its channel holds; when the client leaves and
\* when anything is published is up to the environment.
Fairness == \A s \in Stream : WF_vars(WriteEvent(s))

Spec == Init /\ [][Next]_vars
LiveSpec == Spec /\ Fairness

-----------------------------------------------------------------------------
(* Properties. *)

TypeOK ==
    /\ byUser \in [User -> SUBSET Stream]
    /\ chan \in [Stream -> Seq(Event)]
    /\ \A s \in Stream : Len(chan[s]) <= Buffer
    /\ pc \in [Stream -> {"new", "ready", "streaming", "unregistered", "closed"}]
    /\ received \in [Stream -> Seq(Event)]
    /\ count \in [Publisher -> 0..Published]
    /\ targets \in [Publisher -> SUBSET Stream]
    /\ \A p \in Publisher : targets[p] # {} => count[p] >= 1
    /\ crashed \in BOOLEAN
    /\ owes \in [Stream -> SUBSET Event]

(***************************************************************************)
(* Routing and order: what a stream has written and still holds are events *)
(* of its own user, and each publisher's come once and in the order it     *)
(* published them, however copies, sends and cancels interleave.           *)
(***************************************************************************)
DeliveredInOrder ==
    \A s \in Stream :
        LET all == received[s] \o chan[s] IN
        /\ \A i \in DOMAIN all : Owner[all[i].by] = Owner[s]
        /\ \A i, j \in DOMAIN all :
             i < j /\ all[i].by = all[j].by => all[i].n < all[j].n

(***************************************************************************)
(* "a missed event just means the client waits for the next one": when an  *)
(* event was dropped, a live stream always has one left to write, so the   *)
(* GET /api/feed of a later event makes up for it.                         *)
(***************************************************************************)
DropLeavesOnePending ==
    \A s \in Stream : owes[s] # {} /\ pc[s] = "streaming" => chan[s] # <<>>

\* Registered is live; what is buffered is pending; each event written turns the bell.
PlaceOf(s) == CASE pc[s] \in {"new", "ready"} -> "new"
                [] pc[s] = "streaming" -> "live"
                [] OTHER -> "gone"
PendingOf(s) == IF pc[s] = "streaming" THEN Len(chan[s]) ELSE 0
BellOf(s) == IF pc[s] = "streaming" THEN Len(received[s]) % 2 ELSE 0

W == INSTANCE Wakeup WITH at <- [s \in Stream |-> PlaceOf(s)],
                          pending <- [s \in Stream |-> PendingOf(s)],
                          bell <- [s \in Stream |-> BellOf(s)],
                          over <- crashed

(***************************************************************************)
(* "Client will catch up on next event": the hub implements Wakeup.  Every *)
(* event published to a live stream, dropped or not, is followed by one    *)
(* that the stream writes, unless the stream ends first.                   *)
(***************************************************************************)
ImplementsWakeup == W!WakeupSpec

(***************************************************************************)
(* "Publish(userID, event) writes to every live channel": a channel that   *)
(* was closed after Publish copied it is never sent to.                    *)
(***************************************************************************)
NeverSendsOnClosed == ~crashed
=============================================================================
