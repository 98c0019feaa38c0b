--------------------------------- MODULE Wakeup ---------------------------------
(***************************************************************************)
(* What the hub and the stream handler promise the page, whatever the size *)
(* of the buffers: a stream that was notified is woken afterwards, once or *)
(* more often, unless it ends first.  SseHub implements this; FeedClient   *)
(* is built on it.                                                         *)
(***************************************************************************)
EXTENDS Integers

CONSTANT Stream

VARIABLES
    at,         \* each stream: not open yet, live, gone
    pending,    \* how many times each is still to be woken
    bell,       \* turned over each time a stream is woken
    over        \* the process has ended

wakeup == <<at, pending, bell, over>>

WakeupInit ==
    /\ at = [s \in Stream |-> "new"]
    /\ pending = [s \in Stream |-> 0]
    /\ bell = [s \in Stream |-> 0]
    /\ over = FALSE

OpenUp(s) ==
    /\ ~over /\ at[s] = "new"
    /\ at' = [at EXCEPT ![s] = "live"]
    /\ UNCHANGED <<pending, bell, over>>

\* A notification adds a call or, if there is one to come, is left to that.
Notify(s) ==
    /\ ~over /\ at[s] = "live"
    /\ pending' = [pending EXCEPT ![s] = @ + 1] \/ (pending[s] > 0 /\ UNCHANGED pending)
    /\ UNCHANGED <<at, bell, over>>

Wake(s) ==
    /\ ~over /\ at[s] = "live" /\ pending[s] > 0
    /\ pending' = [pending EXCEPT ![s] = @ - 1]
    /\ bell' = [bell EXCEPT ![s] = 1 - @]
    /\ UNCHANGED <<at, over>>

Leave(s) ==
    /\ ~over /\ at[s] = "live"
    /\ at' = [at EXCEPT ![s] = "gone"]
    /\ pending' = [pending EXCEPT ![s] = 0] /\ bell' = [bell EXCEPT ![s] = 0]
    /\ UNCHANGED over

\* Notifying a stream that has gone may end the process.
Break(s) ==
    /\ ~over /\ at[s] = "gone"
    /\ over' = TRUE
    /\ UNCHANGED <<at, pending, bell>>

WakeupNext ==
    \E s \in Stream : OpenUp(s) \/ Notify(s) \/ Wake(s) \/ Leave(s) \/ Break(s)

WakeupSpec ==
    WakeupInit /\ [][WakeupNext]_wakeup /\ \A s \in Stream : WF_wakeup(Wake(s))
=============================================================================
