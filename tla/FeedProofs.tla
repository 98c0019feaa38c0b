------------------------------- MODULE FeedProofs -------------------------------
(***************************************************************************)
(* Proofs about what the page is served: that something changed (SseHub),  *)
(* the cards (Feed), and what the page makes of both (FeedClient).         *)
(*                                                                         *)
(* The hub, for any number of streams and publishers and any buffer size:  *)
(* HubInv says, beyond the types, who can be in a registry or a copy of    *)
(* one, and that the events a stream has of a publisher that still has to  *)
(* send to it are older ones.                                              *)
(*                                                                         *)
(* The cards, for any sources, limit and candidates: FeedInv says of the   *)
(* cards gathered so far that each row read was merged into one that is no *)
(* worse, or was cut off behind as many cards as will be shown.            *)
(*                                                                         *)
(* The page, for any number of streams, syncs, requests and changes:       *)
(* ClientInv says that a promised version is shown or on its way.          *)
(***************************************************************************)
EXTENDS SseHub, Feed, SequenceTheorems, FiniteSetTheorems, TLAPS

-----------------------------------------------------------------------------
(* The hub: its invariant. *)

\* What a stream has written and still holds.
All(s) == received[s] \o chan[s]

RegistryInv ==
    /\ \A u \in User : \A s \in byUser[u] : Owner[s] = u /\ pc[s] = "streaming"
    /\ \A p \in Publisher : \A s \in targets[p] :
         Owner[s] = Owner[p] /\ pc[s] \notin {"new", "ready"}

PendingInv ==
    \A s \in Stream :
        /\ pc[s] \in {"new", "ready"} => owes[s] = {}
        /\ owes[s] # {} /\ pc[s] = "streaming" => chan[s] # <<>>

\* Event e may be followed by e1 in a stream.
Earlier(e, e1) == e.by = e1.by => e.n < e1.n

OrderInv ==
    \A s \in Stream :
        /\ \A i \in DOMAIN All(s) :
             /\ Owner[All(s)[i].by] = Owner[s]
             /\ All(s)[i].n <= count[All(s)[i].by]
             /\ s \in targets[All(s)[i].by] => All(s)[i].n < count[All(s)[i].by]
        /\ \A i, j \in DOMAIN All(s) : i < j => Earlier(All(s)[i], All(s)[j])

HubInv == TypeOK /\ RegistryInv /\ PendingInv /\ OrderInv

-----------------------------------------------------------------------------
(* The hub: lemmas. *)

LEMMA BufferPositive == Buffer \in Nat /\ Buffer >= 1
BY HubConstants DEF Buffer

\* Writing the oldest buffered event out moves it from chan to received.
LEMMA MoveHead ==
    ASSUME NEW S, NEW a \in Seq(S), NEW b \in Seq(S), b # <<>>
    PROVE  Append(a, Head(b)) \o Tail(b) = a \o b
<1>1. Head(b) \in S /\ Tail(b) \in Seq(S) /\ Len(Tail(b)) = Len(b) - 1 /\ Len(b) > 0
  BY HeadTailProperties, EmptySeq
<1>2. Append(a, Head(b)) \in Seq(S) /\ Len(Append(a, Head(b))) = Len(a) + 1
  BY <1>1, AppendProperties
<1> DEFINE L == Append(a, Head(b)) \o Tail(b)
           R == a \o b
<1>3. L \in Seq(S) /\ R \in Seq(S) /\ Len(L) = Len(R)
  BY <1>1, <1>2, ConcatProperties
<1>4. \A i \in 1..Len(L) : L[i] = R[i]
  BY <1>1, <1>2, ConcatProperties, AppendProperties, HeadTailProperties
<1> QED  BY <1>3, <1>4, SeqEqual

\* Sending an event appends it to what the stream has.
LEMMA SendExtends ==
    ASSUME NEW S, NEW a \in Seq(S), NEW b \in Seq(S), NEW e \in S
    PROVE  a \o Append(b, e) = Append(a \o b, e)
<1>1. <<e>> \in Seq(S)
  OBVIOUS
<1> QED  BY <1>1, AppendIsConcat, ConcatAssociative, ConcatProperties

LEMMA EventOfType ==
    ASSUME TypeOK, NEW p \in Publisher, NEW s \in targets[p]
    PROVE  EventOf(p) \in Event /\ s \in Stream
<1>1. targets[p] \subseteq Stream /\ targets[p] # {}
  BY DEF TypeOK
<1>2. count[p] \in 1..Published
  BY <1>1, HubConstants DEF TypeOK
<1> QED  BY <1>1, <1>2 DEF EventOf, Event

-----------------------------------------------------------------------------
(* Types. *)

LEMMA TypeInit == Init => TypeOK
<1>1. <<>> \in Seq(Event) /\ Len(<<>>) = 0
  BY EmptySeq
<1>2. Init => /\ chan \in [Stream -> Seq(Event)] /\ received \in [Stream -> Seq(Event)]
              /\ \A s \in Stream : Len(chan[s]) <= Buffer
  BY <1>1, BufferPositive DEF Init
<1>3. Init => count \in [Publisher -> 0..Published]
  BY HubConstants DEF Init
<1> QED  BY <1>2, <1>3 DEF Init, TypeOK

LEMMA TypeNext == TypeOK /\ [Next]_vars => TypeOK'
<1> SUFFICES ASSUME TypeOK, [Next]_vars PROVE TypeOK'
  OBVIOUS
<1> USE HubConstants
<1>1. ASSUME NEW s \in Stream, Handshake(s) PROVE TypeOK'
  BY <1>1 DEF TypeOK, Handshake
<1>2. ASSUME NEW s \in Stream, Subscribe(s) PROVE TypeOK'
  <2>1. byUser' \in [User -> SUBSET Stream]
    BY <1>2 DEF TypeOK, Subscribe
  <2> QED  BY <1>2, <2>1 DEF TypeOK, Subscribe
<1>3. ASSUME NEW s \in Stream, WriteEvent(s) PROVE TypeOK'
  <2>1. Head(chan[s]) \in Event /\ Tail(chan[s]) \in Seq(Event)
        /\ Len(Tail(chan[s])) = Len(chan[s]) - 1 /\ Len(chan[s]) \in Nat
    BY <1>3, HeadTailProperties, LenProperties DEF TypeOK, WriteEvent
  <2>2. Append(received[s], Head(chan[s])) \in Seq(Event)
    BY <2>1, AppendProperties DEF TypeOK
  <2>3. /\ received' \in [Stream -> Seq(Event)] /\ chan' \in [Stream -> Seq(Event)]
        /\ owes' \in [Stream -> SUBSET Event]
    BY <1>3, <2>1, <2>2 DEF TypeOK, WriteEvent
  <2>4. \A q \in Stream : Len(chan'[q]) <= Buffer
    BY <1>3, <2>1, BufferPositive DEF TypeOK, WriteEvent
  <2> QED  BY <1>3, <2>3, <2>4 DEF TypeOK, WriteEvent
<1>4. ASSUME NEW s \in Stream, Unregister(s) PROVE TypeOK'
  <2>1. byUser' \in [User -> SUBSET Stream]
    BY <1>4 DEF TypeOK, Unregister
  <2> QED  BY <1>4, <2>1 DEF TypeOK, Unregister
<1>5. ASSUME NEW s \in Stream, CloseChannel(s) PROVE TypeOK'
  BY <1>5 DEF TypeOK, CloseChannel
<1>6. ASSUME NEW p \in Publisher, CopyReceivers(p) PROVE TypeOK'
  <2>1. byUser[Owner[p]] \subseteq Stream
    BY DEF TypeOK
  <2>2. /\ count' \in [Publisher -> 0..Published]
        /\ targets' \in [Publisher -> SUBSET Stream]
        /\ \A q \in Publisher : targets'[q] # {} => count'[q] >= 1
    BY <1>6, <2>1 DEF TypeOK, CopyReceivers
  <2> QED  BY <1>6, <2>2 DEF TypeOK, CopyReceivers
<1>7. ASSUME NEW p \in Publisher, NEW s \in Stream, s \in targets[p], Took(p, s)
      PROVE  /\ targets' \in [Publisher -> SUBSET Stream]
             /\ \A q \in Publisher : targets'[q] # {} => count'[q] >= 1
             /\ owes' \in [Stream -> SUBSET Event]
             /\ byUser' \in [User -> SUBSET Stream] /\ received' \in [Stream -> Seq(Event)]
             /\ count' \in [Publisher -> 0..Published]
             /\ pc' \in [Stream -> {"new", "ready", "streaming", "unregistered", "closed"}]
  <2>1. EventOf(p) \in Event
    BY <1>7, EventOfType
  <2> QED  BY <1>7, <2>1 DEF TypeOK, Took
<1>8. ASSUME NEW p \in Publisher, NEW s \in Stream, Send(p, s) PROVE TypeOK'
  <2>1. EventOf(p) \in Event
    BY <1>8, EventOfType DEF Send
  <2>2. Append(chan[s], EventOf(p)) \in Seq(Event)
        /\ Len(Append(chan[s], EventOf(p))) = Len(chan[s]) + 1 /\ Len(chan[s]) \in Nat
    BY <2>1, AppendProperties, LenProperties DEF TypeOK
  <2>3. chan' \in [Stream -> Seq(Event)] /\ \A q \in Stream : Len(chan'[q]) <= Buffer
    BY <1>8, <2>2, BufferPositive DEF TypeOK, Send
  <2> QED  BY <1>7, <1>8, <2>3 DEF TypeOK, Send
<1>9. ASSUME NEW p \in Publisher, NEW s \in Stream, SendOnClosed(p, s) PROVE TypeOK'
  BY <1>7, <1>9 DEF TypeOK, SendOnClosed
<1>10. CASE UNCHANGED vars
  BY <1>10 DEF TypeOK, vars
<1> QED
  BY <1>1, <1>2, <1>3, <1>4, <1>5, <1>6, <1>8, <1>9, <1>10 DEF Next, Handler, Publish

-----------------------------------------------------------------------------
(* Registries, and streams that still have an event to write. *)

LEMMA RegistryNext == TypeOK /\ RegistryInv /\ [Next]_vars => RegistryInv'
<1> SUFFICES ASSUME TypeOK, RegistryInv, [Next]_vars PROVE RegistryInv'
  OBVIOUS
<1> USE HubConstants DEF TypeOK, RegistryInv
<1>1. ASSUME NEW s \in Stream, Handler(s) PROVE RegistryInv'
  <2>1. CASE Handshake(s)  BY <2>1 DEF Handshake
  <2>2. CASE Subscribe(s)  BY <2>2 DEF Subscribe
  <2>3. CASE WriteEvent(s)  BY <2>3 DEF WriteEvent
  <2>4. CASE Unregister(s)  BY <2>4 DEF Unregister
  <2>5. CASE CloseChannel(s)  BY <2>5 DEF CloseChannel
  <2> QED  BY <1>1, <2>1, <2>2, <2>3, <2>4, <2>5 DEF Handler
<1>2. ASSUME NEW p \in Publisher, Publish(p) PROVE RegistryInv'
  <2>1. CASE CopyReceivers(p)  BY <2>1 DEF CopyReceivers
  <2>2. ASSUME NEW s \in Stream, Send(p, s) \/ SendOnClosed(p, s) PROVE RegistryInv'
    <3>1. UNCHANGED <<byUser, pc>> /\ targets' = [targets EXCEPT ![p] = targets[p] \ {s}]
      BY <2>2 DEF Send, SendOnClosed, Took
    <3>2. \A q \in Publisher : targets'[q] \subseteq targets[q]
      BY <3>1
    <3> QED  BY <3>1, <3>2
  <2> QED  BY <1>2, <2>1, <2>2 DEF Publish
<1>3. CASE UNCHANGED vars  BY <1>3 DEF vars
<1> QED  BY <1>1, <1>2, <1>3 DEF Next

LEMMA PendingNext ==
    TypeOK /\ RegistryInv /\ PendingInv /\ [Next]_vars => PendingInv'
<1> SUFFICES ASSUME TypeOK, RegistryInv, PendingInv, [Next]_vars PROVE PendingInv'
  OBVIOUS
<1> USE HubConstants DEF TypeOK, PendingInv
<1>1. ASSUME NEW s \in Stream, Handler(s) PROVE PendingInv'
  <2>1. CASE Handshake(s)  BY <2>1 DEF Handshake
  <2>2. CASE Subscribe(s)  BY <2>2 DEF Subscribe
  <2>3. CASE WriteEvent(s)  BY <2>3 DEF WriteEvent
  <2>4. CASE Unregister(s)  BY <2>4 DEF Unregister
  <2>5. CASE CloseChannel(s)  BY <2>5 DEF CloseChannel
  <2> QED  BY <1>1, <2>1, <2>2, <2>3, <2>4, <2>5 DEF Handler
<1>2. ASSUME NEW p \in Publisher, Publish(p) PROVE PendingInv'
  <2>1. CASE CopyReceivers(p)  BY <2>1 DEF CopyReceivers
  <2>2. ASSUME NEW s \in Stream, Send(p, s) PROVE PendingInv'
    \* the buffer was full, and so not empty, or it has the event now
    <3>1. EventOf(p) \in Event /\ pc[s] \notin {"new", "ready"}
      BY <2>2, EventOfType DEF Send, RegistryInv
    <3>2. Append(chan[s], EventOf(p)) # <<>>
      BY <3>1, AppendProperties
    <3>3. ~(Len(chan[s]) < Buffer) => chan[s] # <<>>
      BY BufferPositive, EmptySeq
    <3>4. chan'[s] # <<>>
      BY <2>2, <3>2, <3>3 DEF Send
    <3> QED  BY <2>2, <3>1, <3>4 DEF Send, Took
  <2>3. ASSUME NEW s \in Stream, SendOnClosed(p, s) PROVE PendingInv'
    BY <2>3 DEF SendOnClosed, Took
  <2> QED  BY <1>2, <2>1, <2>2, <2>3 DEF Publish
<1>3. CASE UNCHANGED vars  BY <1>3 DEF vars
<1> QED  BY <1>1, <1>2, <1>3 DEF Next

-----------------------------------------------------------------------------
(* Order. *)

\* A step that leaves alone what streams have keeps it in order.
LEMMA OrderKept ==
    ASSUME OrderInv, TypeOK,
           \A s \in Stream : All(s)' = All(s),
           count' = count,
           \A p \in Publisher : targets'[p] \subseteq targets[p]
    PROVE  OrderInv'
<1>1. \A s \in Stream : \A i \in DOMAIN All(s) : All(s)[i].by \in Publisher
  <2> TAKE s \in Stream
  <2>1. All(s) \in Seq(Event)
    BY ConcatProperties DEF TypeOK, All
  <2>2. DOMAIN All(s) = 1..Len(All(s))
    BY <2>1, LenProperties
  <2>3. \A i \in DOMAIN All(s) : All(s)[i] \in Event
    BY <2>1, <2>2, ElementOfSeq
  <2> QED  BY <2>1, <2>3 DEF Event
<1> QED  BY <1>1 DEF OrderInv, Earlier

LEMMA OrderNext ==
    TypeOK /\ RegistryInv /\ OrderInv /\ [Next]_vars => OrderInv'
<1> SUFFICES ASSUME TypeOK, RegistryInv, OrderInv, [Next]_vars PROVE OrderInv'
  OBVIOUS
<1>0. /\ \A s \in Stream : All(s) \in Seq(Event)
      /\ \A s \in Stream : \A i \in DOMAIN All(s) :
           All(s)[i].by \in Publisher /\ All(s)[i].n \in 1..Published
  <2> SUFFICES ASSUME NEW s \in Stream
               PROVE  All(s) \in Seq(Event) /\ \A i \in DOMAIN All(s) :
                        All(s)[i].by \in Publisher /\ All(s)[i].n \in 1..Published
    OBVIOUS
  <2>1. All(s) \in Seq(Event)
    BY ConcatProperties DEF TypeOK, All
  <2>2. DOMAIN All(s) = 1..Len(All(s))
    BY <2>1, LenProperties
  <2>3. \A i \in DOMAIN All(s) : All(s)[i] \in Event
    BY <2>1, <2>2, ElementOfSeq
  <2> QED  BY <2>1, <2>3 DEF Event
<1>1. ASSUME NEW s \in Stream, Handler(s) PROVE OrderInv'
  <2>1. \A q \in Stream : All(q)' = All(q)
    <3>1. CASE WriteEvent(s)
      <4>1. Append(received[s], Head(chan[s])) \o Tail(chan[s]) = All(s)
        BY <3>1, MoveHead DEF WriteEvent, TypeOK, All
      <4> QED  BY <3>1, <4>1 DEF WriteEvent, TypeOK, All
    <3>2. CASE ~WriteEvent(s)
      BY <1>1, <3>2 DEF Handler, Handshake, Subscribe, Unregister, CloseChannel, All
    <3> QED  BY <3>1, <3>2
  <2>2. UNCHANGED <<count, targets>>
    BY <1>1 DEF Handler, Handshake, Subscribe, WriteEvent, Unregister, CloseChannel
  <2> QED  BY <2>1, <2>2, OrderKept
<1>2. ASSUME NEW p \in Publisher, CopyReceivers(p) PROVE OrderInv'
  <2>1. \A s \in Stream : All(s)' = All(s)
    BY <1>2 DEF CopyReceivers, All
  <2>2. /\ \A q \in Publisher \ {p} : count'[q] = count[q] /\ targets'[q] = targets[q]
        /\ count'[p] = count[p] + 1 /\ count[p] \in Nat
    BY <1>2, HubConstants DEF CopyReceivers, TypeOK
  <2>3. ASSUME NEW s \in Stream, NEW i \in DOMAIN All(s)
        PROVE  /\ All(s)[i].n <= count'[All(s)[i].by]
               /\ s \in targets'[All(s)[i].by] => All(s)[i].n < count'[All(s)[i].by]
    <3>1. All(s)[i].n <= count[All(s)[i].by] /\ All(s)[i].n \in Nat
          /\ All(s)[i].by \in Publisher
          /\ (s \in targets[All(s)[i].by] => All(s)[i].n < count[All(s)[i].by])
      BY <1>0 DEF OrderInv
    <3>2. CASE All(s)[i].by = p
      BY <2>2, <3>1, <3>2
    <3>3. CASE All(s)[i].by # p
      BY <2>2, <3>1, <3>3
    <3> QED  BY <3>2, <3>3
  <2> QED  BY <2>1, <2>3 DEF OrderInv, Earlier
<1>3. ASSUME NEW p \in Publisher, NEW s \in Stream, Send(p, s) PROVE OrderInv'
  <2> DEFINE e == EventOf(p)
  <2>1. e \in Event /\ e.by = p /\ e.n = count[p]
    BY <1>3, EventOfType DEF Send, EventOf
  <2>2. /\ count' = count /\ received' = received
        /\ \A q \in Publisher : targets'[q] \subseteq targets[q]
        /\ s \notin targets'[p] /\ s \in targets[p] /\ Owner[s] = Owner[p]
        /\ \A q \in Stream \ {s} : chan'[q] = chan[q]
        /\ chan'[s] = IF Len(chan[s]) < Buffer THEN Append(chan[s], e) ELSE chan[s]
    BY <1>3 DEF Send, Took, TypeOK, RegistryInv
  <2>3. \A q \in Stream \ {s} : All(q)' = All(q)
    BY <2>2 DEF All
  <2>4. CASE ~(Len(chan[s]) < Buffer)
    <3>1. \A q \in Stream : All(q)' = All(q)
      BY <2>2, <2>3, <2>4 DEF All
    <3> QED  BY <2>2, <3>1, OrderKept
  <2>5. CASE Len(chan[s]) < Buffer
    <3> DEFINE n == Len(All(s))
    <3>1. All(s)' = Append(All(s), e)
      BY <2>1, <2>2, <2>5, SendExtends DEF All, TypeOK
    <3>2. /\ n \in Nat /\ DOMAIN All(s) = 1..n
          /\ DOMAIN All(s)' = 1..(n + 1)
          /\ \A i \in 1..n : All(s)'[i] = All(s)[i]
          /\ All(s)'[n + 1] = e
      BY <1>0, <2>1, <3>1, AppendProperties, LenProperties
    \* all it had of p's is older, for p had still to send to it
    <3>3. \A i \in 1..n : Earlier(All(s)[i], e)
      BY <1>0, <2>1, <2>2, <3>2 DEF OrderInv, Earlier
    <3>4. ASSUME NEW i \in 1..(n + 1)
          PROVE  /\ Owner[All(s)'[i].by] = Owner[s]
                 /\ All(s)'[i].n <= count'[All(s)'[i].by]
                 /\ s \in targets'[All(s)'[i].by] =>
                      All(s)'[i].n < count'[All(s)'[i].by]
      <4>1. CASE i \in 1..n
        BY <1>0, <2>2, <3>2, <4>1 DEF OrderInv
      <4>2. CASE i = n + 1
        <5>1. count[p] \in Nat
          BY HubConstants DEF TypeOK
        <5> QED  BY <2>1, <2>2, <3>2, <4>2, <5>1
      <4> QED  BY <3>2, <4>1, <4>2
    <3>5. ASSUME NEW i \in 1..(n + 1), NEW j \in 1..(n + 1), i < j
          PROVE  Earlier(All(s)'[i], All(s)'[j])
      <4>1. CASE j \in 1..n
        BY <3>2, <3>5, <4>1 DEF OrderInv
      <4>2. CASE j = n + 1
        BY <3>2, <3>3, <3>5, <4>2
      <4> QED  BY <3>2, <4>1, <4>2
    <3>6. ASSUME NEW q \in Stream \ {s}
          PROVE  /\ \A i \in DOMAIN All(q)' :
                      /\ Owner[All(q)'[i].by] = Owner[q]
                      /\ All(q)'[i].n <= count'[All(q)'[i].by]
                      /\ q \in targets'[All(q)'[i].by] =>
                           All(q)'[i].n < count'[All(q)'[i].by]
                 /\ \A i, j \in DOMAIN All(q)' :
                      i < j => Earlier(All(q)'[i], All(q)'[j])
      BY <1>0, <2>2, <2>3 DEF OrderInv
    <3> HIDE DEF n
    <3> QED
      <4> SUFFICES ASSUME NEW q \in Stream
                   PROVE  /\ \A i \in DOMAIN All(q)' :
                               /\ Owner[All(q)'[i].by] = Owner[q]
                               /\ All(q)'[i].n <= count'[All(q)'[i].by]
                               /\ q \in targets'[All(q)'[i].by] =>
                                    All(q)'[i].n < count'[All(q)'[i].by]
                          /\ \A i, j \in DOMAIN All(q)' :
                               i < j => Earlier(All(q)'[i], All(q)'[j])
        BY DEF OrderInv, Earlier
      <4>1. CASE q = s
        BY <3>2, <3>4, <3>5, <4>1
      <4>2. CASE q # s
        BY <3>6, <4>2
      <4> QED  BY <4>1, <4>2
  <2> QED  BY <2>4, <2>5
<1>4. ASSUME NEW p \in Publisher, NEW s \in Stream, SendOnClosed(p, s) PROVE OrderInv'
  <2>1. \A q \in Stream : All(q)' = All(q)
    BY <1>4 DEF SendOnClosed, Took, All
  <2>2. count' = count /\ \A q \in Publisher : targets'[q] \subseteq targets[q]
    BY <1>4 DEF SendOnClosed, Took, TypeOK
  <2> QED  BY <2>1, <2>2, OrderKept
<1>5. CASE UNCHANGED vars
  <2>1. \A q \in Stream : All(q)' = All(q)
    BY <1>5 DEF vars, All
  <2> QED  BY <1>5, <2>1, OrderKept DEF vars
<1> QED  BY <1>1, <1>2, <1>3, <1>4, <1>5 DEF Next, Publish

-----------------------------------------------------------------------------
(* Theorems. *)

LEMMA HubInvariant == Spec => []HubInv
<1>1. Init => HubInv
  <2> SUFFICES ASSUME Init PROVE HubInv
    OBVIOUS
  <2>1. \A s \in Stream : All(s) = <<>>
    BY ConcatEmptySeq, EmptySeq DEF Init, All
  <2> QED  BY <2>1, TypeInit DEF Init, HubInv, RegistryInv, PendingInv, OrderInv
<1>2. HubInv /\ [Next]_vars => HubInv'
  BY TypeNext, RegistryNext, PendingNext, OrderNext DEF HubInv
<1> QED  BY <1>1, <1>2, PTL DEF Spec

(***************************************************************************)
(* The hub's state is well typed, and no channel holds more than its       *)
(* buffer.                                                                 *)
(***************************************************************************)
THEOREM TypeCorrect == Spec => []TypeOK
BY HubInvariant, PTL DEF HubInv

(***************************************************************************)
(* sse.Hub delivers to a stream only its user's events, each publisher's   *)
(* once and in order, whatever copies, sends and cancels interleave.       *)
(***************************************************************************)
THEOREM InOrder == Spec => []DeliveredInOrder
<1>1. HubInv => DeliveredInOrder
  BY DEF HubInv, OrderInv, DeliveredInOrder, Earlier, All
<1> QED  BY <1>1, HubInvariant, PTL

(***************************************************************************)
(* When the hub has dropped an event, a live stream still has one to       *)
(* write: the drop policy never leaves a client without a next event.      *)
(***************************************************************************)
THEOREM DropsAreMadeUpFor == Spec => []DropLeavesOnePending
<1>1. HubInv => DropLeavesOnePending
  BY DEF HubInv, PendingInv, DropLeavesOnePending
<1> QED  BY <1>1, HubInvariant, PTL
-----------------------------------------------------------------------------
(* The hub implements Wakeup, as far as single steps go. *)

\* A stream that is not registered yet has nothing, written or buffered.
Blank == \A s \in Stream : pc[s] \in {"new", "ready"} => chan[s] = <<>> /\ received[s] = <<>>

LEMMA BlankNext == TypeOK /\ RegistryInv /\ Blank /\ [Next]_vars => Blank'
<1> SUFFICES ASSUME TypeOK, RegistryInv, Blank, [Next]_vars PROVE Blank'
  OBVIOUS
<1> USE DEF TypeOK, Blank
<1>1. ASSUME NEW s \in Stream, Handler(s) PROVE Blank'
  <2>1. CASE Handshake(s)  BY <2>1 DEF Handshake
  <2>2. CASE Subscribe(s)  BY <2>2 DEF Subscribe
  <2>3. CASE WriteEvent(s)  BY <2>3 DEF WriteEvent
  <2>4. CASE Unregister(s)  BY <2>4 DEF Unregister
  <2>5. CASE CloseChannel(s)  BY <2>5 DEF CloseChannel
  <2> QED  BY <1>1, <2>1, <2>2, <2>3, <2>4, <2>5 DEF Handler
<1>2. ASSUME NEW p \in Publisher, Publish(p) PROVE Blank'
  <2>1. CASE CopyReceivers(p)  BY <2>1 DEF CopyReceivers
  <2>2. ASSUME NEW s \in Stream, Send(p, s) PROVE Blank'
    <3>1. pc[s] \notin {"new", "ready"}
      BY <2>2 DEF Send, RegistryInv
    <3>2. \A q \in Stream \ {s} : chan'[q] = chan[q]
      BY <2>2 DEF Send
    <3>3. UNCHANGED <<pc, received>>
      BY <2>2 DEF Send, Took
    <3> QED  BY <3>1, <3>2, <3>3
  <2>3. ASSUME NEW s \in Stream, SendOnClosed(p, s) PROVE Blank'
    BY <2>3 DEF SendOnClosed, Took
  <2> QED  BY <1>2, <2>1, <2>2, <2>3 DEF Publish
<1>3. CASE UNCHANGED vars  BY <1>3 DEF vars
<1> QED  BY <1>1, <1>2, <1>3 DEF Next

\* Streams that a step leaves alone are mapped as before.
LEMMA Mapped ==
    ASSUME NEW q \in Stream, pc'[q] = pc[q], chan'[q] = chan[q], received'[q] = received[q]
    PROVE  PlaceOf(q)' = PlaceOf(q) /\ PendingOf(q)' = PendingOf(q) /\ BellOf(q)' = BellOf(q)
BY DEF PlaceOf, PendingOf, BellOf

LEMMA OddEven == \A n \in Nat : (n + 1) % 2 = 1 - (n % 2)
OBVIOUS

LEMMA StepWakes ==
    ASSUME TypeOK, RegistryInv, Blank, [Next]_vars
    PROVE  W!WakeupNext \/ UNCHANGED W!wakeup
<1> USE DEF TypeOK
\* A step that changes how no stream is mapped is a stutter.
<1>0. ASSUME crashed' = crashed,
             \A q \in Stream : /\ PlaceOf(q)' = PlaceOf(q) /\ PendingOf(q)' = PendingOf(q)
                               /\ BellOf(q)' = BellOf(q)
      PROVE  UNCHANGED W!wakeup
  BY <1>0 DEF W!wakeup
<1>1. ASSUME NEW s \in Stream, Handshake(s) PROVE UNCHANGED W!wakeup
  <2>1. \A q \in Stream : /\ PlaceOf(q)' = PlaceOf(q) /\ PendingOf(q)' = PendingOf(q)
                          /\ BellOf(q)' = BellOf(q)
    BY <1>1 DEF Handshake, PlaceOf, PendingOf, BellOf
  <2> QED  BY <1>0, <1>1, <2>1 DEF Handshake
<1>2. ASSUME NEW s \in Stream, Subscribe(s) PROVE W!OpenUp(s)
  <2>1. \A q \in Stream \ {s} : PlaceOf(q)' = PlaceOf(q)
    BY <1>2 DEF Subscribe, PlaceOf
  <2>2. PlaceOf(s) = "new" /\ PlaceOf(s)' = "live"
    BY <1>2 DEF Subscribe, PlaceOf
  <2>3. chan[s] = <<>> /\ received[s] = <<>>
    BY <1>2 DEF Subscribe, Blank
  <2>4. \A q \in Stream : PendingOf(q)' = PendingOf(q) /\ BellOf(q)' = BellOf(q)
    <3>1. Len(chan[s]) = 0 /\ Len(received[s]) % 2 = 0
      <4>1. Len(received[s]) = 0 /\ 0 % 2 = 0
        BY <2>3, EmptySeq
      <4> QED  BY <2>3, <4>1, EmptySeq
    <3>2. /\ UNCHANGED <<chan, received>> /\ pc[s] = "ready"
          /\ \A q \in Stream \ {s} : pc'[q] = pc[q]
      BY <1>2 DEF Subscribe
    <3> QED  BY <3>1, <3>2 DEF PendingOf, BellOf
  <2>5. ~crashed /\ crashed' = crashed
    BY <1>2 DEF Subscribe
  <2> QED  BY <2>1, <2>2, <2>4, <2>5 DEF W!OpenUp
<1>3. ASSUME NEW s \in Stream, WriteEvent(s) PROVE W!Wake(s)
  <2>1. /\ Len(Tail(chan[s])) = Len(chan[s]) - 1 /\ Len(chan[s]) \in Nat /\ Len(chan[s]) > 0
        /\ Head(chan[s]) \in Event
    BY <1>3, HeadTailProperties, LenProperties, EmptySeq DEF WriteEvent
  <2>2. Len(Append(received[s], Head(chan[s]))) = Len(received[s]) + 1
        /\ Len(received[s]) \in Nat
    BY <2>1, AppendProperties, LenProperties
  <2>3. /\ UNCHANGED <<pc, crashed>> /\ ~crashed /\ pc[s] = "streaming"
        /\ chan'[s] = Tail(chan[s]) /\ received'[s] = Append(received[s], Head(chan[s]))
        /\ \A q \in Stream \ {s} : chan'[q] = chan[q] /\ received'[q] = received[q]
    BY <1>3 DEF WriteEvent
  <2>4. \A q \in Stream \ {s} : PendingOf(q)' = PendingOf(q) /\ BellOf(q)' = BellOf(q)
    BY <2>3, Mapped
  <2>5. \A q \in Stream : PlaceOf(q)' = PlaceOf(q)
    BY <2>3 DEF PlaceOf
  <2>6. PlaceOf(s) = "live" /\ PendingOf(s) > 0 /\ PendingOf(s)' = PendingOf(s) - 1
    BY <2>1, <2>3 DEF PlaceOf, PendingOf
  <2>7. BellOf(s)' = 1 - BellOf(s)
    BY <2>2, <2>3, OddEven DEF BellOf
  <2> QED  BY <2>3, <2>4, <2>5, <2>6, <2>7 DEF W!Wake
<1>4. ASSUME NEW s \in Stream, Unregister(s) PROVE W!Leave(s)
  <2>1. /\ UNCHANGED <<chan, received, crashed>> /\ ~crashed /\ pc[s] = "streaming"
        /\ pc'[s] = "unregistered" /\ \A q \in Stream \ {s} : pc'[q] = pc[q]
    BY <1>4 DEF Unregister
  <2>2. \A q \in Stream \ {s} : /\ PlaceOf(q)' = PlaceOf(q) /\ PendingOf(q)' = PendingOf(q)
                                /\ BellOf(q)' = BellOf(q)
    BY <2>1, Mapped
  <2>3. PlaceOf(s) = "live" /\ PlaceOf(s)' = "gone" /\ PendingOf(s)' = 0 /\ BellOf(s)' = 0
    BY <2>1 DEF PlaceOf, PendingOf, BellOf
  <2> QED  BY <2>1, <2>2, <2>3 DEF W!Leave
<1>5. ASSUME NEW s \in Stream, CloseChannel(s) PROVE UNCHANGED W!wakeup
  <2>1. \A q \in Stream : /\ PlaceOf(q)' = PlaceOf(q) /\ PendingOf(q)' = PendingOf(q)
                          /\ BellOf(q)' = BellOf(q)
    BY <1>5 DEF CloseChannel, PlaceOf, PendingOf, BellOf
  <2> QED  BY <1>0, <1>5, <2>1 DEF CloseChannel
<1>6. ASSUME NEW p \in Publisher, CopyReceivers(p) PROVE UNCHANGED W!wakeup
  BY <1>0, <1>6, Mapped DEF CopyReceivers
<1>7. ASSUME NEW p \in Publisher, NEW s \in Stream, Send(p, s)
      PROVE  W!Notify(s) \/ UNCHANGED W!wakeup
  <2>1. /\ UNCHANGED <<pc, received, crashed>> /\ ~crashed
        /\ \A q \in Stream \ {s} : chan'[q] = chan[q]
        /\ chan'[s] = IF Len(chan[s]) < Buffer THEN Append(chan[s], EventOf(p)) ELSE chan[s]
        /\ pc[s] \in {"streaming", "unregistered"}
    BY <1>7 DEF Send, Took, RegistryInv
  <2>2. EventOf(p) \in Event
    BY <1>7, EventOfType DEF Send
  <2>3. Len(Append(chan[s], EventOf(p))) = Len(chan[s]) + 1 /\ Len(chan[s]) \in Nat
    BY <2>2, AppendProperties, LenProperties
  <2>4. \A q \in Stream : PlaceOf(q)' = PlaceOf(q) /\ BellOf(q)' = BellOf(q)
    BY <2>1 DEF PlaceOf, BellOf
  <2>5. \A q \in Stream \ {s} : PendingOf(q)' = PendingOf(q)
    BY <2>1, Mapped
  \* it was a handler that is on its way out
  <2>6. CASE pc[s] = "unregistered"
    <3>1. PendingOf(s)' = PendingOf(s)
      BY <2>1, <2>6 DEF PendingOf
    <3> QED  BY <1>0, <2>1, <2>4, <2>5, <3>1
  <2>7. CASE pc[s] = "streaming"
    <3>1. PlaceOf(s) = "live"
      BY <2>7 DEF PlaceOf
    <3>2. CASE Len(chan[s]) < Buffer
      <4>1. PendingOf(s)' = PendingOf(s) + 1
        BY <2>1, <2>3, <2>7, <3>2 DEF PendingOf
      <4> QED  BY <2>1, <2>4, <2>5, <3>1, <4>1 DEF W!Notify
    \* dropped: the buffer is full, and so not empty
    <3>3. CASE ~(Len(chan[s]) < Buffer)
      <4>1. PendingOf(s)' = PendingOf(s)
        BY <2>1, <2>7, <3>3 DEF PendingOf
      <4>2. PendingOf(s) > 0
        BY <2>3, <2>7, <3>3, BufferPositive DEF PendingOf
      <4> QED  BY <2>1, <2>4, <2>5, <3>1, <4>1, <4>2 DEF W!Notify
    <3> QED  BY <3>2, <3>3
  <2> QED  BY <2>1, <2>6, <2>7
<1>8. ASSUME NEW p \in Publisher, NEW s \in Stream, SendOnClosed(p, s) PROVE W!Break(s)
  <2>1. UNCHANGED <<pc, chan, received>> /\ ~crashed /\ crashed' = TRUE /\ pc[s] = "closed"
    BY <1>8 DEF SendOnClosed, Took
  <2>2. \A q \in Stream : /\ PlaceOf(q)' = PlaceOf(q) /\ PendingOf(q)' = PendingOf(q)
                          /\ BellOf(q)' = BellOf(q)
    BY <2>1, Mapped
  <2>3. PlaceOf(s) = "gone"
    BY <2>1 DEF PlaceOf
  <2> QED  BY <2>1, <2>2, <2>3 DEF W!Break
<1>9. CASE UNCHANGED vars
  BY <1>0, <1>9, Mapped DEF vars
<1> QED
  BY <1>1, <1>2, <1>3, <1>4, <1>5, <1>6, <1>7, <1>8, <1>9
  DEF Next, Handler, Publish, W!WakeupNext

\* What the hub does, a step of Wakeup does or a stutter, and it starts as Wakeup does.
WakeupSafety == W!WakeupInit /\ [][W!WakeupNext]_(W!wakeup)

(***************************************************************************)
(* The safety half of ImplementsWakeup, for any number of streams and      *)
(* publishers and any buffer: a stream of hub.go is woken only when an     *)
(* event was published to it, and a dropped event leaves a wake to come.   *)
(***************************************************************************)
THEOREM StepsAreWakeups == Spec => WakeupSafety
<1>1. Init => W!WakeupInit /\ Blank
  <2> SUFFICES ASSUME Init PROVE W!WakeupInit /\ Blank
    OBVIOUS
  <2>1. \A s \in Stream : PlaceOf(s) = "new" /\ PendingOf(s) = 0 /\ BellOf(s) = 0
    BY DEF Init, PlaceOf, PendingOf, BellOf
  <2> QED  BY <2>1 DEF Init, Blank, W!WakeupInit
<1>2. HubInv /\ Blank /\ [Next]_vars => Blank'
  BY BlankNext DEF HubInv
<1>3. HubInv /\ Blank /\ [Next]_vars => [W!WakeupNext]_(W!wakeup)
  BY StepWakes DEF HubInv
<1> QED  BY <1>1, <1>2, <1>3, HubInvariant, PTL DEF Spec, WakeupSafety

-----------------------------------------------------------------------------
(* The feed: a cut of cards f to n.  It keeps the best, and among equals   *)
(* those found first.                                                      *)

Ahead(f, t, s) == \/ f[t].score > f[s].score
                  \/ f[t].score = f[s].score /\ f[t].place < f[s].place

AheadOf(f, s) == {t \in DOMAIN f : Ahead(f, t, s)}

Top(f, n) == {s \in DOMAIN f : Cardinality(AheadOf(f, s)) < n}

\* Finitely many cards, no two in one place.
Ordered(f) ==
    /\ IsFiniteSet(DOMAIN f)
    /\ \A s \in DOMAIN f : f[s].score \in Nat /\ f[s].place \in Nat
    /\ \A s, t \in DOMAIN f : f[s].place = f[t].place => s = t

LEMMA AheadOfFinite ==
    ASSUME NEW f, Ordered(f), NEW s \in DOMAIN f
    PROVE  /\ IsFiniteSet(AheadOf(f, s)) /\ Cardinality(AheadOf(f, s)) \in Nat
           /\ Cardinality(AheadOf(f, s)) < Cardinality(DOMAIN f)
<1>1. IsFiniteSet(DOMAIN f) /\ Cardinality(DOMAIN f) \in Nat
  BY FS_CardinalityType DEF Ordered
<1>2. AheadOf(f, s) \in SUBSET DOMAIN f /\ s \notin AheadOf(f, s)
  BY DEF AheadOf, Ahead, Ordered
<1>3. /\ IsFiniteSet(AheadOf(f, s))
      /\ Cardinality(AheadOf(f, s)) <= Cardinality(DOMAIN f)
      /\ Cardinality(DOMAIN f) = Cardinality(AheadOf(f, s)) => DOMAIN f = AheadOf(f, s)
  BY <1>1, <1>2, FS_Subset
<1>4. Cardinality(AheadOf(f, s)) \in Nat
  BY <1>3, FS_CardinalityType
<1> QED  BY <1>1, <1>2, <1>3, <1>4

LEMMA AheadIsTotal ==
    ASSUME NEW f, Ordered(f), NEW s \in DOMAIN f, NEW t \in DOMAIN f, s # t
    PROVE  Ahead(f, s, t) \/ Ahead(f, t, s)
BY DEF Ordered, Ahead

\* Whoever is further ahead has fewer ahead.
LEMMA AheadHasFewer ==
    ASSUME NEW f, Ordered(f), NEW s \in DOMAIN f, NEW t \in DOMAIN f, Ahead(f, s, t)
    PROVE  Cardinality(AheadOf(f, s)) < Cardinality(AheadOf(f, t))
<1>1. AheadOf(f, s) \in SUBSET AheadOf(f, t) /\ s \in AheadOf(f, t) /\ s \notin AheadOf(f, s)
  BY DEF AheadOf, Ahead, Ordered
<1>2. /\ IsFiniteSet(AheadOf(f, t))
      /\ Cardinality(AheadOf(f, t)) \in Nat /\ Cardinality(AheadOf(f, s)) \in Nat
  BY AheadOfFinite
<1>3. /\ Cardinality(AheadOf(f, s)) <= Cardinality(AheadOf(f, t))
      /\ Cardinality(AheadOf(f, t)) = Cardinality(AheadOf(f, s))
            => AheadOf(f, t) = AheadOf(f, s)
  BY <1>1, <1>2, FS_Subset
<1> QED  BY <1>1, <1>2, <1>3

\* Each card has its own number of cards ahead, so that these are all the numbers below
\* the number of cards.
LEMMA EveryRankTaken ==
    ASSUME NEW f, Ordered(f), NEW k \in Nat, k < Cardinality(DOMAIN f)
    PROVE  \E s \in DOMAIN f : Cardinality(AheadOf(f, s)) = k
<1> DEFINE size == Cardinality(DOMAIN f)
           ranks == 0..(size - 1)
           rank == [s \in DOMAIN f |-> Cardinality(AheadOf(f, s))]
<1>1. IsFiniteSet(DOMAIN f) /\ size \in Nat
  BY FS_CardinalityType DEF Ordered
<1>2. \A s \in DOMAIN f : Cardinality(AheadOf(f, s)) \in ranks
  BY <1>1, AheadOfFinite
<1>3. \A s, t \in DOMAIN f : Cardinality(AheadOf(f, s)) = Cardinality(AheadOf(f, t)) => s = t
  <2> SUFFICES ASSUME NEW s \in DOMAIN f, NEW t \in DOMAIN f, s # t
               PROVE  Cardinality(AheadOf(f, s)) # Cardinality(AheadOf(f, t))
    OBVIOUS
  <2>1. Cardinality(AheadOf(f, s)) \in Nat /\ Cardinality(AheadOf(f, t)) \in Nat
    BY AheadOfFinite
  <2>2. \/ Cardinality(AheadOf(f, s)) < Cardinality(AheadOf(f, t))
        \/ Cardinality(AheadOf(f, t)) < Cardinality(AheadOf(f, s))
    BY AheadIsTotal, AheadHasFewer
  <2> QED  BY <2>1, <2>2
<1>4. rank \in Injection(DOMAIN f, ranks)
  BY <1>2, <1>3 DEF Injection, IsInjective
<1>5. IsFiniteSet(ranks) /\ Cardinality(ranks) = size
  <2> HIDE DEF size
  <2> QED  BY <1>1, FS_Interval
<1>6. rank \in Surjection(DOMAIN f, ranks)
  <2>1. Cardinality(DOMAIN f) = Cardinality(ranks)
    BY <1>5
  <2> HIDE DEF rank, ranks
  <2> QED  BY <1>4, <1>5, <2>1, FS_Injection
<1>7. k \in ranks
  BY <1>1
<1>8. \E s \in DOMAIN f : rank[s] = k
  BY <1>6, <1>7 DEF Surjection, Range
<1> QED  BY <1>8

\* A cut of enough cards is full.
LEMMA TopIsFull ==
    ASSUME NEW f, Ordered(f), NEW n \in Nat, n <= Cardinality(DOMAIN f)
    PROVE  Cardinality(Top(f, n)) = n
<1> DEFINE ranks == 0..(n - 1)
           rank == [s \in Top(f, n) |-> Cardinality(AheadOf(f, s))]
<1>0. Cardinality(DOMAIN f) \in Nat
  BY FS_CardinalityType DEF Ordered
<1>1. \A s \in DOMAIN f : Cardinality(AheadOf(f, s)) \in Nat
  BY AheadOfFinite
<1>2. \A s \in Top(f, n) : Cardinality(AheadOf(f, s)) \in ranks
  BY <1>1 DEF Top
<1>3. \A s, t \in Top(f, n) : Cardinality(AheadOf(f, s)) = Cardinality(AheadOf(f, t)) => s = t
  <2> SUFFICES ASSUME NEW s \in DOMAIN f, NEW t \in DOMAIN f, s # t
               PROVE  Cardinality(AheadOf(f, s)) # Cardinality(AheadOf(f, t))
    BY DEF Top
  <2>1. \/ Cardinality(AheadOf(f, s)) < Cardinality(AheadOf(f, t))
        \/ Cardinality(AheadOf(f, t)) < Cardinality(AheadOf(f, s))
    BY AheadIsTotal, AheadHasFewer
  <2> QED  BY <1>1, <2>1
<1>4. rank \in Injection(Top(f, n), ranks)
  BY <1>2, <1>3 DEF Injection, IsInjective
<1>5. \A k \in ranks : \E s \in Top(f, n) : rank[s] = k
  <2> TAKE k \in ranks
  <2>1. k \in Nat /\ k < n /\ k < Cardinality(DOMAIN f)
    BY <1>0
  <2>2. PICK s \in DOMAIN f : Cardinality(AheadOf(f, s)) = k
    BY <2>1, EveryRankTaken
  <2> QED  BY <2>1, <2>2 DEF Top
<1>6. rank \in Surjection(Top(f, n), ranks)
  BY <1>2, <1>5 DEF Surjection, Range
<1>7. IsFiniteSet(ranks) /\ Cardinality(ranks) = n
  BY FS_Interval
<1>8. /\ IsFiniteSet(Top(f, n))
      /\ Cardinality(Top(f, n)) = Cardinality(ranks)
  BY <1>4, <1>6, <1>7, FS_Injection
<1> QED  BY <1>7, <1>8

\* A row is granted when its subject has a card that is no worse, and outdone when there
\* are n cards that are no worse.
Granted(f, r) == r.subject \in DOMAIN f /\ r.score <= f[r.subject].score

Outdone(f, n, r) ==
    \E T \in SUBSET DOMAIN f :
        Cardinality(T) = n /\ \A t \in T : r.score <= f[t].score

\* n cards that are better than s keep it out.
LEMMA OutdoneIsCut ==
    ASSUME NEW f, Ordered(f), NEW n \in Nat, NEW s \in Top(f, n),
           NEW T \in SUBSET DOMAIN f, Cardinality(T) = n
    PROVE  \E t \in T : f[t].score <= f[s].score
<1> SUFFICES ASSUME \A t \in T : ~(f[t].score <= f[s].score)
             PROVE  FALSE
  OBVIOUS
<1>1. s \in DOMAIN f /\ Cardinality(AheadOf(f, s)) < n
  BY DEF Top
<1>2. T \in SUBSET AheadOf(f, s)
  BY <1>1 DEF AheadOf, Ahead, Ordered
<1>3. IsFiniteSet(AheadOf(f, s)) /\ Cardinality(AheadOf(f, s)) \in Nat
  BY <1>1, AheadOfFinite
<1>4. Cardinality(T) <= Cardinality(AheadOf(f, s))
  BY <1>2, <1>3, FS_Subset
<1> QED  BY <1>1, <1>3, <1>4

\* A row that is granted or outdone is no better than the card its subject is shown with.
LEMMA CutKeepsBest ==
    ASSUME NEW f, Ordered(f), NEW n \in Nat, NEW r, r.score \in Nat,
           Granted(f, r) \/ Outdone(f, n, r), r.subject \in Top(f, n)
    PROVE  r.score <= f[r.subject].score
<1>1. CASE Granted(f, r)
  BY <1>1 DEF Granted
<1>2. CASE Outdone(f, n, r)
  <2>1. PICK T \in SUBSET DOMAIN f :
          Cardinality(T) = n /\ \A t \in T : r.score <= f[t].score
    BY <1>2 DEF Outdone
  <2>2. PICK t \in T : f[t].score <= f[r.subject].score
    BY <2>1, OutdoneIsCut
  <2>3. r.score <= f[t].score /\ f[t].score \in Nat /\ f[r.subject].score \in Nat
    BY <2>1, <2>2 DEF Ordered, Top
  <2> QED  BY <2>2, <2>3
<1> QED  BY <1>1, <1>2

\* If its subject is not shown, the cut is full and all of it is no worse.
LEMMA CutDropsWorst ==
    ASSUME NEW f, Ordered(f), NEW n \in Nat, NEW r, r.score \in Nat,
           Granted(f, r) \/ Outdone(f, n, r), r.subject \notin Top(f, n)
    PROVE  /\ Cardinality(Top(f, n)) = n
           /\ \A s \in Top(f, n) : r.score <= f[s].score
<1>0. IsFiniteSet(DOMAIN f) /\ Cardinality(DOMAIN f) \in Nat
  BY FS_CardinalityType DEF Ordered
<1>1. CASE Granted(f, r)
  <2> DEFINE q == r.subject
  <2>1. q \in DOMAIN f /\ r.score <= f[q].score
    BY <1>1 DEF Granted
  <2>2. /\ Cardinality(AheadOf(f, q)) \in Nat
        /\ Cardinality(AheadOf(f, q)) < Cardinality(DOMAIN f)
        /\ ~(Cardinality(AheadOf(f, q)) < n)
    BY <2>1, AheadOfFinite DEF Top
  <2>3. Cardinality(Top(f, n)) = n
    BY <1>0, <2>2, TopIsFull
  <2>4. ASSUME NEW s \in Top(f, n)
        PROVE  r.score <= f[s].score
    <3>1. s \in DOMAIN f /\ s # q /\ Cardinality(AheadOf(f, s)) < n
      BY <2>4 DEF Top
    <3>2. Cardinality(AheadOf(f, s)) \in Nat
      BY <3>1, AheadOfFinite
    <3>3. ~Ahead(f, q, s)
      BY <2>1, <2>2, <3>1, <3>2, AheadHasFewer
    <3>4. Ahead(f, s, q)
      BY <2>1, <3>1, <3>3, AheadIsTotal
    <3>5. f[s].score \in Nat /\ f[q].score \in Nat
      BY <2>1, <3>1 DEF Ordered
    <3>6. f[q].score <= f[s].score
      BY <3>4, <3>5 DEF Ahead
    <3> QED  BY <2>1, <3>5, <3>6
  <2> QED  BY <2>3, <2>4
<1>2. CASE Outdone(f, n, r)
  <2>1. PICK T \in SUBSET DOMAIN f :
          Cardinality(T) = n /\ \A t \in T : r.score <= f[t].score
    BY <1>2 DEF Outdone
  <2>2. n <= Cardinality(DOMAIN f)
    BY <1>0, <2>1, FS_Subset
  <2>3. Cardinality(Top(f, n)) = n
    BY <2>2, TopIsFull
  <2>4. ASSUME NEW s \in Top(f, n)
        PROVE  r.score <= f[s].score
    <3>1. PICK t \in T : f[t].score <= f[s].score
      BY <2>1, <2>4, OutdoneIsCut
    <3>2. r.score <= f[t].score /\ f[t].score \in Nat /\ f[s].score \in Nat
      BY <2>1, <2>4, <3>1 DEF Ordered, Top
    <3> QED  BY <3>1, <3>2
  <2> QED  BY <2>3, <2>4
<1> QED  BY <1>1, <1>2

-----------------------------------------------------------------------------
(* The feed: a listing and its merge into the cards f found so far. *)

\* No two rows of a subject, as in the rows of one source.
OnePerSubject(rows) == \A r, q \in rows : r.subject = q.subject => r = q

Position(l, s) == CHOOSE i \in DOMAIN l : l[i].subject = s

Subjects(l) == {l[i].subject : i \in DOMAIN l}

Merged(f, l, base) ==
    [s \in DOMAIN f \cup Subjects(l) |->
        IF s \notin Subjects(l) THEN f[s]
        ELSE IF s \in DOMAIN f THEN Better(f[s], l[Position(l, s)])
        ELSE FirstCard(l[Position(l, s)], base + Position(l, s))]

LEMMA MergeIsMerged ==
    ASSUME NEW l
    PROVE  Merge(l) = Merged(found, l, turn * Limit)
BY DEF Merge, Merged, Subjects, Position

LEMMA PositionListed ==
    ASSUME NEW l, NEW s \in Subjects(l)
    PROVE  Position(l, s) \in DOMAIN l /\ l[Position(l, s)].subject = s
<1>1. \E i \in DOMAIN l : l[i].subject = s
  BY DEF Subjects
<1> QED  BY <1>1 DEF Position

\* What a listing of rows is.
LEMMA ListingFacts ==
    ASSUME NEW rows, IsFiniteSet(rows), rows \subseteq Row, OnePerSubject(rows),
           NEW l \in Listings(rows)
    PROVE  \E size \in Nat :
             /\ size <= Limit /\ size <= Cardinality(rows)
             /\ size = Limit \/ size = Cardinality(rows)
             /\ l \in [1..size -> rows]
             /\ \A i, j \in 1..size : l[i].subject = l[j].subject => i = j
             /\ \A r \in rows \ Range(l), i \in 1..size : r.score <= l[i].score
<1> DEFINE size == IF Cardinality(rows) < Limit THEN Cardinality(rows) ELSE Limit
<1>1. Cardinality(rows) \in Nat /\ Limit \in Nat
  BY FS_CardinalityType, FeedConstants
<1>2. /\ size \in Nat /\ size <= Limit /\ size <= Cardinality(rows)
      /\ size = Limit \/ size = Cardinality(rows)
  BY <1>1
<1>3. /\ l \in [1..size -> rows] /\ IsInjective(l)
      /\ \A r \in rows \ Range(l), i \in 1..size : l[i].score >= r.score
  BY DEF Listings
<1> HIDE DEF size
<1>4. \A i, j \in 1..size : l[i].subject = l[j].subject => i = j
  BY <1>3 DEF OnePerSubject, IsInjective
<1>5. ASSUME NEW r \in rows \ Range(l), NEW i \in 1..size
      PROVE  r.score <= l[i].score
  <2>1. l[i] \in Row /\ r \in Row
    BY <1>3
  <2>2. l[i].score \in Nat /\ r.score \in Nat
    BY <2>1, FeedConstants DEF Row
  <2> QED  BY <1>3, <2>2
<1> QED  BY <1>2, <1>3, <1>4, <1>5

\* A row that is cut off has Limit others in front of it.
LEMMA CutOffIsOutdone ==
    ASSUME NEW rows, IsFiniteSet(rows), rows \subseteq Row, OnePerSubject(rows),
           NEW l \in Listings(rows), NEW r \in rows \ Range(l)
    PROVE  /\ Cardinality(Subjects(l)) = Limit
           /\ \A i \in DOMAIN l : r.score <= l[i].score
<1>1. PICK size \in Nat :
        /\ size <= Limit /\ size <= Cardinality(rows)
        /\ size = Limit \/ size = Cardinality(rows)
        /\ l \in [1..size -> rows]
        /\ \A i, j \in 1..size : l[i].subject = l[j].subject => i = j
        /\ \A q \in rows \ Range(l), i \in 1..size : q.score <= l[i].score
  BY ListingFacts
<1>2. IsFiniteSet(1..size) /\ Cardinality(1..size) = size
  BY <1>1, FS_Interval
<1>3. size = Limit
  <2> SUFFICES ASSUME size = Cardinality(rows)
               PROVE  FALSE
    BY <1>1
  <2>1. IsInjective(l)
    BY <1>1 DEF IsInjective
  <2>2. l \in Injection(1..size, rows)
    BY <1>1, <2>1 DEF Injection
  <2>3. Cardinality(1..size) = Cardinality(rows)
    BY <1>2
  <2>4. l \in Surjection(1..size, rows)
    BY <2>2, <2>3, FS_Injection
  <2>5. \E i \in 1..size : l[i] = r
    BY <2>4 DEF Surjection
  <2>6. DOMAIN l = 1..size
    BY <1>1
  <2>7. r \in Range(l)
    BY <2>5, <2>6 DEF Range
  <2> QED  BY <2>7
<1>4. Cardinality(Subjects(l)) = size
  <2> DEFINE name == [i \in 1..size |-> l[i].subject]
  <2>1. name \in [1..size -> Subjects(l)] /\ DOMAIN name = 1..size
    BY <1>1 DEF Subjects
  <2>2. \A s \in Subjects(l) : \E i \in 1..size : name[i] = s
    BY <1>1 DEF Subjects
  <2>3. name \in Surjection(1..size, Subjects(l))
    BY <2>1, <2>2 DEF Surjection
  <2>4. IsInjective(name)
    BY <1>1 DEF IsInjective
  <2>5. name \in Injection(1..size, Subjects(l))
    BY <2>1, <2>4 DEF Injection
  <2> HIDE DEF name
  <2>6. Cardinality(Subjects(l)) = Cardinality(1..size)
    BY <1>2, <2>3, <2>5, FS_Surjection
  <2> QED  BY <1>2, <2>6
<1> QED  BY <1>1, <1>3, <1>4

\* The cards of subjects.
Cards(f) ==
    /\ DOMAIN f \subseteq Subject
    /\ \A s \in DOMAIN f : f[s] \in Card

LEMMA CardFields ==
    ASSUME NEW card \in Card
    PROVE  /\ card.score \in Nat /\ card.score \in Score /\ card.place \in Nat
           /\ card.source \in Source /\ card.sources \subseteq Source
BY FeedConstants DEF Card

LEMMA RowFields ==
    ASSUME NEW row \in Row
    PROVE  /\ row.score \in Nat /\ row.score \in Score /\ row.subject \in Subject
           /\ row.source \in Source
BY FeedConstants DEF Row

LEMMA FirstCardFacts ==
    ASSUME NEW row \in Row, NEW place \in Nat
    PROVE  LET c == FirstCard(row, place) IN
           /\ c \in Card
           /\ c.place = place /\ c.score = row.score /\ c.source = row.source
BY RowFields DEF FirstCard, Card

\* The better of a card and a row is one of them, and no worse than either.
LEMMA BetterFacts ==
    ASSUME NEW card \in Card, NEW row \in Row
    PROVE  LET c == Better(card, row) IN
           /\ c \in Card
           /\ c.place = card.place
           /\ card.score <= c.score /\ row.score <= c.score
           /\ \/ c.score = card.score /\ c.source = card.source
              \/ c.score = row.score /\ c.source = row.source
<1>1. /\ card.score \in Nat /\ card.score \in Score /\ card.place \in Nat
      /\ card.source \in Source /\ card.sources \subseteq Source
  BY CardFields
<1>2. row.score \in Nat /\ row.score \in Score /\ row.source \in Source
  BY RowFields
<1>3. /\ Better(card, row).sources = card.sources \cup {row.source}
      /\ Better(card, row).place = card.place
      /\ Better(card, row).score = IF row.score > card.score THEN row.score ELSE card.score
      /\ Better(card, row).source = IF row.score > card.score THEN row.source
                                                              ELSE card.source
      /\ Better(card, row) \in Card
  BY <1>1, <1>2 DEF Better, Card
<1> QED  BY <1>1, <1>2, <1>3

ListsRows(l) == DOMAIN l \subseteq Nat /\ \A i \in DOMAIN l : l[i] \in Row

\* No card gets worse or moves; a new one is placed behind base.
MergedWell(f, l, base) ==
    LET g == Merged(f, l, base) IN
    /\ Cards(g)
    /\ DOMAIN g = DOMAIN f \cup Subjects(l)
    /\ \A s \in DOMAIN f : g[s].place = f[s].place /\ f[s].score <= g[s].score
    /\ \A s \in DOMAIN g \ DOMAIN f :
         s \in Subjects(l) /\ g[s].place = base + Position(l, s)
    /\ \A s \in Subjects(l) : l[Position(l, s)].score <= g[s].score
    /\ \A s \in DOMAIN g :
         \/ /\ s \in DOMAIN f
            /\ g[s].score = f[s].score /\ g[s].source = f[s].source
         \/ /\ s \in Subjects(l)
            /\ g[s].score = l[Position(l, s)].score
            /\ g[s].source = l[Position(l, s)].source

LEMMA MergedFacts ==
    ASSUME NEW f, Cards(f), NEW base \in Nat,
           NEW l, ListsRows(l)
    PROVE  MergedWell(f, l, base)
<1> DEFINE g == Merged(f, l, base)
           row(s) == l[Position(l, s)]
<1>1. DOMAIN g = DOMAIN f \cup Subjects(l)
  BY DEF Merged
<1>2. \A s \in Subjects(l) :
        /\ Position(l, s) \in Nat /\ row(s) \in Row /\ s \in Subject
  <2> TAKE s \in Subjects(l)
  <2>1. Position(l, s) \in DOMAIN l /\ row(s).subject = s
    BY PositionListed
  <2> QED  BY <2>1, RowFields DEF ListsRows
<1>3. ASSUME NEW s \in DOMAIN f, s \notin Subjects(l)
      PROVE  g[s] = f[s]
  BY <1>3 DEF Merged
<1>4. ASSUME NEW s \in DOMAIN f, s \in Subjects(l)
      PROVE  g[s] = Better(f[s], row(s))
  BY <1>4 DEF Merged
<1>5. ASSUME NEW s \in Subjects(l), s \notin DOMAIN f
      PROVE  g[s] = FirstCard(row(s), base + Position(l, s))
  BY <1>5 DEF Merged
<1> HIDE DEF g
<1>6. ASSUME NEW s \in DOMAIN f
      PROVE  /\ g[s] \in Card
             /\ g[s].place = f[s].place /\ f[s].score <= g[s].score
             /\ s \in Subjects(l) => row(s).score <= g[s].score
             /\ \/ g[s].score = f[s].score /\ g[s].source = f[s].source
                \/ /\ s \in Subjects(l)
                   /\ g[s].score = row(s).score /\ g[s].source = row(s).source
  <2>1. f[s] \in Card
    BY DEF Cards
  <2>2. CASE s \notin Subjects(l)
    <3>1. f[s].score \in Nat
      BY <2>1, CardFields
    <3> QED  BY <1>3, <2>1, <2>2, <3>1
  <2>3. CASE s \in Subjects(l)
    <3>1. g[s] = Better(f[s], row(s)) /\ row(s) \in Row
      BY <1>2, <1>4, <2>3
    <3> HIDE DEF row
    <3> QED  BY <2>1, <2>3, <3>1, BetterFacts
  <2> QED  BY <2>2, <2>3
<1>7. ASSUME NEW s \in Subjects(l), s \notin DOMAIN f
      PROVE  /\ g[s] \in Card
             /\ g[s].place = base + Position(l, s)
             /\ row(s).score <= g[s].score
             /\ g[s].score = row(s).score /\ g[s].source = row(s).source
  <2>1. /\ g[s] = FirstCard(row(s), base + Position(l, s))
        /\ row(s) \in Row /\ base + Position(l, s) \in Nat
    BY <1>2, <1>5, <1>7
  <2>2. row(s).score \in Nat
    BY <2>1, RowFields
  <2> HIDE DEF row
  <2> QED  BY <2>1, <2>2, FirstCardFacts
<1>8. Cards(g)
  <2>1. DOMAIN g \subseteq Subject
    BY <1>1, <1>2 DEF Cards
  <2>2. \A s \in DOMAIN g : g[s] \in Card
    BY <1>1, <1>6, <1>7
  <2> QED  BY <2>1, <2>2 DEF Cards
<1>9. \A s \in DOMAIN g \ DOMAIN f :
        s \in Subjects(l) /\ g[s].place = base + Position(l, s)
  BY <1>1, <1>7
<1>10. \A s \in Subjects(l) : row(s).score <= g[s].score
  BY <1>6, <1>7
<1>11. \A s \in DOMAIN g :
         \/ s \in DOMAIN f /\ g[s].score = f[s].score /\ g[s].source = f[s].source
         \/ /\ s \in Subjects(l)
            /\ g[s].score = row(s).score /\ g[s].source = row(s).source
  BY <1>1, <1>6, <1>7
<1> QED  BY <1>1, <1>6, <1>8, <1>9, <1>10, <1>11 DEF g, MergedWell

-----------------------------------------------------------------------------
(* The feed: the merge.  Cards f are settled for the rows read when each   *)
(* card comes from a row, places are distinct, and each row is granted or  *)
(* outdone.                                                                *)

CardsHaveRows(f, rows) ==
    \A s \in DOMAIN f : \E r \in rows :
        r.subject = s /\ r.source = f[s].source /\ r.score = f[s].score

PlacesApart(f, end) ==
    /\ \A s \in DOMAIN f : f[s].place <= end
    /\ \A s, t \in DOMAIN f : f[s].place = f[t].place => s = t

RowsHeard(f, rows) == \A r \in rows : Granted(f, r) \/ Outdone(f, Limit, r)

Settled(f, rows, end) ==
    CardsHaveRows(f, rows) /\ PlacesApart(f, end) /\ RowsHeard(f, rows)

LEMMA NothingSettled ==
    ASSUME NEW end
    PROVE  Settled(NoCards, {}, end) /\ Cards(NoCards)
BY DEF Settled, CardsHaveRows, PlacesApart, RowsHeard, NoCards, Cards

LEMMA LimitPositive == Limit \in Nat /\ Limit > 0
BY FeedConstants

LEMMA MergeSettles ==
    ASSUME NEW f, Cards(f), NEW rows, rows \subseteq Row, NEW base \in Nat,
           Settled(f, rows, base),
           NEW more, more \subseteq Row, IsFiniteSet(more), OnePerSubject(more),
           NEW l \in Listings(more)
    PROVE  /\ Cards(Merged(f, l, base))
           /\ Settled(Merged(f, l, base), rows \cup more, base + Limit)
<1> DEFINE g == Merged(f, l, base)
<1>1. PICK size \in Nat :
        /\ size <= Limit
        /\ l \in [1..size -> more]
        /\ \A i, j \in 1..size : l[i].subject = l[j].subject => i = j
  BY ListingFacts
<1>2. l \in [1..size -> Row] /\ DOMAIN l = 1..size
  BY <1>1
<1>3. /\ Cards(g)
      /\ DOMAIN g = DOMAIN f \cup Subjects(l)
      /\ \A s \in DOMAIN f : g[s].place = f[s].place /\ f[s].score <= g[s].score
      /\ \A s \in DOMAIN g \ DOMAIN f :
           s \in Subjects(l) /\ g[s].place = base + Position(l, s)
      /\ \A s \in Subjects(l) : l[Position(l, s)].score <= g[s].score
      /\ \A s \in DOMAIN g :
           \/ /\ s \in DOMAIN f
              /\ g[s].score = f[s].score /\ g[s].source = f[s].source
           \/ /\ s \in Subjects(l)
              /\ g[s].score = l[Position(l, s)].score
              /\ g[s].source = l[Position(l, s)].source
  <2>1. ListsRows(l)
    BY <1>2 DEF ListsRows
  <2>2. MergedWell(f, l, base)
    BY <2>1, MergedFacts
  <2> QED  BY <2>2 DEF MergedWell
<1> HIDE DEF g
<1>4. /\ \A s \in DOMAIN f : f[s].score \in Nat /\ f[s].place \in Nat
      /\ \A s \in DOMAIN g : g[s].score \in Nat /\ g[s].place \in Nat
      /\ \A r \in rows \cup more : r.score \in Nat
  BY <1>3, CardFields, RowFields DEF Cards
<1>5. \A s \in Subjects(l) : Position(l, s) \in 1..size /\ l[Position(l, s)].subject = s
  BY <1>2, PositionListed
<1>6. CardsHaveRows(g, rows \cup more)
  <2> SUFFICES ASSUME NEW s \in DOMAIN g
               PROVE  \E r \in rows \cup more :
                        r.subject = s /\ r.source = g[s].source /\ r.score = g[s].score
    BY DEF CardsHaveRows
  <2>1. CASE s \in DOMAIN f /\ g[s].score = f[s].score /\ g[s].source = f[s].source
    BY <2>1 DEF Settled, CardsHaveRows
  <2>2. CASE /\ s \in Subjects(l)
             /\ g[s].score = l[Position(l, s)].score
             /\ g[s].source = l[Position(l, s)].source
    <3>1. l[Position(l, s)] \in more /\ l[Position(l, s)].subject = s
      BY <1>1, <1>5, <2>2
    <3> QED  BY <2>2, <3>1
  <2> QED  BY <1>3, <2>1, <2>2
<1>7. PlacesApart(g, base + Limit)
  <2>1. \A s \in DOMAIN g \ DOMAIN f :
          /\ s \in Subjects(l) /\ Position(l, s) \in 1..size
          /\ g[s].place = base + Position(l, s)
    BY <1>3, <1>5
  <2>2. \A s \in DOMAIN f : g[s].place \in Nat /\ g[s].place <= base
    BY <1>3, <1>4 DEF Settled, PlacesApart
  <2>3. \A s \in DOMAIN g : g[s].place <= base + Limit
    <3> TAKE s \in DOMAIN g
    <3>1. CASE s \in DOMAIN f
      BY <2>2, <3>1, LimitPositive
    <3>2. CASE s \notin DOMAIN f
      BY <1>1, <2>1, <3>2, LimitPositive
    <3> QED  BY <3>1, <3>2
  <2>4. ASSUME NEW s \in DOMAIN g, NEW t \in DOMAIN g, g[s].place = g[t].place
        PROVE  s = t
    <3>1. CASE s \in DOMAIN f /\ t \in DOMAIN f
      BY <1>3, <2>4, <3>1 DEF Settled, PlacesApart
    <3>2. CASE s \in DOMAIN f /\ t \notin DOMAIN f
      BY <2>1, <2>2, <2>4, <3>2
    <3>3. CASE s \notin DOMAIN f /\ t \in DOMAIN f
      BY <2>1, <2>2, <2>4, <3>3
    <3>4. CASE s \notin DOMAIN f /\ t \notin DOMAIN f
      <4>1. Position(l, s) = Position(l, t) /\ s \in Subjects(l) /\ t \in Subjects(l)
        BY <2>1, <2>4, <3>4
      <4> QED  BY <1>5, <4>1
    <3> QED  BY <3>1, <3>2, <3>3, <3>4
  <2> QED  BY <2>3, <2>4 DEF PlacesApart
<1>8. ASSUME NEW r \in rows
      PROVE  Granted(g, r) \/ Outdone(g, Limit, r)
  <2>1. CASE Granted(f, r)
    <3>1. /\ r.subject \in DOMAIN f /\ r.subject \in DOMAIN g
          /\ r.score <= f[r.subject].score /\ f[r.subject].score <= g[r.subject].score
      BY <1>3, <2>1 DEF Granted
    <3>2. r.score \in Nat /\ f[r.subject].score \in Nat /\ g[r.subject].score \in Nat
      BY <1>4, <3>1
    <3> QED  BY <3>1, <3>2 DEF Granted
  <2>2. CASE Outdone(f, Limit, r)
    <3>1. PICK T \in SUBSET DOMAIN f :
            Cardinality(T) = Limit /\ \A t \in T : r.score <= f[t].score
      BY <2>2 DEF Outdone
    <3>2. T \in SUBSET DOMAIN g
      BY <1>3
    <3>3. ASSUME NEW t \in T
          PROVE  r.score <= g[t].score
      <4>1. r.score <= f[t].score /\ f[t].score <= g[t].score
        BY <1>3, <3>1
      <4>2. r.score \in Nat /\ f[t].score \in Nat /\ g[t].score \in Nat
        BY <1>4, <3>2
      <4> QED  BY <4>1, <4>2
    <3> QED  BY <3>1, <3>2, <3>3 DEF Outdone
  <2> QED  BY <2>1, <2>2 DEF Settled, RowsHeard
<1>9. ASSUME NEW r \in more
      PROVE  Granted(g, r) \/ Outdone(g, Limit, r)
  <2>1. CASE r \in Range(l)
    <3>1. PICK i \in 1..size : l[i] = r
      BY <1>2, <2>1 DEF Range
    <3>2. r.subject \in Subjects(l)
      BY <1>2, <3>1 DEF Subjects
    <3>3. Position(l, r.subject) = i
      BY <1>1, <1>5, <3>1, <3>2
    <3>4. r.score <= g[r.subject].score
      BY <1>3, <3>1, <3>2, <3>3
    <3> QED  BY <1>3, <3>2, <3>4 DEF Granted
  <2>2. CASE r \notin Range(l)
    <3>1. /\ Cardinality(Subjects(l)) = Limit
          /\ \A i \in DOMAIN l : r.score <= l[i].score
      BY <2>2, CutOffIsOutdone
    <3>2. Subjects(l) \in SUBSET DOMAIN g
      BY <1>3
    <3>3. ASSUME NEW t \in Subjects(l)
          PROVE  r.score <= g[t].score
      <4>1. Position(l, t) \in DOMAIN l
        BY <1>2, <1>5
      <4>2. /\ r.score <= l[Position(l, t)].score
            /\ l[Position(l, t)].score <= g[t].score
        BY <1>3, <3>1, <4>1
      <4>3. l[Position(l, t)].score \in Nat /\ g[t].score \in Nat /\ r.score \in Nat
        BY <1>2, <1>4, <3>2, <4>1, RowFields
      <4> QED  BY <4>2, <4>3
    <3> QED  BY <3>1, <3>2, <3>3 DEF Outdone
  <2> QED  BY <2>1, <2>2
<1>10. RowsHeard(g, rows \cup more)
  BY <1>8, <1>9 DEF RowsHeard
<1> QED  BY <1>3, <1>6, <1>7, <1>10 DEF Settled, g

\* Cards that are settled can be cut.
LEMMA SettledIsOrdered ==
    ASSUME NEW f, Cards(f), NEW rows, NEW end, Settled(f, rows, end)
    PROVE  Ordered(f)
<1>1. IsFiniteSet(DOMAIN f)
  BY FS_Subset, FeedConstants DEF Cards
<1>2. \A s \in DOMAIN f : f[s].score \in Nat /\ f[s].place \in Nat
  BY CardFields DEF Cards
<1> QED  BY <1>1, <1>2 DEF Ordered, Settled, PlacesApart

CutOf(f) == [s \in Top(f, Limit) |-> f[s]]

\* What readDiscoverMerged answers: the best card of each subject shown, and nothing
\* better left out.
LEMMA CutIsRight ==
    ASSUME NEW f, Cards(f), NEW rows, rows \subseteq Row, NEW end, Settled(f, rows, end)
    PROVE  LET g == CutOf(f) IN
           /\ Cards(g)
           /\ \A s \in DOMAIN g :
                /\ \E r \in rows :
                     r.subject = s /\ r.source = g[s].source /\ r.score = g[s].score
                /\ \A r \in rows : r.subject = s => r.score <= g[s].score
           /\ \A r \in rows : r.subject \notin DOMAIN g =>
                /\ Cardinality(DOMAIN g) = Limit
                /\ \A s \in DOMAIN g : r.score <= g[s].score
<1> DEFINE g == CutOf(f)
<1>1. Ordered(f)
  BY SettledIsOrdered
<1>2. DOMAIN g = Top(f, Limit) /\ Top(f, Limit) \subseteq DOMAIN f
  BY DEF Top, CutOf
<1>3. \A s \in DOMAIN g : s \in DOMAIN f /\ g[s] = f[s]
  BY <1>2 DEF CutOf
<1> HIDE DEF g
<1>4. \A r \in rows : r.score \in Nat /\ (Granted(f, r) \/ Outdone(f, Limit, r))
  BY RowFields DEF Settled, RowsHeard
<1>5. Cards(g)
  BY <1>3 DEF Cards
<1>6. ASSUME NEW s \in DOMAIN g
      PROVE  /\ \E r \in rows :
                  r.subject = s /\ r.source = g[s].source /\ r.score = g[s].score
             /\ \A r \in rows : r.subject = s => r.score <= g[s].score
  <2>1. \E r \in rows : r.subject = s /\ r.source = f[s].source /\ r.score = f[s].score
    BY <1>3 DEF Settled, CardsHaveRows
  <2>2. \A r \in rows : r.subject = s => r.score <= f[s].score
    BY <1>1, <1>2, <1>4, LimitPositive, CutKeepsBest
  <2> QED  BY <1>3, <2>1, <2>2
<1>7. ASSUME NEW r \in rows, r.subject \notin DOMAIN g
      PROVE  /\ Cardinality(DOMAIN g) = Limit
             /\ \A s \in DOMAIN g : r.score <= g[s].score
  <2>1. /\ Cardinality(Top(f, Limit)) = Limit
        /\ \A s \in Top(f, Limit) : r.score <= f[s].score
    BY <1>1, <1>2, <1>4, <1>7, LimitPositive, CutDropsWorst
  <2> QED  BY <1>2, <1>3, <2>1
<1> QED  BY <1>5, <1>6, <1>7 DEF g

-----------------------------------------------------------------------------
(* The feed: its invariant. *)

\* The primary key of discover_candidates.
TableInv ==
    /\ IsFiniteSet(candidates)
    /\ \A r, q \in candidates : r.source = q.source /\ r.subject = q.subject => r = q

\* What readDiscoverMerged has gathered when it serves a request.
MergeInv == turn # 0 => feed = None /\ Settled(found, read, turn * Limit)

AnswerInv == BestCardWins /\ NothingBetterLeftOut

FeedInv == FeedTypeOK /\ TableInv /\ MergeInv /\ AnswerInv

LEMMA FeedInitInv ==
    FeedInit => FeedInv
<1> SUFFICES ASSUME FeedInit
             PROVE  FeedInv
  OBVIOUS
<1>1. FeedTypeOK
  BY NothingSettled, FeedConstants DEF FeedInit, FeedTypeOK, Cards
<1>2. TableInv
  BY FS_EmptySet DEF FeedInit, TableInv
<1> QED  BY <1>1, <1>2
         DEF FeedInit, FeedInv, MergeInv, AnswerInv, BestCardWins, NothingBetterLeftOut

\* The rows that a query may list.
LEMMA LiveRows ==
    ASSUME FeedTypeOK, TableInv, NEW source
    PROVE  /\ Live(source) \subseteq Row /\ IsFiniteSet(Live(source))
           /\ OnePerSubject(Live(source))
<1>1. Live(source) \in SUBSET candidates
  BY DEF Live
<1>2. IsFiniteSet(Live(source))
  BY <1>1, FS_Subset DEF TableInv
<1>3. OnePerSubject(Live(source))
  BY DEF Live, OnePerSubject, TableInv
<1> QED  BY <1>1, <1>2, <1>3 DEF FeedTypeOK

LEMMA UpsertKeepsInv ==
    ASSUME FeedInv, NEW source \in Source, NEW subject \in Subject, NEW score \in Score,
           UpsertCandidate(source, subject, score)
    PROVE  FeedInv'
<1> DEFINE others == {r \in candidates : r.source # source \/ r.subject # subject}
           row == [source |-> source, subject |-> subject,
                   score |-> score, expires |-> now + TTL]
<1>1. candidates' = others \cup {row} /\ UNCHANGED <<now, turn, found, feed, read>>
  BY DEF UpsertCandidate
<1>2. row \in Row
  BY FeedConstants DEF FeedInv, FeedTypeOK, Row
<1>3. FeedTypeOK'
  <2>1. candidates' \subseteq Row
    BY <1>1, <1>2 DEF FeedInv, FeedTypeOK
  <2> QED  BY <1>1, <2>1 DEF FeedInv, FeedTypeOK
<1>4. TableInv'
  <2>1. others \in SUBSET candidates /\ IsFiniteSet(candidates)
    BY DEF FeedInv, TableInv
  <2>2. IsFiniteSet(others)
    BY <2>1, FS_Subset
  <2>3. IsFiniteSet(candidates')
    BY <1>1, <2>2, FS_AddElement
  <2>4. \A r, q \in others \cup {row} :
          r.source = q.source /\ r.subject = q.subject => r = q
    BY DEF FeedInv, TableInv
  <2> QED  BY <1>1, <2>3, <2>4 DEF TableInv
<1>5. MergeInv' /\ AnswerInv'
  BY <1>1 DEF FeedInv, MergeInv, AnswerInv, BestCardWins, NothingBetterLeftOut
<1> QED  BY <1>3, <1>4, <1>5 DEF FeedInv

LEMMA FeedTickKeepsInv ==
    ASSUME FeedInv, Tick
    PROVE  FeedInv'
<1>1. now' \in Nat /\ UNCHANGED <<candidates, turn, found, feed, read>>
  BY DEF FeedInv, FeedTypeOK, Tick
<1> QED  BY <1>1 DEF FeedInv, FeedTypeOK, TableInv, MergeInv, AnswerInv, BestCardWins,
                     NothingBetterLeftOut

LEMMA BeginKeepsInv ==
    ASSUME FeedInv, Begin
    PROVE  FeedInv'
<1>1. /\ turn' = 1 /\ found' = NoCards /\ feed' = None /\ read' = {}
      /\ UNCHANGED <<now, candidates>>
  BY DEF Begin
<1>2. FeedTypeOK'
  <2>1. 1 \in 0..(Len(Order) + 1)
    BY FeedConstants
  <2> QED  BY <1>1, <2>1, NothingSettled DEF FeedInv, FeedTypeOK, Cards
<1>3. MergeInv'
  BY <1>1, NothingSettled DEF MergeInv
<1> QED  BY <1>1, <1>2, <1>3
         DEF FeedInv, TableInv, AnswerInv, BestCardWins, NothingBetterLeftOut

LEMMA ReadSourceKeepsInv ==
    ASSUME FeedInv, ReadSource
    PROVE  FeedInv'
<1> DEFINE more == Live(Order[turn])
           base == turn * Limit
<1>1. /\ turn \in Turn /\ turn' = turn + 1 /\ read' = read \cup more
      /\ UNCHANGED <<now, candidates, feed>>
  BY DEF ReadSource
<1>2. PICK listing \in Listings(more) : found' = Merged(found, listing, base)
  BY MergeIsMerged DEF ReadSource
<1>3. Len(Order) \in Nat /\ turn \in Nat /\ turn # 0 /\ turn <= Len(Order)
  BY <1>1, FeedConstants DEF Turn
<1>4. base \in Nat /\ (turn + 1) * Limit = base + Limit
  BY <1>3, LimitPositive
<1>5. more \subseteq Row /\ IsFiniteSet(more) /\ OnePerSubject(more)
  BY LiveRows DEF FeedInv
<1>6. Cards(found) /\ read \subseteq Row /\ Settled(found, read, base) /\ feed = None
  BY <1>3 DEF FeedInv, FeedTypeOK, MergeInv, Cards
<1> HIDE DEF more, base
<1>7. Cards(found') /\ Settled(found', read', base + Limit)
  BY <1>1, <1>2, <1>4, <1>5, <1>6, MergeSettles
<1>8. FeedTypeOK'
  <2>1. turn' \in 0..(Len(Order) + 1)
    BY <1>1, <1>3
  <2> QED  BY <1>1, <1>5, <1>6, <1>7, <2>1 DEF FeedInv, FeedTypeOK, Cards
<1>9. MergeInv'
  BY <1>1, <1>4, <1>6, <1>7 DEF MergeInv
<1> QED  BY <1>1, <1>6, <1>8, <1>9
         DEF FeedInv, TableInv, AnswerInv, BestCardWins, NothingBetterLeftOut

LEMMA ReadFailsKeepsInv ==
    ASSUME FeedInv, ReadFails
    PROVE  FeedInv'
<1>1. /\ turn' = 0 /\ found' = NoCards
      /\ UNCHANGED <<now, candidates, feed, read>>
  BY DEF ReadFails
<1>2. FeedTypeOK'
  <2>1. 0 \in 0..(Len(Order) + 1)
    BY FeedConstants
  <2> QED  BY <1>1, <2>1, NothingSettled DEF FeedInv, FeedTypeOK, Cards
<1> QED  BY <1>1, <1>2
         DEF FeedInv, TableInv, MergeInv, AnswerInv, BestCardWins, NothingBetterLeftOut

LEMMA ShownIsTop == Shown = Top(found, Limit)
BY DEF Shown, Top, AheadOf, Ahead, Before

LEMMA AnswerKeepsInv ==
    ASSUME FeedInv, Answer
    PROVE  FeedInv'
<1>1. /\ turn = Len(Order) + 1
      /\ feed' = CutOf(found)
      /\ turn' = 0 /\ found' = NoCards
      /\ UNCHANGED <<now, candidates, read>>
  BY ShownIsTop DEF Answer, CutOf
<1>2. turn # 0
  BY <1>1, FeedConstants
<1>3. Cards(found) /\ read \subseteq Row /\ Settled(found, read, turn * Limit)
  BY <1>2 DEF FeedInv, FeedTypeOK, MergeInv, Cards
<1>4. /\ Cards(feed')
      /\ \A s \in DOMAIN feed' :
           /\ \E r \in read :
                r.subject = s /\ r.source = feed'[s].source /\ r.score = feed'[s].score
           /\ \A r \in read : r.subject = s => r.score <= feed'[s].score
      /\ \A r \in read : r.subject \notin DOMAIN feed' =>
           /\ Cardinality(DOMAIN feed') = Limit
           /\ \A s \in DOMAIN feed' : r.score <= feed'[s].score
  BY <1>1, <1>3, CutIsRight
<1>5. FeedTypeOK'
  <2>1. 0 \in 0..(Len(Order) + 1)
    BY FeedConstants
  <2> QED  BY <1>1, <1>4, <2>1, NothingSettled DEF FeedInv, FeedTypeOK, Cards
<1>6. BestCardWins'
  BY <1>1, <1>4 DEF BestCardWins
<1>7. NothingBetterLeftOut'
  <2> SUFFICES ASSUME NEW r \in read, r.subject \notin DOMAIN feed'
               PROVE  /\ Cardinality(DOMAIN feed') = Limit
                      /\ \A s \in DOMAIN feed' : feed'[s].score >= r.score
    BY <1>1 DEF NothingBetterLeftOut
  <2>1. \A s \in DOMAIN feed' : r.score \in Nat /\ feed'[s].score \in Nat
    BY <1>3, <1>4, CardFields, RowFields DEF Cards
  <2> QED  BY <1>4, <2>1
<1> QED  BY <1>1, <1>5, <1>6, <1>7 DEF FeedInv, TableInv, MergeInv, AnswerInv

\* FeedInv holds throughout.
THEOREM FeedInductive ==
    FeedSpec => []FeedInv
<1>1. ASSUME FeedInv, [FeedNext]_feedVars
      PROVE  FeedInv'
  <2>1. CASE UNCHANGED feedVars
    BY <1>1, <2>1 DEF feedVars, FeedInv, FeedTypeOK, TableInv, MergeInv, AnswerInv,
                      BestCardWins, NothingBetterLeftOut
  <2>2. ASSUME NEW source \in Source, NEW subject \in Subject, NEW score \in Score,
               UpsertCandidate(source, subject, score)
        PROVE  FeedInv'
    BY <1>1, <2>2, UpsertKeepsInv
  <2>3. CASE Tick
    BY <1>1, <2>3, FeedTickKeepsInv
  <2>4. CASE Begin
    BY <1>1, <2>4, BeginKeepsInv
  <2>5. CASE ReadSource
    BY <1>1, <2>5, ReadSourceKeepsInv
  <2>6. CASE ReadFails
    BY <1>1, <2>6, ReadFailsKeepsInv
  <2>7. CASE Answer
    BY <1>1, <2>7, AnswerKeepsInv
  <2> QED  BY <1>1, <2>1, <2>2, <2>3, <2>4, <2>5, <2>6, <2>7 DEF FeedNext
<1> QED  BY FeedInitInv, <1>1, PTL DEF FeedSpec

\* The table holds rows and the answer holds cards of subjects, for any sources, limit
\* and number of candidates.
THEOREM FeedTypeCorrect ==
    FeedSpec => []FeedTypeOK
<1>1. FeedInv => FeedTypeOK
  BY DEF FeedInv
<1> QED  BY FeedInductive, <1>1, PTL

\* "The winner is the row with the highest raw_score", although each source is cut before
\* the merge and written to between the queries.
THEOREM BestCardWinsHolds ==
    FeedSpec => []BestCardWins
<1>1. FeedInv => BestCardWins
  BY DEF FeedInv, AnswerInv
<1> QED  BY FeedInductive, <1>1, PTL

\* A subject that is left out was read with no score above a card's, and the cut is full.
THEOREM NothingBetterLeftOutHolds ==
    FeedSpec => []NothingBetterLeftOut
<1>1. FeedInv => NothingBetterLeftOut
  BY DEF FeedInv, AnswerInv
<1> QED  BY FeedInductive, <1>1, PTL

-----------------------------------------------------------------------------
(* The page, FeedClient, which shares the streams with the hub. *)

CONSTANTS Sync, MaxFetch, MaxChanges
VARIABLES at, pending, bell, over, changes, sync, copied, page, post, asked, answers, promised

Page == INSTANCE FeedClient WITH read <- answers

\* Types, as far as the proof needs them.
ClientTypeOK ==
    /\ pending \in [Stream -> Nat]
    /\ changes \in Seq(Page!Statuses) /\ Page!Version <= MaxChanges
    /\ page \in [open : BOOLEAN, stream : Stream \cup {None},
                 stage : {"idle", "connecting", "loading", "ready"}, asOf : 0..MaxChanges]
    /\ asked \in Nat /\ answers \in [0..MaxChanges -> Nat]
    /\ promised \in 0..MaxChanges

\* Nobody has seen or promised a version that there is not yet.
NoFuture ==
    /\ page.asOf <= Page!Version /\ promised <= Page!Version
    /\ \A v \in 0..MaxChanges : answers[v] > 0 => v <= Page!Version

\* The safety half of PageCatchesUp.
NothingForgotten ==
    promised # 0 => \/ Page!Shows(promised)
                    \/ Page!Carried(promised, page.stream, pending, asked, answers)

ClientInv == ClientTypeOK /\ NoFuture /\ NothingForgotten

LEMMA PageInitInv ==
    ASSUME Page!ClientConstants, Page!Init
    PROVE  ClientInv
<1>1. page.asOf = 0 /\ promised = 0 /\ Page!Version = 0
  BY DEF Page!Init, Page!NoPage, Page!Version
<1>2. /\ page \in [open : BOOLEAN, stream : Stream \cup {None},
                   stage : {"idle", "connecting", "loading", "ready"}, asOf : 0..MaxChanges]
      /\ answers \in [0..MaxChanges -> Nat] /\ promised \in 0..MaxChanges
      /\ \A v \in 0..MaxChanges : answers[v] = 0
  BY <1>1 DEF Page!Init, Page!NoPage, Page!ClientConstants
<1> QED  BY <1>1, <1>2 DEF Page!Init, Page!Version, Page!WakeupInit, Page!ClientConstants,
                         ClientInv, ClientTypeOK, NoFuture, NothingForgotten

\* How many versions there are.
LEMMA VersionFacts ==
    ASSUME Page!ClientConstants, ClientInv
    PROVE  /\ MaxChanges \in Nat /\ Page!Version \in Nat /\ Page!Version <= MaxChanges
           /\ page.asOf \in Nat /\ page.asOf <= Page!Version
           /\ promised \in Nat /\ promised <= Page!Version
BY DEF Page!ClientConstants, Page!Version, ClientInv, ClientTypeOK, NoFuture

\* A step that the page takes no part in, which may change the feed: what the page shows
\* stays right, since a change is appended and the page shows no version still to come.
LEMMA ServerKeepsInv ==
    ASSUME Page!ClientConstants, ClientInv,
           UNCHANGED <<pending, page, asked, answers, promised>>,
           changes' = changes \/ \E status \in Page!Statuses : Page!Change(status)
    PROVE  ClientInv'
<1>1. CASE changes' = changes
  BY <1>1 DEF ClientInv, ClientTypeOK, NoFuture, NothingForgotten, Page!Version,
              Page!Shows, Page!StageOf
<1>2. CASE \E status \in Page!Statuses : Page!Change(status)
  <2>1. PICK status \in Page!Statuses : Page!Change(status)
    BY <1>2
  <2>2. /\ changes \in Seq(Page!Statuses) /\ Len(changes) < MaxChanges
        /\ changes' = Append(changes, status)
    BY <2>1 DEF ClientInv, ClientTypeOK, Page!Change
  <2>3. /\ changes' \in Seq(Page!Statuses) /\ Len(changes') = Len(changes) + 1
        /\ Len(changes) \in Nat
        /\ \A i \in 1..Len(changes) : changes'[i] = changes[i]
    BY <2>2
  <2>4. /\ Page!Version' <= MaxChanges /\ Page!Version' = Page!Version + 1
        /\ Page!Version \in Nat /\ Page!Version = Len(changes)
    BY <2>2, <2>3, VersionFacts DEF Page!Version
  <2>5. ClientTypeOK'
    BY <2>3, <2>4 DEF ClientInv, ClientTypeOK
  <2>6. NoFuture'
    BY <2>4, VersionFacts DEF ClientInv, NoFuture
  <2>7. page.asOf = 0 \/ changes'[page.asOf] = changes[page.asOf]
    BY <2>3, <2>4, VersionFacts
  <2>8. NothingForgotten'
    BY <2>7 DEF ClientInv, NothingForgotten, Page!Shows, Page!StageOf
  <2> QED  BY <2>5, <2>6, <2>8 DEF ClientInv
<1> QED  BY <1>1, <1>2

\* A step that may lose what carried the promise, which is then taken back.
LEMMA FaultKeepsInv ==
    ASSUME Page!ClientConstants, ClientInv, Page!Fault,
           UNCHANGED <<pending, changes>>,
           page' \in [open : BOOLEAN, stream : Stream \cup {None},
                      stage : {"idle", "connecting", "loading", "ready"},
                      asOf : 0..MaxChanges],
           page'.asOf <= Page!Version,
           asked' \in Nat, answers' \in [0..MaxChanges -> Nat],
           \A v \in 0..MaxChanges : answers'[v] <= answers[v]
    PROVE  ClientInv'
<1>1. promised' = promised \/ promised' = 0
  BY DEF Page!Fault
<1>2. ClientTypeOK'
  <2>1. promised' \in 0..MaxChanges
    BY <1>1, VersionFacts
  <2>2. Page!Version' = Page!Version
    BY DEF Page!Version
  <2> QED  BY <2>1, <2>2 DEF ClientInv, ClientTypeOK
<1>3. NoFuture'
  <2>1. promised' <= Page!Version' /\ page'.asOf <= Page!Version'
    BY <1>1, VersionFacts DEF Page!Version
  <2>2. ASSUME NEW v \in 0..MaxChanges, answers'[v] > 0
        PROVE  v <= Page!Version'
    <3>1. answers[v] > 0
      BY <2>2 DEF ClientInv, ClientTypeOK
    <3> QED  BY <3>1 DEF ClientInv, NoFuture, Page!Version
  <2> QED  BY <2>1, <2>2 DEF NoFuture
<1>4. NothingForgotten'
  BY DEF Page!Fault, NothingForgotten, Page!Carried
<1> QED  BY <1>2, <1>3, <1>4 DEF ClientInv

LEMMA PageRecord ==
    ASSUME ClientInv
    PROVE  /\ page.open \in BOOLEAN /\ page.stream \in Stream \cup {None}
           /\ page.stage \in {"idle", "connecting", "loading", "ready"}
           /\ page.asOf \in 0..MaxChanges
           /\ pending \in [Stream -> Nat] /\ changes \in Seq(Page!Statuses)
           /\ asked \in Nat /\ answers \in [0..MaxChanges -> Nat]
           /\ promised \in 0..MaxChanges
BY DEF ClientInv, ClientTypeOK

LEMMA StageOfVersion ==
    ASSUME NEW v \in Nat
    PROVE  Page!StageOf(v) \in {"idle", "loading", "ready"}
BY DEF Page!StageOf

LEMMA FetchFailsKeepsInv ==
    ASSUME Page!ClientConstants, ClientInv, Page!FetchFails
    PROVE  ClientInv'
<1>1. /\ asked > 0 /\ asked' = asked - 1 /\ Page!Fault
      /\ UNCHANGED <<pending, changes, page, answers>>
  BY DEF Page!FetchFails, Page!wakeup, Page!server
<1>2. page.asOf <= Page!Version
  BY VersionFacts
<1>3. \A v \in 0..MaxChanges : answers[v] <= answers[v]
  BY PageRecord
<1>4. asked' \in Nat
  BY <1>1, PageRecord
<1> QED  BY <1>1, <1>2, <1>3, <1>4, PageRecord, FaultKeepsInv DEF ClientInv, ClientTypeOK

\* One answer fewer.
LEMMA AnswerTaken ==
    ASSUME ClientInv, NEW n \in 0..MaxChanges, answers[n] > 0,
           answers' = [answers EXCEPT ![n] = @ - 1]
    PROVE  /\ answers' \in [0..MaxChanges -> Nat]
           /\ \A v \in 0..MaxChanges : answers'[v] <= answers[v]
           /\ \A v \in 0..MaxChanges : v # n => answers'[v] = answers[v]
<1>1. answers \in [0..MaxChanges -> Nat]
  BY PageRecord
<1>2. \A v \in 0..MaxChanges :
        answers[v] \in Nat /\ answers'[v] = IF v = n THEN answers[n] - 1 ELSE answers[v]
  BY <1>1
<1>3. answers'[n] \in Nat /\ answers'[n] <= answers[n]
  BY <1>2
<1>4. answers' \in [0..MaxChanges -> Nat]
  BY <1>1, <1>3
<1>5. \A v \in 0..MaxChanges : v # n => answers'[v] = answers[v]
  BY <1>2
<1>6. \A v \in 0..MaxChanges : answers'[v] <= answers[v]
  BY <1>2, <1>3
<1> QED  BY <1>4, <1>5, <1>6

LEMMA AnswerFailsKeepsInv ==
    ASSUME Page!ClientConstants, ClientInv, NEW n \in 0..MaxChanges, Page!AnswerFails(n)
    PROVE  ClientInv'
<1>1. /\ answers[n] > 0 /\ answers' = [answers EXCEPT ![n] = @ - 1] /\ Page!Fault
      /\ UNCHANGED <<pending, changes, page, asked>>
  BY DEF Page!AnswerFails, Page!wakeup, Page!server
<1>2. page.asOf <= Page!Version
  BY VersionFacts
<1>3. /\ answers' \in [0..MaxChanges -> Nat]
      /\ \A v \in 0..MaxChanges : answers'[v] <= answers[v]
  BY <1>1, AnswerTaken
<1> QED  BY <1>1, <1>2, <1>3, FaultKeepsInv DEF ClientInv, ClientTypeOK

\* An answer that is older than what is shown is a fault; a newer one keeps the promise
\* or was not what carried it.
LEMMA ApplyFeedKeepsInv ==
    ASSUME Page!ClientConstants, ClientInv, NEW n \in 0..MaxChanges, Page!ApplyFeed(n)
    PROVE  ClientInv'
<1>1. /\ answers[n] > 0 /\ answers' = [answers EXCEPT ![n] = @ - 1]
      /\ page' = [page EXCEPT !.asOf = n, !.stage = Page!StageOf(n)]
      /\ UNCHANGED <<pending, changes, asked>>
  BY DEF Page!ApplyFeed, Page!wakeup, Page!server
<1>2. n \in Nat /\ n <= Page!Version
  BY <1>1, VersionFacts DEF ClientInv, NoFuture
<1>3. /\ answers' \in [0..MaxChanges -> Nat]
      /\ \A v \in 0..MaxChanges : answers'[v] <= answers[v]
      /\ \A v \in 0..MaxChanges : v # n => answers'[v] = answers[v]
  BY <1>1, AnswerTaken
<1>4. /\ page'.asOf = n /\ page'.stage = Page!StageOf(n) /\ page'.stream = page.stream
      /\ page' \in [open : BOOLEAN, stream : Stream \cup {None},
                    stage : {"idle", "connecting", "loading", "ready"},
                    asOf : 0..MaxChanges]
  <2>1. Page!StageOf(n) \in {"idle", "connecting", "loading", "ready"}
    BY <1>2, StageOfVersion
  <2> HIDE DEF Page!StageOf
  <2> QED  BY <1>1, <2>1 DEF ClientInv, ClientTypeOK
<1>5. CASE n < page.asOf
  <2>1. Page!Fault
    BY <1>5 DEF Page!ApplyFeed
  <2> QED  BY <1>1, <1>2, <1>3, <1>4, <2>1, FaultKeepsInv DEF ClientInv, ClientTypeOK
<1>6. CASE ~(n < page.asOf)
  <2>1. promised' = promised
    BY <1>6 DEF Page!ApplyFeed
  <2>2. Page!Version' = Page!Version
    BY <1>1 DEF Page!Version
  <2>3. ClientTypeOK'
    BY <1>1, <1>3, <1>4, <2>1, <2>2 DEF ClientInv, ClientTypeOK
  <2>4. NoFuture'
    <3>1. ASSUME NEW v \in 0..MaxChanges, answers'[v] > 0
          PROVE  v <= Page!Version
      <4>1. answers[v] > 0
        BY <1>3, <3>1, PageRecord
      <4> QED  BY <4>1 DEF ClientInv, NoFuture
    <3> QED  BY <1>2, <1>4, <2>1, <2>2, <3>1, VersionFacts DEF NoFuture
  <2>5. NothingForgotten'
    <3> SUFFICES ASSUME promised # 0, ~(promised <= n)
                 PROVE  Page!Carried(promised, page.stream, pending, asked, answers')
      <4>1. Page!StageOf(n)' = Page!StageOf(n)
        BY <1>1 DEF Page!StageOf
      <4>2. CASE promised <= n
        <5>1. page'.asOf >= promised /\ page'.asOf = n /\ page'.stage = Page!StageOf(n)'
          BY <1>2, <1>4, <4>1, <4>2, VersionFacts
        <5>2. Page!Shows(promised)'
          BY <2>1, <5>1 DEF Page!Shows
        <5> QED  BY <5>2 DEF NothingForgotten
      <4>3. CASE ~(promised <= n)
        BY <1>1, <1>4, <2>1, <4>3 DEF NothingForgotten, Page!Carried
      <4> QED  BY <4>2, <4>3
    <3>1. ~Page!Shows(promised)
      BY <1>2, <1>6, VersionFacts DEF Page!Shows
    <3>2. Page!Carried(promised, page.stream, pending, asked, answers)
      BY <3>1 DEF ClientInv, NothingForgotten
    <3>3. CASE \E v \in promised..MaxChanges : answers[v] > 0
      <4>1. PICK v \in promised..MaxChanges : answers[v] > 0
        BY <3>3
      <4>2. v \in 0..MaxChanges /\ v # n
        BY <1>2, VersionFacts
      <4>3. answers'[v] > 0
        BY <1>3, <4>1, <4>2
      <4> QED  BY <4>3 DEF Page!Carried
    <3> QED  BY <3>2, <3>3 DEF Page!Carried
  <2> QED  BY <2>3, <2>4, <2>5 DEF ClientInv
<1> QED  BY <1>5, <1>6

\* The handler's first statement reads a version no older than what was promised.
LEMMA ReadFeedKeepsInv ==
    ASSUME Page!ClientConstants, ClientInv, Page!ReadFeed
    PROVE  ClientInv'
<1> DEFINE n == Page!Version
<1>1. /\ asked > 0 /\ asked' = asked - 1 /\ answers' = [answers EXCEPT ![n] = @ + 1]
      /\ UNCHANGED <<pending, changes, page, promised>>
  BY DEF Page!ReadFeed, Page!wakeup, Page!server
<1>2. /\ n \in 0..MaxChanges /\ promised <= n /\ promised \in Nat /\ n' = n
  BY <1>1, VersionFacts DEF Page!Version
<1>3. answers \in [0..MaxChanges -> Nat] /\ asked' \in Nat
  BY <1>1, PageRecord
<1> HIDE DEF n
<1>4. /\ answers' \in [0..MaxChanges -> Nat] /\ answers'[n] > 0
      /\ \A v \in 0..MaxChanges : v # n => answers'[v] = answers[v]
  <2>1. answers[n] \in Nat
    BY <1>2, <1>3
  <2> QED  BY <1>1, <1>2, <1>3, <2>1
<1>5. ClientTypeOK'
  BY <1>1, <1>2, <1>3, <1>4 DEF ClientInv, ClientTypeOK, n
<1>6. NoFuture'
  <2>1. \A v \in 0..MaxChanges : answers'[v] > 0 => v <= n
    BY <1>2, <1>4 DEF ClientInv, NoFuture, n
  <2> QED  BY <1>1, <1>2, <2>1 DEF ClientInv, NoFuture, n
<1>7. n \in promised..MaxChanges
  BY <1>2
<1>8. Page!Carried(promised, page.stream, pending, asked', answers')
  BY <1>4, <1>7 DEF Page!Carried
<1> QED  BY <1>1, <1>5, <1>6, <1>8 DEF ClientInv, NothingForgotten, Page!Carried

\* A step that keeps the promise and its requests and answers, or adds a request, and
\* leaves the stream of the page no less to be woken.
LEMMA CarriesOn ==
    ASSUME Page!ClientConstants, ClientInv,
           UNCHANGED <<changes, answers, promised>>,
           pending' \in [Stream -> Nat], asked' \in Nat,
           page' \in [open : BOOLEAN, stream : Stream \cup {None},
                      stage : {"idle", "connecting", "loading", "ready"},
                      asOf : 0..MaxChanges],
           page'.asOf = page.asOf,
           \/ asked' > 0
           \/ /\ asked' = asked /\ page'.stage = page.stage
              /\ page.stream # None =>
                   page'.stream = page.stream /\ pending'[page.stream] >= pending[page.stream]
    PROVE  ClientInv'
<1>1. Page!Version' = Page!Version
  BY DEF Page!Version
<1>2. ClientTypeOK' /\ NoFuture'
  BY <1>1 DEF ClientInv, ClientTypeOK, NoFuture
<1>3. CASE asked' > 0
  BY <1>2, <1>3 DEF ClientInv, NothingForgotten, Page!Carried
<1>4. CASE /\ asked' = asked /\ page'.stage = page.stage
           /\ page.stream # None =>
                page'.stream = page.stream /\ pending'[page.stream] >= pending[page.stream]
  <2>1. CASE promised = 0
    BY <1>2, <2>1 DEF ClientInv, NothingForgotten
  <2>2. CASE Page!Shows(promised)
    <3>1. Page!Shows(promised)'
      BY <1>4, <2>2 DEF Page!Shows, Page!StageOf
    <3> QED  BY <1>2, <3>1 DEF ClientInv, NothingForgotten
  <2>3. CASE Page!Carried(promised, page.stream, pending, asked, answers)
    <3>1. CASE page.stream # None /\ pending[page.stream] > 0
      <4>1. page.stream \in Stream
        BY <3>1, PageRecord
      <4>2. pending[page.stream] \in Nat /\ pending'[page.stream] \in Nat
        BY <4>1, PageRecord
      <4>3. page'.stream # None /\ pending'[page'.stream] > 0
        BY <1>4, <3>1, <4>2
      <4> QED  BY <1>2, <4>3 DEF ClientInv, NothingForgotten, Page!Carried
    <3>2. CASE asked > 0 \/ \E v \in promised..MaxChanges : answers[v] > 0
      BY <1>2, <1>4, <3>2 DEF ClientInv, NothingForgotten, Page!Carried
    <3> QED  BY <2>3, <3>1, <3>2 DEF Page!Carried
  <2> QED  BY <2>1, <2>2, <2>3 DEF ClientInv, NothingForgotten
<1> QED  BY <1>3, <1>4

LEMMA MountKeepsInv ==
    ASSUME Page!ClientConstants, ClientInv, Page!Mount
    PROVE  ClientInv'
<1>1. /\ page' = [page EXCEPT !.open = TRUE, !.stage = "connecting"]
      /\ asked' = asked + 1
      /\ UNCHANGED <<pending, changes, answers, promised>>
  BY DEF Page!Mount, Page!Refetch, Page!wakeup, Page!server
<1>2. /\ page' \in [open : BOOLEAN, stream : Stream \cup {None},
                    stage : {"idle", "connecting", "loading", "ready"},
                    asOf : 0..MaxChanges]
      /\ page'.asOf = page.asOf
  BY <1>1 DEF ClientInv, ClientTypeOK
<1>3. asked' \in Nat /\ asked' > 0 /\ pending' \in [Stream -> Nat]
  BY <1>1, PageRecord
<1> QED  BY <1>1, <1>2, <1>3, CarriesOn

LEMMA ConnectKeepsInv ==
    ASSUME Page!ClientConstants, ClientInv, NEW s \in Stream, Page!Connect(s)
    PROVE  ClientInv'
<1>1. /\ page.stream = None /\ page' = [page EXCEPT !.stream = s]
      /\ UNCHANGED <<pending, changes, asked, answers, promised>>
  BY DEF Page!Connect, Page!OpenUp, Page!server, Page!requests
<1>2. /\ page' \in [open : BOOLEAN, stream : Stream \cup {None},
                    stage : {"idle", "connecting", "loading", "ready"},
                    asOf : 0..MaxChanges]
      /\ page'.asOf = page.asOf /\ page'.stage = page.stage
  BY <1>1 DEF ClientInv, ClientTypeOK
<1>3. asked' \in Nat /\ pending' \in [Stream -> Nat]
  BY <1>1, PageRecord
<1> QED  BY <1>1, <1>2, <1>3, CarriesOn

\* An event that wakes the page's stream turns into a request.
LEMMA ReceiveKeepsInv ==
    ASSUME Page!ClientConstants, ClientInv, NEW s \in Stream, Page!Receive(s)
    PROVE  ClientInv'
<1>1. /\ pending[s] > 0 /\ pending' = [pending EXCEPT ![s] = @ - 1]
      /\ UNCHANGED <<changes, page, answers, promised>>
      /\ page.stream = s => asked' = asked + 1
      /\ page.stream # s => asked' = asked
  BY DEF Page!Receive, Page!Wake, Page!Refetch, Page!server, Page!requests
<1>2. /\ pending' \in [Stream -> Nat]
      /\ \A t \in Stream : t # s => pending'[t] = pending[t]
  <2>1. pending \in [Stream -> Nat] /\ pending[s] - 1 \in Nat
    BY <1>1, PageRecord
  <2> QED  BY <1>1, <2>1
<1>3. page' = page /\ page \in [open : BOOLEAN, stream : Stream \cup {None},
                                stage : {"idle", "connecting", "loading", "ready"},
                                asOf : 0..MaxChanges]
  BY <1>1 DEF ClientInv, ClientTypeOK
<1>4. asked' \in Nat
  BY <1>1, PageRecord
<1>5. CASE page.stream = s
  <2>1. asked' > 0
    BY <1>1, <1>5, PageRecord
  <2> QED  BY <1>1, <1>2, <1>3, <1>4, <2>1, CarriesOn
<1>6. CASE page.stream # s
  <2>1. page.stream # None => pending'[page.stream] >= pending[page.stream]
    BY <1>2, <1>6, PageRecord
  <2> QED  BY <1>1, <1>2, <1>3, <1>4, <1>6, <2>1, CarriesOn
<1> QED  BY <1>5, <1>6

LEMMA HandlerReturnsKeepsInv ==
    ASSUME Page!ClientConstants, ClientInv, NEW s \in Stream, Page!HandlerReturns(s)
    PROVE  ClientInv'
<1>1. /\ page.stream # s /\ pending' = [pending EXCEPT ![s] = 0]
      /\ UNCHANGED <<changes, page, asked, answers, promised>>
  BY DEF Page!HandlerReturns, Page!Leave, Page!server, Page!requests
<1>2. /\ pending' \in [Stream -> Nat]
      /\ \A t \in Stream : t # s => pending'[t] = pending[t]
  BY <1>1, PageRecord
<1>3. page' = page /\ page \in [open : BOOLEAN, stream : Stream \cup {None},
                                stage : {"idle", "connecting", "loading", "ready"},
                                asOf : 0..MaxChanges]
  BY <1>1 DEF ClientInv, ClientTypeOK
<1>4. page.stream # None => pending'[page.stream] >= pending[page.stream]
  BY <1>1, <1>2, PageRecord
<1>5. asked' \in Nat
  BY <1>1, PageRecord
<1> QED  BY <1>1, <1>2, <1>3, <1>4, <1>5, CarriesOn

LEMMA DisconnectKeepsInv ==
    ASSUME Page!ClientConstants, ClientInv, Page!Disconnect
    PROVE  ClientInv'
<1>1. /\ page' = [page EXCEPT !.stream = None] /\ Page!Fault
      /\ UNCHANGED <<pending, changes, asked, answers>>
  BY DEF Page!Disconnect, Page!wakeup, Page!server, Page!requests
<1>2. /\ page' \in [open : BOOLEAN, stream : Stream \cup {None},
                    stage : {"idle", "connecting", "loading", "ready"},
                    asOf : 0..MaxChanges]
      /\ page'.asOf = page.asOf
  BY <1>1 DEF ClientInv, ClientTypeOK
<1>3. /\ asked' \in Nat /\ answers' \in [0..MaxChanges -> Nat]
      /\ \A v \in 0..MaxChanges : answers'[v] <= answers[v]
      /\ page'.asOf <= Page!Version
  BY <1>1, <1>2, PageRecord, VersionFacts
<1> QED  BY <1>1, <1>2, <1>3, FaultKeepsInv

LEMMA StartAnsweredKeepsInv ==
    ASSUME Page!ClientConstants, ClientInv, NEW stage \in {"loading", "ready"},
           Page!StartAnswered(stage)
    PROVE  ClientInv'
<1>1. /\ page' = [page EXCEPT !.stage = stage] /\ Page!Fault
      /\ UNCHANGED <<pending, changes, asked, answers>>
  BY DEF Page!StartAnswered, Page!wakeup, Page!server, Page!requests
<1>2. /\ page' \in [open : BOOLEAN, stream : Stream \cup {None},
                    stage : {"idle", "connecting", "loading", "ready"},
                    asOf : 0..MaxChanges]
      /\ page'.asOf = page.asOf
  BY <1>1 DEF ClientInv, ClientTypeOK
<1>3. /\ asked' \in Nat /\ answers' \in [0..MaxChanges -> Nat]
      /\ \A v \in 0..MaxChanges : answers'[v] <= answers[v]
      /\ page'.asOf <= Page!Version
  BY <1>1, <1>2, PageRecord, VersionFacts
<1> QED  BY <1>1, <1>2, <1>3, FaultKeepsInv

\* What a stream is notified of is what the feed holds, and the stream will be woken.
LEMMA SendKeepsInv ==
    ASSUME Page!ClientConstants, ClientInv, NEW p \in Sync, NEW s \in Stream,
           Page!Send(p, s)
    PROVE  ClientInv'
<1>1. /\ \/ pending' = [pending EXCEPT ![s] = @ + 1]
         \/ pending[s] > 0 /\ pending' = pending
      /\ promised' = IF page.stream = s THEN Page!Version ELSE promised
      /\ UNCHANGED <<changes, page, asked, answers>>
  BY DEF Page!Send, Page!Notify, Page!requests
<1>2. /\ pending' \in [Stream -> Nat] /\ pending'[s] > 0
      /\ \A t \in Stream : pending'[t] >= pending[t]
  <2>1. pending \in [Stream -> Nat] /\ pending[s] \in Nat
    BY PageRecord
  <2>2. CASE pending' = [pending EXCEPT ![s] = @ + 1]
    BY <2>1, <2>2
  <2>3. CASE pending[s] > 0 /\ pending' = pending
    BY <2>1, <2>3
  <2> QED  BY <1>1, <2>2, <2>3
<1>3. page' = page /\ page \in [open : BOOLEAN, stream : Stream \cup {None},
                                stage : {"idle", "connecting", "loading", "ready"},
                                asOf : 0..MaxChanges]
  BY <1>1 DEF ClientInv, ClientTypeOK
<1>4. CASE page.stream # s
  <2>1. page.stream # None => pending'[page.stream] >= pending[page.stream]
    BY <1>2, PageRecord
  <2>2. asked' \in Nat
    BY <1>1, PageRecord
  <2> QED  BY <1>1, <1>2, <1>3, <1>4, <2>1, <2>2, CarriesOn
<1>5. CASE page.stream = s
  <2>1. promised' = Page!Version /\ Page!Version' = Page!Version
    BY <1>1, <1>5 DEF Page!Version
  <2>2. ClientTypeOK' /\ NoFuture'
    BY <1>1, <1>2, <2>1, VersionFacts DEF ClientInv, ClientTypeOK, NoFuture
  <2>3. page'.stream # None /\ pending'[page'.stream] > 0
    BY <1>2, <1>3, <1>5 DEF Page!ClientConstants
  <2> QED  BY <2>2, <2>3 DEF ClientInv, NothingForgotten, Page!Carried
<1> QED  BY <1>4, <1>5

LEMMA SendBreaksKeepsInv ==
    ASSUME Page!ClientConstants, ClientInv, NEW p \in Sync, NEW s \in Stream,
           Page!SendBreaks(p, s)
    PROVE  ClientInv'
<1>1. promised' = 0 /\ UNCHANGED <<pending, changes, page, asked, answers>>
  BY DEF Page!SendBreaks, Page!Break, Page!server, Page!requests
<1>2. ClientTypeOK' /\ NoFuture'
  BY <1>1, VersionFacts DEF ClientInv, ClientTypeOK, NoFuture, Page!Version
<1> QED  BY <1>1, <1>2 DEF ClientInv, NothingForgotten

LEMMA RunSyncKeepsInv ==
    ASSUME Page!ClientConstants, ClientInv, NEW p \in Sync, Page!RunSync(p)
    PROVE  ClientInv'
<1>1. CASE \E s \in Stream : Page!Send(p, s)
  BY <1>1, SendKeepsInv
<1>2. CASE \E s \in Stream : Page!SendBreaks(p, s)
  BY <1>2, SendBreaksKeepsInv
<1>3. CASE Page!BeginRun(p)
  <2>1. /\ UNCHANGED <<pending, page, asked, answers, promised>>
        /\ Page!Change("syncing") /\ "syncing" \in Page!Statuses
    BY <1>3 DEF Page!BeginRun, Page!wakeup, Page!requests, Page!Statuses
  <2> QED  BY <2>1, ServerKeepsInv
<1>4. CASE Page!EndRun(p, "ready") \/ Page!EndRun(p, "error")
  <2>1. /\ UNCHANGED <<pending, page, asked, answers, promised>>
        /\ \E status \in Page!Statuses : Page!Change(status)
    BY <1>4 DEF Page!EndRun, Page!wakeup, Page!requests
  <2> QED  BY <2>1, ServerKeepsInv
<1>5. CASE \/ Page!TriggerSync(p) \/ Page!FailEarly(p)
           \/ Page!Publishes(p, "queued", "started")
           \/ Page!Publishes(p, "ready", "told") \/ Page!Publishes(p, "told", "done")
           \/ Page!Publishes(p, "error", "done")
           \/ \E s \in Stream : Page!SendMisses(p, s)
  <2>1. UNCHANGED <<pending, page, asked, answers, promised>> /\ changes' = changes
    BY <1>5 DEF Page!TriggerSync, Page!FailEarly, Page!Publishes, Page!SendMisses,
                Page!wakeup, Page!requests
  <2> QED  BY <2>1, ServerKeepsInv
<1> QED  BY <1>1, <1>2, <1>3, <1>4, <1>5 DEF Page!RunSync

\* What was sent to the page's stream, or dropped for it, is shown or still on its way,
\* unless a fault lost the last thing that carried it: for any streams, syncs and number
\* of requests and changes.
THEOREM NothingIsForgotten ==
    ASSUME Page!ClientConstants
    PROVE  Page!Spec => []NothingForgotten
<1>1. Page!Init => ClientInv
  BY PageInitInv
<1>2. ASSUME ClientInv, [Page!Next]_(Page!vars)
      PROVE  ClientInv'
  <2>1. CASE UNCHANGED Page!vars
    BY <1>2, <2>1, ServerKeepsInv DEF Page!vars, Page!wakeup, Page!server, Page!requests
  <2>2. CASE Page!Mount
    BY <1>2, <2>2, MountKeepsInv
  <2>3. CASE Page!Disconnect
    BY <1>2, <2>3, DisconnectKeepsInv
  <2>4. CASE Page!ReadFeed
    BY <1>2, <2>4, ReadFeedKeepsInv
  <2>5. CASE Page!FetchFails
    BY <1>2, <2>5, FetchFailsKeepsInv
  <2>6. CASE \E n \in 0..MaxChanges : Page!AnswerFails(n) \/ Page!ApplyFeed(n)
    BY <1>2, <2>6, AnswerFailsKeepsInv, ApplyFeedKeepsInv
  <2>7. CASE \E s \in Stream :
               Page!Connect(s) \/ Page!Receive(s) \/ Page!HandlerReturns(s)
    BY <1>2, <2>7, ConnectKeepsInv, ReceiveKeepsInv, HandlerReturnsKeepsInv
  <2>8. CASE \E stage \in {"loading", "ready"} : Page!StartAnswered(stage)
    BY <1>2, <2>8, StartAnsweredKeepsInv
  <2>9. CASE \E p \in Sync : Page!RunSync(p)
    BY <1>2, <2>9, RunSyncKeepsInv
  <2>10. CASE Page!ScheduledRun
    <3>1. /\ UNCHANGED <<pending, page, asked, answers, promised>>
          /\ \E status \in Page!Statuses : Page!Change(status)
      BY <2>10 DEF Page!ScheduledRun, Page!wakeup, Page!requests
    <3> QED  BY <1>2, <3>1, ServerKeepsInv
  <2> QED  BY <1>2, <2>1, <2>2, <2>3, <2>4, <2>5, <2>6, <2>7, <2>8, <2>9, <2>10
           DEF Page!Next
<1>3. ClientInv => NothingForgotten
  BY DEF ClientInv
<1> QED  BY <1>1, <1>2, <1>3, PTL DEF Page!Spec

\* The page does to its streams what Wakeup allows and no more, so that what is proved of
\* Wakeup's steps and what SseHub implements of them is what the page relies on.
THEOREM PageStepsAreWakeups ==
    Page!Spec => Page!WakeupInit /\ [][Page!WakeupNext]_(Page!wakeup)
<1>1. Page!Init => Page!WakeupInit
  BY DEF Page!Init
<1>2. [Page!Next]_(Page!vars) => [Page!WakeupNext]_(Page!wakeup)
  <2> SUFFICES ASSUME [Page!Next]_(Page!vars), ~UNCHANGED Page!wakeup
               PROVE  Page!WakeupNext
    OBVIOUS
  <2>1. PICK s \in Stream :
          \/ Page!Connect(s) \/ Page!Receive(s) \/ Page!HandlerReturns(s)
          \/ \E p \in Sync : Page!Send(p, s) \/ Page!SendBreaks(p, s)
    <3>1. Page!Next
      BY DEF Page!vars
    <3>2. ~(Page!Mount \/ Page!Disconnect \/ Page!ReadFeed \/ Page!FetchFails)
      BY DEF Page!Mount, Page!Disconnect, Page!ReadFeed, Page!FetchFails
    <3>3. \A n \in 0..MaxChanges : ~(Page!AnswerFails(n) \/ Page!ApplyFeed(n))
      BY DEF Page!AnswerFails, Page!ApplyFeed
    <3>4. \A stage \in {"loading", "ready"} : ~Page!StartAnswered(stage)
      BY DEF Page!StartAnswered
    <3>5. ~Page!ScheduledRun
      BY DEF Page!ScheduledRun
    <3>6. ASSUME NEW p \in Sync, Page!RunSync(p)
          PROVE  \E s \in Stream : Page!Send(p, s) \/ Page!SendBreaks(p, s)
      BY <3>6 DEF Page!RunSync, Page!TriggerSync, Page!Publishes, Page!BeginRun,
                  Page!FailEarly, Page!EndRun, Page!SendMisses
    <3> QED  BY <3>1, <3>2, <3>3, <3>4, <3>5, <3>6 DEF Page!Next
  <2>2. \/ Page!OpenUp(s) \/ Page!Wake(s) \/ Page!Leave(s) \/ Page!Notify(s)
        \/ Page!Break(s)
    BY <2>1 DEF Page!Connect, Page!Receive, Page!HandlerReturns, Page!Send, Page!SendBreaks
  <2> QED  BY <2>2 DEF Page!WakeupNext
<1> QED  BY <1>1, <1>2, PTL DEF Page!Spec
=============================================================================
