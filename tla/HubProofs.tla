----------------------------- MODULE HubProofs -----------------------------
(***************************************************************************)
(* Proofs about Hub: a publisher never sends on a closed channel, a stream *)
(* never carries an event of a link its caller does not own, and a client  *)
(* sees events in the order of publication and none twice, for any number  *)
(* of subscribers, links, events and any channel capacity.                 *)
(***************************************************************************)
EXTENDS Hub, SequenceTheorems, TLAPS

PCs == {"start", "subscribe", "select", "lookup", "send", "cancel", "returned"}

\* The parts of the type invariant the proofs need.
Types ==
    /\ published \in Seq(Links)
    /\ visit \subseteq Subscribers
    /\ subs \subseteq Subscribers
    /\ closed \subseteq Subscribers
    /\ locked \in BOOLEAN
    /\ pc \in [Subscribers -> PCs]
    /\ filter \in [Subscribers -> Links \cup {AllLinks}]
    /\ cur \in [Subscribers -> Nat]
    /\ \A s \in Subscribers :
          pc[s] \in {"lookup", "send"} => cur[s] \in 1..Len(published)
    /\ locked => Len(published) \in 1..Len(published)
    /\ chan \in [Subscribers -> Seq(1..Len(published))]
    /\ sent \in [Subscribers -> Seq(1..Len(published))]

-----------------------------------------------------------------------------

\* Appending to a sequence of events keeps it one, when the log only grows.
LEMMA WiderEvents ==
    ASSUME NEW m \in Nat, NEW n \in Nat, m <= n, NEW q \in Seq(1..m)
    PROVE  q \in Seq(1..n)
<1>1. 1..m \subseteq 1..n
  OBVIOUS
<1>2. QED
  BY <1>1

LEMMA TypesInit == HubInit => Types
<1> SUFFICES ASSUME HubInit PROVE Types
  OBVIOUS
<1> USE DEF HubInit
<1>1. published \in Seq(Links) /\ Len(published) = 0
  OBVIOUS
<1>2. \A S : <<>> \in Seq(S)
  OBVIOUS
<1>3. chan \in [Subscribers -> Seq(1..Len(published))]
      /\ sent \in [Subscribers -> Seq(1..Len(published))]
  BY <1>2
<1>4. pc \in [Subscribers -> PCs] /\ filter \in [Subscribers -> Links \cup {AllLinks}]
      /\ cur \in [Subscribers -> Nat]
  BY DEF PCs, NoEvent
<1>5. \A s \in Subscribers : pc[s] = "start"
  OBVIOUS
<1>6. locked \in BOOLEAN /\ ~locked /\ visit = {} /\ subs = {} /\ closed = {}
  OBVIOUS
<1>7. QED
  BY <1>1, <1>3, <1>4, <1>5, <1>6 DEF Types

LEMMA TypesStep == Types /\ [HubNext]_hubVars => Types'
<1> SUFFICES ASSUME Types, [HubNext]_hubVars PROVE Types'
  OBVIOUS
<1> USE DEF Types, PCs, Goto
<1>1. ASSUME NEW l \in Links, PublishLock(l) PROVE Types'
  <2>1. published' \in Seq(Links) /\ Len(published') = Len(published) + 1
    BY <1>1 DEF PublishLock
  <2>2. \A s \in Subscribers : chan[s] \in Seq(1..Len(published'))
                               /\ sent[s] \in Seq(1..Len(published'))
    <3>1. TAKE s \in Subscribers
    <3>2. Len(published) \in Nat /\ Len(published') \in Nat
          /\ Len(published) <= Len(published')
      BY <2>1
    <3>3. chan[s] \in Seq(1..Len(published)) /\ sent[s] \in Seq(1..Len(published))
      OBVIOUS
    <3>4. QED
      BY <3>2, <3>3, WiderEvents
  <2>3. chan' = chan /\ sent' = sent
    BY <1>1 DEF PublishLock
  <2>4. chan' \in [Subscribers -> Seq(1..Len(published'))]
        /\ sent' \in [Subscribers -> Seq(1..Len(published'))]
    BY <2>2, <2>3
  <2>5. QED
    BY <1>1, <2>1, <2>4 DEF PublishLock
<1>2. ASSUME NEW s \in Subscribers, PublishTo(s) PROVE Types'
  <2>1. Len(published) \in 1..Len(published)
    BY <1>2 DEF PublishTo
  <2>2. Append(chan[s], Len(published)) \in Seq(1..Len(published))
    BY <2>1
  <2>3. chan' \in [Subscribers -> Seq(1..Len(published))]
    BY <1>2, <2>2 DEF PublishTo
  <2>4. QED
    BY <1>2, <2>3 DEF PublishTo
<1>3. CASE PublishUnlock
  BY <1>3 DEF PublishUnlock
<1>4. ASSUME NEW s \in Subscribers, NEW f \in Links \cup {AllLinks}, Open(s, f)
      PROVE Types'
  BY <1>4 DEF Open
<1>5. ASSUME NEW s \in Subscribers, Subscribe(s) PROVE Types'
  BY <1>5 DEF Subscribe
<1>6. ASSUME NEW s \in Subscribers, Receive(s) PROVE Types'
  <2>1. chan[s] \in Seq(1..Len(published)) /\ chan[s] # <<>>
    BY <1>6 DEF Receive
  <2>2. Head(chan[s]) \in 1..Len(published)
        /\ Tail(chan[s]) \in Seq(1..Len(published))
    BY <2>1
  <2>3. chan' \in [Subscribers -> Seq(1..Len(published))]
        /\ cur' \in [Subscribers -> Nat]
    BY <1>6, <2>2 DEF Receive
  <2>4. pc' \in [Subscribers -> PCs]
    BY <1>6 DEF Receive
  <2>5. QED
    BY <1>6, <2>3, <2>4 DEF Receive
<1>7. ASSUME NEW s \in Subscribers, LookupOwner(s) PROVE Types'
  BY <1>7 DEF LookupOwner
<1>8. ASSUME NEW s \in Subscribers, LookupError(s) PROVE Types'
  BY <1>8 DEF LookupError
<1>9. ASSUME NEW s \in Subscribers, Send(s) PROVE Types'
  <2>1. cur[s] \in 1..Len(published)
    BY <1>9 DEF Send
  <2>2. Append(sent[s], cur[s]) \in Seq(1..Len(published))
    BY <2>1
  <2>3. sent' \in [Subscribers -> Seq(1..Len(published))]
    BY <1>9, <2>2 DEF Send
  <2>4. QED
    BY <1>9, <2>3 DEF Send
<1>10. ASSUME NEW s \in Subscribers, SendError(s) PROVE Types'
  BY <1>10 DEF SendError
<1>11. ASSUME NEW s \in Subscribers, ClientLeaves(s) PROVE Types'
  BY <1>11 DEF ClientLeaves
<1>12. ASSUME NEW s \in Subscribers, Done(s) PROVE Types'
  BY <1>12 DEF Done
<1>13. ASSUME NEW s \in Subscribers, Cancel(s) PROVE Types'
  BY <1>13 DEF Cancel
<1>14. CASE UNCHANGED hubVars
  BY <1>14 DEF hubVars
<1>15. QED
  BY <1>1, <1>2, <1>3, <1>4, <1>5, <1>6, <1>7, <1>8, <1>9, <1>10, <1>11,
     <1>12, <1>13, <1>14 DEF HubNext, PublishStep, StreamStep

-----------------------------------------------------------------------------
(* The mutex.                                                              *)

LEMMA MutexInit == HubInit => VisitOpen /\ NoSendOnClosed
BY DEF HubInit, VisitOpen, NoSendOnClosed

LEMMA MutexStep ==
    Types /\ VisitOpen /\ NoSendOnClosed /\ [HubNext]_hubVars
        => (VisitOpen /\ NoSendOnClosed)'
<1> SUFFICES ASSUME Types, VisitOpen, NoSendOnClosed, [HubNext]_hubVars
             PROVE  (VisitOpen /\ NoSendOnClosed)'
  OBVIOUS
<1> USE DEF VisitOpen, NoSendOnClosed, Types, PCs, Goto
<1>1. ASSUME NEW l \in Links, PublishLock(l) PROVE (VisitOpen /\ NoSendOnClosed)'
  BY <1>1 DEF PublishLock
<1>2. ASSUME NEW s \in Subscribers, PublishTo(s)
      PROVE (VisitOpen /\ NoSendOnClosed)'
  <2>1. s \notin closed
    BY <1>2 DEF PublishTo
  <2>2. ~panicked'
    BY <1>2, <2>1 DEF PublishTo
  <2>3. visit' \subseteq visit /\ locked' = locked /\ subs' = subs
        /\ closed' = closed /\ pc' = pc
    BY <1>2 DEF PublishTo
  <2>4. QED
    BY <2>2, <2>3
<1>3. CASE PublishUnlock
  BY <1>3 DEF PublishUnlock
<1>4. ASSUME NEW s \in Subscribers, NEW f \in Links \cup {AllLinks}, Open(s, f)
      PROVE (VisitOpen /\ NoSendOnClosed)'
  BY <1>4 DEF Open
<1>5. ASSUME NEW s \in Subscribers, Subscribe(s)
      PROVE (VisitOpen /\ NoSendOnClosed)'
  BY <1>5 DEF Subscribe
<1>6. ASSUME NEW s \in Subscribers, Receive(s) PROVE (VisitOpen /\ NoSendOnClosed)'
  BY <1>6 DEF Receive
<1>7. ASSUME NEW s \in Subscribers, LookupOwner(s) \/ LookupError(s)
      PROVE (VisitOpen /\ NoSendOnClosed)'
  BY <1>7 DEF LookupOwner, LookupError
<1>8. ASSUME NEW s \in Subscribers, Send(s) \/ SendError(s)
      PROVE (VisitOpen /\ NoSendOnClosed)'
  BY <1>8 DEF Send, SendError
<1>9. ASSUME NEW s \in Subscribers, ClientLeaves(s) \/ Done(s)
      PROVE (VisitOpen /\ NoSendOnClosed)'
  BY <1>9 DEF ClientLeaves, Done
<1>10. ASSUME NEW s \in Subscribers, Cancel(s) PROVE (VisitOpen /\ NoSendOnClosed)'
  BY <1>10 DEF Cancel
<1>11. CASE UNCHANGED hubVars
  BY <1>11 DEF hubVars
<1>12. QED
  BY <1>1, <1>2, <1>3, <1>4, <1>5, <1>6, <1>7, <1>8, <1>9, <1>10, <1>11
  DEF HubNext, PublishStep, StreamStep

\* Publish never sends on a closed channel, because cancel closes a channel
\* and removes it from the hub under the mutex Publish holds while it visits
\* the channels (Hub.Publish, Hub.Subscribe), for any number of subscribers.
THEOREM NoSendOnClosedTheorem == HubSpec => [](VisitOpen /\ NoSendOnClosed)
<1>1. HubInit => Types /\ VisitOpen /\ NoSendOnClosed
  BY TypesInit, MutexInit
<1>2. Types /\ (VisitOpen /\ NoSendOnClosed) /\ [HubNext]_hubVars
          => Types' /\ (VisitOpen /\ NoSendOnClosed)'
  BY TypesStep, MutexStep
<1>3. QED
  BY <1>1, <1>2, PTL DEF HubSpec

-----------------------------------------------------------------------------
(* Ownership.                                                              *)

\* The filter of a stream that was accepted, the event about to be sent and
\* everything that was sent belong to the caller.
OwnInv ==
    \A s \in Subscribers :
        /\ pc[s] \notin {"start", "returned"} /\ filter[s] # AllLinks =>
               Owner[filter[s]] = Caller[s]
        /\ pc[s] = "send" => Owner[published[cur[s]]] = Caller[s]
        /\ \A i \in DOMAIN sent[s] : Owner[published[sent[s][i]]] = Caller[s]

LEMMA OwnInit == HubInit => OwnInv
<1> SUFFICES ASSUME HubInit, NEW s \in Subscribers
             PROVE  pc[s] = "start" /\ DOMAIN sent[s] = {}
  BY DEF OwnInv
<1>1. pc[s] = "start" /\ sent[s] = <<>>
  BY DEF HubInit
<1>2. QED
  BY <1>1

LEMMA OwnStep == Types /\ OwnInv /\ [HubNext]_hubVars => OwnInv'
<1> SUFFICES ASSUME Types, OwnInv, [HubNext]_hubVars PROVE OwnInv'
  OBVIOUS
<1> USE DEF OwnInv, Types, PCs, Goto, LinkOf
<1>1. ASSUME NEW l \in Links, PublishLock(l) PROVE OwnInv'
  <2>1. \A e \in 1..Len(published) : published'[e] = published[e]
    BY <1>1 DEF PublishLock
  <2>2. \A s \in Subscribers : \A i \in DOMAIN sent[s] :
            sent[s][i] \in 1..Len(published)
    OBVIOUS
  <2>3. QED
    BY <1>1, <2>1, <2>2 DEF PublishLock
<1>2. ASSUME NEW s \in Subscribers, PublishTo(s) PROVE OwnInv'
  BY <1>2 DEF PublishTo
<1>3. CASE PublishUnlock
  BY <1>3 DEF PublishUnlock
<1>4. ASSUME NEW s \in Subscribers, NEW f \in Links \cup {AllLinks}, Open(s, f)
      PROVE OwnInv'
  BY <1>4 DEF Open
<1>5. ASSUME NEW s \in Subscribers, Subscribe(s) PROVE OwnInv'
  BY <1>5 DEF Subscribe
<1>6. ASSUME NEW s \in Subscribers, Receive(s) PROVE OwnInv'
  BY <1>6 DEF Receive
<1>7. ASSUME NEW s \in Subscribers, LookupOwner(s) \/ LookupError(s) PROVE OwnInv'
  BY <1>7, ZenonT(60) DEF LookupOwner, LookupError
<1>8. ASSUME NEW s \in Subscribers, Send(s) PROVE OwnInv'
  <2>1. \A i \in DOMAIN sent'[s] :
            sent'[s][i] = IF i \in DOMAIN sent[s] THEN sent[s][i] ELSE cur[s]
    <3>1. sent'[s] = Append(sent[s], cur[s])
      BY <1>8 DEF Send
    <3>2. sent[s] \in Seq(1..Len(published)) /\ cur[s] \in Nat
      OBVIOUS
    <3>3. QED
      BY <3>1, <3>2
  <2>2. Owner[published[cur[s]]] = Caller[s]
    BY <1>8 DEF Send
  <2>3. \A i \in DOMAIN sent'[s] : Owner[published[sent'[s][i]]] = Caller[s]
    <3> SUFFICES ASSUME NEW i \in DOMAIN sent'[s]
                 PROVE  Owner[published[sent'[s][i]]] = Caller[s]
      OBVIOUS
    <3>1. CASE i \in DOMAIN sent[s]
      <4>1. sent'[s][i] = sent[s][i]
        BY <2>1, <3>1
      <4>2. Owner[published[sent[s][i]]] = Caller[s]
        BY <3>1
      <4>3. QED
        BY <4>1, <4>2
    <3>2. CASE i \notin DOMAIN sent[s]
      <4>1. sent'[s][i] = cur[s]
        BY <2>1, <3>2
      <4>2. QED
        BY <2>2, <4>1
    <3>3. QED
      BY <3>1, <3>2
  <2>4. published' = published /\ cur' = cur /\ filter' = filter
        /\ pc'[s] = "select" /\ pc[s] = "send"
    BY <1>8 DEF Send
  <2>5. \A t \in Subscribers \ {s} : pc'[t] = pc[t] /\ sent'[t] = sent[t]
    BY <1>8 DEF Send
  <2>6. ASSUME NEW t \in Subscribers
        PROVE  /\ pc'[t] \notin {"start", "returned"} /\ filter'[t] # AllLinks =>
                      Owner[filter'[t]] = Caller[t]
               /\ pc'[t] = "send" => Owner[published'[cur'[t]]] = Caller[t]
               /\ \A i \in DOMAIN sent'[t] :
                      Owner[published'[sent'[t][i]]] = Caller[t]
    <3>1. CASE t = s
      BY <2>3, <2>4, <3>1
    <3>2. CASE t # s
      BY <2>4, <2>5, <3>2
    <3>3. QED
      BY <3>1, <3>2
  <2>7. QED
    BY <2>6
<1>9. ASSUME NEW s \in Subscribers, SendError(s) \/ ClientLeaves(s) \/ Done(s)
      PROVE OwnInv'
  BY <1>9, ZenonT(60) DEF SendError, ClientLeaves, Done
<1>10. ASSUME NEW s \in Subscribers, Cancel(s) PROVE OwnInv'
  BY <1>10 DEF Cancel
<1>11. CASE UNCHANGED hubVars
  BY <1>11 DEF hubVars
<1>12. QED
  BY <1>1, <1>2, <1>3, <1>4, <1>5, <1>6, <1>7, <1>8, <1>9, <1>10, <1>11
  DEF HubNext, PublishStep, StreamStep

\* No stream, whatever filter its client asked for, is sent an event of a link
\* its caller does not own (StreamLinkActivity, handleSecurityFeedSSE).
THEOREM OwnEventsTheorem == HubSpec => []OwnEventsOnly
<1>1. HubInit => Types /\ OwnInv
  BY TypesInit, OwnInit
<1>2. Types /\ OwnInv /\ [HubNext]_hubVars => Types' /\ OwnInv'
  BY TypesStep, OwnStep
<1>3. OwnInv => OwnEventsOnly
  BY DEF OwnInv, OwnEventsOnly, LinkOf
<1>4. QED
  BY <1>1, <1>2, <1>3, PTL DEF HubSpec

-----------------------------------------------------------------------------
(* The order of a feed.                                                    *)

Increasing(q) == \A i, j \in DOMAIN q : i < j => q[i] < q[j]

AllBelow(q, n) == \A i \in DOMAIN q : q[i] < n

AllAbove(n, q) == \A i \in DOMAIN q : n < q[i]

Below(q, b) == \A i \in DOMAIN q, j \in DOMAIN b : q[i] < b[j]

\* A feed: events q sent, event c being handled if the handler is busy, events
\* b buffered.
Ordered(q, busy, c, b) ==
    /\ Increasing(q) /\ Increasing(b) /\ Below(q, b)
    /\ busy => AllBelow(q, c) /\ AllAbove(c, b)

Older(q, busy, c, b, n) ==
    AllBelow(q, n) /\ AllBelow(b, n) /\ (busy => c < n)

LEMMA EmptyFeed == \A c, busy : Ordered(<<>>, busy, c, <<>>)
BY DEF Ordered, Increasing, Below, AllBelow, AllAbove

\* Publish buffers an event that is newer than the feed.
LEMMA FeedBuffers ==
    ASSUME NEW q \in Seq(Nat), NEW b \in Seq(Nat), NEW c \in Nat, NEW n \in Nat,
           NEW busy, Ordered(q, busy, c, b), Older(q, busy, c, b, n)
    PROVE  Ordered(q, busy, c, Append(b, n))
<1>1. \A i \in DOMAIN Append(b, n) : \/ i \in DOMAIN b /\ Append(b, n)[i] = b[i]
                                     \/ i = Len(b) + 1 /\ Append(b, n)[i] = n
  OBVIOUS
<1>2. Increasing(Append(b, n))
  BY DEF Ordered, Older, Increasing, AllBelow
<1>3. Below(q, Append(b, n))
  BY <1>1 DEF Ordered, Older, Below, AllBelow
<1>4. busy => AllAbove(c, Append(b, n))
  BY <1>1 DEF Ordered, Older, AllAbove
<1>. QED  BY <1>2, <1>3, <1>4 DEF Ordered

\* The handler takes the oldest buffered event.
LEMMA FeedReceives ==
    ASSUME NEW q \in Seq(Nat), NEW b \in Seq(Nat), NEW c, NEW n,
           NEW busy, NEW after, b # <<>>, Ordered(q, busy, c, b)
    PROVE  /\ Ordered(q, after, Head(b), Tail(b))
           /\ Older(q, busy, c, b, n) => Older(q, after, Head(b), Tail(b), n)
<1>1. /\ Head(b) = b[1] /\ 1 \in DOMAIN b
      /\ \A i \in DOMAIN Tail(b) : i \in Nat \ {0} /\ i + 1 \in DOMAIN b
                                   /\ Tail(b)[i] = b[i + 1]
  OBVIOUS
<1>2. Increasing(Tail(b)) /\ AllAbove(Head(b), Tail(b))
  <2>1. \A i, j \in DOMAIN b : i < j => b[i] < b[j]
    BY DEF Ordered, Increasing
  <2>2. \A i, j \in DOMAIN Tail(b) : i < j => Tail(b)[i] < Tail(b)[j]
    BY <1>1, <2>1
  <2>3. \A i \in DOMAIN Tail(b) : Head(b) < Tail(b)[i]
    BY <1>1, <2>1
  <2>. QED  BY <2>2, <2>3 DEF Increasing, AllAbove
<1>3. Below(q, Tail(b)) /\ AllBelow(q, Head(b))
  BY <1>1 DEF Ordered, Below, AllBelow
<1>4. Older(q, busy, c, b, n) => AllBelow(q, n) /\ AllBelow(Tail(b), n) /\ Head(b) < n
  BY <1>1 DEF Older, AllBelow
<1>. QED  BY <1>2, <1>3, <1>4 DEF Ordered, Older

\* The handler sends the event it holds, or skips it.
LEMMA FeedSends ==
    ASSUME NEW q \in Seq(Nat), NEW b \in Seq(Nat), NEW c \in Nat, NEW n \in Nat,
           Ordered(q, TRUE, c, b)
    PROVE  /\ Ordered(Append(q, c), FALSE, c, b)
           /\ Older(q, TRUE, c, b, n) => Older(Append(q, c), FALSE, c, b, n)
<1>1. \A i \in DOMAIN Append(q, c) : \/ i \in DOMAIN q /\ Append(q, c)[i] = q[i]
                                     \/ i = Len(q) + 1 /\ Append(q, c)[i] = c
  OBVIOUS
<1>2. Increasing(Append(q, c))
  BY DEF Ordered, Increasing, AllBelow
<1>3. Below(Append(q, c), b)
  BY <1>1 DEF Ordered, Below, AllAbove
<1>4. Older(q, TRUE, c, b, n) => AllBelow(Append(q, c), n)
  BY <1>1 DEF Older, AllBelow
<1>. QED  BY <1>2, <1>3, <1>4 DEF Ordered, Older

LEMMA FeedIdles ==
    ASSUME NEW q, NEW b, NEW c, NEW n, NEW busy, NEW after, after => busy
    PROVE  /\ Ordered(q, busy, c, b) => Ordered(q, after, c, b)
           /\ Older(q, busy, c, b, n) => Older(q, after, c, b, n)
BY DEF Ordered, Older

Busy(s) == pc[s] \in {"lookup", "send"}

\* Every feed is ordered, and a channel that Publish has still to visit holds
\* nothing as new as the event being published.
FeedInv ==
    \A s \in Subscribers :
        /\ Ordered(sent[s], Busy(s), cur[s], chan[s])
        /\ s \in visit => Older(sent[s], Busy(s), cur[s], chan[s], Len(published))

LEMMA FeedInit == HubInit => FeedInv
<1> SUFFICES ASSUME HubInit PROVE FeedInv
  OBVIOUS
<1>1. visit = {} /\ \A s \in Subscribers : sent[s] = <<>> /\ chan[s] = <<>>
  BY DEF HubInit
<1>. QED  BY <1>1, EmptyFeed DEF FeedInv

\* What Types says of one feed.
LEMMA FeedTypes ==
    ASSUME Types, NEW s \in Subscribers
    PROVE  /\ sent[s] \in Seq(Nat) /\ chan[s] \in Seq(Nat) /\ cur[s] \in Nat
           /\ Len(published) \in Nat
           /\ Older(sent[s], Busy(s), cur[s], chan[s], Len(published) + 1)
<1>1. Len(published) \in Nat /\ 1..Len(published) \subseteq Nat
  BY DEF Types
<1>2. sent[s] \in Seq(1..Len(published)) /\ chan[s] \in Seq(1..Len(published))
  BY DEF Types
<1>3. sent[s] \in Seq(Nat) /\ chan[s] \in Seq(Nat)
  BY <1>1, <1>2, SeqMonotonic
<1>4. cur[s] \in Nat /\ (Busy(s) => cur[s] \in 1..Len(published))
  BY DEF Types, Busy
<1>5. AllBelow(sent[s], Len(published) + 1) /\ AllBelow(chan[s], Len(published) + 1)
  <2>1. ASSUME NEW q \in Seq(1..Len(published)) PROVE AllBelow(q, Len(published) + 1)
    <3>1. \A i \in DOMAIN q : q[i] \in 1..Len(published)
      OBVIOUS
    <3>. QED  BY <1>1, <3>1 DEF AllBelow
  <2>. QED  BY <1>2, <2>1
<1>6. Busy(s) => cur[s] < Len(published) + 1
  BY <1>1, <1>4
<1>. QED  BY <1>1, <1>3, <1>4, <1>5, <1>6 DEF Older

\* A step of one handler leaves the other feeds alone.
LEMMA OneFeed ==
    ASSUME FeedInv, NEW s \in Subscribers,
           visit' \subseteq visit, published' = published,
           \A t \in Subscribers \ {s} : /\ sent'[t] = sent[t] /\ chan'[t] = chan[t]
                                        /\ cur'[t] = cur[t] /\ pc'[t] = pc[t],
           Ordered(sent'[s], Busy(s)', cur'[s], chan'[s]),
           s \in visit' => Older(sent'[s], Busy(s)', cur'[s], chan'[s], Len(published))
    PROVE  FeedInv'
<1> SUFFICES ASSUME NEW t \in Subscribers
    PROVE  /\ Ordered(sent'[t], Busy(t)', cur'[t], chan'[t])
           /\ t \in visit' =>
                 Older(sent'[t], Busy(t)', cur'[t], chan'[t], Len(published'))
  BY DEF FeedInv
<1>1. CASE t = s
  BY <1>1
<1>2. CASE t # s
  <2>1. Busy(t)' <=> Busy(t)
    BY <1>2 DEF Busy
  <2>2. /\ Ordered(sent[t], Busy(t), cur[t], chan[t])
        /\ t \in visit => Older(sent[t], Busy(t), cur[t], chan[t], Len(published))
    BY DEF FeedInv
  <2>3. /\ sent'[t] = sent[t] /\ chan'[t] = chan[t] /\ cur'[t] = cur[t]
    BY <1>2
  <2>. QED  BY <2>1, <2>2, <2>3, FeedIdles
<1>. QED  BY <1>1, <1>2

\* A handler that goes on without touching its feed.
LEMMA IdleStep ==
    ASSUME Types, FeedInv, NEW s \in Subscribers, NEW where, Goto(s, where),
           where \in {"lookup", "send"} => Busy(s),
           UNCHANGED <<published, visit, chan, cur, sent>>
    PROVE  FeedInv'
<1>1. pc'[s] = where /\ \A t \in Subscribers \ {s} : pc'[t] = pc[t]
  BY DEF Types, Goto
<1>2. Busy(s)' => Busy(s)
  BY <1>1 DEF Busy
<1>3. /\ Ordered(sent[s], Busy(s), cur[s], chan[s])
      /\ s \in visit => Older(sent[s], Busy(s), cur[s], chan[s], Len(published))
  BY DEF FeedInv
<1>4. /\ Ordered(sent[s], Busy(s)', cur[s], chan[s])
      /\ s \in visit => Older(sent[s], Busy(s)', cur[s], chan[s], Len(published))
  BY <1>2, <1>3, FeedIdles
<1>. QED  BY <1>1, <1>4, OneFeed

LEMMA FeedStep == Types /\ FeedInv /\ [HubNext]_hubVars => FeedInv'
<1> SUFFICES ASSUME Types, FeedInv, [HubNext]_hubVars PROVE FeedInv'
  OBVIOUS
<1>1. ASSUME NEW l \in Links, PublishLock(l) PROVE FeedInv'
  <2>1. published \in Seq(Links) /\ published' = Append(published, l)
    BY <1>1 DEF PublishLock, Types
  <2>2. Len(published') = Len(published) + 1
    BY <2>1
  <2>3. UNCHANGED <<chan, pc, cur, sent>>
    BY <1>1 DEF PublishLock
  <2>4. \A s \in Subscribers :
            /\ Ordered(sent[s], Busy(s), cur[s], chan[s])
            /\ Older(sent[s], Busy(s), cur[s], chan[s], Len(published'))
    BY <2>2, FeedTypes DEF FeedInv
  <2>. QED  BY <2>3, <2>4 DEF FeedInv, Busy
<1>2. ASSUME NEW s \in Subscribers, PublishTo(s) PROVE FeedInv'
  <2>1. /\ s \in visit /\ visit' = visit \ {s}
        /\ UNCHANGED <<published, cur, sent, pc>>
        /\ chan' = chan \/ chan' = [chan EXCEPT ![s] = Append(@, Len(published))]
    BY <1>2 DEF PublishTo
  <2>2. /\ chan'[s] = chan[s] \/ chan'[s] = Append(chan[s], Len(published))
        /\ \A t \in Subscribers \ {s} : chan'[t] = chan[t]
    BY <2>1 DEF Types
  <2>3. /\ Ordered(sent[s], Busy(s), cur[s], chan[s])
        /\ Older(sent[s], Busy(s), cur[s], chan[s], Len(published))
    BY <2>1 DEF FeedInv
  <2>4. Ordered(sent[s], Busy(s), cur[s], Append(chan[s], Len(published)))
    BY <2>3, FeedTypes, FeedBuffers
  <2>5. Ordered(sent'[s], Busy(s)', cur'[s], chan'[s])
    BY <2>1, <2>2, <2>3, <2>4 DEF Busy
  <2>. QED  BY <2>1, <2>2, <2>5, OneFeed
<1>3. CASE PublishUnlock
  BY <1>3 DEF PublishUnlock, FeedInv, Busy
<1>4. ASSUME NEW s \in Subscribers, NEW f \in Links \cup {AllLinks}, Open(s, f)
      PROVE FeedInv'
  <2>1. PICK where \in {"subscribe", "returned"} : Goto(s, where)
    BY <1>4 DEF Open
  <2>2. UNCHANGED <<published, visit, chan, cur, sent>>
    BY <1>4 DEF Open
  <2>. QED  BY <2>1, <2>2, IdleStep
<1>5. ASSUME NEW s \in Subscribers, Receive(s) PROVE FeedInv'
  <2>1. PICK where : Goto(s, where)
    BY <1>5 DEF Receive
  <2>2. /\ chan[s] # <<>> /\ chan'[s] = Tail(chan[s]) /\ cur'[s] = Head(chan[s])
        /\ \A t \in Subscribers \ {s} : chan'[t] = chan[t] /\ cur'[t] = cur[t]
                                        /\ pc'[t] = pc[t]
        /\ UNCHANGED <<published, visit, sent>>
    BY <1>5, <2>1 DEF Receive, Types, Goto
  <2>3. /\ Ordered(sent[s], Busy(s), cur[s], chan[s])
        /\ s \in visit => Older(sent[s], Busy(s), cur[s], chan[s], Len(published))
    BY DEF FeedInv
  <2>4. /\ Ordered(sent[s], Busy(s)', Head(chan[s]), Tail(chan[s]))
        /\ s \in visit =>
              Older(sent[s], Busy(s)', Head(chan[s]), Tail(chan[s]), Len(published))
    BY <2>2, <2>3, FeedTypes, FeedReceives
  <2>. QED  BY <2>2, <2>4, OneFeed
<1>6. ASSUME NEW s \in Subscribers, Send(s) PROVE FeedInv'
  <2>1. /\ pc[s] = "send" /\ pc'[s] = "select" /\ sent'[s] = Append(sent[s], cur[s])
        /\ \A t \in Subscribers \ {s} : sent'[t] = sent[t] /\ pc'[t] = pc[t]
        /\ UNCHANGED <<published, visit, chan, cur>>
    BY <1>6 DEF Send, Types, Goto
  <2>2. Busy(s) = TRUE /\ Busy(s)' = FALSE
    BY <2>1 DEF Busy
  <2>3. /\ Ordered(sent[s], TRUE, cur[s], chan[s])
        /\ s \in visit => Older(sent[s], TRUE, cur[s], chan[s], Len(published))
    BY <2>2 DEF FeedInv
  <2>4. /\ Ordered(Append(sent[s], cur[s]), FALSE, cur[s], chan[s])
        /\ s \in visit =>
              Older(Append(sent[s], cur[s]), FALSE, cur[s], chan[s], Len(published))
    BY <2>3, FeedTypes, FeedSends
  <2>. QED  BY <2>1, <2>2, <2>4, OneFeed
<1>7. ASSUME NEW s \in Subscribers,
             \/ Subscribe(s) \/ LookupOwner(s) \/ LookupError(s)
             \/ SendError(s) \/ Done(s) \/ Cancel(s)
      PROVE FeedInv'
  <2>1. PICK where : Goto(s, where) /\ (where \in {"lookup", "send"} => pc[s] = "lookup")
    BY <1>7 DEF Subscribe, LookupOwner, LookupError, SendError, Done, Cancel
  <2>2. UNCHANGED <<published, visit, chan, cur, sent>>
    BY <1>7 DEF Subscribe, LookupOwner, LookupError, SendError, Done, Cancel
  <2>3. where \in {"lookup", "send"} => Busy(s)
    BY <2>1 DEF Busy
  <2>. QED  BY <2>1, <2>2, <2>3, IdleStep
<1>8. ASSUME NEW s \in Subscribers, ClientLeaves(s) PROVE FeedInv'
  BY <1>8 DEF ClientLeaves, FeedInv, Busy
<1>9. CASE UNCHANGED hubVars
  BY <1>9 DEF hubVars, FeedInv, Busy
<1>. QED
  BY <1>1, <1>2, <1>3, <1>4, <1>5, <1>6, <1>7, <1>8, <1>9
  DEF HubNext, PublishStep, StreamStep

\* A concatenation is increasing when its parts are, one below the other.
LEMMA IncreasingConcat ==
    ASSUME NEW q \in Seq(Nat), NEW b \in Seq(Nat),
           Increasing(q), Increasing(b), Below(q, b)
    PROVE  Increasing(q \o b)
<1> SUFFICES ASSUME NEW i \in DOMAIN (q \o b), NEW j \in DOMAIN (q \o b), i < j
             PROVE  (q \o b)[i] < (q \o b)[j]
  BY DEF Increasing
<1>1. ASSUME NEW k \in DOMAIN (q \o b)
      PROVE  IF k <= Len(q) THEN k \in DOMAIN q /\ (q \o b)[k] = q[k]
             ELSE k - Len(q) \in DOMAIN b /\ (q \o b)[k] = b[k - Len(q)]
  OBVIOUS
<1>2. i \in Nat /\ j \in Nat /\ Len(q) \in Nat
  OBVIOUS
<1>3. CASE j <= Len(q)
  BY <1>1, <1>2, <1>3 DEF Increasing
<1>4. CASE i > Len(q)
  BY <1>1, <1>2, <1>4 DEF Increasing
<1>5. CASE i <= Len(q) /\ j > Len(q)
  BY <1>1, <1>2, <1>5 DEF Below
<1>. QED  BY <1>2, <1>3, <1>4, <1>5

LEMMA FeedSuffices == Types /\ FeedInv => FeedInOrder
<1> SUFFICES ASSUME Types, FeedInv, NEW s \in Subscribers
    PROVE  Increasing(sent[s] \o (IF Busy(s) THEN <<cur[s]>> ELSE <<>>) \o chan[s])
  BY DEF FeedInOrder, Increasing, Busy
<1> DEFINE q == sent[s]
           b == chan[s]
           c == cur[s]
           middle == IF Busy(s) THEN <<c>> ELSE <<>>
<1>1. q \in Seq(Nat) /\ b \in Seq(Nat) /\ c \in Nat
  BY FeedTypes
<1>2. Ordered(q, Busy(s), c, b)
  BY DEF FeedInv
<1> HIDE DEF q, b, c
<1>3. middle \in Seq(Nat)
  BY <1>1
<1>4. Increasing(middle) /\ Below(q, middle) /\ Below(middle, b)
  <2>1. CASE Busy(s)
    <3>1. middle = <<c>> /\ DOMAIN middle = {1} /\ middle[1] = c
      BY <1>1, <2>1
    <3> HIDE DEF middle
    <3>2. AllBelow(q, c) /\ AllAbove(c, b)
      BY <1>2, <2>1 DEF Ordered
    <3>. QED  BY <3>1, <3>2 DEF Increasing, Below, AllBelow, AllAbove
  <2>2. CASE ~Busy(s)
    <3>1. DOMAIN middle = {}
      BY <2>2
    <3> HIDE DEF middle
    <3>. QED  BY <3>1 DEF Increasing, Below
  <2>. QED  BY <2>1, <2>2
<1> HIDE DEF middle
<1>5. q \o middle \in Seq(Nat) /\ Increasing(q \o middle)
  BY <1>1, <1>2, <1>3, <1>4, IncreasingConcat DEF Ordered
<1>6. Below(q \o middle, b)
  <2>1. \A i \in DOMAIN (q \o middle) :
            \/ i \in DOMAIN q /\ (q \o middle)[i] = q[i]
            \/ i - Len(q) \in DOMAIN middle /\ (q \o middle)[i] = middle[i - Len(q)]
    BY <1>1, <1>3
  <2>2. Below(q, b) /\ Below(middle, b)
    BY <1>2, <1>4 DEF Ordered
  <2>. QED  BY <2>1, <2>2 DEF Below
<1>7. Increasing((q \o middle) \o b)
  <2> DEFINE front == q \o middle
  <2>1. front \in Seq(Nat) /\ Increasing(front) /\ Below(front, b)
    BY <1>5, <1>6
  <2> HIDE DEF front
  <2>2. Increasing(front \o b)
    BY <1>1, <1>2, <2>1, IncreasingConcat DEF Ordered
  <2>. QED  BY <2>2 DEF front
<1>. QED  BY <1>7 DEF q, middle, b, c

\* A client sees events in the order of publication and none twice, although
\* Publish drops events where a channel is full (Hub.Publish and the select
\* loops of StreamLinkActivity and handleSecurityFeedSSE).
THEOREM FeedInOrderTheorem == HubSpec => []FeedInOrder
<1>. QED  BY TypesInit, TypesStep, FeedInit, FeedStep, FeedSuffices, PTL DEF HubSpec

-----------------------------------------------------------------------------
(* The type invariant, with the bounds of the channels.                    *)

BoundInv ==
    /\ Len(published) <= MaxEvents
    /\ \A s \in Subscribers : Len(chan[s]) <= Buffer
    /\ \A s \in Subscribers : cur[s] \in 0..Len(published)
    /\ gone \subseteq Subscribers
    /\ panicked \in BOOLEAN

LEMMA BoundStep == Types /\ BoundInv /\ [HubNext]_hubVars => BoundInv'
<1> SUFFICES ASSUME Types, BoundInv, [HubNext]_hubVars PROVE BoundInv'
  OBVIOUS
<1>1. /\ Len(published) \in Nat /\ MaxEvents \in Nat /\ Buffer \in Nat
      /\ \A s \in Subscribers : Len(chan[s]) \in Nat
  BY HubAssumption DEF Types
<1>2. ASSUME NEW l \in Links, PublishLock(l) PROVE BoundInv'
  <2>1. /\ Len(published') = Len(published) + 1 /\ Len(published) < MaxEvents
        /\ UNCHANGED <<chan, cur, gone, panicked>>
    BY <1>2 DEF PublishLock, Types
  <2>. QED  BY <1>1, <2>1 DEF BoundInv
<1>3. ASSUME NEW s \in Subscribers, PublishTo(s) PROVE BoundInv'
  <2>1. /\ UNCHANGED <<published, cur, gone>>
        /\ chan' = chan
           \/ /\ Len(chan[s]) < Buffer
              /\ chan' = [chan EXCEPT ![s] = Append(@, Len(published))]
    BY <1>3 DEF PublishTo
  <2>2. \A t \in Subscribers : Len(chan'[t]) <= Buffer
    <3>1. CASE chan' = chan
      BY <3>1 DEF BoundInv
    <3>2. CASE chan' # chan
      <4>1. Len(chan'[s]) = Len(chan[s]) + 1 /\ Len(chan[s]) < Buffer
        BY <2>1, <3>2 DEF Types
      <4>2. \A t \in Subscribers \ {s} : chan'[t] = chan[t]
        BY <2>1, <3>2 DEF Types
      <4>. QED  BY <1>1, <4>1, <4>2 DEF BoundInv
    <3>. QED  BY <3>1, <3>2
  <2>3. panicked' \in BOOLEAN
    BY <1>3 DEF PublishTo
  <2>. QED  BY <2>1, <2>2, <2>3 DEF BoundInv
<1>4. CASE PublishUnlock
  BY <1>4 DEF PublishUnlock, BoundInv
<1>5. ASSUME NEW s \in Subscribers, NEW f \in Links \cup {AllLinks}, Open(s, f)
      PROVE BoundInv'
  BY <1>5 DEF Open, BoundInv
<1>6. ASSUME NEW s \in Subscribers, Receive(s) PROVE BoundInv'
  <2>1. chan[s] \in Seq(1..Len(published)) /\ chan[s] # <<>>
    BY <1>6 DEF Receive, Types
  <2>2. Head(chan[s]) \in 0..Len(published) /\ Len(Tail(chan[s])) <= Len(chan[s])
    BY <1>1, <2>1
  <2>3. /\ chan' = [chan EXCEPT ![s] = Tail(@)]
        /\ cur' = [cur EXCEPT ![s] = Head(chan[s])]
        /\ UNCHANGED <<published, gone, panicked>>
    BY <1>6 DEF Receive
  <2>4. \A t \in Subscribers : Len(chan'[t]) <= Len(chan[t])
    BY <1>1, <2>2, <2>3 DEF Types
  <2>5. \A t \in Subscribers : Len(chan'[t]) <= Buffer
    <3>1. chan' \in [Subscribers -> Seq(1..Len(published))]
      BY <2>1, <2>3 DEF Types
    <3>2. \A t \in Subscribers : Len(chan'[t]) \in Nat
      BY <3>1
    <3>. QED  BY <1>1, <2>4, <3>2 DEF BoundInv
  <2>. QED  BY <2>2, <2>3, <2>5 DEF BoundInv, Types
<1>7. ASSUME NEW s \in Subscribers,
             \/ Subscribe(s) \/ LookupOwner(s) \/ LookupError(s) \/ Send(s)
             \/ SendError(s) \/ Done(s) \/ Cancel(s)
      PROVE BoundInv'
  <2>1. UNCHANGED <<published, chan, cur, gone, panicked>>
    BY <1>7 DEF Subscribe, LookupOwner, LookupError, Send, SendError, Done, Cancel
  <2>. QED  BY <2>1 DEF BoundInv
<1>8. ASSUME NEW s \in Subscribers, ClientLeaves(s) PROVE BoundInv'
  BY <1>8 DEF ClientLeaves, BoundInv
<1>9. CASE UNCHANGED hubVars
  BY <1>9 DEF hubVars, BoundInv
<1>. QED
  BY <1>2, <1>3, <1>4, <1>5, <1>6, <1>7, <1>8, <1>9
  DEF HubNext, PublishStep, StreamStep

\* Whatever is published, no channel holds more than its capacity and every
\* event that is buffered, handled or sent has been published.
THEOREM HubTypeTheorem == HubSpec => []HubTypeOK
<1>1. HubInit => BoundInv
  <2> SUFFICES ASSUME HubInit PROVE BoundInv
    OBVIOUS
  <2>1. /\ published = <<>> /\ gone = {} /\ panicked = FALSE
        /\ \A s \in Subscribers : chan[s] = <<>> /\ cur[s] = 0
    BY DEF HubInit, NoEvent
  <2>2. Len(published) = 0 /\ \A s \in Subscribers : Len(chan[s]) = 0
    BY <2>1
  <2>3. MaxEvents \in Nat /\ Buffer \in Nat
    BY HubAssumption
  <2>4. \A s \in Subscribers : cur[s] \in 0..Len(published)
    <3>1. \A s \in Subscribers : cur[s] = 0
      BY <2>1
    <3>2. 0 \in 0..Len(published)
      BY <2>2
    <3>. QED  BY <3>1, <3>2
  <2>5. gone \subseteq Subscribers /\ panicked \in BOOLEAN
    BY <2>1
  <2>. QED  BY <2>2, <2>3, <2>4, <2>5 DEF BoundInv
<1>2. Types /\ BoundInv => HubTypeOK
  <2> SUFFICES ASSUME Types, BoundInv PROVE HubTypeOK
    OBVIOUS
  <2>1. Len(published) \in Nat /\ 1..Len(published) \subseteq Events
    BY HubAssumption DEF Types, BoundInv, Events
  <2>2. \A s \in Subscribers : sent[s] \in Seq(Events) /\ chan[s] \in Seq(Events)
    <3>1. ASSUME NEW q \in Seq(1..Len(published)) PROVE q \in Seq(Events)
      BY <2>1, SeqMonotonic
    <3>. QED  BY <3>1 DEF Types
  <2>3. sent \in [Subscribers -> Seq(Events)] /\ chan \in [Subscribers -> Seq(Events)]
    BY <2>2 DEF Types
  <2>4. \A s \in Subscribers : cur[s] \in Events \cup {NoEvent}
    <3>1. \A n \in 0..Len(published) : n = 0 \/ n \in 1..Len(published)
      BY <2>1
    <3>. QED  BY <2>1, <3>1 DEF BoundInv, NoEvent
  <2>5. cur \in [Subscribers -> Events \cup {NoEvent}]
    BY <2>4 DEF Types
  <2>. QED  BY <2>3, <2>5 DEF HubTypeOK, Types, BoundInv, PCs
<1>. QED  BY <1>1, <1>2, TypesInit, TypesStep, BoundStep, PTL DEF HubSpec

=============================================================================
