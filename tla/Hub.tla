-------------------------------- MODULE Hub --------------------------------
(***************************************************************************)
(* pubsub.Hub and its two kinds of subscriber, the gRPC stream             *)
(* AdminServer.StreamLinkActivity and the dashboard's handleSecurityFeedSSE.*)
(* Request goroutines publish (EnforcementService.publish); each           *)
(* subscriber has a bounded channel and a goroutine that filters what it   *)
(* receives down to the links its caller owns.                             *)
(*                                                                         *)
(* Publish holds the hub's mutex while it visits the channels one by one;  *)
(* a subscriber takes events from its channel without the mutex.           *)
(***************************************************************************)
EXTENDS Integers, Sequences

CONSTANTS
    Subscribers,    \* stream handlers
    Links,          \* shared links
    Owner,          \* Links -> user who owns the link (OwnerUserID)
    Caller,         \* Subscribers -> authenticated user
    Filters,        \* Subscribers -> the filters a client may ask for
    Buffer,         \* channel capacity, 32 in the code
    MaxEvents,      \* bound: events published
    LookupFails     \* whether OwnerUserID may return an error

\* A stream of every link of the caller (the SSE feed has no other).
AllLinks == "all"

ASSUME HubAssumption ==
    /\ AllLinks \notin Links
    /\ Filters \in [Subscribers -> SUBSET (Links \cup {AllLinks})]
    /\ Buffer \in Nat \ {0}
    /\ MaxEvents \in Nat
    /\ LookupFails \in BOOLEAN

VARIABLES
    published,   \* history: the links of the events published so far
    locked,      \* some goroutine is in Publish and holds h.mu
    visit,       \* Publish: channels still to be visited
    subs,        \* h.subs
    chan,        \* Subscribers -> buffered events (their numbers)
    closed,      \* channels that have been closed
    pc,          \* Subscribers -> where the handler is
    filter,      \* Subscribers -> filterLinkID
    cur,         \* Subscribers -> the event being handled
    gone,        \* subscribers whose ctx is done
    sent,        \* Subscribers -> events sent to the client
    panicked     \* a send on a closed channel has happened

hubVars == <<published, locked, visit, subs, chan, closed, pc, filter, cur,
             gone, sent, panicked>>

Events == 1..MaxEvents
NoEvent == 0

HubTypeOK ==
    /\ published \in Seq(Links) /\ Len(published) <= MaxEvents
    /\ locked \in BOOLEAN
    /\ visit \subseteq Subscribers
    /\ subs \subseteq Subscribers
    /\ chan \in [Subscribers -> Seq(Events)]
    /\ \A s \in Subscribers : Len(chan[s]) <= Buffer
    /\ closed \subseteq Subscribers
    /\ pc \in [Subscribers -> {"start", "subscribe", "select", "lookup",
                               "send", "cancel", "returned"}]
    /\ filter \in [Subscribers -> Links \cup {AllLinks}]
    /\ cur \in [Subscribers -> Events \cup {NoEvent}]
    /\ gone \subseteq Subscribers
    /\ sent \in [Subscribers -> Seq(Events)]
    /\ panicked \in BOOLEAN

HubInit ==
    /\ published = <<>>
    /\ locked = FALSE
    /\ visit = {}
    /\ subs = {}
    /\ chan = [s \in Subscribers |-> <<>>]
    /\ closed = {}
    /\ pc = [s \in Subscribers |-> "start"]
    /\ filter = [s \in Subscribers |-> AllLinks]
    /\ cur = [s \in Subscribers |-> NoEvent]
    /\ gone = {}
    /\ sent = [s \in Subscribers |-> <<>>]
    /\ panicked = FALSE

LinkOf(e) == published[e]

Goto(s, where) == pc' = [pc EXCEPT ![s] = where]

-----------------------------------------------------------------------------
(* Publish.                                                                *)

\* h.mu.Lock() in Publish; the event is the next one.
PublishLock(l) ==
    /\ ~locked
    /\ Len(published) < MaxEvents
    /\ locked' = TRUE
    /\ published' = Append(published, l)
    /\ visit' = subs
    /\ UNCHANGED <<subs, chan, closed, pc, filter, cur, gone, sent, panicked>>

\* A plain send: Publish waits until the subscriber has room.
SendBlocking(s) ==
    /\ locked
    /\ s \in visit
    /\ s \notin closed
    /\ Len(chan[s]) < Buffer
    /\ chan' = [chan EXCEPT ![s] = Append(@, Len(published))]
    /\ visit' = visit \ {s}
    /\ UNCHANGED <<published, locked, subs, closed, pc, filter, cur, gone, sent,
                   panicked>>

\* A send that never finds the channel full.
SendUnbounded(s) ==
    /\ locked
    /\ s \in visit
    /\ visit' = visit \ {s}
    /\ panicked' = (panicked \/ s \in closed)
    /\ chan' = [chan EXCEPT ![s] = Append(@, Len(published))]
    /\ UNCHANGED <<published, locked, subs, closed, pc, filter, cur, gone, sent>>

\* The event overtakes those that wait in the channel.
SendFirst(s) ==
    /\ locked
    /\ s \in visit
    /\ visit' = visit \ {s}
    /\ panicked' = (panicked \/ s \in closed)
    /\ chan' = IF s \notin closed /\ Len(chan[s]) < Buffer
               THEN [chan EXCEPT ![s] = <<Len(published)>> \o @] ELSE chan
    /\ UNCHANGED <<published, locked, subs, closed, pc, filter, cur, gone, sent>>

\* One turn of the loop: a non-blocking send (sending on a closed channel
\* panics).
PublishTo(s) ==
    /\ locked
    /\ s \in visit
    /\ visit' = visit \ {s}
    /\ panicked' = (panicked \/ s \in closed)
    /\ chan' = IF s \notin closed /\ Len(chan[s]) < Buffer
               THEN [chan EXCEPT ![s] = Append(@, Len(published))] ELSE chan
    /\ UNCHANGED <<published, locked, subs, closed, pc, filter, cur, gone, sent>>

\* h.mu.Unlock().
PublishUnlock ==
    /\ locked
    /\ visit = {}
    /\ locked' = FALSE
    /\ UNCHANGED <<published, visit, subs, chan, closed, pc, filter, cur, gone,
                   sent, panicked>>

-----------------------------------------------------------------------------
(* A stream handler.                                                       *)

\* The request names no link, or one that belongs to the caller; otherwise
\* (or if the lookup fails) the stream ends at once, without an error.
Open(s, f) ==
    /\ pc[s] = "start"
    /\ f \in Filters[s]
    /\ filter' = [filter EXCEPT ![s] = f]
    /\ \/ f = AllLinks /\ Goto(s, "subscribe")
       \/ f # AllLinks /\ Owner[f] = Caller[s] /\ Goto(s, "subscribe")
       \/ /\ f # AllLinks
          /\ Owner[f] # Caller[s] \/ LookupFails
          /\ Goto(s, "returned")
    /\ UNCHANGED <<published, locked, visit, subs, chan, closed, cur, gone, sent,
                   panicked>>

\* Hub.Subscribe, under the mutex.
Subscribe(s) ==
    /\ pc[s] = "subscribe"
    /\ ~locked
    /\ subs' = subs \cup {s}
    /\ Goto(s, "select")
    /\ UNCHANGED <<published, locked, visit, chan, closed, filter, cur, gone,
                   sent, panicked>>

\* case evt := <-events: an event of another link is skipped when there is a
\* filter; without one the owner of the event's link is looked up.
Receive(s) ==
    /\ pc[s] = "select"
    /\ chan[s] # <<>>
    /\ chan' = [chan EXCEPT ![s] = Tail(@)]
    /\ cur' = [cur EXCEPT ![s] = Head(chan[s])]
    /\ Goto(s, IF filter[s] = AllLinks THEN "lookup"
               ELSE IF LinkOf(Head(chan[s])) = filter[s] THEN "send"
               ELSE "select")
    /\ UNCHANGED <<published, locked, visit, subs, closed, filter, gone, sent,
                   panicked>>

\* The owner is looked up and not compared with the caller.
LookupUnchecked(s) ==
    /\ pc[s] = "lookup"
    /\ Goto(s, "send")
    /\ UNCHANGED <<published, locked, visit, subs, chan, closed, filter, cur,
                   gone, sent, panicked>>

\* OwnerUserID of the event's link.
LookupOwner(s) ==
    /\ pc[s] = "lookup"
    /\ Goto(s, IF Owner[LinkOf(cur[s])] = Caller[s] THEN "send" ELSE "select")
    /\ UNCHANGED <<published, locked, visit, subs, chan, closed, filter, cur,
                   gone, sent, panicked>>

\* OwnerUserID returns an error: the event is skipped.
LookupError(s) ==
    /\ LookupFails
    /\ pc[s] = "lookup"
    /\ Goto(s, "select")
    /\ UNCHANGED <<published, locked, visit, subs, chan, closed, filter, cur,
                   gone, sent, panicked>>

\* stream.Send, or the write and flush of the SSE feed.
Send(s) ==
    /\ pc[s] = "send"
    /\ s \notin gone
    /\ sent' = [sent EXCEPT ![s] = Append(@, cur[s])]
    /\ Goto(s, "select")
    /\ UNCHANGED <<published, locked, visit, subs, chan, closed, filter, cur,
                   gone, panicked>>

\* The client is not there any more: the write fails, the handler returns.
SendError(s) ==
    /\ pc[s] = "send"
    /\ s \in gone
    /\ Goto(s, "cancel")
    /\ UNCHANGED <<published, locked, visit, subs, chan, closed, filter, cur,
                   gone, sent, panicked>>

\* The client closes the stream: ctx is done.
ClientLeaves(s) ==
    /\ s \notin gone
    /\ gone' = gone \cup {s}
    /\ UNCHANGED <<published, locked, visit, subs, chan, closed, pc, filter, cur,
                   sent, panicked>>

\* case <-ctx.Done().
Done(s) ==
    /\ pc[s] = "select"
    /\ s \in gone
    /\ Goto(s, "cancel")
    /\ UNCHANGED <<published, locked, visit, subs, chan, closed, filter, cur,
                   gone, sent, panicked>>

\* cancel does not take the mutex.
CancelUnlocked(s) ==
    /\ pc[s] = "cancel"
    /\ subs' = subs \ {s}
    /\ closed' = closed \cup {s}
    /\ Goto(s, "returned")
    /\ UNCHANGED <<published, locked, visit, chan, filter, cur, gone, sent,
                   panicked>>

\* The deferred cancel is forgotten.
CancelForgotten(s) ==
    /\ pc[s] = "cancel"
    /\ Goto(s, "returned")
    /\ UNCHANGED <<published, locked, visit, subs, chan, closed, filter, cur,
                   gone, sent, panicked>>

\* The deferred cancel, under the mutex.
Cancel(s) ==
    /\ pc[s] = "cancel"
    /\ ~locked
    /\ subs' = subs \ {s}
    /\ closed' = closed \cup {s}
    /\ Goto(s, "returned")
    /\ UNCHANGED <<published, locked, visit, chan, filter, cur, gone, sent,
                   panicked>>

PublishStep == (\E s \in Subscribers : PublishTo(s)) \/ PublishUnlock

\* What the handler does without the client's help.
StreamStep(s) ==
    \/ Subscribe(s) \/ Receive(s) \/ LookupOwner(s) \/ LookupError(s)
    \/ SendError(s) \/ Done(s) \/ Cancel(s)

HubNext ==
    \/ \E l \in Links : PublishLock(l)
    \/ PublishStep
    \/ \E s \in Subscribers, f \in Links \cup {AllLinks} : Open(s, f)
    \/ \E s \in Subscribers : StreamStep(s) \/ Send(s) \/ ClientLeaves(s)

HubSpec == HubInit /\ [][HubNext]_hubVars

\* A publisher's goroutine is scheduled; nothing is assumed of subscribers.
PublisherFairness == WF_hubVars(PublishStep)

\* A stream's goroutine is scheduled, its select does not starve ctx.Done, and
\* sync.Mutex (whose starvation mode hands over after 1 ms) lets it in.  A
\* client that does not read may keep Send waiting until it leaves.
StreamFairness ==
    \A s \in Subscribers :
        WF_hubVars(StreamStep(s)) /\ SF_hubVars(Done(s)) /\ SF_hubVars(Cancel(s))

StreamSpec == HubSpec /\ PublisherFairness /\ StreamFairness

-----------------------------------------------------------------------------
(* Properties.                                                             *)

\* Publish never sends on a closed channel (which would panic on the request
\* path), however cancel and Publish interleave: cancel removes the channel
\* from subs and closes it in one critical section (Hub.Subscribe, Publish).
NoSendOnClosed == ~panicked

\* Why: a channel that Publish will still visit is subscribed and open, only
\* the holder of the mutex visits, and only a handler that has returned has
\* closed its channel.
VisitOpen ==
    /\ visit \subseteq subs
    /\ subs \cap closed = {}
    /\ ~locked => visit = {}
    /\ \A s \in closed : pc[s] = "returned"

\* "filtered down to links the authenticated caller owns": whatever filter a
\* client asks for, it is sent no event of another user's link
\* (StreamLinkActivity, handleSecurityFeedSSE).
OwnEventsOnly ==
    \A s \in Subscribers : \A i \in DOMAIN sent[s] :
        Owner[LinkOf(sent[s][i])] = Caller[s]

\* A client sees events in the order of publication and none twice, although
\* events may be dropped: what it was sent, what is being handled and what is
\* buffered are increasing.
FeedInOrder ==
    \A s \in Subscribers :
        LET feed == sent[s] \o (IF pc[s] \in {"lookup", "send"}
                                THEN <<cur[s]>> ELSE <<>>) \o chan[s]
        IN  \A i, j \in DOMAIN feed : i < j => feed[i] < feed[j]

\* "A slow or gone subscriber never blocks a publisher": Publish returns with
\* no help from any subscriber.
PublishReturns == locked ~> ~locked

\* The subscription of a client that has left is released (deferred cancel).
GoneReleased ==
    \A s \in Subscribers : s \in gone /\ s \in subs ~> s \notin subs
=============================================================================
