-------------------------------- MODULE Hub --------------------------------
(***************************************************************************)
(* The in-memory fan-out of internal/adapters/realtime/hub.go.  Every      *)
(* method runs under h.mu, so each is one step.  Publish sends to the      *)
(* subscribers one by one while readers receive without the lock, but the  *)
(* sends touch different channels, so they commute with those receives     *)
(* and the whole of Publish is one step too.                               *)
(*                                                                         *)
(* A client is one call of Subscribe with its reading loop.  The channel a *)
(* call returns is named by the client that holds it.  Events are numbered *)
(* by the order in which Publish was called.                               *)
(***************************************************************************)
EXTENDS Integers, Sequences, Channel

CONSTANTS
    Client,             \* the calls of Subscribe
    SubscriberBuffer,   \* capacity of a subscriber's channel (16 in the code)
    MaxPublished        \* bound: how many events are ever published

ASSUME BufferAssumption == SubscriberBuffer \in Nat \ {0}
ASSUME MaxPublishedAssumption == MaxPublished \in Nat

VARIABLES
    subs,       \* h.subs: id -> the client holding that channel
    nextID,     \* h.nextID
    closed,     \* h.closed
    queue,      \* what is buffered in each client's channel
    shut,       \* which clients' channels have been closed
    id,         \* the id captured by each client's unsubscribe, or NoID
    once,       \* whose unsubscribe has already run (sync.Once)
    phase,      \* "idle" before Subscribe, "reading", "ended" once !open seen
    published,  \* history: how many events have been published
    got         \* history: what each client received, in order

hubVars  == <<subs, nextID, closed>>
vars == <<subs, nextID, closed, queue, shut, id, once, phase, published, got>>

\* The unsubscribe returned by a closed hub captures no id: it does nothing.
NoID == -1

Init ==
    /\ subs = [i \in {} |-> {}]
    /\ nextID = 0
    /\ closed = FALSE
    /\ queue = [c \in Client |-> <<>>]
    /\ shut = {}
    /\ id = [c \in Client |-> NoID]
    /\ once = {}
    /\ phase = [c \in Client |-> "idle"]
    /\ published = 0
    /\ got = [c \in Client |-> <<>>]

\* The clients with an entry in h.subs: those a Publish reaches.
Registered == {subs[i] : i \in DOMAIN subs}

\* Mutant: the event is sent a second time.
PublishTwice ==
    /\ published < MaxPublished
    /\ published' = published + 1
    /\ LET Send(q) == Offer(q, SubscriberBuffer, published + 1)
       IN  queue' = [c \in Client |->
                        IF ~closed /\ c \in Registered
                        THEN Send(Send(queue[c])) ELSE queue[c]]
    /\ UNCHANGED <<hubVars, shut, id, once, phase, got>>

\* Mutant: a full subscriber ends the loop over h.subs for the others too.
PublishUntilFull ==
    /\ published < MaxPublished
    /\ published' = published + 1
    /\ queue' = [c \in Client |->
                    IF ~closed /\ c \in Registered
                       /\ \A d \in Registered : Len(queue[d]) < SubscriberBuffer
                    THEN Append(queue[c], published + 1) ELSE queue[c]]
    /\ UNCHANGED <<hubVars, shut, id, once, phase, got>>

\* A closed hub swallows the event; an open one offers it to every subscriber.
Publish ==
    /\ published < MaxPublished
    /\ published' = published + 1
    /\ queue' = IF closed THEN queue
                ELSE [c \in Client |->
                        IF c \in Registered
                        THEN Offer(queue[c], SubscriberBuffer, published + 1)
                        ELSE queue[c]]
    /\ UNCHANGED <<hubVars, shut, id, once, phase, got>>

\* Mutant: the id is not advanced, so the next subscriber gets it again.
SubscribeSameID(c) ==
    /\ ~closed
    /\ id' = [id EXCEPT ![c] = nextID]
    /\ nextID' = nextID
    /\ subs' = [i \in DOMAIN subs \cup {nextID} |->
                    IF i = nextID THEN c ELSE subs[i]]
    /\ UNCHANGED shut

\* Mutant: a closed hub registers subscribers like an open one.
SubscribeLate(c) ==
    /\ id' = [id EXCEPT ![c] = nextID]
    /\ nextID' = nextID + 1
    /\ subs' = [i \in DOMAIN subs \cup {nextID} |->
                    IF i = nextID THEN c ELSE subs[i]]
    /\ UNCHANGED shut

SubscribeOpen(c) ==
    /\ ~closed
    /\ id' = [id EXCEPT ![c] = nextID]
    /\ nextID' = nextID + 1
    /\ subs' = [i \in DOMAIN subs \cup {nextID} |->
                    IF i = nextID THEN c ELSE subs[i]]
    /\ UNCHANGED shut

\* The caller gets a channel that is closed already and is never registered.
SubscribeClosed(c) ==
    /\ closed
    /\ shut' = shut \cup {c}
    /\ UNCHANGED <<id, nextID, subs>>

Subscribe(c) ==
    /\ phase[c] = "idle"
    /\ phase' = [phase EXCEPT ![c] = "reading"]
    /\ SubscribeOpen(c) \/ SubscribeClosed(c)
    /\ UNCHANGED <<closed, queue, once, published, got>>

\* Mutant: the channels are closed but stay in the table.
DropKeepsEntry(gone) ==
    /\ subs' = subs
    /\ shut' = shut \cup {subs[i] : i \in DOMAIN subs \cap gone}

\* The table without the entries in gone, whose channels are closed.
Drop(gone) ==
    /\ subs' = [i \in DOMAIN subs \ gone |-> subs[i]]
    /\ shut' = shut \cup {subs[i] : i \in DOMAIN subs \cap gone}

\* The returned function, which may be called any number of times and after
\* Close: only the first call does anything, and only if the id is registered.
Unsubscribe(c) ==
    /\ phase[c] # "idle"
    /\ once' = once \cup {c}
    /\ IF c \in once THEN UNCHANGED <<subs, shut>> ELSE Drop({id[c]})
    /\ UNCHANGED <<nextID, closed, queue, id, phase, published, got>>

\* Mutant: the table is emptied and the channels are forgotten.
CloseForgets ==
    /\ subs' = [i \in {} |-> subs[i]]
    /\ closed' = TRUE
    /\ UNCHANGED <<nextID, queue, shut, id, once, phase, published, got>>

\* Close is idempotent: a second call changes nothing.
Close ==
    /\ IF closed THEN UNCHANGED <<subs, shut>> ELSE Drop(DOMAIN subs)
    /\ closed' = TRUE
    /\ UNCHANGED <<nextID, queue, id, once, phase, published, got>>

\* A closed channel still yields what was buffered before it was closed.
Receive(c) ==
    /\ phase[c] = "reading"
    /\ queue[c] # <<>>
    /\ got' = [got EXCEPT ![c] = Append(@, Head(queue[c]))]
    /\ queue' = [queue EXCEPT ![c] = Tail(@)]
    /\ UNCHANGED <<hubVars, shut, id, once, phase, published>>

\* The receive that yields !open, on which every reader in the code returns.
SeeClosed(c) ==
    /\ phase[c] = "reading"
    /\ queue[c] = <<>>
    /\ c \in shut
    /\ phase' = [phase EXCEPT ![c] = "ended"]
    /\ UNCHANGED <<hubVars, queue, shut, id, once, published, got>>

Read(c) == Receive(c) \/ SeeClosed(c)

Next ==
    \/ Publish
    \/ Close
    \/ \E c \in Client : Subscribe(c) \/ Unsubscribe(c) \/ Read(c)

\* A reading loop is always scheduled again; nobody is obliged to publish, to
\* subscribe or to close.
Fairness == \A c \in Client : WF_vars(Read(c))

SafeSpec == Init /\ [][Next]_vars
Spec == SafeSpec /\ Fairness

-----------------------------------------------------------------------------

\* TYPE: the shape of the hub's fields, the channels and the histories.
TypeOK ==
    /\ nextID \in Nat
    /\ DOMAIN subs \subseteq 0 .. nextID - 1
    /\ \A i \in DOMAIN subs : subs[i] \in Client
    /\ closed \in BOOLEAN
    /\ queue \in [Client -> Seq(Nat)]
    /\ \A c \in Client : Len(queue[c]) <= SubscriberBuffer
    /\ shut \subseteq Client
    /\ id \in [Client -> Nat \cup {NoID}]
    /\ once \subseteq Client
    /\ phase \in [Client -> {"idle", "reading", "ended"}]
    /\ published \in Nat
    /\ got \in [Client -> Seq(Nat)]

\* A channel in h.subs is open.  Publish sends on it and Close and unsubscribe
\* close it, and in Go each of those panics on a closed channel, here with the
\* lock held and every connection served by the same process (hub.go:48-52,
\* 83-86, 103-106).
NoPanic == Registered \cap shut = {}

\* A channel is open exactly while h.subs holds it, under the id its own
\* unsubscribe captured.  An open channel outside the table would leave its
\* handler waiting for ever, since nothing could close it any more, and a
\* shared id would let one handler's return end another one's stream.
OpenIffRegistered ==
    \A c \in Client :
        (phase[c] # "idle" /\ c \notin shut)
            <=> (id[c] \in DOMAIN subs /\ subs[id[c]] = c)

\* Once the hub is closed no subscriber is left and none can join: every
\* channel ever handed out is closed, which is what the HTTP server's graceful
\* shutdown waits for (hub.go:91-94).
ClosedForGood ==
    closed => /\ DOMAIN subs = {}
              /\ \A c \in Client : phase[c] # "idle" => c \in shut

\* What a client has received followed by what waits for it.
Stream(c) == got[c] \o queue[c]

Increasing(s) == \A i, j \in DOMAIN s : i < j => s[i] < s[j]

\* A subscriber sees the events in the order they were published and none of
\* them twice, whatever was dropped in between.
InOrderOnce == \A c \in Client : Increasing(Stream(c))

\* After Close every open stream ends, its reader having drained the buffer
\* (hub.go:91-94, and the loop at handler.go:125-131).
CloseEndsStreams ==
    \A c \in Client :
        (closed /\ phase[c] = "reading") ~> (phase[c] = "ended")

-----------------------------------------------------------------------------

\* What the table knows: an entry is the open channel of the client that
\* captured its id, a client with an open channel has its entry, and no two
\* clients were given the same id.
TableInv ==
    /\ \A i \in DOMAIN subs :
        /\ id[subs[i]] = i
        /\ phase[subs[i]] # "idle"
        /\ subs[i] \notin shut
    /\ \A c \in Client :
        (phase[c] # "idle" /\ c \notin shut)
            => id[c] \in DOMAIN subs /\ subs[id[c]] = c
    /\ closed => DOMAIN subs = {}
    /\ \A c \in Client : id[c] < nextID
    /\ \A c, d \in Client : id[c] = id[d] /\ id[c] # NoID => c = d

\* What a client's phase says of its channel.
PhaseInv ==
    \A c \in Client :
        /\ phase[c] = "idle" =>
            c \notin shut /\ id[c] = NoID /\ queue[c] = <<>> /\ got[c] = <<>>
        /\ phase[c] = "ended" => c \in shut /\ queue[c] = <<>>

\* Received, then buffered, then not yet published.
OrderInv ==
    \A c \in Client :
        /\ Increasing(got[c])
        /\ Increasing(queue[c])
        /\ \A k \in DOMAIN queue[c] : queue[c][k] \in 1 .. published
        /\ \A k \in DOMAIN got[c] : got[c][k] \in 1 .. published
        /\ \A k \in DOMAIN got[c], l \in DOMAIN queue[c] :
                got[c][k] < queue[c][l]

\* The inductive invariant behind every safety theorem about the hub.
HubInv == TypeOK /\ TableInv /\ PhaseInv /\ OrderInv

\* The promise this implements, seen from a subscriber: a subscription is live
\* while its channel is open, and waits for the set of events in the buffer.
Waiting(c) == {queue[c][k] : k \in DOMAIN queue[c]}

Last(c) == IF got[c] = <<>> THEN 0 ELSE got[c][Len(got[c])]

Status(c) ==
    CASE phase[c] = "idle"  -> "none"
      [] phase[c] = "ended" -> "ended"
      [] OTHER              -> IF c \in shut THEN "over" ELSE "live"

B == INSTANCE Broadcaster WITH
        Patience <- SubscriberBuffer,
        MaxLog   <- MaxPublished,
        log      <- published,
        stopped  <- closed,
        status   <- [c \in Client |-> Status(c)],
        pending  <- [c \in Client |-> Waiting(c)],
        last     <- [c \in Client |-> Last(c)]

\* The hub keeps the promise of ports.EventBroadcaster (ports/events.go:9-23),
\* step by step and under fairness: a subscriber misses an event only while it
\* is SubscriberBuffer events behind, the others never notice, and it gets the
\* rest in order.
ImplementsBroadcaster == B!Spec
=============================================================================
