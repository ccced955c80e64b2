------------------------------ MODULE LiveView ------------------------------
(***************************************************************************)
(* The path of a change from the container runtime to the rows on a page:  *)
(*                                                                         *)
(*   daemon --List--> MonitorService --Publish--> Hub --> stream --> page  *)
(*                                                                         *)
(* Workers are the goroutines that call MonitorService.refresh: the watch  *)
(* loop (Run) and every HTTP request that stops, starts or removes a       *)
(* container.  refresh reads the project without the lock, compares and    *)
(* swaps the snapshot under it, and publishes the events one by one after  *)
(* releasing it, so the three are separate steps here.                     *)
(*                                                                         *)
(* The wire between the stream handler and the page is an ordered byte     *)
(* stream; a frame is written and applied in one step.  When Run decides   *)
(* to refresh is the subject of module Watch: here it may at any time.     *)
(***************************************************************************)
EXTENDS Observation, Sequences, Channel

CONSTANTS
    Conn,               \* open pages, each with its EventSource
    Req,                \* HTTP requests acting on containers; {} = read-only
    Run,                \* the watch loop
    SubscriberBuffer,   \* capacity of a subscriber's channel (16 in the code)
    MaxMoves,           \* bound: how often containers change
    MaxOutages          \* bound: how often the runtime becomes unreachable

ASSUME BufferAssumption == SubscriberBuffer \in Nat \ {0}
ASSUME RunAssumption == Run \notin Req
ASSUME BoundAssumption == MaxMoves \in Nat /\ MaxOutages \in Nat

Worker == Req \cup {Run}

VARIABLES
    daemon,     \* the project's containers as they are
    born,       \* the ids the runtime has handed out: it never reuses one
    up,         \* the runtime answers
    moves,      \* bound: changes so far
    outages,    \* bound: outages so far
    snapshot,   \* MonitorService.snapshot
    pc,         \* where each worker is
    job,        \* the action and container of each request
    view,       \* what a worker's List returned
    todo,       \* the events a worker still has to publish
    conn,       \* where each page's connection is
    queue,      \* the channel the hub holds for each connection
    rows,       \* what a stream handler's List returned
    table,      \* what each page shows
    touched,    \* history: containers with an event sent to this subscription
    base,       \* history: the snapshot when the stream handler listed
    lagged,     \* history: an event was dropped for this subscription
    stirred,    \* history: what really happened to whom since Run last listed
    seen        \* history: the same, since the List before that

world == <<daemon, born, moves>>
runtime == <<world, up, outages, stirred>>
workers == <<pc, job, view, todo>>
history == <<touched, base, lagged>>
pages == <<conn, queue, rows, table, history>>
vars == <<runtime, snapshot, workers, seen, pages>>

NoJob == [op |-> "none"]

Init ==
    /\ daemon \in [Cid -> {Absent, [online |-> TRUE, age |-> 0]}]
    /\ born = {i \in Cid : daemon[i] # Absent}
    /\ up = TRUE
    /\ moves = 0
    /\ outages = 0
    /\ snapshot = Nothing
    /\ pc = [w \in Worker |-> "idle"]
    /\ job = [q \in Req |-> NoJob]
    /\ view = [w \in Worker |-> Nothing]
    /\ todo = [w \in Worker |-> {}]
    /\ conn = [c \in Conn |-> "off"]
    /\ queue = [c \in Conn |-> <<>>]
    /\ rows = [c \in Conn |-> Nothing]
    /\ table = [c \in Conn |-> Nothing]
    /\ touched = [c \in Conn |-> {}]
    /\ base = [c \in Conn |-> Nothing]
    /\ lagged = {}
    /\ stirred = born
    /\ seen = {}

-----------------------------------------------------------------------------
(* The container runtime.                                                  *)

\* Container i becomes s: everything but the passing of time is news.
Become(i, s) ==
    /\ moves < MaxMoves
    /\ moves' = moves + 1
    /\ daemon' = [daemon EXCEPT ![i] = s]
    /\ stirred' = IF daemon[i] # Absent /\ s # Absent
                     /\ daemon[i].online = s.online
                  THEN stirred ELSE stirred \cup {i}

Fresh(on) == [online |-> on, age |-> 0]

Create(i) ==
    /\ i \notin born
    /\ born' = born \cup {i}
    /\ Become(i, Fresh(FALSE))

\* Starting, stopping or dying by any hand but this program's.
Flip(i) ==
    /\ daemon[i] # Absent
    /\ Become(i, Fresh(~daemon[i].online))
    /\ UNCHANGED born

Destroy(i) ==
    /\ daemon[i] # Absent
    /\ ~daemon[i].online
    /\ Become(i, Absent)
    /\ UNCHANGED born

GrowOld(i) ==
    /\ daemon[i] # Absent
    /\ daemon[i].age < MaxAge
    /\ Become(i, [daemon[i] EXCEPT !.age = @ + 1])
    /\ UNCHANGED born

Environment ==
    /\ \E i \in Cid : Create(i) \/ Flip(i) \/ Destroy(i) \/ GrowOld(i)
    /\ UNCHANGED <<up, outages, snapshot, workers, seen, pages>>

Outage ==
    /\ up
    /\ outages < MaxOutages
    /\ outages' = outages + 1
    /\ up' = FALSE
    /\ UNCHANGED <<world, stirred, snapshot, workers, seen, pages>>

Recover ==
    /\ ~up
    /\ up' = TRUE
    /\ UNCHANGED <<world, stirred, outages, snapshot, workers, seen, pages>>

-----------------------------------------------------------------------------
(* MonitorService: the actions of a request.                               *)

\* What the action's precondition wants of the container it found.
Fits(op, s) ==
    /\ s # Absent
    /\ s.online <=> (op = "stop")

\* Stop, Start and Remove up to the runtime call: a fresh List resolves the
\* container and the precondition is checked on what it returned.  When the
\* List fails or the check refuses, nothing changes.
Check(q) ==
    /\ pc[q] = "idle"
    /\ up
    /\ \E op \in {"stop", "start", "remove"}, i \in Cid :
        /\ Fits(op, daemon[i])
        /\ job' = [job EXCEPT ![q] = [op |-> op, id |-> i]]
    /\ pc' = [pc EXCEPT ![q] = "checked"]
    /\ UNCHANGED <<runtime, snapshot, view, todo, seen, pages>>

\* Mutant: the removal is forced.
ObeysForced(i, op) ==
    CASE op = "stop" /\ daemon[i].online     -> Become(i, Fresh(FALSE))
      [] op = "start" /\ ~daemon[i].online   -> Become(i, Fresh(TRUE))
      [] op = "remove"                        -> Become(i, Absent)
      [] OTHER -> UNCHANGED <<daemon, moves, stirred>>

\* What the runtime makes of the call: stopping what is stopped and starting
\* what runs succeed without effect, a running container is not removed since
\* Force is left off, and a container that is gone is an error.
Obeys(i, op) ==
    CASE op = "stop" /\ daemon[i].online     -> Become(i, Fresh(FALSE))
      [] op = "start" /\ ~daemon[i].online   -> Become(i, Fresh(TRUE))
      [] op = "remove" /\ ~daemon[i].online  -> Become(i, Absent)
      [] OTHER -> op # "remove" /\ UNCHANGED <<daemon, moves, stirred>>

\* The call took effect and returned.
Operate(q) ==
    /\ pc[q] = "checked"
    /\ up
    /\ daemon[job[q].id] # Absent
    /\ Obeys(job[q].id, job[q].op)
    /\ pc' = [pc EXCEPT ![q] = "acted"]
    /\ job' = [job EXCEPT ![q] = NoJob]
    /\ UNCHANGED <<born, up, outages, snapshot, view, todo, seen, pages>>

\* The call returned an error, the request's own cancellation included: the
\* request gives up without announcing, whether or not the runtime obeyed.
OperateFails(q) ==
    /\ pc[q] = "checked"
    /\ pc' = [pc EXCEPT ![q] = "idle"]
    /\ job' = [job EXCEPT ![q] = NoJob]
    /\ \/ UNCHANGED world /\ UNCHANGED stirred
       \/ /\ daemon[job[q].id] # Absent
          /\ Obeys(job[q].id, job[q].op)
          /\ UNCHANGED born
    /\ UNCHANGED <<up, outages, snapshot, view, todo, seen, pages>>

-----------------------------------------------------------------------------
(* MonitorService.refresh, by Run or as the announce of a request.         *)

\* Mutant: the watch loop stands aside while a request acts.
ReadyUnlessRequested(w) ==
    /\ pc[w] = IF w = Run THEN "idle" ELSE "acted"
    /\ w = Run => \A q \in Req : pc[q] = "idle"

ReadyToList(w) == pc[w] = IF w = Run THEN "idle" ELSE "acted"

\* source.List, outside the lock.
List(w) ==
    /\ ReadyToList(w)
    /\ up
    /\ view' = [view EXCEPT ![w] = daemon]
    /\ pc' = [pc EXCEPT ![w] = "listed"]
    /\ IF w = Run THEN seen' = stirred /\ stirred' = {}
                  ELSE UNCHANGED <<seen, stirred>>
    /\ UNCHANGED <<world, up, outages, snapshot, job, todo, pages>>

\* The read failed, for a request also because its own context is done by now:
\* it is logged, and the next refresh is another try.
ListFails(w) ==
    /\ ReadyToList(w)
    /\ ~up \/ w \in Req
    /\ pc' = [pc EXCEPT ![w] = "idle"]
    /\ UNCHANGED <<runtime, snapshot, job, view, todo, seen, pages>>

\* The critical section: diff against the last observation and replace it.
Swap(w) ==
    /\ pc[w] = "listed"
    /\ todo' = [todo EXCEPT ![w] = DiffSnapshots(snapshot, view[w])]
    /\ snapshot' = view[w]
    /\ view' = [view EXCEPT ![w] = Nothing]
    /\ pc' = [pc EXCEPT ![w] = IF todo'[w] = {} THEN "idle" ELSE "publishing"]
    /\ UNCHANGED <<runtime, job, seen, pages>>

\* Mutant: the handler subscribes only after it has read and sent the rows.
RegisteredLate == {c \in Conn : conn[c] = "live"}

Registered == {c \in Conn : conn[c] \in {"subscribed", "listed", "live"}}

Room(c) == Len(queue[c]) < SubscriberBuffer

\* One call of Publish, after the lock was released.
Publish(w) ==
    /\ pc[w] = "publishing"
    /\ \E e \in todo[w] :
        /\ InDisplayOrder(e, todo[w])
        /\ todo' = [todo EXCEPT ![w] = @ \ {e}]
        /\ queue' = [c \in Conn |->
                        IF c \in Registered
                        THEN Offer(queue[c], SubscriberBuffer, e)
                        ELSE queue[c]]
        /\ touched' = [c \in Conn |->
                        IF c \in Registered /\ Room(c)
                        THEN touched[c] \cup {e.id} ELSE touched[c]]
        /\ lagged' = lagged \cup {c \in Registered : ~Room(c)}
    /\ pc' = [pc EXCEPT ![w] = IF todo'[w] = {} THEN "idle" ELSE "publishing"]
    /\ UNCHANGED <<runtime, snapshot, job, view, seen, conn, rows, table, base>>

Refresh(w) == List(w) \/ ListFails(w) \/ Swap(w) \/ Publish(w)

-----------------------------------------------------------------------------
(* The stream handler and the page.                                        *)

\* EventSource connects, by itself after a lost connection, and the handler
\* subscribes before it reads anything.
Subscribe(c) ==
    /\ conn[c] = "off"
    /\ conn' = [conn EXCEPT ![c] = "subscribed"]
    /\ queue' = [queue EXCEPT ![c] = <<>>]
    /\ touched' = [touched EXCEPT ![c] = {}]
    /\ lagged' = lagged \ {c}
    /\ UNCHANGED <<runtime, snapshot, workers, seen, rows, table, base>>

\* The handler's own read of the runtime, not of the snapshot.
ReadRows(c) ==
    /\ conn[c] = "subscribed"
    /\ up
    /\ conn' = [conn EXCEPT ![c] = "listed"]
    /\ rows' = [rows EXCEPT ![c] = daemon]
    /\ base' = [base EXCEPT ![c] = snapshot]
    /\ UNCHANGED <<runtime, snapshot, workers, seen, queue, table, touched,
                   lagged>>

\* The handler answers 503.  A browser retries a connection it lost, but it
\* closes an EventSource for good when the answer is not 200.
Refuse(c) ==
    /\ conn[c] = "subscribed"
    /\ ~up
    /\ conn' = [conn EXCEPT ![c] = "refused"]
    /\ queue' = [queue EXCEPT ![c] = <<>>]
    /\ UNCHANGED <<runtime, snapshot, workers, seen, rows, table, history>>

\* The sync frame replaces the whole table.
Sync(c) ==
    /\ conn[c] = "listed"
    /\ conn' = [conn EXCEPT ![c] = "live"]
    /\ table' = [table EXCEPT ![c] = rows[c]]
    /\ rows' = [rows EXCEPT ![c] = Nothing]
    /\ UNCHANGED <<runtime, snapshot, workers, seen, queue, history>>

\* The loop takes an event and the page upserts or removes its row.
Change(c) ==
    /\ conn[c] = "live"
    /\ queue[c] # <<>>
    /\ LET e == Head(queue[c])
       IN  table' = [table EXCEPT ![c][e.id] = Shown(e)]
    /\ queue' = [queue EXCEPT ![c] = Tail(@)]
    /\ UNCHANGED <<runtime, snapshot, workers, seen, conn, rows, history>>

\* The client goes away or a write fails: the handler returns, its deferred
\* unsubscribe throws the channel away, and the page keeps what it shows.
Disconnect(c) ==
    /\ c \in Registered
    /\ conn' = [conn EXCEPT ![c] = "off"]
    /\ queue' = [queue EXCEPT ![c] = <<>>]
    /\ rows' = [rows EXCEPT ![c] = Nothing]
    /\ UNCHANGED <<runtime, snapshot, workers, seen, table, history>>

\* Someone reloads the page: its new script opens a new EventSource.
Reload(c) ==
    /\ conn[c] = "refused"
    /\ conn' = [conn EXCEPT ![c] = "off"]
    /\ UNCHANGED <<runtime, snapshot, workers, seen, queue, rows, table,
                   history>>

Stream(c) == ReadRows(c) \/ Refuse(c) \/ Sync(c) \/ Change(c)

Request(q) == Check(q) \/ Operate(q) \/ OperateFails(q)

Next ==
    \/ Environment
    \/ Outage
    \/ Recover
    \/ \E w \in Worker : Refresh(w)
    \/ \E q \in Req : Request(q)
    \/ \E c \in Conn : Subscribe(c) \/ Stream(c) \/ Disconnect(c) \/ Reload(c)

SafeSpec == Init /\ [][Next]_vars

\* A started goroutine goes on, Run refreshes again and again because of its
\* ticker, and a browser reconnects; the runtime comes back.  Containers,
\* users and networks owe us nothing.
Fairness ==
    /\ WF_vars(Recover)
    /\ \A w \in Worker : WF_vars(Refresh(w))
    /\ \A q \in Req : WF_vars(Operate(q) \/ OperateFails(q))
    /\ \A c \in Conn : WF_vars(Stream(c)) /\ WF_vars(Subscribe(c))

Spec == SafeSpec /\ Fairness

-----------------------------------------------------------------------------

Connected == {c \in Conn : conn[c] \in {"listed", "live"}}

About(i, events) == {e \in events : e.id = i}

\* TYPE: the shape of every variable, with a row per container at every stage.
TypeOK ==
    /\ daemon \in Observation
    /\ born \subseteq Cid
    /\ up \in BOOLEAN
    /\ moves \in 0 .. MaxMoves
    /\ outages \in 0 .. MaxOutages
    /\ snapshot \in Observation
    /\ pc \in [Worker -> {"idle", "checked", "acted", "listed", "publishing"}]
    /\ job \in [Req -> {NoJob} \cup
                       [op : {"stop", "start", "remove"}, id : Cid]]
    /\ view \in [Worker -> Observation]
    /\ todo \in [Worker -> SUBSET Event]
    /\ conn \in [Conn -> {"off", "subscribed", "listed", "live", "refused"}]
    /\ queue \in [Conn -> Seq(Event)]
    /\ rows \in [Conn -> Observation]
    /\ table \in [Conn -> Observation]
    /\ touched \in [Conn -> SUBSET Cid]
    /\ base \in [Conn -> Observation]
    /\ lagged \subseteq Conn
    /\ stirred \subseteq Cid
    /\ seen \subseteq Cid

\* Subscribing before reading leaves no gap (handler.go:71-75): whatever
\* changes in the snapshot from the moment the handler read the runtime is
\* sent to that connection, or still to be published by the worker that
\* swapped it in, unless the connection's channel overflowed.
NoGap ==
    \A c \in Connected \ lagged, i \in Cid :
        (i \notin touched[c] /\ \A w \in Worker : About(i, todo[w]) = {})
            => snapshot[i] = base[c][i]

\* A request that passed its check still knows what it was asked to do.
JobInv == \A q \in Req : pc[q] = "checked" => job[q] # NoJob

\* Events wait in a worker's hands only between its swap and its last Publish,
\* so that the next swap overwrites none.
TodoInv == \A w \in Worker : todo[w] # {} => pc[w] = "publishing"

\* The inductive invariant behind NoGap.
LiveInv == TypeOK /\ JobInv /\ TodoInv /\ NoGap

\* A running container is never deleted, not even one that somebody starts
\* between the check of Remove and the runtime call, which are two requests
\* (client.go:138-141).
RunningIsKept ==
    [][\A i \in Cid :
        daemon[i] # Absent /\ daemon[i].online => daemon'[i] # Absent]_vars

\* What waits in a channel about container i.
Queued(c, i) == {k \in DOMAIN queue[c] : queue[c][k].id = i}

Newest(k, K) == k \in K /\ \A l \in K : l <= k

\* What the next event about container i has to add to: the newest one queued,
\* or, when all were applied, what a live page shows.
Tells(c, i) ==
    IF Queued(c, i) = {}
    THEN conn[c] = "live" /\ table[c][i] = snapshot[i]
    ELSE \E k \in Queued(c, i) :
            /\ Newest(k, Queued(c, i))
            /\ Shown(queue[c][k]) = snapshot[i]

EventsTell == \A e \in todo[Run] : Shown(e) = snapshot[e.id]

QueuesTell ==
    \A c \in Registered \ lagged, i \in Cid :
        i \in touched[c] /\ About(i, todo[Run]) = {} => Tells(c, i)

\* With the watch loop as the only worker, the end of what was sent about a
\* container is what the snapshot says of it: once its channel is drained, a
\* page that did not overflow shows the snapshot in every row it was sent an
\* event about (monitor_service.go:319-341, handler.go:120-152).
RowsTrackSnapshot ==
    /\ EventsTell
    /\ \A c \in Connected \ lagged :
        \A i \in {j \in touched[c] : About(j, todo[Run]) = {}} : Tells(c, i)

\* The inductive invariant behind RowsTrackSnapshot: it starts to hold of a
\* connection when the handler subscribes, before there is a row.
TrackInv == EventsTell /\ QueuesTell

\* A row is marked only when something happened to its container since the
\* read before the one that noticed it, never for the clock alone
\* (README.md:41-44, monitor_service.go:431-447).
HighlightsAreReal == \A e \in todo[Run] : e.notable => e.id \in seen

\* More than the clock tells two observations of a container apart.
Notably(before, after) ==
    IF before = Absent \/ after = Absent THEN before # after
    ELSE Notable(before, after)

\* What Run read last, compared with the snapshot already or still to be.
LastRead == IF pc[Run] = "listed" THEN view[Run] ELSE snapshot

\* The inductive invariant behind HighlightsAreReal.
NewsInv ==
    /\ \A i \in Cid \ stirred : ~Notably(LastRead[i], daemon[i])
    /\ pc[Run] = "listed" =>
         \A i \in Cid \ seen : ~Notably(snapshot[i], view[Run][i])
    /\ HighlightsAreReal

\* Nothing is under way: the monitor has seen the runtime as it is, every
\* event has been published and this page has applied all it was sent.
Settled(c) ==
    /\ snapshot = daemon
    /\ \A w \in Worker : pc[w] = "idle"
    /\ conn[c] = "live"
    /\ queue[c] = <<>>
    /\ c \notin lagged

\* "A client that has just connected ... is correct without needing to have
\* seen the events it missed" (handler.go:40-42): a settled page shows the
\* project as it is.
SyncSuffices == \A c \in Conn : Settled(c) => table[c] = daemon

\* "Every open page converges on the same state" (services/handlers/
\* handler.go:204-206): a settled page shows the true state at least of the
\* containers it was sent events about.
PagesConverge ==
    \A c \in Conn :
        Settled(c) => \A i \in touched[c] : table[c][i] = daemon[i]

\* Unless a container never stops changing, the snapshot comes to show it as it
\* is and to stay right: through outages and failed reads, an older read that a
\* request swaps in after a newer one, and calls that took effect although they
\* failed and so were never announced; the ticker is enough
\* (monitor_service.go:259-261, 309-312, 319-334).
SnapshotCatchesUp ==
    \A i \in Cid :
        \/ []<><<daemon'[i] # daemon[i]>>_vars
        \/ <>[](snapshot[i] = daemon[i])

\* Every row a page was sent an event about catches up with its container,
\* while the page's stream lives and does not overflow.
RowsCatchUp ==
    \A c \in Conn, i \in Cid :
        (i \in touched[c] /\ table[c][i] # daemon[i])
            ~> \/ table[c][i] = daemon[i]
               \/ conn[c] # "live"
               \/ c \in lagged

\* "EventSource reports a dropped connection and a failed reconnect the same
\* way, and retries by itself" (app.js:287-288): a page whose stream was
\* refused during an outage is live again some time after it.
StreamRecovers == \A c \in Conn : conn[c] = "refused" ~> conn[c] = "live"
=============================================================================
