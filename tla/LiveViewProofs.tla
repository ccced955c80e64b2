--------------------------- MODULE LiveViewProofs ---------------------------
(***************************************************************************)
(* What holds of the live view for any set of containers, pages and        *)
(* requests, any buffer size and any bounds: type correctness, that no     *)
(* change falls between a page's sync frame and its events, and that a     *)
(* running container is never removed; and, where the deployment may not   *)
(* act on containers, that rows follow the snapshot and marks are news.    *)
(***************************************************************************)
EXTENDS LiveView, TLAPS

-----------------------------------------------------------------------------
(* Comparing two observations.                                             *)

\* Two different observations of a container produce an event about it.
LEMMA DifferenceIsAnEvent ==
    ASSUME NEW i \in Cid,
           NEW before \in Service \cup {Absent},
           NEW after \in Service \cup {Absent},
           before # after
    PROVE  \E e \in DiffOne(i, before, after) : e.id = i
<1>1. CASE before = Absent
    BY <1>1 DEF DiffOne
<1>2. CASE before # Absent /\ after = Absent
    BY <1>2 DEF DiffOne
<1>3. CASE before # Absent /\ after # Absent
    <2>1. before \in Service /\ after \in Service
        BY <1>3
    <2>2. before.online # after.online \/ before.age # after.age
        BY <2>1 DEF Service
    <2>3. Changed(before, after)
        BY <2>2 DEF Changed, Notable
    <2> QED
        BY <1>3, <2>3 DEF DiffOne
<1> QED
    BY <1>1, <1>2, <1>3

\* Every event of a comparison carries a service that was observed.
LEMMA DiffOneType ==
    ASSUME NEW i \in Cid,
           NEW before \in Service \cup {Absent},
           NEW after \in Service \cup {Absent}
    PROVE  DiffOne(i, before, after) \subseteq Event
<1>1. Notable(before, after) \in BOOLEAN
    BY DEF Notable
<1>2. CASE before = Absent /\ after # Absent
    BY <1>2 DEF DiffOne, Event
<1>3. CASE before # Absent /\ after = Absent
    BY <1>3 DEF DiffOne, Event
<1>4. CASE before # Absent /\ after # Absent
    BY <1>1, <1>4 DEF DiffOne, Event
<1>5. CASE before = Absent /\ after = Absent
    BY <1>5 DEF DiffOne
<1> QED
    BY <1>2, <1>3, <1>4, <1>5

LEMMA DiffType ==
    ASSUME NEW previous \in Observation, NEW next \in Observation
    PROVE  DiffSnapshots(previous, next) \subseteq Event
<1>1. \A i \in Cid : DiffOne(i, previous[i], next[i]) \subseteq Event
    BY DiffOneType DEF Observation
<1> QED
    BY <1>1 DEF DiffSnapshots

LEMMA DiffSnapshotsTells ==
    ASSUME NEW previous \in Observation, NEW next \in Observation,
           NEW i \in Cid, previous[i] # next[i]
    PROVE  About(i, DiffSnapshots(previous, next)) # {}
<1>1. PICK e \in DiffOne(i, previous[i], next[i]) : e.id = i
    BY DifferenceIsAnEvent DEF Observation
<1>2. e \in DiffSnapshots(previous, next)
    BY <1>1 DEF DiffSnapshots
<1> QED
    BY <1>1, <1>2 DEF About

-----------------------------------------------------------------------------
(* Type correctness.                                                       *)

\* Absent is not a service, and the services the runtime makes are services.
LEMMA FreshType ==
    /\ \A on \in BOOLEAN : Fresh(on) \in Service
    /\ Fresh(FALSE) \in Service /\ Fresh(TRUE) \in Service
    /\ \A on \in BOOLEAN : Fresh(~on) \in Service
BY MaxAgeAssumption, AbsentAssumption DEF Fresh, Service

\* A change of one container keeps the runtime's state well formed.
LEMMA BecomeType ==
    ASSUME TypeOK, NEW i \in Cid, NEW s \in Service \cup {Absent}, Become(i, s)
    PROVE  /\ daemon' \in Observation
           /\ moves' \in 0 .. MaxMoves
           /\ stirred' \subseteq Cid
<1>1. daemon' \in Observation
    BY DEF TypeOK, Become, Observation
<1>2. moves' \in 0 .. MaxMoves
    BY BoundAssumption DEF TypeOK, Become
<1>3. stirred' \subseteq Cid
    BY DEF TypeOK, Become
<1> QED
    BY <1>1, <1>2, <1>3

LEMMA ObeysType ==
    ASSUME TypeOK, NEW i \in Cid, NEW op, Obeys(i, op), daemon[i] # Absent
    PROVE  /\ daemon' \in Observation
           /\ moves' \in 0 .. MaxMoves
           /\ stirred' \subseteq Cid
<1>1. daemon[i] \in Service
    BY DEF TypeOK, Observation
<1>2. daemon[i].online \in BOOLEAN
    BY <1>1 DEF Service
<1>3. CASE op = "stop" /\ daemon[i].online
    <2>1. Become(i, Fresh(FALSE))
        BY <1>3 DEF Obeys
    <2> QED
        BY <2>1, FreshType, BecomeType
<1>4. CASE op = "start" /\ ~daemon[i].online
    <2>1. Become(i, Fresh(TRUE))
        BY <1>4 DEF Obeys
    <2> QED
        BY <2>1, FreshType, BecomeType
<1>5. CASE op = "remove" /\ ~daemon[i].online
    <2>1. Become(i, Absent)
        BY <1>5 DEF Obeys
    <2> QED
        BY <2>1, BecomeType
<1>6. CASE ~(op = "stop" /\ daemon[i].online) /\ ~(op = "start" /\ ~daemon[i].online)
           /\ ~(op = "remove" /\ ~daemon[i].online)
    <2>1. UNCHANGED <<daemon, moves, stirred>>
        BY <1>6 DEF Obeys
    <2> QED
        BY <2>1 DEF TypeOK
<1> QED
    BY <1>3, <1>4, <1>5, <1>6

LEMMA EnvironmentType ==
    ASSUME TypeOK, Environment
    PROVE  TypeOK'
<1>1. PICK i \in Cid : Create(i) \/ Flip(i) \/ Destroy(i) \/ GrowOld(i)
    BY DEF Environment
<1>2. /\ daemon' \in Observation
      /\ moves' \in 0 .. MaxMoves
      /\ stirred' \subseteq Cid
      /\ born' \subseteq Cid
    <2>1. CASE Create(i)
        <3>1. Become(i, Fresh(FALSE)) /\ born' = born \cup {i}
            BY <2>1 DEF Create
        <3> QED
            BY <3>1, FreshType, BecomeType DEF TypeOK
    <2>2. CASE Flip(i)
        <3>1. Become(i, Fresh(~daemon[i].online)) /\ born' = born
            BY <2>2 DEF Flip
        <3>2. daemon[i] \in Service
            BY <2>2 DEF Flip, TypeOK, Observation
        <3>3. daemon[i].online \in BOOLEAN
            BY <3>2 DEF Service
        <3>4. Fresh(~daemon[i].online) \in Service
            BY <3>3, FreshType
        <3> QED
            BY <3>1, <3>4, BecomeType DEF TypeOK
    <2>3. CASE Destroy(i)
        <3>1. Become(i, Absent) /\ born' = born
            BY <2>3 DEF Destroy
        <3> QED
            BY <3>1, BecomeType DEF TypeOK
    <2>4. CASE GrowOld(i)
        <3> DEFINE s == [daemon[i] EXCEPT !.age = @ + 1]
        <3>1. Become(i, s) /\ born' = born
            BY <2>4 DEF GrowOld
        <3>2. daemon[i] \in Service /\ daemon[i].age < MaxAge
            BY <2>4 DEF GrowOld, TypeOK, Observation
        <3>3. s \in Service
            BY <3>2, MaxAgeAssumption DEF Service
        <3> QED
            BY <3>1, <3>3, BecomeType DEF TypeOK
    <2> QED
        BY <1>1, <2>1, <2>2, <2>3, <2>4
<1> QED
    BY <1>2 DEF Environment, workers, pages, history, TypeOK

LEMMA RequestType ==
    ASSUME TypeOK, JobInv, NEW q \in Req, Request(q)
    PROVE  TypeOK' /\ JobInv'
<1> DEFINE Jobs == {NoJob} \cup [op : {"stop", "start", "remove"}, id : Cid]
           Pcs == {"idle", "checked", "acted", "listed", "publishing"}
<1> USE DEF Worker
<1>1. job \in [Req -> Jobs] /\ pc \in [Worker -> Pcs]
    BY DEF TypeOK
<1>2. CASE Check(q)
    <2>1. PICK op \in {"stop", "start", "remove"}, i \in Cid :
            job' = [job EXCEPT ![q] = [op |-> op, id |-> i]]
        BY <1>2 DEF Check
    <2>2. [op |-> op, id |-> i] \in Jobs /\ [op |-> op, id |-> i] # NoJob
        BY DEF NoJob
    <2>3. job' \in [Req -> Jobs]
        BY <1>1, <2>1, <2>2
    <2>4. pc' = [pc EXCEPT ![q] = "checked"]
        BY <1>2 DEF Check
    <2>5. pc' \in [Worker -> Pcs]
        BY <1>1, <2>4
    <2>6. TypeOK'
        BY <1>2, <2>3, <2>5 DEF Check, runtime, world, pages, history, TypeOK
    <2>7. JobInv'
        BY <1>1, <2>1, <2>2, <2>4 DEF JobInv
    <2> QED
        BY <2>6, <2>7
<1>3. ASSUME pc[q] = "checked"
      PROVE  job[q].id \in Cid
    BY <1>1, <1>3 DEF JobInv
<1>4. ASSUME job' = [job EXCEPT ![q] = NoJob], NEW v \in Pcs \ {"checked"},
             pc' = [pc EXCEPT ![q] = v]
      PROVE  job' \in [Req -> Jobs] /\ pc' \in [Worker -> Pcs] /\ JobInv'
    <2>1. job' \in [Req -> Jobs] /\ pc' \in [Worker -> Pcs]
        BY <1>1, <1>4
    <2>2. JobInv'
        BY <1>1, <1>4 DEF JobInv
    <2> QED
        BY <2>1, <2>2
<1>5. CASE Operate(q)
    <2>1. job' \in [Req -> Jobs] /\ pc' \in [Worker -> Pcs] /\ JobInv'
        BY <1>4, <1>5 DEF Operate
    <2>2. job[q].id \in Cid
        BY <1>3, <1>5 DEF Operate
    <2>3. /\ daemon' \in Observation
          /\ moves' \in 0 .. MaxMoves
          /\ stirred' \subseteq Cid
        BY <1>5, <2>2, ObeysType DEF Operate
    <2> QED
        BY <1>5, <2>1, <2>3 DEF Operate, pages, history, TypeOK
<1>6. CASE OperateFails(q)
    <2>1. job' \in [Req -> Jobs] /\ pc' \in [Worker -> Pcs] /\ JobInv'
        BY <1>4, <1>6 DEF OperateFails
    <2>2. job[q].id \in Cid
        BY <1>3, <1>6 DEF OperateFails
    <2>3. /\ daemon' \in Observation
          /\ moves' \in 0 .. MaxMoves
          /\ stirred' \subseteq Cid
          /\ born' \subseteq Cid
        <3>1. CASE UNCHANGED world /\ UNCHANGED stirred
            BY <3>1 DEF world, TypeOK
        <3>2. CASE /\ daemon[job[q].id] # Absent
                   /\ Obeys(job[q].id, job[q].op)
                   /\ UNCHANGED born
            BY <2>2, <3>2, ObeysType DEF TypeOK
        <3> QED
            BY <1>6, <3>1, <3>2 DEF OperateFails
    <2> QED
        BY <1>6, <2>1, <2>3 DEF OperateFails, pages, history, TypeOK
<1> QED
    BY <1>2, <1>5, <1>6 DEF Request

LEMMA OfferType ==
    ASSUME NEW q \in Seq(Event), NEW e \in Event
    PROVE  Offer(q, SubscriberBuffer, e) \in Seq(Event)
BY DEF Offer

LEMMA PublishType ==
    ASSUME TypeOK, JobInv, NEW w \in Worker, Publish(w)
    PROVE  TypeOK' /\ JobInv'
<1>1. PICK e \in todo[w] :
        /\ todo' = [todo EXCEPT ![w] = @ \ {e}]
        /\ queue' = [c \in Conn |->
                        IF c \in Registered
                        THEN Offer(queue[c], SubscriberBuffer, e)
                        ELSE queue[c]]
        /\ touched' = [c \in Conn |->
                        IF c \in Registered /\ Room(c)
                        THEN touched[c] \cup {e.id} ELSE touched[c]]
        /\ lagged' = lagged \cup {c \in Registered : ~Room(c)}
    BY DEF Publish
<1>2. e \in Event /\ e.id \in Cid
    <2>1. todo[w] \subseteq Event
        BY DEF TypeOK
    <2>2. e \in Event
        BY <2>1
    <2> QED
        BY <2>2 DEF Event
<1>3. todo' \in [Worker -> SUBSET Event]
    BY <1>1 DEF TypeOK
<1>4. queue' \in [Conn -> Seq(Event)]
    <2>1. \A c \in Conn : queue[c] \in Seq(Event)
        BY DEF TypeOK
    <2>2. \A c \in Conn : Offer(queue[c], SubscriberBuffer, e) \in Seq(Event)
        BY <1>2, <2>1, OfferType
    <2> QED
        BY <1>1, <2>1, <2>2
<1>5. touched' \in [Conn -> SUBSET Cid]
    BY <1>1, <1>2 DEF TypeOK
<1>6. lagged' \subseteq Conn
    BY <1>1 DEF Registered, TypeOK
<1>7. PICK v \in {"idle", "publishing"} : pc' = [pc EXCEPT ![w] = v]
    BY DEF Publish
<1>8. pc' \in [Worker ->
                {"idle", "checked", "acted", "listed", "publishing"}]
    BY <1>7 DEF TypeOK
<1>9. TypeOK'
    BY <1>3, <1>4, <1>5, <1>6, <1>8 DEF Publish, runtime, world, TypeOK
<1>10. JobInv'
    BY <1>7 DEF Publish, JobInv, TypeOK, Worker
<1> QED
    BY <1>9, <1>10

LEMMA RefreshType ==
    ASSUME TypeOK, JobInv, NEW w \in Worker, Refresh(w)
    PROVE  TypeOK' /\ JobInv'
<1> DEFINE Pcs == {"idle", "checked", "acted", "listed", "publishing"}
<1>1. ASSUME NEW v \in Pcs \ {"checked"}, pc' = [pc EXCEPT ![w] = v],
             UNCHANGED job
      PROVE  pc' \in [Worker -> Pcs] /\ JobInv'
    BY <1>1 DEF TypeOK, JobInv, Worker
<1>2. CASE List(w)
    <2>1. pc' \in [Worker -> Pcs] /\ JobInv'
        BY <1>1, <1>2 DEF List
    <2>2. view' \in [Worker -> Observation]
        BY <1>2 DEF List, TypeOK
    <2>3. seen' \subseteq Cid /\ stirred' \subseteq Cid
        BY <1>2 DEF List, TypeOK
    <2> QED
        BY <1>2, <2>1, <2>2, <2>3 DEF List, world, pages, history, TypeOK
<1>3. CASE ListFails(w)
    <2>1. pc' \in [Worker -> Pcs] /\ JobInv'
        BY <1>1, <1>3 DEF ListFails
    <2> QED
        BY <1>3, <2>1
        DEF ListFails, runtime, world, pages, history, TypeOK
<1>4. CASE Swap(w)
    <2>1. pc' \in [Worker -> Pcs] /\ JobInv'
        BY <1>1, <1>4 DEF Swap
    <2>2. view[w] \in Observation /\ snapshot \in Observation
        BY DEF TypeOK
    <2>3. snapshot' \in Observation
        BY <1>4, <2>2 DEF Swap
    <2>4. DiffSnapshots(snapshot, view[w]) \subseteq Event
        BY <2>2, DiffType
    <2>5. todo' \in [Worker -> SUBSET Event]
        BY <1>4, <2>4 DEF Swap, TypeOK
    <2>6. view' \in [Worker -> Observation]
        <3>1. Nothing \in Observation
            BY DEF Nothing, Observation
        <3> QED
            BY <1>4, <3>1 DEF Swap, TypeOK
    <2> QED
        BY <1>4, <2>1, <2>3, <2>5, <2>6
        DEF Swap, runtime, world, pages, history, TypeOK
<1> QED
    BY <1>2, <1>3, <1>4, PublishType DEF Refresh

\* The steps of a page and its stream handler.
LEMMA PageType ==
    ASSUME TypeOK, NEW c \in Conn,
           Subscribe(c) \/ Stream(c) \/ Disconnect(c) \/ Reload(c)
    PROVE  TypeOK'
<1>1. Nothing \in Observation /\ <<>> \in Seq(Event)
    BY DEF Nothing, Observation
<1>2. CASE Subscribe(c)
    BY <1>1, <1>2 DEF Subscribe, runtime, world, workers, TypeOK
<1>3. CASE ReadRows(c)
    BY <1>3 DEF ReadRows, runtime, world, workers, TypeOK
<1>4. CASE Refuse(c)
    BY <1>1, <1>4 DEF Refuse, runtime, world, workers, history, TypeOK
<1>5. CASE Sync(c)
    BY <1>1, <1>5 DEF Sync, runtime, world, workers, history, TypeOK
<1>6. CASE Change(c)
    <2> DEFINE e == Head(queue[c])
    <2>1. queue[c] \in Seq(Event) /\ queue[c] # <<>>
        BY <1>6 DEF Change, TypeOK
    <2>2. e \in Event /\ Tail(queue[c]) \in Seq(Event)
        BY <2>1
    <2>3. e.id \in Cid /\ Shown(e) \in Service \cup {Absent}
        BY <2>2 DEF Event, Shown
    <2>4. table' = [table EXCEPT ![c][e.id] = Shown(e)]
        BY <1>6 DEF Change
    <2>5. table' \in [Conn -> Observation]
        BY <2>3, <2>4 DEF TypeOK, Observation
    <2>6. queue' \in [Conn -> Seq(Event)]
        BY <1>6, <2>2 DEF Change, TypeOK
    <2> QED
        BY <1>6, <2>5, <2>6 DEF Change, runtime, world, workers, history, TypeOK
<1>7. CASE Disconnect(c)
    BY <1>1, <1>7 DEF Disconnect, runtime, world, workers, history, TypeOK
<1>8. CASE Reload(c)
    BY <1>8 DEF Reload, runtime, world, workers, history, TypeOK
<1> QED
    BY <1>2, <1>3, <1>4, <1>5, <1>6, <1>7, <1>8 DEF Stream

LEMMA LiveType ==
    ASSUME TypeOK, JobInv, [Next]_vars
    PROVE  TypeOK' /\ JobInv'
<1>1. CASE Environment
    BY <1>1, EnvironmentType
    DEF Environment, workers, JobInv
<1>2. CASE Outage
    <2>1. outages' \in 0 .. MaxOutages
        BY <1>2, BoundAssumption DEF Outage, TypeOK
    <2>2. UNCHANGED <<daemon, born, moves, stirred, snapshot, workers, seen,
                      pages>> /\ up' = FALSE
        BY <1>2 DEF Outage, world
    <2>3. TypeOK'
        BY <2>1, <2>2 DEF workers, pages, history, TypeOK
    <2>4. JobInv'
        BY <2>2 DEF workers, JobInv
    <2> QED
        BY <2>3, <2>4
<1>3. CASE Recover
    BY <1>3 DEF Recover, world, workers, pages, history, TypeOK, JobInv
<1>4. CASE \E w \in Worker : Refresh(w)
    BY <1>4, RefreshType
<1>5. CASE \E q \in Req : Request(q)
    BY <1>5, RequestType
<1>6. CASE \E c \in Conn :
            Subscribe(c) \/ Stream(c) \/ Disconnect(c) \/ Reload(c)
    <2>1. PICK c \in Conn :
            Subscribe(c) \/ Stream(c) \/ Disconnect(c) \/ Reload(c)
        BY <1>6
    <2>2. UNCHANGED workers
        BY <2>1 DEF Subscribe, Stream, ReadRows, Refuse, Sync, Change,
                    Disconnect, Reload
    <2> QED
        BY <2>1, <2>2, PageType DEF workers, JobInv
<1>7. CASE UNCHANGED vars
    BY <1>7 DEF vars, runtime, world, workers, pages, history, TypeOK, JobInv
<1> QED
    BY <1>1, <1>2, <1>3, <1>4, <1>5, <1>6, <1>7 DEF Next

-----------------------------------------------------------------------------
(* No gap between the sync frame and the events.                           *)

\* What neither swaps, publishes nor connects a page cannot open a gap.
LEMMA Quiet ==
    ASSUME NoGap, UNCHANGED <<snapshot, todo, touched, base, lagged>>,
           Connected' \subseteq Connected
    PROVE  NoGap'
BY DEF NoGap, About

LEMMA SwapNoGap ==
    ASSUME LiveInv, NEW w \in Worker, Swap(w)
    PROVE  TodoInv' /\ NoGap'
<1>1. /\ todo \in [Worker -> SUBSET Event] /\ pc \in [Worker ->
            {"idle", "checked", "acted", "listed", "publishing"}]
      /\ snapshot \in Observation /\ view[w] \in Observation
    BY DEF LiveInv, TypeOK
<1>2. /\ pc[w] = "listed"
      /\ todo' = [todo EXCEPT ![w] = DiffSnapshots(snapshot, view[w])]
      /\ snapshot' = view[w]
      /\ pc' = [pc EXCEPT ![w] =
                    IF todo'[w] = {} THEN "idle" ELSE "publishing"]
      /\ UNCHANGED pages
    BY DEF Swap
<1>3. todo[w] = {}
    BY <1>1, <1>2 DEF LiveInv, TodoInv
<1>4. TodoInv'
    BY <1>1, <1>2 DEF LiveInv, TodoInv
<1>5. NoGap'
    <2> SUFFICES ASSUME NEW c \in (Connected \ lagged)', NEW i \in Cid,
                        i \notin touched'[c],
                        \A v \in Worker : About(i, todo'[v]) = {}
                 PROVE  snapshot'[i] = base'[c][i]
        BY DEF NoGap
    <2>1. c \in Connected \ lagged /\ touched' = touched /\ base' = base
        BY <1>2 DEF pages, history, Connected
    <2>2. About(i, DiffSnapshots(snapshot, view[w])) = {}
        BY <1>1, <1>2
    <2>3. snapshot[i] = view[w][i]
        BY <1>1, <2>2, DiffSnapshotsTells
    <2>4. \A v \in Worker : About(i, todo[v]) = {}
        BY <1>1, <1>2, <1>3 DEF About
    <2>5. snapshot[i] = base[c][i]
        BY <2>1, <2>4 DEF LiveInv, NoGap
    <2> QED
        BY <1>2, <2>1, <2>3, <2>5
<1> QED
    BY <1>4, <1>5

LEMMA PublishNoGap ==
    ASSUME LiveInv, NEW w \in Worker, Publish(w)
    PROVE  TodoInv' /\ NoGap'
<1>1. PICK e \in todo[w] :
        /\ todo' = [todo EXCEPT ![w] = @ \ {e}]
        /\ touched' = [c \in Conn |->
                        IF c \in Registered /\ Room(c)
                        THEN touched[c] \cup {e.id} ELSE touched[c]]
        /\ lagged' = lagged \cup {c \in Registered : ~Room(c)}
    BY DEF Publish
<1>2. todo \in [Worker -> SUBSET Event]
    BY DEF LiveInv, TypeOK
<1>3. TodoInv'
    <2>1. pc' = [pc EXCEPT ![w] =
                    IF todo'[w] = {} THEN "idle" ELSE "publishing"]
        BY DEF Publish
    <2> QED
        BY <1>1, <1>2, <2>1 DEF LiveInv, TodoInv, TypeOK
<1>4. NoGap'
    <2> SUFFICES ASSUME NEW c \in (Connected \ lagged)', NEW i \in Cid,
                        i \notin touched'[c],
                        \A v \in Worker : About(i, todo'[v]) = {}
                 PROVE  snapshot'[i] = base'[c][i]
        BY DEF NoGap
    <2>1. UNCHANGED <<snapshot, base, conn>>
        BY DEF Publish
    <2>2. c \in Connected \ lagged /\ c \in Conn
        BY <1>1, <2>1 DEF Connected
    <2>3. c \in Registered
        BY <2>2 DEF Connected, Registered
    <2>4. Room(c)
        BY <1>1, <2>3
    <2>5. touched'[c] = touched[c] \cup {e.id}
        BY <1>1, <2>2, <2>3, <2>4
    <2>6. i \notin touched[c] /\ e.id # i
        BY <2>5
    <2>7. \A v \in Worker : About(i, todo[v]) = {}
        BY <1>1, <1>2, <2>6 DEF About
    <2> QED
        BY <2>1, <2>2, <2>6, <2>7 DEF LiveInv, NoGap
<1> QED
    BY <1>3, <1>4

LEMMA GapStep ==
    ASSUME LiveInv, [Next]_vars
    PROVE  TodoInv' /\ NoGap'
<1> USE DEF LiveInv
<1>1. CASE Environment \/ Outage \/ Recover \/ UNCHANGED vars
    <2>1. UNCHANGED <<snapshot, workers, pages>>
        BY <1>1 DEF Environment, Outage, Recover, vars
    <2>2. UNCHANGED <<snapshot, pc, todo, conn, touched, base, lagged>>
        BY <2>1 DEF workers, pages, history
    <2> QED
        BY <2>2, Quiet DEF TodoInv, Connected
<1>2. CASE \E w \in Worker : Refresh(w)
    <2>1. PICK w \in Worker : Refresh(w)
        BY <1>2
    <2>2. CASE List(w) \/ ListFails(w)
        <3>1. UNCHANGED <<snapshot, todo, conn, touched, base, lagged>>
            BY <2>2 DEF List, ListFails, pages, history
        <3>2. pc[w] # "publishing" /\ \A v \in Worker \ {w} : pc'[v] = pc[v]
            BY <2>2 DEF List, ListFails, ReadyToList, TypeOK
        <3>3. TodoInv'
            BY <3>1, <3>2 DEF TodoInv
        <3> QED
            BY <3>1, <3>3, Quiet DEF Connected
    <2> QED
        BY <2>1, <2>2, SwapNoGap, PublishNoGap DEF Refresh
<1>3. CASE \E q \in Req : Request(q)
    <2>1. PICK q \in Req : Check(q) \/ Operate(q) \/ OperateFails(q)
        BY <1>3 DEF Request
    <2>2. UNCHANGED <<snapshot, todo, conn, touched, base, lagged>>
        BY <2>1 DEF Check, Operate, OperateFails, pages, history
    <2>3. /\ q \in Worker /\ pc[q] # "publishing"
          /\ \A v \in Worker \ {q} : pc'[v] = pc[v]
        BY <2>1 DEF Check, Operate, OperateFails, TypeOK, Worker
    <2>4. TodoInv'
        BY <2>2, <2>3 DEF TodoInv
    <2> QED
        BY <2>2, <2>4, Quiet DEF Connected
<1>4. CASE \E c \in Conn :
            Subscribe(c) \/ Stream(c) \/ Disconnect(c) \/ Reload(c)
    <2>1. PICK c \in Conn :
            Subscribe(c) \/ Stream(c) \/ Disconnect(c) \/ Reload(c)
        BY <1>4
    <2>2. UNCHANGED <<snapshot, pc, todo>>
        BY <2>1 DEF Subscribe, Stream, ReadRows, Refuse, Sync, Change,
                    Disconnect, Reload, workers
    <2>3. TodoInv'
        BY <2>2 DEF TodoInv
    <2>4. CASE Subscribe(c)
        <3>1. conn' = [conn EXCEPT ![c] = "subscribed"]
            BY <2>4 DEF Subscribe
        <3>2. c \notin Connected' /\ Connected' \subseteq Connected
            BY <3>1 DEF Connected, TypeOK
        <3>3. /\ \A d \in Conn \ {c} : touched'[d] = touched[d]
              /\ base' = base
              /\ \A d \in Conn \ {c} : d \in lagged' <=> d \in lagged
            BY <2>4 DEF Subscribe, TypeOK
        <3>4. NoGap'
            BY <2>2, <3>2, <3>3 DEF NoGap, Connected, About
        <3> QED
            BY <2>3, <3>4
    <2>5. CASE ReadRows(c)
        <3>1. /\ conn' = [conn EXCEPT ![c] = "listed"]
              /\ base' = [base EXCEPT ![c] = snapshot]
              /\ UNCHANGED <<touched, lagged>>
            BY <2>5 DEF ReadRows
        <3>2. base'[c] = snapshot' /\ \A d \in Conn \ {c} : base'[d] = base[d]
            BY <2>2, <3>1 DEF TypeOK
        <3>3. Connected' \subseteq Connected \cup {c}
            BY <3>1 DEF Connected, TypeOK
        <3>4. NoGap'
            BY <2>2, <3>1, <3>2, <3>3 DEF NoGap, Connected, About
        <3> QED
            BY <2>3, <3>4
    <2>6. CASE Refuse(c) \/ Sync(c) \/ Change(c) \/ Disconnect(c) \/ Reload(c)
        <3>1. UNCHANGED <<touched, base, lagged>>
            BY <2>6 DEF Refuse, Sync, Change, Disconnect, Reload, history
        <3>2. Connected' \subseteq Connected
            BY <2>6 DEF Refuse, Sync, Change, Disconnect, Reload, Connected,
                        TypeOK
        <3> QED
            BY <2>2, <2>3, <3>1, <3>2, Quiet
    <2> QED
        BY <2>1, <2>4, <2>5, <2>6 DEF Stream
<1> QED
    BY <1>1, <1>2, <1>3, <1>4 DEF Next

-----------------------------------------------------------------------------
(* The theorems.                                                           *)

LEMMA LiveInit == Init => LiveInv
<1> SUFFICES ASSUME Init PROVE LiveInv
    OBVIOUS
<1>1. Nothing \in Observation /\ <<>> \in Seq(Event) /\ NoJob \in {NoJob}
    BY DEF Nothing, Observation
<1>2. [online |-> TRUE, age |-> 0] \in Service
    BY MaxAgeAssumption DEF Service
<1>3. daemon \in Observation
    BY <1>2 DEF Init, Observation
<1>4. born \subseteq Cid /\ stirred \subseteq Cid
    BY DEF Init
<1>5. TypeOK
    BY <1>1, <1>3, <1>4, BoundAssumption DEF Init, TypeOK
<1>6. JobInv /\ TodoInv
    BY DEF Init, JobInv, TodoInv, Worker
<1>7. NoGap
    BY DEF Init, NoGap, Connected
<1> QED
    BY <1>5, <1>6, <1>7 DEF LiveInv

\* SAFETY: the inductive invariant holds in every reachable state, for any
\* containers, pages, requests, buffer size and bounds.
THEOREM LiveSafe == SafeSpec => []LiveInv
<1>1. LiveInv /\ [Next]_vars => LiveInv'
    BY LiveType, GapStep DEF LiveInv
<1> QED
    BY LiveInit, <1>1, PTL DEF SafeSpec

\* SAFETY: every variable keeps its type.
THEOREM LiveTypeOK == SafeSpec => []TypeOK
<1>1. LiveInv => TypeOK
    BY DEF LiveInv
<1> QED
    BY LiveSafe, <1>1, PTL

\* SAFETY: the handler's order, subscribe first and read second, leaves no gap
\* between the sync frame and the events (handler.go:71-75), whoever refreshes
\* meanwhile and however often.
THEOREM LiveNoGap == SafeSpec => []NoGap
<1>1. LiveInv => NoGap
    BY DEF LiveInv
<1> QED
    BY LiveSafe, <1>1, PTL

\* What a container becomes: only a stopped one goes.
LEMMA BecomeKeeps ==
    ASSUME NEW i \in Cid, NEW s, Become(i, s), daemon \in Observation,
           s = Absent => daemon[i] = Absent \/ ~daemon[i].online
    PROVE  \A j \in Cid :
                daemon[j] # Absent /\ daemon[j].online => daemon'[j] # Absent
BY DEF Become, Observation

LEMMA FreshIsPresent == \A on : Fresh(on) # Absent \/ on \notin BOOLEAN
BY MaxAgeAssumption, AbsentAssumption DEF Fresh, Service

LEMMA ObeysKeeps ==
    ASSUME NEW i \in Cid, NEW op, Obeys(i, op), daemon \in Observation
    PROVE  \A j \in Cid :
                daemon[j] # Absent /\ daemon[j].online => daemon'[j] # Absent
<1>1. CASE op = "stop" /\ daemon[i].online
    BY <1>1, BecomeKeeps, FreshIsPresent DEF Obeys
<1>2. CASE op = "start" /\ ~daemon[i].online
    BY <1>2, BecomeKeeps, FreshIsPresent DEF Obeys
<1>3. CASE op = "remove" /\ ~daemon[i].online
    BY <1>3, BecomeKeeps DEF Obeys
<1>4. CASE ~(op = "stop" /\ daemon[i].online) /\ ~(op = "start" /\ ~daemon[i].online)
           /\ ~(op = "remove" /\ ~daemon[i].online)
    BY <1>4 DEF Obeys
<1> QED
    BY <1>1, <1>2, <1>3, <1>4

\* SAFETY: a running container is never deleted, although the check of Remove
\* and the runtime call are two requests and anyone may start the container in
\* between: the runtime is not asked to force (client.go:138-141).
THEOREM LiveRunningIsKept == SafeSpec => RunningIsKept
<1> DEFINE Kept == \A i \in Cid :
            daemon[i] # Absent /\ daemon[i].online => daemon'[i] # Absent
<1>1. TypeOK /\ JobInv /\ [Next]_vars => [Kept]_vars
    <2> SUFFICES ASSUME TypeOK, JobInv, Next PROVE Kept
        OBVIOUS
    <2>1. daemon \in Observation
        BY DEF TypeOK
    <2>2. CASE Environment
        <3>1. PICK i \in Cid : Create(i) \/ Flip(i) \/ Destroy(i) \/ GrowOld(i)
            BY <2>2 DEF Environment
        <3>2. CASE Create(i)
            BY <2>1, <3>2, BecomeKeeps, FreshIsPresent DEF Create
        <3>3. CASE Flip(i)
            <4>1. daemon[i] \in Service
                BY <2>1, <3>3 DEF Flip, Observation
            <4>2. daemon[i].online \in BOOLEAN
                BY <4>1 DEF Service
            <4>3. Fresh(~daemon[i].online) # Absent
                BY <4>2, FreshType, AbsentAssumption
            <4> QED
                BY <2>1, <3>3, <4>3, BecomeKeeps DEF Flip
        <3>4. CASE Destroy(i)
            BY <2>1, <3>4, BecomeKeeps DEF Destroy
        <3>5. CASE GrowOld(i)
            <4> DEFINE s == [daemon[i] EXCEPT !.age = @ + 1]
            <4>1. daemon[i] \in Service /\ daemon[i].age < MaxAge
                BY <2>1, <3>5 DEF GrowOld, Observation
            <4>2. s \in Service
                BY <4>1, MaxAgeAssumption DEF Service
            <4> QED
                BY <2>1, <3>5, <4>2, BecomeKeeps, AbsentAssumption DEF GrowOld
        <3> QED
            BY <3>1, <3>2, <3>3, <3>4, <3>5
    <2>3. CASE \E q \in Req : Request(q)
        <3>1. PICK q \in Req : Check(q) \/ Operate(q) \/ OperateFails(q)
            BY <2>3 DEF Request
        <3>2. CASE Check(q)
            BY <3>2, <2>1 DEF Check, runtime, world
        <3>3. ASSUME pc[q] = "checked" PROVE job[q].id \in Cid
            BY <3>3 DEF TypeOK, JobInv
        <3>4. CASE Operate(q)
            BY <2>1, <3>3, <3>4, ObeysKeeps DEF Operate
        <3>5. CASE OperateFails(q)
            <4>1. CASE UNCHANGED world
                BY <4>1 DEF world
            <4>2. CASE Obeys(job[q].id, job[q].op)
                BY <2>1, <3>3, <3>5, <4>2, ObeysKeeps DEF OperateFails
            <4> QED
                BY <3>5, <4>1, <4>2 DEF OperateFails
        <3> QED
            BY <3>1, <3>2, <3>4, <3>5
    <2>4. CASE UNCHANGED daemon
        BY <2>4
    <2>5. CASE Outage \/ Recover
        BY <2>4, <2>5 DEF Outage, Recover, world
    <2>6. CASE \E w \in Worker : Refresh(w)
        BY <2>4, <2>6
        DEF Refresh, List, ListFails, Swap, Publish, runtime, world
    <2>7. CASE \E c \in Conn :
                Subscribe(c) \/ Stream(c) \/ Disconnect(c) \/ Reload(c)
        BY <2>4, <2>7
        DEF Subscribe, Stream, ReadRows, Refuse, Sync, Change, Disconnect,
            Reload, runtime, world
    <2> QED
        BY <2>2, <2>3, <2>5, <2>6, <2>7 DEF Next
<1>2. LiveInv => TypeOK /\ JobInv
    BY DEF LiveInv
<1> QED
    BY LiveSafe, <1>1, <1>2, PTL DEF SafeSpec, RunningIsKept

-----------------------------------------------------------------------------
(* What holds in a deployment that may not act on containers, where the    *)
(* watch loop is the only caller of refresh: pages are told what the       *)
(* snapshot says, and only news is marked.                                 *)

(* Rows.                                                                   *)

\* What an event shows is what the comparison's second observation says.
LEMMA DiffShows ==
    ASSUME NEW previous \in Observation, NEW next \in Observation,
           NEW e \in DiffSnapshots(previous, next)
    PROVE  /\ e.id \in Cid
           /\ Shown(e) = next[e.id]
           /\ e.notable => Notably(previous[e.id], next[e.id])
<1>1. PICK i \in Cid : e \in DiffOne(i, previous[i], next[i])
    BY DEF DiffSnapshots
<1>2. CASE previous[i] = Absent /\ next[i] # Absent
    BY <1>1, <1>2 DEF DiffOne, Shown, Notably
<1>3. CASE previous[i] # Absent /\ next[i] = Absent
    BY <1>1, <1>3 DEF DiffOne, Shown, Notably
<1>4. CASE previous[i] # Absent /\ next[i] # Absent
    BY <1>1, <1>4 DEF DiffOne, Shown, Notably
<1>5. CASE previous[i] = Absent /\ next[i] = Absent
    BY <1>1, <1>5 DEF DiffOne
<1> QED
    BY <1>2, <1>3, <1>4, <1>5

\* What neither swaps nor publishes, sends nor connects keeps the rows in step.
LEMMA QuietTrack ==
    ASSUME TrackInv, UNCHANGED <<snapshot, todo, touched, lagged, queue, table, conn>>
    PROVE  TrackInv'
BY DEF TrackInv, EventsTell, QueuesTell, Tells, Registered, About, Queued, Newest

LEMMA SwapTrack ==
    ASSUME LiveInv, TrackInv, Req = {}, Swap(Run)
    PROVE  TrackInv'
<1>1. /\ todo \in [Worker -> SUBSET Event] /\ Run \in Worker
      /\ snapshot \in Observation /\ view[Run] \in Observation
    BY DEF LiveInv, TypeOK, Worker
<1>2. /\ pc[Run] = "listed"
      /\ todo' = [todo EXCEPT ![Run] = DiffSnapshots(snapshot, view[Run])]
      /\ snapshot' = view[Run]
      /\ UNCHANGED <<conn, queue, table, touched, lagged>>
    BY DEF Swap, pages, history
<1>3. todo'[Run] = DiffSnapshots(snapshot, view[Run]) /\ todo[Run] = {}
    BY <1>1, <1>2 DEF LiveInv, TodoInv
<1>4. EventsTell'
    BY <1>1, <1>2, <1>3, DiffShows DEF EventsTell
<1>5. QueuesTell'
    <2> SUFFICES ASSUME NEW c \in (Registered \ lagged)', NEW i \in Cid,
                        i \in touched'[c], About(i, todo'[Run]) = {}
                 PROVE  Tells(c, i)'
        BY DEF QueuesTell
    <2>1. c \in Registered \ lagged /\ i \in touched[c] /\ i \in Cid
        BY <1>2 DEF Registered, LiveInv, TypeOK
    <2>2. snapshot'[i] = snapshot[i]
        BY <1>1, <1>2, <1>3, <2>1, DiffSnapshotsTells
    <2>3. About(i, todo[Run]) = {}
        BY <1>3 DEF About
    <2>4. Tells(c, i)
        BY <2>1, <2>3 DEF TrackInv, QueuesTell
    <2> QED
        BY <1>2, <2>2, <2>4 DEF Tells, Queued
<1> QED
    BY <1>4, <1>5 DEF TrackInv

LEMMA PublishTrack ==
    ASSUME LiveInv, TrackInv, Req = {}, Publish(Run)
    PROVE  TrackInv'
<1>1. PICK e \in todo[Run] :
        /\ todo' = [todo EXCEPT ![Run] = @ \ {e}]
        /\ queue' = [c \in Conn |->
                        IF c \in Registered
                        THEN Offer(queue[c], SubscriberBuffer, e)
                        ELSE queue[c]]
        /\ touched' = [c \in Conn |->
                        IF c \in Registered /\ Room(c)
                        THEN touched[c] \cup {e.id} ELSE touched[c]]
        /\ lagged' = lagged \cup {c \in Registered : ~Room(c)}
    BY DEF Publish
<1>2. UNCHANGED <<snapshot, conn, table>>
    BY DEF Publish
<1>3. todo \in [Worker -> SUBSET Event] /\ Run \in Worker /\ queue \in [Conn -> Seq(Event)]
    BY DEF LiveInv, TypeOK, Worker
<1>4. todo'[Run] = todo[Run] \ {e} /\ e \in Event
    BY <1>1, <1>3
<1>5. EventsTell'
    BY <1>2, <1>4 DEF TrackInv, EventsTell
<1>6. QueuesTell'
    <2> SUFFICES ASSUME NEW c \in (Registered \ lagged)', NEW i \in Cid,
                        i \in touched'[c], About(i, todo'[Run]) = {}
                 PROVE  Tells(c, i)'
        BY DEF QueuesTell
    <2>1. c \in Registered \ lagged /\ c \in Conn /\ Room(c)
        BY <1>1, <1>2 DEF Registered
    <2>2. queue[c] \in Seq(Event) /\ queue'[c] = Append(queue[c], e)
        BY <1>1, <1>3, <2>1 DEF Offer, Room
    <2>3. /\ Len(queue[c]) \in Nat
          /\ DOMAIN queue[c] = 1 .. Len(queue[c])
          /\ DOMAIN queue'[c] = 1 .. Len(queue[c]) + 1
          /\ queue'[c][Len(queue[c]) + 1] = e
          /\ \A k \in DOMAIN queue[c] : queue'[c][k] = queue[c][k]
        BY <1>4, <2>2
    <2>4. CASE i = e.id
        <3>1. Newest(Len(queue[c]) + 1, Queued(c, i)')
            BY <2>3, <2>4 DEF Newest, Queued
        <3>2. Shown(e) = snapshot'[i]
            BY <1>2, <2>4 DEF TrackInv, EventsTell
        <3>3. Len(queue[c]) + 1 \in Queued(c, i)'
            BY <3>1 DEF Newest
        <3> QED
            BY <2>3, <3>1, <3>2, <3>3 DEF Tells, Newest
    <2>5. CASE i # e.id
        <3>1. i \in touched[c]
            BY <1>1, <2>1, <2>5
        <3>2. About(i, todo[Run]) = {}
            BY <1>4, <2>5 DEF About
        <3>3. Tells(c, i)
            BY <2>1, <3>1, <3>2 DEF TrackInv, QueuesTell
        <3>4. Queued(c, i)' = Queued(c, i)
            BY <2>3, <2>5 DEF Queued
        <3>5. \A k \in Queued(c, i) : queue'[c][k] = queue[c][k]
            BY <2>3 DEF Queued
        <3> QED
            BY <1>2, <3>3, <3>4, <3>5 DEF Tells, Newest
    <2> QED
        BY <2>4, <2>5
<1> QED
    BY <1>5, <1>6 DEF TrackInv

LEMMA ChangeTrack ==
    ASSUME LiveInv, TrackInv, NEW c \in Conn, Change(c)
    PROVE  TrackInv'
<1> DEFINE e == Head(queue[c])
<1>1. /\ conn[c] = "live" /\ queue[c] # <<>>
      /\ table' = [table EXCEPT ![c][e.id] = Shown(e)]
      /\ queue' = [queue EXCEPT ![c] = Tail(@)]
      /\ UNCHANGED <<snapshot, todo, conn, touched, lagged>>
    BY DEF Change, workers, history
<1>2. /\ queue[c] \in Seq(Event) /\ queue \in [Conn -> Seq(Event)]
      /\ table \in [Conn -> Observation]
    BY DEF LiveInv, TypeOK
<1>3. /\ Len(queue[c]) \in Nat \ {0}
      /\ DOMAIN queue[c] = 1 .. Len(queue[c])
      /\ e = queue[c][1] /\ e \in Event
      /\ queue'[c] = Tail(queue[c])
    BY <1>1, <1>2
<1>4. /\ DOMAIN queue'[c] = 1 .. Len(queue[c]) - 1
      /\ \A k \in 1 .. Len(queue[c]) - 1 : queue'[c][k] = queue[c][k + 1]
    BY <1>2, <1>3
<1>5. /\ e.id \in Cid
      /\ table'[c][e.id] = Shown(e)
      /\ \A i \in Cid \ {e.id} : table'[c][i] = table[c][i]
    BY <1>1, <1>2, <1>3 DEF Event, Observation
<1>6. EventsTell'
    BY <1>1 DEF TrackInv, EventsTell
<1>7. QueuesTell'
    <2> SUFFICES ASSUME NEW d \in (Registered \ lagged)', NEW i \in Cid,
                        i \in touched'[d], About(i, todo'[Run]) = {}
                 PROVE  Tells(d, i)'
        BY DEF QueuesTell
    <2>1. /\ d \in Registered \ lagged /\ d \in Conn /\ i \in touched[d] /\ i \in Cid
          /\ About(i, todo[Run]) = {}
        BY <1>1 DEF Registered, About, LiveInv, TypeOK
    <2>2. Tells(d, i)
        BY <2>1 DEF TrackInv, QueuesTell
    <2>3. CASE d # c
        <3>1. queue'[d] = queue[d] /\ table'[d] = table[d]
            BY <1>1, <1>2, <2>1, <2>3
        <3> QED
            BY <1>1, <2>2, <3>1 DEF Tells, Queued
    <2>4. CASE d = c /\ Queued(c, i)' = {}
        <3>1. ASSUME NEW k \in Queued(c, i), k # 1
              PROVE  FALSE
            <4>1. k - 1 \in 1 .. Len(queue[c]) - 1 /\ queue[c][k].id = i
                BY <1>3, <3>1 DEF Queued
            <4>2. queue'[c][k - 1] = queue[c][k]
                <5>1. queue'[c][k - 1] = queue[c][(k - 1) + 1]
                    BY <1>4, <4>1
                <5>2. (k - 1) + 1 = k
                    BY <1>3 DEF Queued
                <5> QED
                    BY <5>1, <5>2
            <4>3. k - 1 \in Queued(c, i)'
                BY <1>4, <4>1, <4>2 DEF Queued
            <4> QED
                BY <2>4, <4>3
        <3>2. CASE Queued(c, i) = {}
            <4>1. i # e.id
                BY <1>3, <3>2 DEF Queued
            <4> QED
                BY <1>1, <1>5, <2>1, <2>2, <2>4, <3>2, <4>1 DEF Tells
        <3>3. CASE Queued(c, i) # {}
            <4>1. Shown(queue[c][1]) = snapshot[i] /\ e.id = i
                BY <1>3, <2>2, <2>4, <3>1, <3>3 DEF Tells, Queued
            <4> QED
                BY <1>1, <1>3, <1>5, <2>4, <4>1 DEF Tells
        <3> QED
            BY <3>2, <3>3
    <2>5. CASE d = c /\ Queued(c, i)' # {}
        <3>1. \A k : k \in Queued(c, i)' => k + 1 \in Queued(c, i) /\ k \in Nat
            BY <1>3, <1>4 DEF Queued
        <3>2. PICK k \in Queued(c, i) :
                Newest(k, Queued(c, i)) /\ Shown(queue[c][k]) = snapshot[i]
            BY <2>2, <2>5, <3>1 DEF Tells
        <3>3. k \in 2 .. Len(queue[c])
            BY <1>3, <2>5, <3>1, <3>2 DEF Newest, Queued
        <3>4. k - 1 \in Queued(c, i)' /\ queue'[c][k - 1] = queue[c][k]
            BY <1>4, <3>2, <3>3 DEF Queued
        <3>5. Newest(k - 1, Queued(c, i)')
            BY <3>1, <3>2, <3>3, <3>4 DEF Newest
        <3> QED
            BY <1>1, <2>5, <3>2, <3>4, <3>5 DEF Tells, Newest
    <2> QED
        BY <2>3, <2>4, <2>5
<1> QED
    BY <1>6, <1>7 DEF TrackInv

\* The steps of a page that send nothing: a page that is not live yet has
\* applied nothing, so what was sent to it is still queued.
LEMMA PageTrack ==
    ASSUME LiveInv, TrackInv, NEW c \in Conn,
           Subscribe(c) \/ ReadRows(c) \/ Refuse(c) \/ Sync(c) \/ Disconnect(c)
              \/ Reload(c)
    PROVE  TrackInv'
<1>1. /\ conn \in [Conn -> {"off", "subscribed", "listed", "live", "refused"}]
      /\ queue \in [Conn -> Seq(Event)] /\ table \in [Conn -> Observation]
      /\ touched \in [Conn -> SUBSET Cid]
    BY DEF LiveInv, TypeOK
<1>2. UNCHANGED <<snapshot, todo>>
    BY DEF Subscribe, ReadRows, Refuse, Sync, Disconnect, Reload, workers
<1>3. EventsTell'
    BY <1>2 DEF TrackInv, EventsTell
<1>4. \A d \in Conn \ {c} :
        /\ conn'[d] = conn[d] /\ queue'[d] = queue[d] /\ table'[d] = table[d]
        /\ touched'[d] = touched[d] /\ (d \in lagged' <=> d \in lagged)
    BY <1>1 DEF Subscribe, ReadRows, Refuse, Sync, Disconnect, Reload, history
<1>5. ASSUME c \in (Registered \ lagged)', NEW i \in Cid, i \in touched'[c],
             About(i, todo'[Run]) = {}
      PROVE  Tells(c, i)'
    <2>1. CASE Subscribe(c)
        <3>1. touched'[c] = {}
            BY <1>1, <2>1 DEF Subscribe
        <3> QED
            BY <1>5, <3>1
    <2>2. CASE ReadRows(c) \/ Sync(c)
        <3>1. /\ conn[c] \in {"subscribed", "listed"}
              /\ UNCHANGED <<queue, touched, lagged>>
            BY <2>2 DEF ReadRows, Sync, history
        <3>2. c \in Registered \ lagged /\ i \in touched[c]
              /\ About(i, todo[Run]) = {}
            BY <1>2, <1>5, <3>1 DEF Registered
        <3>3. Tells(c, i)
            BY <3>2 DEF TrackInv, QueuesTell
        <3>4. Queued(c, i) # {}
            BY <3>1, <3>3 DEF Tells
        <3> QED
            BY <1>2, <3>1, <3>3, <3>4 DEF Tells, Queued
    <2>3. CASE Refuse(c) \/ Disconnect(c) \/ Reload(c)
        <3>1. conn'[c] \in {"refused", "off"}
            BY <1>1, <2>3 DEF Refuse, Disconnect, Reload
        <3> QED
            BY <1>5, <3>1 DEF Registered
    <2> QED
        BY <2>1, <2>2, <2>3
<1>6. ASSUME NEW d \in Conn \ {c}, d \in (Registered \ lagged)',
             NEW i \in Cid, i \in touched'[d], About(i, todo'[Run]) = {}
      PROVE  Tells(d, i)'
    <2>1. d \in Registered \ lagged /\ i \in touched[d] /\ About(i, todo[Run]) = {}
        BY <1>2, <1>4, <1>6 DEF Registered
    <2>2. Tells(d, i)
        BY <2>1 DEF TrackInv, QueuesTell
    <2> QED
        BY <1>2, <1>4, <2>2 DEF Tells, Queued
<1>7. QueuesTell'
    BY <1>5, <1>6 DEF QueuesTell, Registered
<1> QED
    BY <1>3, <1>7 DEF TrackInv

LEMMA TrackStep ==
    ASSUME LiveInv, TrackInv, Req = {}, [Next]_vars
    PROVE  TrackInv'
<1>1. CASE Environment \/ Outage \/ Recover \/ UNCHANGED vars
    <2>1. UNCHANGED <<snapshot, workers, pages>>
        BY <1>1 DEF Environment, Outage, Recover, vars
    <2> QED
        BY <2>1, QuietTrack DEF workers, pages, history
<1>2. CASE Refresh(Run)
    <2>1. CASE List(Run) \/ ListFails(Run)
        BY <2>1, QuietTrack DEF List, ListFails, pages, history
    <2> QED
        BY <1>2, <2>1, SwapTrack, PublishTrack DEF Refresh
<1>3. ASSUME NEW c \in Conn,
             Subscribe(c) \/ Stream(c) \/ Disconnect(c) \/ Reload(c)
      PROVE  TrackInv'
    BY <1>3, ChangeTrack, PageTrack DEF Stream
<1> QED
    BY <1>1, <1>2, <1>3 DEF Next, Worker

LEMMA TrackInit == Init => TrackInv
BY DEF Init, TrackInv, EventsTell, QueuesTell, Registered, Worker

\* SAFETY: where the watch loop is the only caller of refresh, the end of what
\* was sent about a container is what the snapshot says, for any number of
\* containers and pages and any buffer (monitor_service.go:319-341,
\* handler.go:120-152).
THEOREM LiveRowsTrackSnapshot ==
    ASSUME Req = {}
    PROVE  SafeSpec => []RowsTrackSnapshot
<1>1. LiveInv /\ TrackInv /\ [Next]_vars => TrackInv'
    BY TrackStep
<1>2. LiveInv /\ TrackInv => RowsTrackSnapshot
    BY DEF TrackInv, QueuesTell, RowsTrackSnapshot, Registered, Connected, LiveInv,
           TypeOK
<1> QED
    BY LiveSafe, TrackInit, <1>1, <1>2, PTL DEF SafeSpec

-----------------------------------------------------------------------------
(* Highlights.                                                             *)

LEMMA NewsEnvironment ==
    ASSUME LiveInv, NewsInv, Environment
    PROVE  NewsInv'
<1>1. PICK i \in Cid, s \in Service \cup {Absent} : Become(i, s)
    <2>1. PICK i \in Cid : Create(i) \/ Flip(i) \/ Destroy(i) \/ GrowOld(i)
        BY DEF Environment
    <2>2. CASE Create(i)
        BY <2>2, FreshType DEF Create
    <2>3. CASE Flip(i)
        <3>1. daemon[i] \in Service
            BY <2>3 DEF Flip, LiveInv, TypeOK, Observation
        <3>2. daemon[i].online \in BOOLEAN
            BY <3>1 DEF Service
        <3> QED
            BY <2>3, <3>2, FreshType DEF Flip
    <2>4. CASE Destroy(i)
        BY <2>4 DEF Destroy
    <2>5. CASE GrowOld(i)
        <3> DEFINE s == [daemon[i] EXCEPT !.age = @ + 1]
        <3>1. daemon[i] \in Service /\ daemon[i].age < MaxAge
            BY <2>5 DEF GrowOld, LiveInv, TypeOK, Observation
        <3>2. s \in Service
            BY <3>1, MaxAgeAssumption DEF Service
        <3> QED
            BY <2>5, <3>2 DEF GrowOld
    <2> QED
        BY <2>1, <2>2, <2>3, <2>4, <2>5
<1>2. /\ daemon' = [daemon EXCEPT ![i] = s]
      /\ stirred' = IF daemon[i] # Absent /\ s # Absent
                       /\ daemon[i].online = s.online
                    THEN stirred ELSE stirred \cup {i}
    BY <1>1 DEF Become
<1>3. UNCHANGED <<snapshot, pc, view, todo, seen>>
    BY DEF Environment, workers
<1>4. daemon \in [Cid -> Service \cup {Absent}]
    BY DEF LiveInv, TypeOK, Observation
<1>5. \A j \in Cid \ stirred' : ~Notably(LastRead[j], daemon'[j])
    <2> SUFFICES ASSUME NEW j \in Cid \ stirred'
                 PROVE  ~Notably(LastRead[j], daemon'[j])
        OBVIOUS
    <2>1. ~Notably(LastRead[j], daemon[j])
        BY <1>2 DEF NewsInv
    <2>2. CASE j # i
        BY <1>2, <1>4, <2>1, <2>2
    <2>3. CASE j = i
        <3>1. daemon[i] # Absent /\ s # Absent /\ daemon[i].online = s.online
            BY <1>2, <2>3
        <3>2. daemon'[i] = s
            BY <1>2, <1>4
        <3> QED
            BY <2>1, <2>3, <3>1, <3>2 DEF Notably, Notable
    <2> QED
        BY <2>2, <2>3
<1>6. LastRead' = LastRead
    BY <1>3 DEF LastRead
<1> QED
    BY <1>3, <1>5, <1>6 DEF NewsInv, HighlightsAreReal

LEMMA NewsRefresh ==
    ASSUME LiveInv, NewsInv, Req = {}, Refresh(Run)
    PROVE  NewsInv'
<1>1. /\ pc \in [Worker -> {"idle", "checked", "acted", "listed", "publishing"}]
      /\ todo \in [Worker -> SUBSET Event] /\ Run \in Worker
      /\ snapshot \in Observation /\ view \in [Worker -> Observation]
    BY DEF LiveInv, TypeOK, Worker
<1>2. CASE List(Run)
    <2>1. /\ pc[Run] = "idle" /\ pc'[Run] = "listed" /\ view'[Run] = daemon
          /\ seen' = stirred /\ stirred' = {}
          /\ UNCHANGED <<daemon, snapshot, todo>>
        BY <1>1, <1>2 DEF List, ReadyToList, world
    <2>2. todo[Run] = {}
        BY <1>1, <2>1 DEF LiveInv, TodoInv
    <2>3. \A i \in Cid \ seen' : ~Notably(snapshot'[i], view'[Run][i])
        BY <2>1 DEF NewsInv, LastRead
    <2>4. \A i \in Cid : ~Notably(LastRead'[i], daemon'[i])
        BY <2>1 DEF LastRead, Notably, Notable
    <2> QED
        BY <2>1, <2>2, <2>3, <2>4 DEF NewsInv, HighlightsAreReal
<1>3. CASE ListFails(Run)
    <2>1. /\ pc[Run] = "idle" /\ pc'[Run] = "idle"
          /\ UNCHANGED <<daemon, snapshot, todo, view, seen, stirred>>
        BY <1>1, <1>3 DEF ListFails, ReadyToList, runtime, world
    <2> QED
        BY <2>1 DEF NewsInv, LastRead, HighlightsAreReal
<1>4. CASE Swap(Run)
    <2>1. /\ pc[Run] = "listed" /\ pc'[Run] \in {"idle", "publishing"}
          /\ todo'[Run] = DiffSnapshots(snapshot, view[Run])
          /\ snapshot' = view[Run]
          /\ UNCHANGED <<daemon, seen, stirred>>
        BY <1>1, <1>4 DEF Swap, runtime, world
    <2>2. LastRead' = LastRead
        BY <2>1 DEF LastRead
    <2>3. ASSUME NEW e \in todo'[Run], e.notable
          PROVE  e.id \in seen'
        BY <1>1, <2>1, <2>3, DiffShows DEF NewsInv
    <2> QED
        BY <2>1, <2>2, <2>3 DEF NewsInv, HighlightsAreReal
<1>5. CASE Publish(Run)
    <2>1. /\ pc[Run] = "publishing" /\ pc'[Run] \in {"idle", "publishing"}
          /\ todo'[Run] \subseteq todo[Run]
          /\ UNCHANGED <<daemon, snapshot, view, seen, stirred>>
        BY <1>1, <1>5 DEF Publish, runtime, world
    <2>2. LastRead' = LastRead
        BY <2>1 DEF LastRead
    <2> QED
        BY <2>1, <2>2 DEF NewsInv, HighlightsAreReal
<1> QED
    BY <1>2, <1>3, <1>4, <1>5 DEF Refresh

LEMMA NewsStep ==
    ASSUME LiveInv, NewsInv, Req = {}, [Next]_vars
    PROVE  NewsInv'
<1>1. ASSUME UNCHANGED <<daemon, stirred, seen, snapshot, pc, view, todo>>
      PROVE  NewsInv'
    BY <1>1 DEF NewsInv, LastRead, HighlightsAreReal
<1>2. CASE Outage \/ Recover \/ UNCHANGED vars
    BY <1>1, <1>2 DEF Outage, Recover, vars, runtime, world, workers
<1>3. ASSUME NEW c \in Conn,
             Subscribe(c) \/ Stream(c) \/ Disconnect(c) \/ Reload(c)
      PROVE  NewsInv'
    BY <1>1, <1>3 DEF Subscribe, Stream, ReadRows, Refuse, Sync, Change, Disconnect,
                      Reload, runtime, world, workers
<1> QED
    BY <1>2, <1>3, NewsEnvironment, NewsRefresh DEF Next, Worker

LEMMA NewsInit == Init => NewsInv
<1> SUFFICES ASSUME Init
             PROVE  NewsInv
    OBVIOUS
<1>1. pc[Run] = "idle" /\ todo[Run] = {} /\ snapshot = Nothing
    BY DEF Init, Worker
<1>2. \A i \in Cid \ stirred : daemon[i] = Absent /\ snapshot[i] = Absent
    BY <1>1 DEF Init, Nothing
<1> QED
    BY <1>1, <1>2 DEF NewsInv, LastRead, HighlightsAreReal, Notably

\* SAFETY: where the watch loop is the only caller of refresh, no row is marked
\* for a container to which nothing but time has happened, however many reads
\* fail or containers change between the steps of a refresh
\* (monitor_service.go:431-447).
THEOREM LiveHighlightsAreReal ==
    ASSUME Req = {}
    PROVE  SafeSpec => []HighlightsAreReal
<1>1. LiveInv /\ NewsInv /\ [Next]_vars => NewsInv'
    BY NewsStep
<1>2. NewsInv => HighlightsAreReal
    BY DEF NewsInv
<1> QED
    BY LiveSafe, NewsInit, <1>1, <1>2, PTL DEF SafeSpec
=============================================================================
