-------------------------------- MODULE Table --------------------------------
(***************************************************************************)
(* The table of services on the front page or the services page, patched   *)
(* by the events of the stream: app.js with the frames the stream handler  *)
(* writes (internal/adapters/realtime/handler.go, renderer.go) and the     *)
(* handlers that draw the whole page.                                      *)
(*                                                                         *)
(* What is watched here is the arithmetic of the page: order, totals, and  *)
(* the shape of what arrives.  Every read of the project sees what the     *)
(* last refresh saw, and frames are lost only with their connection; reads *)
(* that disagree and full channels are LiveView's subject.                 *)
(***************************************************************************)
EXTENDS Rendering

CONSTANTS
    Member,         \* containers: what never changes of each
    Absent,         \* the state of one that is not in the project
    TableState,     \* the states they go through
    MaxFrames       \* bound: frames on their way, and changes one read sees

ASSUME FiniteAssumption == IsFiniteSet(Member)

\* Six digits are enough for the number of a replica.
ASSUME NumberAssumption == \A m \in Member : m.Number \in 0 .. TenTo(6) - 1

\* A container's ID is its own.
ASSUME IdAssumption ==
    \A m, n \in Member : m.ContainerID = n.ContainerID => m = n

\* The characters of a name sort after the separator of a sort key, 31.
ASSUME NameAssumption ==
    \A m \in Member : m.Name \in Seq(Nat \ 0 .. 31) /\ m.ContainerID \in Seq(Nat)

VARIABLES
    observed,       \* the state of each container at the last refresh
    control,        \* this deployment may act on containers
    view,           \* "services" or "overview"
    table,          \* what the page shows
    connected,      \* its stream is open
    arriving        \* the change frames on their way to it

tableVars == <<observed, control, view, table, connected, arriving>>

Described(m, state) ==
    [ContainerID |-> m.ContainerID, Name |-> m.Name, Number |-> m.Number,
     Title |-> None, URL |-> m.URL, State |-> state, Status |-> <<state>>, Elapsed |-> <<>>,
     Health |-> None, Ports |-> <<>>]

\* SortServices and the sort of the events: each comes after those before it.
InDisplayOrder(S) ==
    [i \in 1 .. Cardinality(S) |->
        CHOOSE m \in S : Cardinality({n \in S : Before(n, m)}) = i - 1]

\* MonitorService.List: the project's services in display order.
SortedServices ==
    LET there == InDisplayOrder({m \in Member : observed[m] # Absent})
    IN [i \in DOMAIN there |-> Described(there[i], observed[there[i]])]

ParseView(value) == IF value = "overview" THEN "overview" ELSE "services"

\* Renderer.Render: the shape of a row that travels by itself.
Render(service) ==
    ServiceItem(service, control, ParseView(view) = "services")

\* Either page as its handler draws it.
FullPage(shown) ==
    IF shown = "overview" THEN Overview(SortedServices, control)
    ELSE ServicesList(SortedServices, control)

TableInit ==
    /\ observed \in [Member -> TableState \cup {Absent}]
    /\ control \in BOOLEAN
    /\ view \in {"services", "overview"}
    /\ table = FullPage(view)
    /\ connected = FALSE
    /\ arriving = <<>>

-----------------------------------------------------------------------------
\* app.js.

\* Before the first row with a greater key, at the end if there is none.
insert(rows, row) ==
    LET greater == {i \in DOMAIN rows : Less(row.sort, rows[i].sort)}
    IN IF greater = {} THEN Append(rows, row)
       ELSE InsertAt(rows, CHOOSE i \in greater : \A j \in greater : i <= j, row)

\* Without the row that `find` finds, the first one with this id.
Without(rows, id) == RemoveFirstMatch(rows, LAMBDA r : r.id = id)

upsert(rows, row) == insert(Without(rows, row.id), row)

\* Mutant: the message depends on the rows alone, hidden or not.
recountAll(rows) ==
    LET online == Cardinality({i \in DOMAIN rows : rows[i].online})
    IN [rows |-> rows,
        totals |-> [Online |-> online, Offline |-> Len(rows) - online],
        empty |-> rows = <<>>]

\* Totals and message are counted from the rows.
recount(rows) ==
    LET online == Cardinality({i \in DOMAIN rows : rows[i].online})
    IN [rows |-> rows,
        totals |-> [Online |-> online, Offline |-> Len(rows) - online],
        empty |-> (IF view = "overview" THEN online ELSE Len(rows)) = 0]

\* The change listener.
Apply ==
    /\ arriving # <<>>
    /\ LET frame == Head(arriving) IN
       table' = recount(IF frame.action = "removed" THEN Without(table.rows, frame.id)
                        ELSE upsert(table.rows, frame.row))
    /\ arriving' = Tail(arriving)
    /\ UNCHANGED <<observed, control, view, connected>>

\* The stream opens, and its sync frame replaces the rows.
Connect ==
    /\ ~connected
    /\ connected' = TRUE
    /\ LET services == SortedServices
       IN table' = recount([i \in DOMAIN services |-> Render(services[i])])
    /\ UNCHANGED <<observed, control, view, arriving>>

\* It is lost with what was on its way, and the page keeps what it shows.
Lose ==
    /\ connected
    /\ connected' = FALSE
    /\ arriving' = <<>>
    /\ UNCHANGED <<observed, control, view, table>>

\* The reader loads either page anew; its stream is to be opened.
Visit ==
    /\ UNCHANGED <<observed, control>>
    /\ \E shown \in {"services", "overview"} :
         view' = shown /\ table' = FullPage(shown)
    /\ connected' = FALSE
    /\ arriving' = <<>>

-----------------------------------------------------------------------------
\* The frame for one container that is not as it was.
FrameFor(m, next) ==
    IF next = Absent THEN [action |-> "removed", id |-> m.ContainerID]
    ELSE [action |-> "changed", id |-> m.ContainerID, row |-> Render(Described(m, next))]

\* A refresh sees the containers of `changed` differently: an event for each,
\* in display order, and a frame for each event on an open stream.
RefreshTable ==
    \E changed \in {c \in SUBSET Member \ {{}} :
                        Cardinality(c) + Len(arriving) <= MaxFrames} :
      \E next \in [changed -> TableState \cup {Absent}] :
        /\ \A m \in changed : next[m] # observed[m]
        /\ observed' = [m \in Member |-> IF m \in changed THEN next[m] ELSE observed[m]]
        /\ LET events == InDisplayOrder(changed)
               new == [i \in DOMAIN events |-> FrameFor(events[i], next[events[i]])]
           IN arriving' = IF connected THEN arriving \o new ELSE <<>>
        /\ UNCHANGED <<control, view, table, connected>>

TableNext == Apply \/ Connect \/ Lose \/ Visit \/ RefreshTable

-----------------------------------------------------------------------------
(* The rows are in the order the server draws them in, each container once, *)
(* at every moment and through every patch: what an event inserts lands     *)
(* where a full render would have put it (keys.go:14-16, app.js insert).    *)
InServerOrder ==
    LET MemberOf(row) == CHOOSE m \in Member : m.ContainerID = row.id
    IN \A i, j \in DOMAIN table.rows :
         i < j => Before(MemberOf(table.rows[i]), MemberOf(table.rows[j]))

(* A page that applied every frame of its open stream is, in order, totals, *)
(* message and the shape of every row, the page a reload would draw         *)
(* (row.templ:8-11, list.templ of the front page:49-51).                    *)
AsReloaded == connected /\ arriving = <<>> => table = FullPage(view)

\* The preconditions of MonitorService.Stop, Start and Remove.
Accepts(service, action) ==
    /\ control
    /\ CASE action = "stop" -> Online(service)
         [] action \in {"start", "remove"} -> ~Online(service)

(* Such a page offers exactly the actions that the endpoints behind them    *)
(* accept, and none in a deployment that may not act (monitor_service.go,   *)
(* CanControl: "so it does not draw a button that the endpoint behind it    *)
(* would refuse").                                                          *)
OffersAccepted ==
    LET services == SortedServices
    IN connected /\ arriving = <<>> =>
         \A i \in DOMAIN table.rows :
           table.rows[i].actions \ {"open"}
               = {a \in {"start", "stop", "remove"} : Accepts(services[i], a)}
=============================================================================
