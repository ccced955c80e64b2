------------------------------ MODULE ListPage -------------------------------
(***************************************************************************)
(* The row of one container on the services page and its action button:    *)
(* the submit listener of app.js, the start and stop handlers of           *)
(* internal/adapters/web/services/handlers/handler.go with the methods of  *)
(* MonitorService they call, and the events that redraw the row.  The      *)
(* stream between server and page is LiveView's subject: here an event is  *)
(* applied as it is published, and no page ever misses one.                *)
(***************************************************************************)
EXTENDS Container, Rendering

CONSTANTS
    Slot,       \* bound: requests in flight at a time
    NoRow,      \* the page shows no row for the container
    NoPost      \* a slot without a request

VARIABLES
    snapshot,   \* the service the last refresh observed, or NoRow
    row,        \* the row on the page: its service and its button
    posts       \* the requests the page has sent and not yet seen answered

listVars == <<snapshot, row, posts>>

Row(service) ==
    IF service = NoRow THEN NoRow ELSE [service |-> service, button |-> "enabled"]

ListInit ==
    /\ \E s \in Services : snapshot = s /\ row = Row(s)
    /\ posts = [i \in Slot |-> NoPost]

\* An answer that finds its form on the page can restore the button.
Detached(requests) ==
    [i \in Slot |-> IF requests[i] = NoPost THEN NoPost
                    ELSE [requests[i] EXCEPT !.attached = FALSE]]

Differs(before, after) ==
    IF before = NoRow \/ after = NoRow THEN before # after
    ELSE Changed(before, after)

\* One refresh, and its event if there is one, with `requests` left in flight.
Observe(requests) ==
    \E next \in IF container = Gone THEN {NoRow} ELSE Services :
        /\ snapshot' = next
        /\ IF Differs(snapshot, next)
           THEN row' = Row(next) /\ posts' = Detached(requests)
           ELSE row' = row /\ posts' = requests

\* The watch loop reads the project.
Refresh == Observe(posts) /\ UNCHANGED containerVars

\* The stream reconnects and its sync frame replaces the rows.
Sync ==
    /\ \E s \in IF container = Gone THEN {NoRow} ELSE Services : row' = Row(s)
    /\ posts' = Detached(posts)
    /\ UNCHANGED <<snapshot, containerVars>>

Submit(i) ==
    /\ row # NoRow
    /\ row.button = "enabled"
    /\ posts[i] = NoPost
    /\ row' = [row EXCEPT !.button = "busy"]
    /\ \E act \in ServiceActions(row.service, TRUE) \cap {"start", "stop"} :
         posts' = [posts EXCEPT ![i] = [act |-> act, stage |-> "sent",
                                        attached |-> TRUE]]
    /\ UNCHANGED <<snapshot, containerVars>>

Stage(i, stage) == [posts EXCEPT ![i].stage = stage]

InStage(i, stage) == posts[i] # NoPost /\ posts[i].stage = stage

\* The handler reads the project afresh: not in it, in the wrong state and
\* unreadable are all answered with an error status.
Resolve(i) ==
    /\ InStage(i, "sent")
    /\ \/ /\ container # Gone
          /\ (posts[i].act = "stop") = (toState(container.state) = "running")
          /\ posts' = Stage(i, "resolved")
       \/ posts' = Stage(i, "failed")
    /\ UNCHANGED <<snapshot, row, containerVars>>

\* The runtime's call, which may be refused, as the start of a paused
\* container is, fail after taking effect, or find nothing left to do.
Act(i) ==
    /\ InStage(i, "resolved")
    /\ \/ posts' = Stage(i, "failed") /\ UNCHANGED containerVars
       \/ /\ container # Gone
          /\ posts[i].act = "start" => container.state # "paused"
          /\ LET target == IF posts[i].act = "stop" THEN "exited" ELSE "running"
             IN IF container.state = target THEN UNCHANGED containerVars
                ELSE Enters(target)
          /\ \E stage \in {"acted", "failed"} : posts' = Stage(i, stage)
    /\ UNCHANGED <<snapshot, row>>

\* announce: the refresh may fail, the answer is a success all the same.
Announce(i) ==
    /\ InStage(i, "acted")
    /\ \/ Observe(Stage(i, "done"))
       \/ posts' = Stage(i, "done") /\ UNCHANGED <<snapshot, row>>
    /\ UNCHANGED containerVars

\* The page restores the button unless the action succeeded: then it waits
\* for the event.  A row redrawn in the meantime has another button.
Receive(i) ==
    /\ InStage(i, "done") \/ InStage(i, "failed")
    /\ posts' = [posts EXCEPT ![i] = NoPost]
    /\ row' = IF posts[i].stage = "failed" /\ posts[i].attached
              THEN [row EXCEPT !.button = "enabled"] ELSE row
    /\ UNCHANGED <<snapshot, containerVars>>

\* The elapsed time in the status line changes more slowly than the project
\* is read.
RowClock ==
    /\ snapshot # NoRow /\ container # Gone
    /\ \E i \in DOMAIN snapshot.Status : snapshot.Status[i] = container.elapsed
    /\ ClockAdvances
    /\ UNCHANGED listVars

ServerStep(i) == Resolve(i) \/ Act(i) \/ Announce(i) \/ Receive(i)

ListNext ==
    \/ Refresh \/ Sync \/ RowClock
    \/ \E i \in Slot : Submit(i) \/ ServerStep(i)
=============================================================================
