-------------------------------- MODULE Pages --------------------------------
(***************************************************************************)
(* A browser with one page of the project: the row of one container, the   *)
(* log panel on the page of its own, or the table of several containers    *)
(* that the event stream patches.                                          *)
(***************************************************************************)
EXTENDS ListPage, DetailPage, Table

VARIABLE page       \* which of the three is open

vars == <<containerVars, listVars, detailVars, tableVars, page>>

Init ==
    /\ page \in {"list", "detail", "table"}
    /\ ContainerInit /\ ListInit /\ DetailInit
    /\ page # "list" => container.state = "running"
    /\ TableInit
    /\ page = "table" => fixed = CHOOSE d \in Description : TRUE
    /\ page # "table" => /\ observed = [m \in Member |-> Absent]
                         /\ control /\ view = "services"

\* What no step of the list page touches.
rest == <<detailVars, tableVars, page>>

\* The container of a log panel matters only as there or gone.
RuntimeNext ==
    /\ \/ page = "list" /\ \E state \in State : Enters(state)
       \/ page # "table" /\ Vanishes
    /\ UNCHANGED <<listVars, detailVars, tableVars>>

Next ==
    /\ UNCHANGED page
    /\ \/ RuntimeNext
       \/ page = "list" /\ ListNext /\ UNCHANGED <<detailVars, tableVars>>
       \/ page = "detail" /\ DetailNext /\ UNCHANGED <<listVars, tableVars>>
       \/ /\ page = "table" /\ TableNext
          /\ UNCHANGED <<containerVars, listVars, detailVars>>

\* The ticker refreshes, handlers and page finish what they began, and time
\* passes.  Nothing is asked of the reader or of the container.
Spec ==
    /\ Init /\ [][Next]_vars
    /\ WF_vars(page = "list" /\ Refresh /\ UNCHANGED rest)
    /\ WF_vars(page = "list" /\ RowClock /\ UNCHANGED rest)
    /\ \A i \in Slot :
         WF_vars(page = "list" /\ ServerStep(i) /\ UNCHANGED rest)

-----------------------------------------------------------------------------
\* Every row and every page of its own that the container may be drawn as.
Rows == {[d |-> a.d, c |-> a.c, as |-> ServiceItem(a.as, TRUE, TRUE)] : a \in Listed}

Views == {[d |-> a.d, c |-> a.c, as |-> DetailView(a.as, TRUE)] : a \in Inspected}

(* Two readings of a container that nothing happened to compare equal,     *)
(* whatever order its ports, labels and networks came in, so that none of  *)
(* them is announced as a change, no link moves, and the two draw the same *)
(* (toPorts, serviceURL, toLabels, toDetail).                              *)
ReadingsAgree ==
    container # Gone =>
      /\ \A a, b \in Services : ~Changed(a, b) /\ a.URL = b.URL
      /\ \A a, b \in Now(Views) : a = b

(* The row and the detail page do not contradict each other, though one    *)
(* comes from a list and the other from an inspect: same title, replica,   *)
(* state, actions and current health, an exit code where the status line   *)
(* has one, and other ports only where the detail says that it shows the   *)
(* configured ones (service.go:112-123, row.templ:73-76).                  *)
RowAndDetailAgree ==
    container # Gone =>
      /\ \A line \in Now(Rows), drawn \in Now(Views) :
           /\ line.display = drawn.identity.display
           /\ line.name \in {None, drawn.identity.name}
           /\ line.replica = drawn.identity.replica
           /\ line.state = drawn.identity.state
           /\ line.health = drawn.identity.health
           /\ line.actions = drawn.actions
           /\ line.ports = drawn.ports.ports \/ drawn.ports.notBound
      /\ \A s \in Services, drawn \in Now(Views) :
           (drawn.lifecycle.exit # None) = Contains(s.Status, "Exited (137)")

\* A link when any router names a host, a secure one when any of those is.
BestLink(url) ==
    LET named == {k[2] : k \in {l \in DOMAIN fixed.labels :
                                l = RuleKey(l[2]) /\ fixed.labels[l] # None}}
    IN IF named = {} THEN url = None
       ELSE url # None /\ url.secure = \E r \in named : secure(fixed.labels, r)

(* Everything the container has is on its page, and once: each label in    *)
(* one group, each variable, known to be secret or not, each mount, each   *)
(* network it has an endpoint on, and of the hosts its routers name the    *)
(* one to link to (GroupLabels, redactEnvironment, serviceURL).            *)
AllShown ==
    LET Once(list, Matches(_)) == Cardinality({i \in DOMAIN list : Matches(list[i])}) = 1
    IN container # Gone =>
      /\ \A s \in Services : BestLink(s.URL)
      /\ \A d \in Details : BestLink(d.URL)
      /\ \A drawn \in Now(Views) :
        LET groups == drawn.folds.labels IN
        /\ \A key \in DOMAIN fixed.labels :
             Cardinality({at \in (DOMAIN groups) \X (DOMAIN KeyOrder) :
                            /\ at[2] \in DOMAIN groups[at[1]]
                            /\ groups[at[1]][at[2]] = key}) = 1
        /\ \A entry \in ToSet(fixed.env) :
             Once(drawn.folds.environment, LAMBDA e : e.Key = entry.key)
        /\ \A m \in ToSet(fixed.mounts) :
             Once(drawn.mounts, LAMBDA e : e.destination = m.destination)
        /\ \A n \in DOMAIN fixed.networks :
             fixed.networks[n] # None => Once(drawn.networks, LAMBDA e : e.name = n)

\* The container comes to rest: in the end only its clock changes it.
Settles == <>[][RowClock]_container

(* A button that was pressed can be pressed again, or its row goes, when   *)
(* the container comes to rest: after a failure the page restores it,      *)
(* after a success the event that the action or the passing of time        *)
(* produces draws another (app.js, submit).                                *)
ButtonComesBack ==
    Settles => (row # NoRow /\ row.button = "busy" ~> row = NoRow \/ row.button = "enabled")
=============================================================================
