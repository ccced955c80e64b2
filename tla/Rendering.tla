------------------------------ MODULE Rendering ------------------------------
(***************************************************************************)
(* What the templates draw of a service and of a project: keys.go and      *)
(* row.templ of internal/adapters/web/shared/templates, the two listings   *)
(* and the detail page, each as the record of the facts it shows.  Markup  *)
(* is left out, and so is a field that is copied onto the page as it is.   *)
(*                                                                         *)
(* Strings that are compared are sequences of character codes.             *)
(***************************************************************************)
EXTENDS Mapping

\* What services and events are sorted by: name, number, container ID.
Before(a, b) ==
    \/ Less(a.Name, b.Name)
    \/ a.Name = b.Name /\ a.Number < b.Number
    \/ a.Name = b.Name /\ a.Number = b.Number /\ Less(a.ContainerID, b.ContainerID)

TenTo(k) == <<1, 10, 100, 1000, 10000, 100000, 1000000, 10000000, 100000000,
              1000000000>>[k + 1]

\* %06d: at least six digits, and as many as a longer number needs.
Padded(number) ==
    LET width == CHOOSE w \in 6 .. 9 :
                    number < TenTo(w) /\ (w = 6 \/ number >= TenTo(w - 1))
    IN [i \in 1 .. width |-> 48 + ((number \div TenTo(width - i)) % 10)]

\* %d: as many digits as the number has.
Plain(number) == IF number < 10 THEN <<48 + number>>
                 ELSE <<48 + (number \div 10), 48 + (number % 10)>>

\* Mutant: the number is not padded.
SortKeyPlain(service) ==
    service.Name \o <<31>> \o Plain(service.Number) \o <<31>> \o service.ContainerID

SortKey(service) ==
    service.Name \o <<31>> \o Padded(service.Number) \o <<31>> \o service.ContainerID

ReplicaLabel(service) == IF service.Number <= 1 THEN None ELSE service.Number

HealthPhrase == {"(healthy)", "(unhealthy)", "(health: starting)"}

\* The status without its health suffix, a dash when nothing is left.
StatusText(service) ==
    LET line == service.Status
        rest == IF line # <<>> /\ Last(line) \in HealthPhrase THEN Front(line) ELSE line
    IN IF rest = <<>> THEN <<"-">> ELSE rest

UptimeLabel(service) ==
    IF service.Elapsed # <<>> THEN service.Elapsed ELSE StatusText(service)

-----------------------------------------------------------------------------
\* Mutant: a container can be removed whatever it does.
ServiceActionsAlways(service, controllable) ==
    (IF service.URL # None /\ Online(service) THEN {"open"} ELSE {})
        \cup (IF ~controllable THEN {}
              ELSE {"remove", IF Online(service) THEN "stop" ELSE "start"})

\* What can be done with a service, on both listings and its own page.
ServiceActions(service, controllable) ==
    (IF service.URL # None /\ Online(service) THEN {"open"} ELSE {})
        \cup (IF ~controllable THEN {}
              ELSE IF Online(service) THEN {"stop"} ELSE {"start", "remove"})

\* A line of a listing.
ServiceItem(service, controllable, showState) ==
    [id |-> service.ContainerID,
     display |-> DisplayName(service),
     name |-> IF HasTitle(service) THEN service.Name ELSE None,
     sort |-> SortKey(service),
     online |-> Online(service),
     replica |-> ReplicaLabel(service),
     actions |-> ServiceActions(service, controllable),
     state |-> IF showState THEN service.State ELSE None,
     uptime |-> UptimeLabel(service),
     health |-> CurrentHealth(service),
     ports |-> service.Ports]

Summarize(services) ==
    LET online == Cardinality({i \in DOMAIN services : Online(services[i])})
    IN [Online |-> online, Offline |-> Len(services) - online]

hasRunning(services) == \E i \in DOMAIN services : Online(services[i])

Items(services, controllable, showState) ==
    [i \in DOMAIN services |-> ServiceItem(services[i], controllable, showState)]

\* The services page: a row each, the totals, and whether it says "empty".
ServicesList(services, controllable) ==
    [rows |-> Items(services, controllable, TRUE),
     totals |-> Summarize(services),
     empty |-> services = <<>>]

\* The front page, which hides the rows of what is not running.
Overview(services, controllable) ==
    [rows |-> Items(services, controllable, FALSE),
     totals |-> Summarize(services),
     empty |-> ~hasRunning(services)]

-----------------------------------------------------------------------------
\* The page of one service, section by section.

Identity(detail) ==
    [name |-> detail.Name, display |-> DisplayName(detail),
     replica |-> ReplicaLabel(detail), state |-> detail.State,
     health |-> CurrentHealth(detail)]

PortsPanel(detail) ==
    [ports |-> detail.Ports,
     notBound |-> detail.Ports # <<>> /\ detail.PortsConfigured]

\* Each attachment, with the network whose page it leads to.
NetworksPanel(detail) ==
    [i \in DOMAIN detail.Networks |->
        [name |-> detail.Networks[i].Name, link |-> detail.Networks[i].NetworkID]]

\* Each mount, with the volume whose page it leads to.
MountsPanel(detail) ==
    [i \in DOMAIN detail.Mounts |->
        LET mount == detail.Mounts[i] IN
        [source |-> mount.Source, destination |-> mount.Destination,
         link |-> IF mount.Type = "volume" THEN mount.Source ELSE None]]

\* A fold for the environment, if there is one, and one for each label family.
Folds(detail) ==
    [environment |-> IF detail.Environment = <<>> THEN None ELSE detail.Environment,
     labels |-> GroupLabels(detail.Labels)]

ExitCodeLabel(detail) ==
    IF Online(detail) \/ ~detail.Finished \/ detail.ExitCode = 0 THEN None
    ELSE detail.ExitCode

Lifecycle(detail) ==
    [exit |-> ExitCodeLabel(detail),
     lastHealth |-> IF Online(detail) THEN None ELSE detail.Health]

DetailView(detail, controllable) ==
    [identity |-> Identity(detail),
     actions |-> ServiceActions(detail, controllable),
     ports |-> PortsPanel(detail),
     networks |-> NetworksPanel(detail),
     mounts |-> MountsPanel(detail),
     folds |-> Folds(detail),
     lifecycle |-> Lifecycle(detail)]
=============================================================================
