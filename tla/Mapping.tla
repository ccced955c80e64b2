------------------------------- MODULE Mapping -------------------------------
(***************************************************************************)
(* How the docker adapter turns what the runtime reports about a container *)
(* into the domain's service and its detail: internal/adapters/docker      *)
(* mapping.go, routing.go, status.go and inspect.go, with the methods of   *)
(* internal/domain/service.go that read the result.                        *)
(*                                                                         *)
(* A list summary and an inspect response are records of the fields the    *)
(* mapping reads.  A map of the code is a function plus the order Go's     *)
(* range happened to take, as the sequence `order` of its keys.  A label   *)
(* key is a triple <<family, router, setting>>, router being the position  *)
(* of its name in name order and 0 for a label that is not a router's.  A  *)
(* status line is the sequence of its phrases.                             *)
(***************************************************************************)
EXTENDS Sorting

CONSTANTS
    KeyOrder,           \* every label key, in the order strings compare
    SecureEntrypoint,   \* the entrypoint names that conventionally mean TLS
    SecretName,         \* the variables whose names have a secret's marker in them
    ElapsedText,        \* the phrases the pattern `elapsed` matches
    None                \* absent: an empty string, an unreadable number

labelService == <<"compose", 0, "service">>
labelNumber == <<"compose", 0, "container-number">>
LabelImageTitle == <<"oci", 0, "title">>

\* labels[key]: a missing key reads as the empty string.
LabelOf(labels, key) == IF key \in DOMAIN labels THEN labels[key] ELSE None

\* Compose numbers replicas from 1, which is also the answer for no number.
containerNumber(value) == IF value = None THEN 1 ELSE IF value < 1 THEN 1 ELSE value

toState(state) ==
    IF state \in {"created", "running", "paused", "restarting", "removing",
                  "exited", "dead"}
    THEN state ELSE "unknown"

Online(service) == service.State = "running"

DisplayName(service) == IF service.Title # None THEN service.Title ELSE service.Name

HasTitle(service) == service.Title \notin {None, service.Name}

\* Mutant: the last health a container had is current.
LastHealth(service) == service.Health

CurrentHealth(service) == IF Online(service) THEN service.Health ELSE None

-----------------------------------------------------------------------------
\* The status line.

healthFromStatus(status) ==
    CASE Contains(status, "(healthy)") -> "healthy"
      [] Contains(status, "(unhealthy)") -> "unhealthy"
      [] Contains(status, "(health: starting)") -> "starting"
      [] OTHER -> None

toHealth(status) ==
    IF status \in {"healthy", "unhealthy", "starting"} THEN status ELSE None

statusKind(status) == SelectSeq(status, LAMBDA phrase : phrase \notin ElapsedText)

statusElapsed(status) == SelectSeq(status, LAMBDA phrase : phrase \in ElapsedText)

-----------------------------------------------------------------------------
\* Ports: what the runtime reports is [public, private, type], 0 for no public.

\* The protocols the runtime knows, in the order their names compare.
ProtocolRank == [sctp |-> 1, tcp |-> 2, udp |-> 3]

\* What two ports are compared by, in turn.
PortKey(port) == <<port.Container, port.Host, ProtocolRank[port.Protocol]>>

toPort(port) ==
    [Host |-> port.public, Container |-> port.private, Protocol |-> port.type]

\* The positions of what was not seen before.
Fresh(s) == {i \in DOMAIN s : \A j \in 1 .. i - 1 : s[j] # s[i]}

\* Mutant: the ports stay in the order the bindings came back in.
toPortsUnsorted(ports) ==
    LET mapped == [i \in DOMAIN ports |-> toPort(ports[i])]
    IN EntriesAt(mapped, Fresh(mapped))

toPorts(ports) ==
    LET mapped == [i \in DOMAIN ports |-> toPort(ports[i])]
    IN Sorted(mapped, [i \in Fresh(mapped) |-> PortKey(mapped[i])])

\* One entry of a port map; a binding without a usable host port is exposed.
portsFromBinding(port, bindings) ==
    LET Public(binding) == IF binding = None THEN 0 ELSE binding
        Port(public) == [public |-> public, private |-> port[1], type |-> port[2]]
    IN IF bindings = <<>> THEN <<Port(0)>>
       ELSE [i \in DOMAIN bindings |-> Port(Public(bindings[i]))]

\* A port map, ranged over in `order`.
toPortsFromBindings(map, order) ==
    toPorts(FlattenSeq([i \in DOMAIN order |->
                            portsFromBinding(order[i], map[order[i]])]))

\* What the container is set up to listen on: the bindings of its host
\* configuration, and then the exposed ports that have none.
configuredPorts(inspected) ==
    LET bound == inspected.hostBindings
        all == [port \in inspected.exposed \cup DOMAIN bound |->
                    IF port \in DOMAIN bound THEN bound[port] ELSE <<>>]
    IN toPortsFromBindings(all, inspected.configuredOrder)

-----------------------------------------------------------------------------
\* Where the service answers, from the labels of a reverse proxy.

RuleKey(router) == <<"traefik", router, "rule">>

secure(labels, router) ==
    \/ <<"traefik", router, "tls">> \in DOMAIN labels
    \/ /\ <<"traefik", router, "entrypoints">> \in DOMAIN labels
       /\ labels[<<"traefik", router, "entrypoints">>] \cap SecureEntrypoint # {}

\* The routers that the labels, ranged over in `order`, have a rule for.
Routers(order) ==
    LET router == [i \in DOMAIN order |-> order[i][2]]
    IN Sorted(router, [i \in {j \in DOMAIN order : order[j] = RuleKey(router[j])} |->
                            <<router[i]>>])

\* The first of them that is secure, or else the first, of those that name a
\* host: the value of a rule label is that host, None for a rule on something
\* else.
serviceURL(labels, order) ==
    LET routers == Routers(order)
        Host(i) == labels[RuleKey(routers[i])]
        named == {i \in DOMAIN routers : Host(i) # None}
        safe == {i \in named : secure(labels, routers[i])}
        best == IF safe # {} THEN safe ELSE named
    IN IF named = {} THEN None
       ELSE [secure |-> safe # {},
             host |-> Host(CHOOSE i \in best : \A j \in best : i <= j)]

-----------------------------------------------------------------------------
\* Labels, in key order and then folded by family.

KeyPosition(key) == CHOOSE i \in DOMAIN KeyOrder : KeyOrder[i] = key

toLabels(order) ==
    Sorted(order, [i \in DOMAIN order |-> <<KeyPosition(order[i])>>])

\* Mutant: what belongs to no known family is left out.
GroupLabelsKnown(keys) ==
    [title \in {k[1] : k \in ToSet(keys)} \cap {"compose", "oci", "traefik"} |->
        EntriesAt(keys, {i \in DOMAIN keys : keys[i][1] = title})]

\* The groups with members, each with its keys in the order given.
GroupLabels(keys) ==
    LET Family(k) == IF k[1] \in {"compose", "oci", "traefik"} THEN k[1] ELSE "other"
    IN [title \in {Family(k) : k \in ToSet(keys)} |->
            EntriesAt(keys, {i \in DOMAIN keys : Family(keys[i]) = title})]

-----------------------------------------------------------------------------
\* What only an inspect reports.  Variables, networks and destinations are
\* named by their positions in name order.

isSecret(key) == key \in SecretName

\* An entry without a value is a key alone, and a secret's is withheld.
redactEnvironment(environment) ==
    LET Redact(entry) ==
            [Key |-> entry.key,
             Value |-> IF isSecret(entry.key) THEN "redacted" ELSE entry.value]
    IN Sorted([i \in DOMAIN environment |-> Redact(environment[i])],
              [i \in DOMAIN environment |-> <<environment[i].key>>])

\* A mount is called by its volume's name if it has one.
toMounts(mounts) ==
    LET Mount(m) == [Type |-> m.type, Destination |-> m.destination,
                     Source |-> IF m.name = None THEN m.source ELSE m.name]
    IN Sorted([i \in DOMAIN mounts |-> Mount(mounts[i])],
              [i \in DOMAIN mounts |-> <<mounts[i].destination>>])

\* The attachments, ranged over in `order`; one without an endpoint is skipped.
toAttachments(networks, order) ==
    LET there == {i \in DOMAIN order : networks[order[i]] # None}
    IN Sorted([i \in there |-> [Name |-> order[i], NetworkID |-> networks[order[i]].id]],
              [i \in there |-> <<order[i]>>])

-----------------------------------------------------------------------------
\* The two mappings, and the comparison of two listings.

toService(summary) ==
    LET name == LabelOf(summary.labels, labelService) IN
    [ContainerID |-> summary.id,
     Name |-> IF name = None THEN summary.name ELSE name,
     Number |-> containerNumber(LabelOf(summary.labels, labelNumber)),
     Title |-> LabelOf(summary.labels, LabelImageTitle),
     URL |-> serviceURL(summary.labels, summary.order),
     State |-> toState(summary.state),
     Status |-> summary.status,
     StatusKind |-> statusKind(summary.status),
     Elapsed |-> statusElapsed(summary.status),
     Health |-> healthFromStatus(summary.status),
     Ports |-> toPorts(summary.ports)]

toDetail(inspected) ==
    LET name == LabelOf(inspected.labels, labelService)
        active == toPortsFromBindings(inspected.ports, inspected.portOrder)
        ports == IF active = <<>> THEN configuredPorts(inspected) ELSE active
    IN [ContainerID |-> inspected.id,
        Name |-> IF name = None THEN inspected.name ELSE name,
        Number |-> containerNumber(LabelOf(inspected.labels, labelNumber)),
        Title |-> LabelOf(inspected.labels, LabelImageTitle),
        URL |-> serviceURL(inspected.labels, inspected.order),
        State |-> toState(inspected.state),
        Health |-> toHealth(inspected.health),
        ExitCode |-> inspected.exit,
        Finished |-> inspected.finished,
        Environment |-> redactEnvironment(inspected.env),
        Labels |-> toLabels(inspected.order),
        Mounts |-> toMounts(inspected.mounts),
        Networks |-> toAttachments(inspected.networks, inspected.networkOrder),
        Ports |-> ports,
        PortsConfigured |-> active = <<>> /\ ports # <<>>]

Notable(before, after) ==
    \/ before.Name # after.Name \/ before.Number # after.Number
    \/ before.State # after.State \/ before.StatusKind # after.StatusKind
    \/ before.Health # after.Health \/ before.Ports # after.Ports

\* Mutant: a status whose elapsed time ticked over is not redrawn.
ChangedByKind(before, after) == Notable(before, after)

Changed(before, after) ==
    Notable(before, after) \/ before.Status # after.Status
=============================================================================
