------------------------------ MODULE Container ------------------------------
(***************************************************************************)
(* One container of the project as the runtime keeps it, and the answers   *)
(* the runtime may give about it.  The runtime is outside the program: it  *)
(* is modelled by what the docker adapter reads from it.                   *)
(***************************************************************************)
EXTENDS Mapping

CONSTANTS
    Description,    \* what may have been fixed when the container was created
    State,          \* the states it goes through
    Health,         \* what its healthcheck may say
    Ephemeral,      \* the host port the runtime picks for a binding without one
    Gone            \* the container has been removed

\* The states that StatusLine and ActivePorts below describe.
ASSUME StateAssumption ==
    {"running", "exited"} \subseteq State /\ State \subseteq {"running", "exited", "paused"}

\* What is absent is no number, and the runtime's choice of a port is one.
ASSUME NoneAssumption == None \notin Nat /\ Ephemeral \in Nat

\* Nor is it a link.
ASSUME LinkAssumption ==
    \A d \in Description : \A key \in DOMAIN d.labels :
        None \notin [secure : BOOLEAN, host : {d.labels[key]}]

ASSUME ExitAssumption == \A d \in Description : d.exit \in Nat

\* A port is published for some address family, by number or by the runtime's
\* choice, and of a protocol the runtime knows.
ASSUME PortAssumption ==
    \A d \in Description :
      /\ IsFiniteSet(d.families) /\ d.families # {}
      /\ IsFiniteSet(d.exposed) /\ d.exposed \subseteq Nat \X DOMAIN ProtocolRank
      /\ IsFiniteSet(DOMAIN d.bindings)
      /\ DOMAIN d.bindings \subseteq Nat \X DOMAIN ProtocolRank
      /\ \A port \in DOMAIN d.bindings : d.bindings[port] \in Seq(Nat \cup {None})

\* KeyOrder has the label keys, each with the position of its router's name.
ASSUME LabelAssumption ==
    /\ KeyOrder \in Seq(ToSet(KeyOrder))
    /\ \A d \in Description :
         /\ IsFiniteSet(DOMAIN d.labels) /\ DOMAIN d.labels \subseteq ToSet(KeyOrder)
         /\ \A key \in DOMAIN d.labels : key[2] \in Nat

\* Networks go by the positions of their names.
ASSUME NetworkAssumption ==
    \A d \in Description :
      IsFiniteSet(DOMAIN d.networks) /\ DOMAIN d.networks \subseteq Nat

\* A variable is set once, and one thing is mounted at a place.  Both go by the
\* positions of their names.
ASSUME InspectAssumption ==
    \A d \in Description :
      /\ d.env \in Seq(ToSet(d.env)) /\ d.mounts \in Seq(ToSet(d.mounts))
      /\ \A i \in DOMAIN d.env : d.env[i].key \in Nat
      /\ \A i, j \in DOMAIN d.env : d.env[i].key = d.env[j].key => i = j
      /\ \A i \in DOMAIN d.mounts : d.mounts[i].destination \in Nat
      /\ \A i, j \in DOMAIN d.mounts :
           d.mounts[i].destination = d.mounts[j].destination => i = j

VARIABLES
    fixed,          \* what it was created with
    container       \* state, health and the elapsed time of the status line

containerVars == <<fixed, container>>

\* Two elapsed times are enough to tell one reading from the next.
Elapsed == {"3 minutes", "4 minutes"}

Condition == [state : State, health : Health, elapsed : Elapsed]

ContainerInit ==
    /\ fixed \in Description
    /\ container \in {c \in Condition : c.elapsed = "3 minutes"}

\* What anyone else, or the container itself, does to it.
Enters(state) ==
    /\ container # Gone
    /\ \E h \in Health :
         container' = [state |-> state, health |-> h, elapsed |-> "3 minutes"]
    /\ UNCHANGED fixed

Vanishes ==
    /\ container # Gone
    /\ container' = Gone
    /\ UNCHANGED fixed

ClockAdvances ==
    /\ container # Gone
    /\ \E e \in Elapsed \ {container.elapsed} :
         container' = [container EXCEPT !.elapsed = e]
    /\ UNCHANGED fixed

-----------------------------------------------------------------------------
\* What the runtime says of a container described by d in the condition c.

\* Some of the orders in which a map of these keys may be ranged over.
MapOrders(S) == LET s == SetToSeq(S) IN {s, Reverse(s)}

StatusLine(d, c) ==
    CASE c.state = "running" ->
           <<"Up", c.elapsed>> \o (CASE c.health = "healthy" -> <<"(healthy)">>
                                     [] c.health = "unhealthy" -> <<"(unhealthy)">>
                                     [] c.health = "starting" -> <<"(health: starting)">>
                                     [] OTHER -> <<>>)
      [] c.state = "paused" -> <<"Up", c.elapsed, "(Paused)">>
      [] OTHER -> <<IF d.exit = 0 THEN "Exited (0)" ELSE "Exited (137)", c.elapsed, "ago">>

\* The port map, which only a container that is up has.
ActivePorts(d, c) ==
    IF c.state = "exited" THEN <<>>
    ELSE [port \in d.exposed \cup DOMAIN d.bindings |->
            IF port \in DOMAIN d.bindings
            THEN [i \in DOMAIN d.bindings[port] |->
                    IF d.bindings[port][i] = None THEN Ephemeral
                    ELSE d.bindings[port][i]]
            ELSE <<>>]

\* A list gives one entry per host address, so a port published for both
\* address families is there twice, in an order of the runtime's.
ReportedPorts(d, c) ==
    LET active == ActivePorts(d, c)
        Port(p, public) == [public |-> public, private |-> p[1], type |-> p[2]]
        Entries(p) == IF active[p] = <<>> THEN {<<4, Port(p, 0)>>}
                      ELSE {<<v, Port(p, h)>> : v \in d.families, h \in ToSet(active[p])}
        entries == UNION {Entries(p) : p \in DOMAIN active}
    IN {[i \in DOMAIN s |-> s[i][2]] : s \in SetToSeqs(entries)}

\* A line of the list, its labels ranged over in the order o.
Summary(d, c, o, p) ==
    [id |-> d.id, name |-> d.name, labels |-> d.labels, order |-> o,
     state |-> c.state, status |-> StatusLine(d, c), ports |-> p]

Summaries(d, c) ==
    {Summary(d, c, o, p) : o \in MapOrders(DOMAIN d.labels), p \in ReportedPorts(d, c)}

\* An inspect keeps the last health after the container stopped.  Its maps are
\* ranged over in some order: labels, networks, bound ports, configured ports.
Response(d, c, o, n, p, k) ==
    [id |-> d.id, name |-> d.name, labels |-> d.labels, order |-> o,
     state |-> c.state, health |-> c.health, exit |-> d.exit,
     finished |-> c.state = "exited", env |-> d.env, mounts |-> d.mounts,
     networks |-> d.networks, networkOrder |-> n,
     ports |-> ActivePorts(d, c), portOrder |-> p,
     hostBindings |-> d.bindings, exposed |-> d.exposed, configuredOrder |-> k]

\* configuredPorts ranges over the bindings and then over what else is exposed.
OrdersInTurn(S, T) == {b \o e : b \in MapOrders(S), e \in MapOrders(T)}

ConfiguredOrders(d) == OrdersInTurn(DOMAIN d.bindings, d.exposed \ DOMAIN d.bindings)

Inspections(d, c) ==
    {Response(d, c, o, n, p, k) :
        o \in MapOrders(DOMAIN d.labels),
        n \in MapOrders(DOMAIN d.networks),
        p \in MapOrders(DOMAIN ActivePorts(d, c)),
        k \in ConfiguredOrders(d)}

\* What List and Inspect make of it.
Listed == UNION {{[d |-> d, c |-> c, as |-> toService(s)] : s \in Summaries(d, c)} :
                 d \in Description, c \in Condition}

Inspected == UNION {{[d |-> d, c |-> c, as |-> toDetail(i)] : i \in Inspections(d, c)} :
                    d \in Description, c \in Condition}

Now(answers) ==
    {a.as : a \in {b \in answers : b.d = fixed /\ b.c = container}}

Services == Now(Listed)
Details == Now(Inspected)
=============================================================================
