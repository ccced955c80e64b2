---------------------------- MODULE Observation ----------------------------
(***************************************************************************)
(* What the monitor observes of a container, and how two observations of   *)
(* the project are compared (internal/app/monitor_service.go, from         *)
(* IndexServices on).  A service is reduced to what the comparison tells   *)
(* apart: `online` stands for every field Notable looks at, `age` for the  *)
(* elapsed time inside Status, which Changed alone looks at.  A container  *)
(* id is a number because events are published in display order.           *)
(***************************************************************************)
EXTENDS Naturals

CONSTANTS
    Cid,        \* container ids
    MaxAge,     \* bound: the elapsed times a status distinguishes
    Absent      \* no such container in an observation

ASSUME CidAssumption == Cid \subseteq Nat
ASSUME MaxAgeAssumption == MaxAge \in Nat

Service == [online : BOOLEAN, age : 0 .. MaxAge]

ASSUME AbsentAssumption == Absent \notin Service

\* An observation of the project: the map IndexServices builds.
Observation == [Cid -> Service \cup {Absent}]

Nothing == [i \in Cid |-> Absent]

Event == [action : {"added", "updated", "removed"}, id : Cid,
          service : Service, notable : BOOLEAN]

\* Mutant: an elapsed time that ticks over counts as news.
NotableByClock(before, after) == before # after

Notable(before, after) == before.online # after.online

\* Mutant: a row whose elapsed time alone ticked over is not redrawn.
ChangedIfNotable(before, after) == Notable(before, after)

Changed(before, after) == Notable(before, after) \/ before.age # after.age

\* Mutant: the second loop, over what was there before, is missing.
DiffOneForward(i, before, after) ==
    IF before = Absent /\ after # Absent
    THEN {[action |-> "added", id |-> i, service |-> after, notable |-> TRUE]}
    ELSE IF before # Absent /\ after # Absent /\ Changed(before, after)
    THEN {[action |-> "updated", id |-> i, service |-> after,
           notable |-> Notable(before, after)]}
    ELSE {}

\* What happened to one container between two observations of it: no event,
\* or one.
DiffOne(i, before, after) ==
    IF before = Absent /\ after # Absent
    THEN {[action |-> "added", id |-> i, service |-> after, notable |-> TRUE]}
    ELSE IF before # Absent /\ after = Absent
    THEN {[action |-> "removed", id |-> i, service |-> before,
           notable |-> TRUE]}
    ELSE IF before # Absent /\ after # Absent /\ Changed(before, after)
    THEN {[action |-> "updated", id |-> i, service |-> after,
           notable |-> Notable(before, after)]}
    ELSE {}

\* A set, because no two of the events are about the same container; they are
\* published in display order, see InDisplayOrder.
DiffSnapshots(previous, next) ==
    UNION {DiffOne(i, previous[i], next[i]) : i \in Cid}

\* The sort at the end of DiffSnapshots: e is the next of the events to go out.
InDisplayOrder(e, events) == e \in events /\ \A f \in events : e.id <= f.id

\* What a browser shows for the container after applying the event.
Shown(e) == IF e.action = "removed" THEN Absent ELSE e.service
=============================================================================
