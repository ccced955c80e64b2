------------------------------ MODULE Removal ------------------------------
(***************************************************************************)
(* Networks and volumes: their pages and their removal.  NetworkService    *)
(* and VolumeService (internal/app) hold no state: a removal is a POST     *)
(* that makes three requests to the runtime (inspect the resource, count   *)
(* its users from a listing of the containers, remove it), and a page is   *)
(* a GET that makes two (list or inspect, count).  Anyone may create,      *)
(* start, stop and remove things in between, and any request may fail.     *)
(*                                                                         *)
(* A network is named by its id, which is never given out again, a volume  *)
(* by its name, which is.  Networks are assumed to have different names,   *)
(* since their users are counted by name.  Only UsedBy > 0 matters.        *)
(***************************************************************************)
EXTENDS Naturals

CONSTANTS
    Container,  \* containers on the host
    Mine,       \* those labelled for the project
    Volume,     \* volume names
    Network,    \* network ids
    Req,        \* requests to remove: one POST each
    Page,       \* browsers that look at networks or volumes
    MaxMoves    \* bound: what anyone else does on the host

ASSUME MineAssumption == Mine \subseteq Container
ASSUME KindAssumption == Volume \cap Network = {}
ASSUME ActorAssumption == Req \cap Page = {}
ASSUME MovesAssumption == MaxMoves \in Nat

Resource == Volume \cup Network

VARIABLES
    control,    \* this deployment may remove
    status,     \* each container: "none", "stopped" or "running"
    uses,       \* the networks and volumes it is configured with
    owner,      \* each resource: "none", or whose label it carries
    spent,      \* network ids that have been given out
    moves,      \* bound: steps of others so far
    pc,         \* each request: "sent", "inspected", "checked", "answered"
    target,     \* the resource it is about
    inUse,      \* UsedBy > 0 as far as it knows
    answer,     \* the status it was answered with, 0 before
    page,       \* each page: "blank", "listed", "shown", "404", "503"
    view,       \* a "list", the "detail" of one resource or its "confirm"
    listed,     \* the resources it is about
    busy,       \* those of them that came with members
    used,       \* those it shows as in use
    counted,    \* history: requests and pages whose count succeeded
    fresh,      \* history: pages since whose first read the host is the same
    held        \* history: requests whose resource the project used all along

host == <<control, status, uses, owner, spent, moves>>
requests == <<pc, target, inUse, answer, held>>
pages == <<page, view, listed, busy, used>>
vars == <<host, requests, pages, counted, fresh>>

Init ==
    /\ control \in BOOLEAN
    /\ status = [c \in Container |-> "none"]
    /\ uses = [c \in Container |-> {}]
    /\ owner \in [Resource -> {"none", "ours", "other"}]
    /\ spent = {n \in Network : owner[n] # "none"}
    /\ moves = 0
    /\ pc = [q \in Req |-> "sent"]
    /\ target \in [Req -> Resource]
    /\ inUse = [q \in Req |-> FALSE]
    /\ answer = [q \in Req |-> 0]
    /\ held = [q \in Req |-> FALSE]
    /\ page = [p \in Page |-> "blank"]
    /\ view = [p \in Page |-> "list"]
    /\ listed = [p \in Page |-> {}]
    /\ busy = [p \in Page |-> {}]
    /\ used = [p \in Page |-> {}]
    /\ counted = {}
    /\ fresh = {}

-----------------------------------------------------------------------------
(* The host.                                                               *)

\* The containers configured with r, whoever they belong to.
Refers(r) == {c \in Container : status[c] # "none" /\ r \in uses[c]}

\* Those with an endpoint on it: a stopped container has none.
Members(r) == {c \in Refers(r) : status[c] = "running"}

\* The containers of the project that refer to r: for the history only.
OurUsers(r) == {c \in Mine : status[c] # "none" /\ r \in uses[c]}

\* Mutant: the count asks for running containers only.
CountedRunning(r) == Members(r) \cap Mine

\* Client.Usage: the project's containers that refer to r, stopped ones too.
Counted(r) == Refers(r) \cap Mine

\* Mutant: the volume is removed by force.
ObeysForced(r) == owner[r] # "none" /\ (r \in Network => Members(r) = {})

\* The runtime's own refusal: a volume any container refers to, a network with
\* endpoints.
Obeys(r) ==
    /\ owner[r] # "none"
    /\ IF r \in Volume THEN Refers(r) = {} ELSE Members(r) = {}

Exists(R) == {r \in R : owner[r] # "none"}

CreateContainer(c) ==
    /\ status[c] = "none"
    /\ status' = [status EXCEPT ![c] = "stopped"]
    /\ \E R \in SUBSET Exists(Resource) : uses' = [uses EXCEPT ![c] = R]
    /\ UNCHANGED <<owner, spent>>

\* It does not start on a network that is gone.
StartContainer(c) ==
    /\ status[c] = "stopped"
    /\ uses[c] \subseteq Exists(Resource)
    /\ status' = [status EXCEPT ![c] = "running"]
    /\ UNCHANGED <<uses, owner, spent>>

StopContainer(c) ==
    /\ status[c] = "running"
    /\ status' = [status EXCEPT ![c] = "stopped"]
    /\ UNCHANGED <<uses, owner, spent>>

RemoveContainer(c) ==
    /\ status[c] = "stopped"
    /\ status' = [status EXCEPT ![c] = "none"]
    /\ uses' = [uses EXCEPT ![c] = {}]
    /\ UNCHANGED <<owner, spent>>

CreateResource(r) ==
    /\ owner[r] = "none"
    /\ r \notin spent
    /\ \E o \in {"ours", "other"} : owner' = [owner EXCEPT ![r] = o]
    /\ spent' = spent \cup ({r} \cap Network)
    /\ UNCHANGED <<status, uses>>

RemoveResource(r) ==
    /\ Obeys(r)
    /\ owner' = [owner EXCEPT ![r] = "none"]
    /\ UNCHANGED <<status, uses, spent>>

Others ==
    /\ moves < MaxMoves
    /\ moves' = moves + 1
    /\ \/ \E c \in Container :
            \/ CreateContainer(c) \/ StartContainer(c)
            \/ StopContainer(c) \/ RemoveContainer(c)
       \/ \E r \in Resource : CreateResource(r) \/ RemoveResource(r)
    /\ UNCHANGED <<control, pc, target, inUse, answer, pages, counted>>
    /\ fresh' = {}
    /\ held' \in [Req -> BOOLEAN]
    /\ \A q \in Req : held'[q] = (held[q] /\ OurUsers(target[q])' # {})

-----------------------------------------------------------------------------
(* What the two adapters read.                                             *)

ListNetworks == {n \in Network : owner[n] = "ours"}

ListVolumes == {v \in Volume : owner[v] = "ours"}

\* Inspect takes any id or name the runtime knows: what is not labelled for
\* the project is not found.
InspectNetwork(r) == r \in Network /\ owner[r] = "ours"

InspectVolume(r) == r \in Volume /\ owner[r] = "ours"

Inspected(r) == InspectNetwork(r) \/ InspectVolume(r)

\* An inspected network comes with its members, a listed one without; a
\* volume's users are left to be counted.
WithMembers(R) == {r \in R \cap Network : Members(r) # {}}

-----------------------------------------------------------------------------
(* A POST to .../remove.                                                   *)

sameOrigin(site) == site \in {"", "same-origin", "none"}

Site == {"", "same-origin", "none", "same-site", "cross-site"}

\* The status each outcome is answered with; what a failed call to the runtime
\* was about makes no difference.
Code(outcome) ==
    CASE outcome = "removed" -> 303
      [] outcome \in {"ErrControlDisabled", "cross-origin"} -> 403
      [] outcome = "ErrNotFound" -> 404
      [] outcome = "ErrInUse" -> 409
      [] OTHER -> 502

Answer(q, outcome) ==
    /\ pc' = [pc EXCEPT ![q] = "answered"]
    /\ answer' = [answer EXCEPT ![q] = Code(outcome)]

\* Another site's form, or a deployment that may not remove.
Refuse(q) ==
    /\ pc[q] = "sent"
    /\ \/ \E site \in Site : ~sameOrigin(site) /\ Answer(q, "cross-origin")
       \/ ~control /\ Answer(q, "ErrControlDisabled")
    /\ UNCHANGED <<host, target, inUse, held, pages, counted, fresh>>

\* Mutant: the label of what was inspected is not looked at.
InspectAny(q) ==
    /\ pc[q] = "sent" /\ control
    /\ owner[target[q]] # "none"
    /\ pc' = [pc EXCEPT ![q] = "inspected"]
    /\ inUse' = [inUse EXCEPT ![q] = WithMembers({target[q]}) # {}]
    /\ held' = [held EXCEPT ![q] = OurUsers(target[q]) # {}]
    /\ UNCHANGED <<host, target, answer, pages, counted, fresh>>

\* The inspection that comes first.
Inspect(q) ==
    /\ pc[q] = "sent" /\ control
    /\ Inspected(target[q])
    /\ pc' = [pc EXCEPT ![q] = "inspected"]
    /\ inUse' = [inUse EXCEPT ![q] = WithMembers({target[q]}) # {}]
    /\ held' = [held EXCEPT ![q] = OurUsers(target[q]) # {}]
    /\ UNCHANGED <<host, target, answer, pages, counted, fresh>>

\* It finds nothing, or fails.
InspectFails(q) ==
    /\ pc[q] = "sent" /\ control
    /\ \/ ~Inspected(target[q]) /\ Answer(q, "ErrNotFound")
       \/ Answer(q, "failed")
    /\ UNCHANGED <<host, target, inUse, held, pages, counted, fresh>>

\* What InUse makes of the count: ErrInUse, or on to the removal.
Decide(q, isUsed) ==
    /\ inUse' = [inUse EXCEPT ![q] = isUsed]
    /\ IF isUsed THEN Answer(q, "ErrInUse")
       ELSE pc' = [pc EXCEPT ![q] = "checked"] /\ UNCHANGED answer
    /\ UNCHANGED <<host, target, held, pages, fresh>>

\* The larger of the count and the members decides.
Count(q) ==
    /\ pc[q] = "inspected"
    /\ Decide(q, Counted(target[q]) # {} \/ inUse[q])
    /\ counted' = counted \cup {q}

\* A failed count is logged and leaves UsedBy as it is.
CountFails(q) ==
    /\ pc[q] = "inspected"
    /\ Decide(q, inUse[q])
    /\ UNCHANGED counted

\* Mutant: a resource that is gone already counts as removed.
RemoveGone(q) ==
    /\ pc[q] = "checked"
    /\ Answer(q, "removed")
    /\ Obeys(target[q]) \/ owner[target[q]] = "none"
    /\ owner' = [owner EXCEPT ![target[q]] = "none"]
    /\ fresh' = {}
    /\ UNCHANGED <<control, status, uses, spent, moves, target, inUse, held,
                   pages, counted>>

\* The runtime's call, which removes the resource.
Remove(q) ==
    /\ pc[q] = "checked"
    /\ Answer(q, "removed")
    /\ Obeys(target[q])
    /\ owner' = [owner EXCEPT ![target[q]] = "none"]
    /\ fresh' = {}
    /\ UNCHANGED <<control, status, uses, spent, moves, target, inUse, held,
                   pages, counted>>

\* It is refused, finds nothing, fails, or fails after taking effect.
RemoveFails(q) ==
    /\ pc[q] = "checked"
    /\ Answer(q, "failed")
    /\ \/ UNCHANGED <<owner, fresh>>
       \/ /\ Obeys(target[q])
          /\ owner' = [owner EXCEPT ![target[q]] = "none"]
          /\ fresh' = {}
    /\ UNCHANGED <<control, status, uses, spent, moves, target, inUse, held,
                   pages, counted>>

Request(q) ==
    \/ Refuse(q) \/ Inspect(q) \/ InspectFails(q)
    \/ Count(q) \/ CountFails(q) \/ Remove(q) \/ RemoveFails(q)

-----------------------------------------------------------------------------
(* The pages.                                                              *)

\* A page is asked for, and its first read succeeds.
Reads(p, as, found, members) ==
    /\ page[p] # "listed"
    /\ page' = [page EXCEPT ![p] = "listed"]
    /\ view' = [view EXCEPT ![p] = as]
    /\ listed' = [listed EXCEPT ![p] = found]
    /\ busy' = [busy EXCEPT ![p] = members]
    /\ used' = [used EXCEPT ![p] = {}]
    /\ counted' = counted \ {p}
    /\ fresh' = fresh \cup {p}
    /\ UNCHANGED <<host, requests>>

NetworkList(p) == Reads(p, "list", ListNetworks, {})

VolumeList(p) == Reads(p, "list", ListVolumes, {})

NetworkDetail(p) ==
    \E n \in Network : InspectNetwork(n) /\ Reads(p, "detail", {n}, WithMembers({n}))

VolumeDetail(p) ==
    \E v \in Volume : InspectVolume(v) /\ Reads(p, "detail", {v}, {})

\* Whether the deployment may remove is not asked before the question.
NetworkConfirm(p) ==
    \E n \in Network : InspectNetwork(n) /\ Reads(p, "confirm", {n}, WithMembers({n}))

VolumeConfirm(p) ==
    \E v \in Volume : InspectVolume(v) /\ Reads(p, "confirm", {v}, {})

\* The page is about nothing.
ErrorPage(p, code) ==
    /\ page[p] # "listed"
    /\ page' = [page EXCEPT ![p] = code]
    /\ listed' = [listed EXCEPT ![p] = {}]
    /\ busy' = [busy EXCEPT ![p] = {}]
    /\ used' = [used EXCEPT ![p] = {}]
    /\ counted' = counted \ {p}
    /\ fresh' = fresh \ {p}
    /\ UNCHANGED <<host, requests, view>>

NotFound(p) == (\E r \in Resource : ~Inspected(r)) /\ ErrorPage(p, "404")

Unavailable(p) == ErrorPage(p, "503")

\* The badge of each, and the sentence of the question, say whether it is used.
Draws(p, inUseNow) ==
    /\ page[p] = "listed"
    /\ page' = [page EXCEPT ![p] = "shown"]
    /\ used' = [used EXCEPT ![p] = inUseNow]
    /\ UNCHANGED <<host, requests, view, listed, busy, fresh>>

PageCounts(p) ==
    /\ Draws(p, {r \in listed[p] : Counted(r) # {}} \cup busy[p])
    /\ counted' = counted \cup {p}

PageCountFails(p) ==
    /\ Draws(p, busy[p])
    /\ UNCHANGED counted

Show(p) ==
    \/ NetworkList(p) \/ VolumeList(p) \/ NetworkDetail(p) \/ VolumeDetail(p)
    \/ NetworkConfirm(p) \/ VolumeConfirm(p)
    \/ NotFound(p) \/ Unavailable(p)
    \/ PageCounts(p) \/ PageCountFails(p)

\* The resources a page draws a remove link for.
Offered(p) == {r \in listed[p] \ used[p] : view[p] # "confirm" /\ control}

Next ==
    \/ Others
    \/ \E q \in Req : Request(q)
    \/ \E p \in Page : Show(p)

Spec == Init /\ [][Next]_vars

-----------------------------------------------------------------------------

\* TYPE: the shape of every variable.
TypeOK ==
    /\ control \in BOOLEAN
    /\ status \in [Container -> {"none", "stopped", "running"}]
    /\ uses \in [Container -> SUBSET Resource]
    /\ owner \in [Resource -> {"none", "ours", "other"}]
    /\ spent \subseteq Network
    /\ moves \in 0 .. MaxMoves
    /\ pc \in [Req -> {"sent", "inspected", "checked", "answered"}]
    /\ target \in [Req -> Resource]
    /\ inUse \in [Req -> BOOLEAN]
    /\ answer \in [Req -> {0, 303, 403, 404, 409, 502}]
    /\ held \in [Req -> BOOLEAN]
    /\ page \in [Page -> {"blank", "listed", "shown", "404", "503"}]
    /\ view \in [Page -> {"list", "detail", "confirm"}]
    /\ listed \in [Page -> SUBSET Resource]
    /\ busy \in [Page -> SUBSET Resource]
    /\ used \in [Page -> SUBSET Resource]
    /\ counted \subseteq Req \cup Page
    /\ fresh \subseteq Page

\* A request that counted goes on to the removal only if at some moment since
\* it inspected the resource no container of the project referred to it,
\* stopped ones included (network_service.go:85-99, volume_service.go:74-88).
CheckSees == \A q \in Req : pc[q] = "checked" /\ q \in counted => ~held[q]

Deletes(q, r) == pc[q] = "checked" /\ owner[r] # "none" /\ owner'[r] = "none"

\* The program never deletes the data of a volume some container refers to,
\* even one that was created after the check, by whatever project: the
\* removal is not forced (volumes.go:108-113).
DataKept ==
    [][\A q \in Req, v \in Volume :
        Deletes(q, v) /\ moves' = moves => Refers(v) = {}]_vars

\* A network the program deletes carries the project's label at that moment,
\* since an id is never given out again (networks.go:63-77).
OnlyOurNetworks ==
    [][\A q \in Req, n \in Network :
        Deletes(q, n) /\ moves' = moves => owner[n] = "ours"]_vars

\* A resource is in use all along only if it is in use now, and a request that
\* is still to count has not counted.
HeldInv ==
    \A q \in Req :
        /\ held[q] => OurUsers(target[q]) # {}
        /\ pc[q] \in {"sent", "inspected"} => q \notin counted

\* A network that was inspected and found to be the project's still is, or is
\* gone for good.
NetworkInv ==
    /\ \A n \in Network : owner[n] # "none" => n \in spent
    /\ \A q \in Req :
        pc[q] \in {"inspected", "checked"} /\ target[q] \in Network
            => target[q] \in spent /\ owner[target[q]] \in {"ours", "none"}

\* A network whose removal was reported as done is gone, and stays gone, and
\* nobody else is told that they removed it: the second of two who confirmed
\* the same question learns of it (handler.go of networks:125-141).
ToldOnce ==
    \A q \in Req : answer[q] = 303 /\ target[q] \in Network =>
        /\ owner[target[q]] = "none" /\ target[q] \in spent
        /\ \A x \in Req : answer[x] = 303 /\ target[x] = target[q] => x = q

\* What a page that was drawn in one piece knows.
PageInv ==
    \A p \in fresh :
        /\ \A r \in listed[p] : owner[r] = "ours"
        /\ \A r \in busy[p] : Members(r) # {}
        /\ page[p] = "listed" => p \notin counted
        /\ page[p] = "shown" /\ p \in counted =>
             used[p] = {r \in listed[p] : OurUsers(r) # {}} \cup busy[p]

\* What happens to a request that is sent now, with nothing failing.
Succeeds(r) == control /\ Inspected(r) /\ OurUsers(r) = {} /\ Obeys(r)

\* As long as the host is what it was when a page was asked for, and its users
\* could be counted, the page offers to remove exactly what a request would
\* remove, stopped containers considered, provided that nobody else's
\* containers use the project's resources (list.templ of networks:31-38).
OffersHonoured ==
    \A p \in fresh \cap counted : page[p] = "shown" =>
        \A r \in listed[p] : Refers(r) \subseteq Mine /\ view[p] # "confirm" =>
            (r \in Offered(p)) = Succeeds(r)

\* The inductive invariant behind CheckSees, OnlyOurNetworks, ToldOnce and
\* OffersHonoured.
RemovalInv ==
    TypeOK /\ HeldInv /\ NetworkInv /\ CheckSees /\ ToldOnce /\ PageInv

\* "It refuses a network anything is still attached to"
\* (network_service.go:85): one that a container of the project referred to
\* from the inspection to the removal is not deleted.
HeldIsKept ==
    [][\A q \in Req :
        held[q] /\ Deletes(q, target[q]) => moves' # moves]_vars
=============================================================================
