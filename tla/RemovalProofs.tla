--------------------------- MODULE RemovalProofs ---------------------------
(***************************************************************************)
(* What holds of removals for any containers, resources, requests and      *)
(* pages: a counted check saw the resource unused, no data in use is       *)
(* deleted and no network of another project is.                           *)
(***************************************************************************)
EXTENDS Removal, TLAPS

USE DEF Resource

Stages == {"sent", "inspected", "checked", "answered"}
Codes == {0, 303, 403, 404, 409, 502}

LEMMA CodeType == \A outcome : Code(outcome) \in Codes
BY DEF Code, Codes

\* What a step of anyone else leaves of the requests and the pages.
LEMMA OthersFrame ==
    ASSUME Others
    PROVE  /\ UNCHANGED <<control, pc, target, inUse, answer, page, view,
                          listed, busy, used, counted>>
           /\ fresh' = {}
BY DEF Others, pages

\* A request answers, or goes on; what its step sets and what it leaves alone.
LEMMA RequestFrame ==
    ASSUME TypeOK, NEW q \in Req, Request(q)
    PROVE  /\ UNCHANGED <<control, status, uses, spent, moves, target, page,
                          view, listed, busy, used>>
           /\ \E v \in Stages : pc' = [pc EXCEPT ![q] = v]
           /\ \E v \in Codes : answer' = [answer EXCEPT ![q] = v]
           /\ \E v \in BOOLEAN : inUse' = [inUse EXCEPT ![q] = v]
           /\ \E v \in BOOLEAN : held' = [held EXCEPT ![q] = v]
           /\ counted' \in {counted, counted \cup {q}}
           /\ \/ UNCHANGED <<owner, fresh>>
              \/ owner' = [owner EXCEPT ![target[q]] = "none"] /\ fresh' = {}
<1>1. ASSUME NEW outcome, Answer(q, outcome)
      PROVE  /\ \E v \in Stages : pc' = [pc EXCEPT ![q] = v]
             /\ \E v \in Codes : answer' = [answer EXCEPT ![q] = v]
    BY <1>1, CodeType DEF Answer, Stages
<1>2. /\ answer = [answer EXCEPT ![q] = answer[q]] /\ answer[q] \in Codes
      /\ inUse = [inUse EXCEPT ![q] = inUse[q]] /\ inUse[q] \in BOOLEAN
      /\ held = [held EXCEPT ![q] = held[q]] /\ held[q] \in BOOLEAN
    BY DEF TypeOK, Codes
<1>3. CASE Refuse(q)
    BY <1>1, <1>2, <1>3 DEF Refuse, host, pages
<1>4. CASE Inspect(q)
    <2>1. (WithMembers({target[q]}) # {}) \in BOOLEAN
          /\ (OurUsers(target[q]) # {}) \in BOOLEAN
        OBVIOUS
    <2>2. UNCHANGED <<control, status, uses, owner, spent, moves, target, page,
                      view, listed, busy, used, counted, fresh>>
        BY <1>4 DEF Inspect, host, pages
    <2>3. /\ inUse' = [inUse EXCEPT ![q] = WithMembers({target[q]}) # {}]
          /\ held' = [held EXCEPT ![q] = OurUsers(target[q]) # {}]
          /\ pc' = [pc EXCEPT ![q] = "inspected"] /\ answer' = answer
        BY <1>4 DEF Inspect
    <2> QED
        BY <1>2, <2>1, <2>2, <2>3 DEF Stages
<1>5. CASE InspectFails(q)
    BY <1>1, <1>2, <1>5 DEF InspectFails, host, pages
<1>6. ASSUME NEW isUsed \in BOOLEAN, Decide(q, isUsed)
      PROVE  /\ UNCHANGED <<host, target, page, view, listed, busy, used, fresh>>
             /\ \E v \in Stages : pc' = [pc EXCEPT ![q] = v]
             /\ \E v \in Codes : answer' = [answer EXCEPT ![q] = v]
             /\ \E v \in BOOLEAN : inUse' = [inUse EXCEPT ![q] = v]
             /\ UNCHANGED held
    BY <1>1, <1>2, <1>6 DEF Decide, pages, Stages
<1>7. CASE Count(q)
    <2>1. (Counted(target[q]) # {} \/ inUse[q]) \in BOOLEAN
        BY <1>2
    <2> QED
        BY <1>2, <1>6, <1>7, <2>1 DEF Count, host
<1>8. CASE CountFails(q)
    BY <1>2, <1>6, <1>8 DEF CountFails, host
<1>9. CASE Remove(q)
    BY <1>1, <1>2, <1>9 DEF Remove, pages
<1>10. CASE RemoveFails(q)
    BY <1>1, <1>2, <1>10 DEF RemoveFails, pages
<1> QED
    BY <1>3, <1>4, <1>5, <1>7, <1>8, <1>9, <1>10 DEF Request

\* What the first read of a page may be.
LEMMA PageReads ==
    ASSUME TypeOK, NEW p \in Page, Show(p)
    PROVE  \/ \E code \in {"404", "503"} : ErrorPage(p, code)
           \/ \E as \in {"list", "detail", "confirm"},
                 found \in SUBSET {r \in Resource : owner[r] = "ours"},
                 members \in SUBSET {r \in Resource : Members(r) # {}} :
                Reads(p, as, found, members)
           \/ PageCounts(p)
           \/ PageCountFails(p)
<1>1. CASE NetworkList(p) \/ VolumeList(p)
    BY <1>1 DEF NetworkList, VolumeList, ListNetworks, ListVolumes
<1>2. CASE NetworkDetail(p) \/ NetworkConfirm(p)
    BY <1>2 DEF NetworkDetail, NetworkConfirm, InspectNetwork, WithMembers
<1>3. CASE VolumeDetail(p) \/ VolumeConfirm(p)
    BY <1>3 DEF VolumeDetail, VolumeConfirm, InspectVolume
<1> QED
    BY <1>1, <1>2, <1>3 DEF Show, NotFound, Unavailable

\* A page touches nothing a request knows.
LEMMA PageFrame ==
    ASSUME TypeOK, NEW p \in Page, Show(p)
    PROVE  /\ UNCHANGED <<host, requests>>
           /\ \A q \in Req : q \in counted' <=> q \in counted
<1>1. p \notin Req
    BY ActorAssumption
<1>2. ASSUME NEW code, ErrorPage(p, code)
      PROVE  UNCHANGED <<host, requests>> /\ counted' = counted \ {p}
    BY <1>2 DEF ErrorPage
<1>3. ASSUME NEW as, NEW found, NEW members, Reads(p, as, found, members)
      PROVE  UNCHANGED <<host, requests>> /\ counted' = counted \ {p}
    BY <1>3 DEF Reads
<1>4. CASE PageCounts(p) \/ PageCountFails(p)
    BY <1>1, <1>4 DEF PageCounts, PageCountFails, Draws
<1> QED
    BY <1>1, <1>2, <1>3, <1>4, PageReads

-----------------------------------------------------------------------------
(* Type correctness.                                                       *)

LEMMA OthersType ==
    ASSUME TypeOK, Others
    PROVE  TypeOK'
<1>1. moves' \in 0 .. MaxMoves
    BY MovesAssumption DEF Others, TypeOK
<1>2. held' \in [Req -> BOOLEAN]
    BY DEF Others
<1>3. /\ status' \in [Container -> {"none", "stopped", "running"}]
      /\ uses' \in [Container -> SUBSET Resource]
      /\ owner' \in [Resource -> {"none", "ours", "other"}]
      /\ spent' \subseteq Network
    <2>1. CASE \E c \in Container :
                \/ CreateContainer(c) \/ StartContainer(c)
                \/ StopContainer(c) \/ RemoveContainer(c)
        BY <2>1 DEF CreateContainer, StartContainer, StopContainer,
                    RemoveContainer, Exists, TypeOK
    <2>2. CASE \E r \in Resource : CreateResource(r) \/ RemoveResource(r)
        BY <2>2 DEF CreateResource, RemoveResource, TypeOK
    <2> QED
        BY <2>1, <2>2 DEF Others
<1> QED
    BY <1>1, <1>2, <1>3, OthersFrame DEF TypeOK

LEMMA RequestType ==
    ASSUME TypeOK, NEW q \in Req, Request(q)
    PROVE  TypeOK'
<1>1. /\ pc' \in [Req -> Stages] /\ answer' \in [Req -> Codes]
      /\ inUse' \in [Req -> BOOLEAN] /\ held' \in [Req -> BOOLEAN]
    <2>1. ASSUME NEW S, NEW f \in [Req -> S], NEW v \in S
          PROVE  [f EXCEPT ![q] = v] \in [Req -> S]
        OBVIOUS
    <2>2. /\ pc \in [Req -> Stages] /\ answer \in [Req -> Codes]
          /\ inUse \in [Req -> BOOLEAN] /\ held \in [Req -> BOOLEAN]
        BY DEF TypeOK, Stages, Codes
    <2>3. PICK stage \in Stages : pc' = [pc EXCEPT ![q] = stage]
        BY RequestFrame
    <2>4. PICK code \in Codes : answer' = [answer EXCEPT ![q] = code]
        BY RequestFrame
    <2>5. PICK isUsed \in BOOLEAN : inUse' = [inUse EXCEPT ![q] = isUsed]
        BY RequestFrame
    <2>6. PICK isHeld \in BOOLEAN : held' = [held EXCEPT ![q] = isHeld]
        BY RequestFrame
    <2> QED
        BY <2>2, <2>3, <2>4, <2>5, <2>6
<1>2. /\ owner' \in [Resource -> {"none", "ours", "other"}]
      /\ fresh' \subseteq Page /\ counted' \subseteq Req \cup Page
    BY RequestFrame DEF TypeOK
<1> QED
    BY <1>1, <1>2, RequestFrame DEF TypeOK, Stages, Codes

LEMMA PageType ==
    ASSUME TypeOK, NEW p \in Page, Show(p)
    PROVE  TypeOK'
<1>1. ASSUME NEW code \in {"404", "503"}, ErrorPage(p, code)
      PROVE  TypeOK'
    BY <1>1 DEF ErrorPage, host, requests, TypeOK
<1>2. ASSUME NEW as \in {"list", "detail", "confirm"}, NEW found \in SUBSET Resource,
             NEW members \in SUBSET Resource, Reads(p, as, found, members)
      PROVE  TypeOK'
    BY <1>2 DEF Reads, host, requests, TypeOK
<1>3. ASSUME NEW inUseNow \in SUBSET Resource, Draws(p, inUseNow),
             counted' \subseteq Req \cup Page
      PROVE  TypeOK'
    BY <1>3 DEF Draws, host, requests, TypeOK
<1>4. CASE PageCounts(p)
    <2>1. {r \in listed[p] : Counted(r) # {}} \cup busy[p] \in SUBSET Resource
        BY DEF TypeOK
    <2> QED
        BY <1>3, <1>4, <2>1 DEF PageCounts, TypeOK
<1>5. CASE PageCountFails(p)
    BY <1>3, <1>5 DEF PageCountFails, TypeOK
<1> QED
    BY <1>1, <1>2, <1>4, <1>5, PageReads

LEMMA TypeStep ==
    ASSUME TypeOK, [Next]_vars
    PROVE  TypeOK'
<1>1. CASE UNCHANGED vars
    BY <1>1 DEF vars, host, requests, pages, TypeOK
<1> QED
    BY <1>1, OthersType, RequestType, PageType DEF Next

-----------------------------------------------------------------------------
(* What the check knows.                                                   *)

LEMMA CheckStep ==
    ASSUME TypeOK, HeldInv, CheckSees, [Next]_vars
    PROVE  HeldInv' /\ CheckSees'
<1>1. CASE Others
    <2>1. \A q \in Req : held'[q] = (held[q] /\ OurUsers(target[q])' # {})
        BY <1>1 DEF Others
    <2>2. UNCHANGED <<pc, target, counted>>
        BY <1>1, OthersFrame
    <2> QED
        BY <2>1, <2>2 DEF HeldInv, CheckSees, TypeOK
<1>2. ASSUME NEW q \in Req, Request(q)
      PROVE  HeldInv' /\ CheckSees'
    <2>1. UNCHANGED <<status, uses, target>>
        BY <1>2, RequestFrame
    <2>2. \A r : OurUsers(r)' = OurUsers(r)
        BY <2>1 DEF OurUsers
    <2>3. \A x \in Req \ {q} : /\ pc'[x] = pc[x] /\ held'[x] = held[x]
                               /\ x \in counted' <=> x \in counted
        BY <1>2, RequestFrame DEF TypeOK
    <2>4. /\ held'[q] => OurUsers(target[q]) # {}
          /\ pc'[q] \in {"sent", "inspected"} => q \notin counted'
          /\ pc'[q] = "checked" /\ q \in counted' => ~held'[q]
        <3>1. CASE Refuse(q) \/ InspectFails(q) \/ Remove(q) \/ RemoveFails(q)
            BY <3>1 DEF Refuse, InspectFails, Remove, RemoveFails, Answer,
                        HeldInv, TypeOK
        <3>2. CASE Inspect(q)
            BY <3>2 DEF Inspect, HeldInv, TypeOK
        <3>3. CASE Count(q)
            <4> DEFINE isUsed == Counted(target[q]) # {} \/ inUse[q]
            <4>1. /\ pc'[q] \in {"answered", "checked"}
                  /\ pc'[q] = "checked" => ~isUsed
                  /\ held' = held
                BY <3>3 DEF Count, Decide, Answer, TypeOK
            <4>2. OurUsers(target[q]) \subseteq Counted(target[q])
                BY MineAssumption DEF OurUsers, Counted, Refers
            <4> QED
                BY <4>1, <4>2 DEF HeldInv
        <3>4. CASE CountFails(q)
            <4>1. /\ pc'[q] \in {"answered", "checked"} /\ pc[q] = "inspected"
                  /\ UNCHANGED <<held, counted>>
                BY <3>4 DEF CountFails, Decide, Answer, TypeOK
            <4> QED
                BY <4>1 DEF HeldInv
        <3> QED
            BY <1>2, <3>1, <3>2, <3>3, <3>4 DEF Request
    <2> QED
        BY <2>1, <2>2, <2>3, <2>4 DEF HeldInv, CheckSees
<1>3. CASE \E p \in Page : Show(p)
    <2>1. /\ UNCHANGED <<status, uses, pc, target, held>>
          /\ \A q \in Req : q \in counted' <=> q \in counted
        BY <1>3, PageFrame DEF host, requests
    <2> QED
        BY <2>1 DEF HeldInv, CheckSees, OurUsers
<1>4. CASE UNCHANGED vars
    BY <1>4 DEF vars, host, requests, HeldInv, CheckSees, OurUsers
<1> QED
    BY <1>1, <1>2, <1>3, <1>4 DEF Next

-----------------------------------------------------------------------------
(* Whose network it is, and who was told that it is gone.                  *)

\* Only one's own request tells one that the removal is done, and the resource
\* was there until then.
LEMMA WhoIsTold ==
    ASSUME TypeOK, NEW q \in Req, Request(q), answer'[q] = 303, answer[q] # 303
    PROVE  Remove(q)
<1>1. \A outcome : outcome # "removed" => Code(outcome) # 303
    BY DEF Code
<1>2. ~Refuse(q) /\ ~InspectFails(q) /\ ~RemoveFails(q)
    BY <1>1 DEF Refuse, InspectFails, RemoveFails, Answer, TypeOK
<1>3. ~Inspect(q) /\ ~Count(q) /\ ~CountFails(q)
    BY <1>1 DEF Inspect, Count, CountFails, Decide, Answer, TypeOK
<1> QED
    BY <1>2, <1>3 DEF Request

LEMMA NetworkStep ==
    ASSUME TypeOK, NetworkInv, ToldOnce, [Next]_vars
    PROVE  NetworkInv' /\ ToldOnce'
<1>1. CASE Others
    <2>1. UNCHANGED <<pc, target, answer>>
        BY <1>1, OthersFrame
    <2>2. CASE UNCHANGED <<owner, spent>>
        BY <2>1, <2>2 DEF NetworkInv, ToldOnce
    <2>3. CASE \E r \in Resource : CreateResource(r)
        BY <2>1, <2>3 DEF CreateResource, NetworkInv, ToldOnce, TypeOK
    <2>4. CASE \E r \in Resource : RemoveResource(r)
        BY <2>1, <2>4 DEF RemoveResource, NetworkInv, ToldOnce, TypeOK
    <2> QED
        BY <1>1, <2>2, <2>3, <2>4
        DEF Others, CreateContainer, StartContainer, StopContainer,
            RemoveContainer
<1>2. ASSUME NEW q \in Req, Request(q)
      PROVE  NetworkInv' /\ ToldOnce'
    <2>1. /\ UNCHANGED <<target, spent>>
          /\ \A x \in Req \ {q} : pc'[x] = pc[x] /\ answer'[x] = answer[x]
          /\ UNCHANGED owner \/ owner' = [owner EXCEPT ![target[q]] = "none"]
        BY <1>2, RequestFrame DEF TypeOK
    <2>2. \A r \in Resource : owner'[r] = owner[r] \/ owner'[r] = "none"
        BY <2>1 DEF TypeOK
    <2>3. ASSUME pc'[q] \in {"inspected", "checked"}, target[q] \in Network
          PROVE  target[q] \in spent /\ owner[target[q]] \in {"ours", "none"}
        <3>1. CASE Inspect(q)
            BY <2>3, <3>1 DEF Inspect, Inspected, InspectNetwork, InspectVolume,
                              NetworkInv
        <3>2. CASE ~Inspect(q)
            <4>1. pc[q] = "inspected"
                BY <1>2, <2>3, <3>2
                DEF Request, Refuse, InspectFails, Count, CountFails, Remove,
                    RemoveFails, Answer, TypeOK
            <4> QED
                BY <2>3, <4>1 DEF NetworkInv
        <3> QED
            BY <3>1, <3>2
    <2>4. target[q] \in Resource
        BY DEF TypeOK
    <2>5. NetworkInv'
        BY <2>1, <2>2, <2>3, <2>4 DEF NetworkInv, TypeOK
    <2>6. CASE answer'[q] # 303 \/ answer[q] = 303
        <3>1. \A x \in Req : answer'[x] = 303 => answer[x] = 303
            BY <2>1, <2>6
        <3>2. \A x \in Req : target[x] \in Resource
            BY DEF TypeOK
        <3>3. ToldOnce'
            BY <2>1, <2>2, <3>1, <3>2 DEF ToldOnce
        <3> QED
            BY <2>5, <3>3
    <2>7. CASE answer'[q] = 303 /\ answer[q] # 303
        <3>1. Remove(q)
            BY <1>2, <2>7, WhoIsTold
        <3>2. owner[target[q]] # "none" /\ pc[q] = "checked"
              /\ owner' = [owner EXCEPT ![target[q]] = "none"]
            BY <3>1 DEF Remove, Obeys
        <3>3. \A x \in Req : answer[x] = 303 /\ target[x] \in Network
                                => target[x] # target[q]
            BY <3>2 DEF ToldOnce
        <3>4. target[q] \in Network => target[q] \in spent
            BY <3>2 DEF NetworkInv
        <3>5. owner'[target[q]] = "none"
            BY <3>2, <2>4 DEF TypeOK
        <3>6. \A x \in Req \ {q} : answer'[x] = 303 => answer[x] = 303
            BY <2>1
        <3>7. \A x \in Req : target[x] \in Resource
            BY DEF TypeOK
        <3>8. ToldOnce'
            BY <2>1, <2>2, <3>3, <3>4, <3>5, <3>6, <3>7 DEF ToldOnce
        <3> QED
            BY <2>5, <3>8
    <2> QED
        BY <2>5, <2>6, <2>7
<1>3. CASE \E p \in Page : Show(p)
    BY <1>3, PageFrame DEF host, requests, NetworkInv, ToldOnce
<1>4. CASE UNCHANGED vars
    BY <1>4 DEF vars, host, requests, NetworkInv, ToldOnce
<1> QED
    BY <1>1, <1>2, <1>3, <1>4 DEF Next

-----------------------------------------------------------------------------
(* What the pages know.                                                    *)

LEMMA PageStep ==
    ASSUME TypeOK, PageInv, [Next]_vars
    PROVE  PageInv'
<1>1. CASE Others
    BY <1>1, OthersFrame DEF PageInv
<1>2. ASSUME NEW q \in Req, Request(q)
      PROVE  PageInv'
    <2>1. CASE fresh' = {}
        BY <2>1 DEF PageInv
    <2>2. CASE UNCHANGED <<owner, fresh>>
        <3>1. /\ UNCHANGED <<status, uses, page, listed, busy, used>>
              /\ \A p \in Page : p \in counted' <=> p \in counted
            BY <1>2, RequestFrame, ActorAssumption
        <3>2. fresh \subseteq Page
            BY DEF TypeOK
        <3> QED
            BY <2>2, <3>1, <3>2 DEF PageInv, Members, Refers, OurUsers
    <2> QED
        BY <1>2, <2>1, <2>2, RequestFrame
<1>3. ASSUME NEW p \in Page, Show(p)
      PROVE  PageInv'
    <2>1. UNCHANGED <<status, uses, owner>>
        BY <1>3, PageFrame DEF host
    <2>2. \A r : /\ Members(r)' = Members(r) /\ OurUsers(r)' = OurUsers(r)
                 /\ Counted(r) = OurUsers(r)
        BY <2>1, MineAssumption DEF Members, Refers, OurUsers, Counted
    <2>3. ASSUME NEW code \in {"404", "503"}, ErrorPage(p, code)
          PROVE  PageInv'
        BY <2>1, <2>2, <2>3 DEF ErrorPage, PageInv, TypeOK
    <2>4. ASSUME NEW as, NEW found \in SUBSET {r \in Resource : owner[r] = "ours"},
                 NEW members \in SUBSET {r \in Resource : Members(r) # {}},
                 Reads(p, as, found, members)
          PROVE  PageInv'
        BY <2>1, <2>2, <2>4 DEF Reads, PageInv, TypeOK
    <2>5. CASE PageCounts(p)
        <3>1. {r \in listed[p] : Counted(r) # {}} = {r \in listed[p] : OurUsers(r) # {}}
            BY <2>2
        <3>2. /\ used' = [used EXCEPT ![p] =
                            {r \in listed[p] : OurUsers(r) # {}} \cup busy[p]]
              /\ page' = [page EXCEPT ![p] = "shown"]
              /\ UNCHANGED <<listed, busy, fresh>>
              /\ counted' = counted \cup {p}
            BY <2>5, <3>1 DEF PageCounts, Draws
        <3> QED
            BY <2>1, <2>2, <3>2 DEF PageInv, TypeOK
    <2>6. CASE PageCountFails(p)
        <3>1. /\ page[p] = "listed" /\ page' = [page EXCEPT ![p] = "shown"]
              /\ used' = [used EXCEPT ![p] = busy[p]]
              /\ UNCHANGED <<listed, busy, fresh, counted>>
            BY <2>6 DEF PageCountFails, Draws
        <3>2. p \in fresh => p \notin counted
            BY <3>1 DEF PageInv
        <3> QED
            BY <2>1, <2>2, <3>1, <3>2 DEF PageInv, TypeOK
    <2> QED
        BY <1>3, <2>3, <2>4, <2>5, <2>6, PageReads
<1>4. CASE UNCHANGED vars
    BY <1>4 DEF vars, host, pages, PageInv, Members, Refers, OurUsers
<1> QED
    BY <1>1, <1>2, <1>3, <1>4 DEF Next

LEMMA RemovalInit == Init => RemovalInv
<1> SUFFICES ASSUME Init PROVE RemovalInv
    OBVIOUS
<1>1. TypeOK
    BY MovesAssumption DEF Init, TypeOK
<1>2. HeldInv /\ CheckSees
    BY DEF Init, HeldInv, CheckSees
<1>3. NetworkInv
    BY DEF Init, NetworkInv
<1>4. ToldOnce /\ PageInv
    BY DEF Init, ToldOnce, PageInv
<1> QED
    BY <1>1, <1>2, <1>3, <1>4 DEF RemovalInv

\* SAFETY: the inductive invariant of removals.
THEOREM RemovalSafe == Spec => []RemovalInv
<1>1. RemovalInv /\ [Next]_vars => RemovalInv'
    BY TypeStep, CheckStep, NetworkStep, PageStep DEF RemovalInv
<1> QED
    BY RemovalInit, <1>1, PTL DEF Spec

\* SAFETY: a request whose count succeeded goes on to the removal only if the
\* resource was unused by the project at some moment since its inspection.
THEOREM RemovalCheckSees == Spec => []CheckSees
<1>1. RemovalInv => CheckSees
    BY DEF RemovalInv
<1> QED
    BY RemovalSafe, <1>1, PTL

\* SAFETY: a network whose removal was reported as done stays gone, and only one
\* request is told so (handler.go of networks:125-141).
THEOREM RemovalToldOnce == Spec => []ToldOnce
<1>1. RemovalInv => ToldOnce
    BY DEF RemovalInv
<1> QED
    BY RemovalSafe, <1>1, PTL

\* SAFETY: as long as nothing happened since it was asked for, a page that
\* counted offers exactly the removals that would succeed (list.templ of
\* networks:31-38).
THEOREM RemovalOffersHonoured == Spec => []OffersHonoured
<1>1. RemovalInv => OffersHonoured
    <2> SUFFICES ASSUME TypeOK, PageInv, NEW p \in fresh \cap counted,
                        page[p] = "shown", NEW r \in listed[p],
                        Refers(r) \subseteq Mine, view[p] # "confirm"
                 PROVE  (r \in Offered(p)) = Succeeds(r)
        BY DEF RemovalInv, OffersHonoured
    <2>1. /\ owner[r] = "ours" /\ r \in Resource
          /\ used[p] = {x \in listed[p] : OurUsers(x) # {}} \cup busy[p]
          /\ r \in busy[p] => Members(r) # {}
        BY DEF PageInv, TypeOK
    <2>2. Refers(r) = OurUsers(r) /\ Members(r) \subseteq OurUsers(r)
        BY MineAssumption DEF Refers, OurUsers, Members
    <2>3. Succeeds(r) <=> control /\ OurUsers(r) = {}
        BY <2>1, <2>2 DEF Succeeds, Inspected, InspectNetwork, InspectVolume, Obeys
    <2>4. r \in Offered(p) <=> control /\ OurUsers(r) = {}
        BY <2>1, <2>2 DEF Offered
    <2> QED
        BY <2>3, <2>4 DEF Offered, Succeeds
<1> QED
    BY RemovalSafe, <1>1, PTL

\* What a step that is nobody else's deletes was the target of a request that
\* passed its check, and the runtime agreed.
LEMMA WhoDeletes ==
    ASSUME TypeOK, Next, NEW r \in Resource, moves' = moves,
           owner[r] # "none", owner'[r] = "none"
    PROVE  \E q \in Req : pc[q] = "checked" /\ r = target[q] /\ Obeys(r)
<1>1. ~Others
    BY DEF Others, TypeOK
<1>2. ~\E p \in Page : Show(p)
    BY PageFrame DEF host
<1>3. PICK q \in Req : Request(q)
    BY <1>1, <1>2 DEF Next
<1>4. Remove(q) \/ RemoveFails(q)
    BY <1>3 DEF Request, Refuse, Inspect, InspectFails, Count, CountFails, Decide,
                host
<1>5. owner' = [owner EXCEPT ![target[q]] = "none"] /\ Obeys(target[q])
    BY <1>4 DEF Remove, RemoveFails
<1>6. r = target[q] /\ pc[q] = "checked"
    BY <1>4, <1>5 DEF Remove, RemoveFails, TypeOK
<1> QED
    BY <1>5, <1>6

\* SAFETY: the data of a volume some container refers to is never deleted by
\* this program, whatever was created after its check (volumes.go:108-113).
THEOREM RemovalDataKept == Spec => DataKept
<1> DEFINE Kept == \A q \in Req, v \in Volume :
                Deletes(q, v) /\ moves' = moves => Refers(v) = {}
<1>1. RemovalInv /\ [Next]_vars => [Kept]_vars
    <2> SUFFICES ASSUME TypeOK, Next, NEW v \in Volume, moves' = moves,
                        owner[v] # "none", owner'[v] = "none"
                 PROVE  Refers(v) = {}
        BY DEF RemovalInv, Deletes
    <2>1. Obeys(v)
        BY WhoDeletes
    <2> QED
        BY <2>1 DEF Obeys
<1> QED
    BY RemovalSafe, <1>1, PTL DEF Spec, DataKept

\* SAFETY: a network this program deletes carries the project's label at that
\* moment (network_service.go:85-87).
THEOREM RemovalOnlyOurNetworks == Spec => OnlyOurNetworks
<1> DEFINE Ours == \A q \in Req, n \in Network :
                Deletes(q, n) /\ moves' = moves => owner[n] = "ours"
<1>1. RemovalInv /\ [Next]_vars => [Ours]_vars
    <2> SUFFICES ASSUME TypeOK, NetworkInv, Next, NEW n \in Network,
                        moves' = moves, owner[n] # "none", owner'[n] = "none"
                 PROVE  owner[n] = "ours"
        BY DEF RemovalInv, Deletes
    <2>1. PICK q \in Req : pc[q] = "checked" /\ n = target[q]
        BY WhoDeletes
    <2> QED
        BY <2>1 DEF NetworkInv
<1> QED
    BY RemovalSafe, <1>1, PTL DEF Spec, OnlyOurNetworks
=============================================================================
