----------------------------- MODULE PagesProofs -----------------------------
(***************************************************************************)
(* The log panel never gets stuck, for any number of overlapping fetches   *)
(* and whatever becomes of each of them; the table of services stays the   *)
(* page a reload would draw; what row and page say of a container depends  *)
(* on the container alone, agrees, and leaves nothing out; and the log it  *)
(* shows is what the container wrote, nothing else and nothing less.       *)
(***************************************************************************)
EXTENDS Pages, TableProofs

\* The fields that the steps below set and read.
PanelShape ==
    panel = [open |-> panel.open, loaded |-> panel.loaded,
             body |-> panel.body, logs |-> panel.logs]

FetchesShape ==
    /\ fetches = [f \in Fetch |-> fetches[f]]
    /\ \A f \in Fetch :
         fetches[f] = [tail |-> fetches[f].tail, stage |-> fetches[f].stage,
                       logs |-> fetches[f].logs]

PanelInv == PanelShape /\ FetchesShape /\ PanelCanBeRetried

\* A step that leaves the panel and its fetches alone keeps the invariant.
LEMMA PanelInvUnchanged ==
    ASSUME PanelInv, UNCHANGED <<panel, fetches>>
    PROVE  PanelInv'
BY DEF PanelInv, PanelShape, FetchesShape, PanelCanBeRetried

\* With a fetch on its way nothing is asked of the flag.
LEMMA FetchOnItsWay ==
    ASSUME NEW f \in Fetch, fetches'[f].stage # "idle"
    PROVE  PanelCanBeRetried'
BY DEF PanelCanBeRetried

LEMMA LoadLogKeepsShape ==
    ASSUME FetchesShape, NEW f \in Fetch, NEW tail, loadLog(f, tail)
    PROVE  FetchesShape' /\ fetches'[f].stage = "sent"
BY DEF FetchesShape, loadLog

LEMMA PanelInit == Init => PanelInv
BY DEF Init, DetailInit, Idle, PanelInv, PanelShape, FetchesShape, PanelCanBeRetried

LEMMA PanelStep == PanelInv /\ [Next]_vars => PanelInv'
<1> SUFFICES ASSUME PanelInv, [Next]_vars
             PROVE  PanelInv'
    OBVIOUS
<1>1. CASE UNCHANGED vars
    BY <1>1, PanelInvUnchanged DEF vars, detailVars
<1>2. CASE RuntimeNext
    BY <1>2, PanelInvUnchanged DEF RuntimeNext, detailVars
<1>3. CASE UNCHANGED detailVars
    BY <1>3, PanelInvUnchanged DEF detailVars
<1>4. CASE Write
    BY <1>4, PanelInvUnchanged DEF Write
<1>5. CASE Toggle
    <2>1. CASE ~panel.open /\ ~panel.loaded
        <3>1. PICK f \in Fetch : loadLog(f, 0)
            BY <1>5, <2>1 DEF Toggle
        <3>2. FetchesShape' /\ fetches'[f].stage = "sent"
            BY <3>1, LoadLogKeepsShape DEF PanelInv
        <3>3. PanelShape'
            BY <1>5, <2>1 DEF Toggle, PanelInv, PanelShape
        <3>. QED
            BY <3>2, <3>3, FetchOnItsWay DEF PanelInv
    <2>2. CASE ~(~panel.open /\ ~panel.loaded)
        BY <1>5, <2>2 DEF Toggle, PanelInv, PanelShape, FetchesShape, PanelCanBeRetried
    <2>. QED
        BY <2>1, <2>2
<1>6. CASE PressSize
    <2>1. PICK f \in Fetch, tail \in Size \cup {panel.logs.Tail} : loadLog(f, tail)
        BY <1>6 DEF PressSize
    <2>2. FetchesShape' /\ fetches'[f].stage = "sent"
        BY <2>1, LoadLogKeepsShape DEF PanelInv
    <2>3. PanelShape'
        BY <1>6 DEF PressSize, PanelInv, PanelShape
    <2>. QED
        BY <2>2, <2>3, FetchOnItsWay DEF PanelInv
<1>7. ASSUME NEW f \in Fetch, InspectForLog(f)
      PROVE  PanelInv'
    <2>1. PICK tail : tail = ClampLogTail(fetches[f].tail)
        OBVIOUS
    <2>2. fetches' = [fetches EXCEPT ![f] = [tail |-> tail, stage |-> "inspected",
                                             logs |-> NoLogs]]
        BY <1>7, <2>1 DEF InspectForLog
    <2>3. FetchesShape' /\ fetches'[f].stage = "inspected"
        BY <2>2 DEF PanelInv, FetchesShape
    <2>4. PanelShape'
        BY <1>7 DEF InspectForLog, PanelInv, PanelShape
    <2>. QED
        BY <2>3, <2>4, FetchOnItsWay DEF PanelInv
<1>8. ASSUME NEW f \in Fetch, ReadLog(f)
      PROVE  PanelInv'
    <2>1. PICK logs \in Readings :
            fetches' = [fetches EXCEPT ![f] = [tail |-> logs.Tail,
                                               stage |-> "answered", logs |-> logs]]
        BY <1>8 DEF ReadLog
    <2>2. FetchesShape' /\ fetches'[f].stage = "answered"
        BY <2>1 DEF PanelInv, FetchesShape
    <2>3. PanelShape'
        BY <1>8 DEF ReadLog, PanelInv, PanelShape
    <2>. QED
        BY <2>2, <2>3, FetchOnItsWay DEF PanelInv
<1>9. ASSUME NEW f \in Fetch, FillPanel(f)
      PROVE  PanelInv'
    BY <1>9 DEF FillPanel, Idle, PanelInv, PanelShape, FetchesShape, PanelCanBeRetried
<1>10. ASSUME NEW f \in Fetch, FailFetch(f)
       PROVE  PanelInv'
    BY <1>10 DEF FailFetch, Failed, Idle, PanelInv, PanelShape, FetchesShape,
                 PanelCanBeRetried
<1>. QED
    BY <1>1, <1>2, <1>3, <1>4, <1>5, <1>6, <1>7, <1>8, <1>9, <1>10
       DEF Next, DetailNext

(* However many requests for the log overlap, fail or answer late, a panel *)
(* without the log fetches it when it is opened again (app.js, loadLog).   *)
THEOREM PanelNeverStuck == Spec => []PanelCanBeRetried
<1>1. PanelInv => PanelCanBeRetried
    BY DEF PanelInv
<1>. QED
    BY PanelInit, PanelStep, <1>1, PTL DEF Spec
-----------------------------------------------------------------------------
\* A step of the browser is one of the table, or leaves it alone.
LEMMA TableInNext == [Next]_vars => TableNext \/ UNCHANGED tableVars
BY DEF Next, vars, RuntimeNext

(* At every moment the table is the page that a handler would have drawn    *)
(* for some states of the containers, and on an open stream the frames on   *)
(* their way lead from those states to what the last refresh saw            *)
(* (realtime/handler.go and app.js against the handlers of both listings).  *)
THEOREM TableSafe == Spec => []TableInv
<1>1. Init => TableInv
    BY TableInitInv DEF Init
<1>2. TableInv /\ [Next]_vars => TableInv'
    BY TableInNext, TableStep
<1>. QED
    BY <1>1, <1>2, PTL DEF Spec

(* Through every patch the rows are in the order SortServices gives their   *)
(* containers, each once (keys.go:14-16, app.js insert).                    *)
THEOREM TableInServerOrder == Spec => []InServerOrder
BY TableSafe, TableInOrder, PTL

(* Rows, totals, message and order of a page that applied every frame of    *)
(* its open stream are those of a page loaded now (row.templ:8-11).         *)
THEOREM TableIsAsReloaded == Spec => []AsReloaded
BY TableSafe, TableAsReloaded, PTL

(* Such a page offers exactly what Stop, Start and Remove accept, and       *)
(* nothing where the deployment may not act (monitor_service.go,            *)
(* CanControl).                                                             *)
THEOREM TableOffersAccepted == Spec => []OffersAccepted
BY TableSafe, TableOffers, PTL

-----------------------------------------------------------------------------
\* Whatever the runtime answers about a container that nothing happened to, the
\* adapter makes the same of it.

\* A sequence as long as S that repeats no element has them all.
LEMMA EnumeratesInjection ==
    ASSUME NEW S, IsFiniteSet(S), NEW s \in [1 .. Cardinality(S) -> S],
           \A i, j \in 1 .. Cardinality(S) : s[i] = s[j] => i = j
    PROVE  Enumerates(s, S)
<1> DEFINE D == 1 .. Cardinality(S)
<1>1. Cardinality(S) \in Nat
    BY FS_CardinalityType
<1>2. IsFiniteSet(D) /\ Cardinality(D) = Cardinality(S)
    BY <1>1, FS_Interval
<1>3. s \in Injection(D, S)
    BY DEF Injection, IsInjective
<1> HIDE DEF D
<1>4. s \in Surjection(D, S)
    BY <1>2, <1>3, FS_Injection
<1>5. s \in Seq(S) /\ DOMAIN s = D
    BY <1>1, FunctionIsSequence DEF D
<1> QED BY <1>4, <1>5 DEF Enumerates, Surjection, D

\* A finite set is enumerated by some sequence.
LEMMA SetToSeqEnumerates ==
    ASSUME NEW S, IsFiniteSet(S)
    PROVE  Enumerates(SetToSeq(S), S) /\ DOMAIN SetToSeq(S) = 1 .. Cardinality(S)
<1> DEFINE D == 1 .. Cardinality(S)
           Fits(f) == \A i, j \in DOMAIN f : f[i] = f[j] => i = j
<1>1. \E f \in [D -> S] : Fits(f)
    <2>1. PICK n \in Nat : ExistsBijection(1 .. n, S)
        BY FS_NatBijection
    <2>2. n = Cardinality(S)
        BY <2>1, FS_CountingElements
    <2>3. PICK f : f \in Bijection(D, S)
        BY <2>1, <2>2 DEF ExistsBijection
    <2> QED BY <2>3 DEF Bijection, Injection, IsInjective
<1>2. SetToSeq(S) = CHOOSE f \in [D -> S] : Fits(f)
    BY DEF SetToSeq, IsInjective
<1> HIDE DEF Fits
<1>3. SetToSeq(S) \in [D -> S] /\ Fits(SetToSeq(S))
    BY <1>1, <1>2
<1> QED BY <1>3, EnumeratesInjection DEF Fits

\* And its reverse does, which is all MapOrders has.
LEMMA MapOrdersEnumerate ==
    ASSUME NEW S, IsFiniteSet(S), NEW order \in MapOrders(S)
    PROVE  Enumerates(order, S)
<1> DEFINE s == SetToSeq(S)
           n == Cardinality(S)
<1>1. Enumerates(s, S) /\ DOMAIN s = 1 .. n /\ n \in Nat
    BY SetToSeqEnumerates, FS_CardinalityType
<1>2. order = s \/ order = Reverse(s)
    BY DEF MapOrders
<1>3. CASE order = Reverse(s)
    <2>1. s \in Seq(S) /\ Len(s) = n
        BY <1>1, SequencePositions DEF Enumerates
    <2>2. order = [i \in 1 .. n |-> s[(n - i) + 1]]
        BY <1>3, <2>1 DEF Reverse
    <2>3. \A i \in 1 .. n : (n - i) + 1 \in DOMAIN s
        BY <1>1
    <2> HIDE DEF s, n
    <2>4. order \in [1 .. n -> S]
        BY <1>1, <2>1, <2>2, <2>3, SequencePositions
    <2>5. \A i, j \in 1 .. n : order[i] = order[j] => i = j
        <3> TAKE i, j \in 1 .. n
        <3>1. s[(n - i) + 1] = s[(n - j) + 1] => (n - i) + 1 = (n - j) + 1
            BY <1>1, <2>3 DEF Enumerates
        <3> QED BY <1>1, <2>2, <3>1
    <2> QED BY <2>4, <2>5, EnumeratesInjection DEF n
<1> QED BY <1>1, <1>2, <1>3

\* One enumeration after the other, of sets that share nothing.
LEMMA EnumeratesConcat ==
    ASSUME NEW S, NEW T, S \cap T = {}, NEW a, Enumerates(a, S), NEW b, Enumerates(b, T)
    PROVE  Enumerates(a \o b, S \cup T)
<1>1. /\ a \in Seq(S \cup T) /\ b \in Seq(S \cup T)
      /\ Len(a) \in Nat /\ DOMAIN a = 1 .. Len(a) /\ \A i \in DOMAIN a : a[i] \in S
      /\ Len(b) \in Nat /\ DOMAIN b = 1 .. Len(b) /\ \A i \in DOMAIN b : b[i] \in T
    BY SequencePositions, SeqMonotonic DEF Enumerates
<1>2. /\ a \o b \in Seq(S \cup T) /\ Len(a \o b) = Len(a) + Len(b)
      /\ \A i \in 1 .. Len(a) + Len(b) :
           (a \o b)[i] = IF i <= Len(a) THEN a[i] ELSE b[i - Len(a)]
    BY <1>1, ConcatProperties
<1>3. DOMAIN (a \o b) = 1 .. Len(a) + Len(b)
    BY <1>2, SequencePositions
<1>4. ASSUME NEW i \in DOMAIN (a \o b), NEW j \in DOMAIN (a \o b), (a \o b)[i] = (a \o b)[j]
      PROVE  i = j
    <2>1. CASE i <= Len(a) /\ j <= Len(a)
        BY <2>1, <1>1, <1>2, <1>3, <1>4 DEF Enumerates
    <2>2. CASE ~(i <= Len(a)) /\ ~(j <= Len(a))
        <3>1. /\ i - Len(a) \in DOMAIN b /\ j - Len(a) \in DOMAIN b
              /\ b[i - Len(a)] = b[j - Len(a)]
            BY <2>2, <1>1, <1>2, <1>3, <1>4
        <3>2. i - Len(a) = j - Len(a)
            BY <3>1 DEF Enumerates
        <3> QED BY <3>2, <1>1, <1>3
    <2>3. ASSUME NEW k \in DOMAIN (a \o b), NEW l \in DOMAIN (a \o b),
                 k <= Len(a), ~(l <= Len(a))
          PROVE  (a \o b)[k] # (a \o b)[l]
        <3>1. (a \o b)[k] \in S
            BY <2>3, <1>1, <1>2, <1>3
        <3>2. (a \o b)[l] \in T
            <4>1. l - Len(a) \in DOMAIN b /\ (a \o b)[l] = b[l - Len(a)]
                BY <2>3, <1>1, <1>2, <1>3
            <4> QED BY <4>1, <1>1
        <3> QED BY <3>1, <3>2
    <2> QED BY <2>1, <2>2, <2>3, <1>4
<1>5. ASSUME NEW x \in S
      PROVE  \E i \in DOMAIN (a \o b) : (a \o b)[i] = x
    <2>1. PICK i \in DOMAIN a : a[i] = x
        BY DEF Enumerates
    <2> QED BY <2>1, <1>1, <1>2, <1>3
<1>6. ASSUME NEW x \in T
      PROVE  \E i \in DOMAIN (a \o b) : (a \o b)[i] = x
    <2>1. PICK i \in DOMAIN b : b[i] = x
        BY DEF Enumerates
    <2>2. i + Len(a) \in DOMAIN (a \o b) /\ (a \o b)[i + Len(a)] = x
        BY <2>1, <1>1, <1>2, <1>3
    <2> QED BY <2>2
<1> QED BY <1>2, <1>4, <1>5, <1>6 DEF Enumerates

\* The values of a function on a finite set are finitely many.
LEMMA FiniteImage ==
    ASSUME NEW S, IsFiniteSet(S), NEW f, DOMAIN f = S, f = [x \in S |-> f[x]]
    PROVE  IsFiniteSet({f[x] : x \in S})
<1>1. f \in Surjection(S, {f[x] : x \in S})
    BY DEF Surjection
<1> QED BY <1>1, FS_Surjection

\* What ReportedPorts lists: an entry for each port and host address.
PortOf(p, public) == [public |-> public, private |-> p[1], type |-> p[2]]

EntriesOf(d, active, p) ==
    IF active[p] = <<>> THEN {<<4, PortOf(p, 0)>>}
    ELSE {<<v, PortOf(p, h)>> : v \in d.families, h \in ToSet(active[p])}

EntrySet(d, active) == UNION {EntriesOf(d, active, p) : p \in DOMAIN active}

LEMMA ReportedPortsDef ==
    ASSUME NEW d, NEW c
    PROVE  ReportedPorts(d, c)
             = {[i \in DOMAIN s |-> s[i][2]] : s \in SetToSeqs(EntrySet(d, ActivePorts(d, c)))}
BY DEF ReportedPorts, EntrySet, EntriesOf, PortOf

\* The active ports are a port map, and none of them lacks a number.
LEMMA ActiveIsPortMap ==
    ASSUME NEW d \in Description, NEW c
    PROVE  /\ IsPortMap(ActivePorts(d, c)) /\ IsFiniteSet(DOMAIN ActivePorts(d, c))
           /\ \A p \in DOMAIN ActivePorts(d, c) : ActivePorts(d, c)[p] \in Seq(Nat)
<1> DEFINE active == ActivePorts(d, c)
           Numbers(p) == [i \in DOMAIN d.bindings[p] |->
                             IF d.bindings[p][i] = None THEN Ephemeral ELSE d.bindings[p][i]]
<1>1. /\ IsFiniteSet(d.exposed) /\ d.exposed \in SUBSET (Nat \X DOMAIN ProtocolRank)
      /\ IsFiniteSet(DOMAIN d.bindings)
      /\ DOMAIN d.bindings \in SUBSET (Nat \X DOMAIN ProtocolRank)
      /\ \A p \in DOMAIN d.bindings : d.bindings[p] \in Seq(Nat \cup {None})
    BY PortAssumption
<1>2. ASSUME NEW p \in DOMAIN d.bindings
      PROVE  Numbers(p) \in Seq(Nat)
    <2> DEFINE b == d.bindings[p]
    <2>1. b \in Seq(Nat \cup {None})
        BY <1>1
    <2> HIDE DEF b
    <2>2. Len(b) \in Nat /\ DOMAIN b = 1 .. Len(b) /\ \A i \in DOMAIN b : b[i] \in Nat \cup {None}
        BY <2>1, SequencePositions
    <2>3. [i \in DOMAIN b |-> IF b[i] = None THEN Ephemeral ELSE b[i]] \in [1 .. Len(b) -> Nat]
        BY <2>2, NoneAssumption
    <2>4. [i \in DOMAIN b |-> IF b[i] = None THEN Ephemeral ELSE b[i]] \in Seq(Nat)
        BY <2>2, <2>3, FunctionIsSequence
    <2> QED BY <2>4 DEF b
<1>3. active = IF c.state = "exited" THEN <<>>
               ELSE [p \in d.exposed \cup DOMAIN d.bindings |->
                       IF p \in DOMAIN d.bindings THEN Numbers(p) ELSE <<>>]
    BY DEF ActivePorts
<1> HIDE DEF active, Numbers
<1>4. DOMAIN active \in SUBSET (d.exposed \cup DOMAIN d.bindings)
    <2>1. DOMAIN << >> = {}
        OBVIOUS
    <2> QED BY <1>3, <2>1
<1>5. \A p \in DOMAIN active : active[p] \in Seq(Nat)
    <2>1. c.state = "exited" => DOMAIN active = {}
        BY <1>3
    <2> SUFFICES ASSUME NEW p \in DOMAIN active, c.state # "exited"
                 PROVE  active[p] \in Seq(Nat)
        BY <2>1
    <2>2. active[p] = IF p \in DOMAIN d.bindings THEN Numbers(p) ELSE <<>>
        BY <1>3
    <2>3. << >> \in Seq(Nat)
        OBVIOUS
    <2> QED BY <1>2, <2>2, <2>3
<1>6. IsFiniteSet(DOMAIN active)
    <2>1. IsFiniteSet(d.exposed \cup DOMAIN d.bindings)
        BY <1>1, FS_Union
    <2> QED BY <2>1, <1>4, FS_Subset
<1>7. IsPortMap(active)
    <2>1. \A p \in DOMAIN active : active[p] \in Seq(Nat \cup {None})
        BY <1>5, SeqMonotonic
    <2> QED BY <2>1, <1>1, <1>4 DEF IsPortMap
<1> QED BY <1>5, <1>6, <1>7 DEF active

\* The ports in the entries are those of the map, each once per address family.
LEMMA EntriesHavePorts ==
    ASSUME NEW d \in Description, NEW c
    PROVE  /\ IsFiniteSet(EntrySet(d, ActivePorts(d, c)))
           /\ {e[2] : e \in EntrySet(d, ActivePorts(d, c))} = PortsIn(ActivePorts(d, c))
           /\ \A e \in EntrySet(d, ActivePorts(d, c)) : e[2] \in RuntimePort
<1> DEFINE active == ActivePorts(d, c)
           Public(b) == IF b = None THEN 0 ELSE b
<1>1. /\ IsPortMap(active) /\ IsFiniteSet(DOMAIN active)
      /\ \A p \in DOMAIN active : active[p] \in Seq(Nat)
    BY ActiveIsPortMap
<1> HIDE DEF active
<1>2. IsFiniteSet(d.families) /\ d.families # {}
    BY PortAssumption
<1>3. ASSUME NEW p \in DOMAIN active
      PROVE  /\ IsFiniteSet(EntriesOf(d, active, p))
             /\ {e[2] : e \in EntriesOf(d, active, p)} = ToSet(portsFromBinding(p, active[p]))
    <2>1. CASE active[p] = <<>>
        <3>1. EntriesOf(d, active, p) = {<<4, PortOf(p, 0)>>}
            BY <2>1 DEF EntriesOf
        <3>2. portsFromBinding(p, active[p]) = <<PortOf(p, 0)>>
            BY <2>1 DEF portsFromBinding, PortOf
        <3>3. ToSet(<<PortOf(p, 0)>>) = {PortOf(p, 0)}
            BY DEF ToSet
        <3>4. IsFiniteSet({<<4, PortOf(p, 0)>>})
            BY FS_Singleton
        <3> QED BY <3>1, <3>2, <3>3, <3>4
    <2>2. CASE active[p] # <<>>
        <3> DEFINE h == active[p]
        <3>1. /\ h \in Seq(Nat) /\ IsFiniteSet(DOMAIN h) /\ h = [i \in DOMAIN h |-> h[i]]
              /\ \A i \in DOMAIN h : h[i] \in Nat /\ h[i] # None
            BY <1>1, SequencePositions, NoneAssumption
        <3>2. EntriesOf(d, active, p) = {<<v, PortOf(p, n)>> : v \in d.families, n \in ToSet(h)}
            BY <2>2 DEF EntriesOf
        <3>3. portsFromBinding(p, h) = [i \in DOMAIN h |-> PortOf(p, Public(h[i]))]
            BY <2>2 DEF portsFromBinding, PortOf
        <3> HIDE DEF h
        <3>4. \A i \in DOMAIN h : PortOf(p, Public(h[i])) = PortOf(p, h[i])
            BY <3>1
        <3>5. ToSet(portsFromBinding(p, h)) = {PortOf(p, n) : n \in ToSet(h)}
            BY <3>3, <3>4 DEF ToSet
        <3>6. {e[2] : e \in EntriesOf(d, active, p)} = {PortOf(p, n) : n \in ToSet(h)}
            <4>1. \A e \in EntriesOf(d, active, p) : \E n \in ToSet(h) : e[2] = PortOf(p, n)
                BY <3>2
            <4>2. ASSUME NEW n \in ToSet(h)
                  PROVE  \E e \in EntriesOf(d, active, p) : e[2] = PortOf(p, n)
                <5>1. PICK v \in d.families : TRUE
                    BY <1>2
                <5>2. <<v, PortOf(p, n)>> \in EntriesOf(d, active, p)
                    BY <3>2
                <5> QED BY <5>2
            <4> QED BY <4>1, <4>2
        <3>7. IsFiniteSet(EntriesOf(d, active, p))
            <4> DEFINE entry == [x \in d.families \X ToSet(h) |-> <<x[1], PortOf(p, x[2])>>]
            <4>1. ToSet(h) = {h[i] : i \in DOMAIN h}
                BY DEF ToSet
            <4>2. IsFiniteSet(ToSet(h))
                BY <3>1, <4>1, FiniteImage
            <4>3. IsFiniteSet(d.families \X ToSet(h))
                BY <1>2, <4>2, FS_Product
            <4>4. IsFiniteSet({entry[x] : x \in d.families \X ToSet(h)})
                <5>1. DOMAIN entry = d.families \X ToSet(h) /\ entry = [x \in DOMAIN entry |-> entry[x]]
                    OBVIOUS
                <5> HIDE DEF entry
                <5> QED BY <4>3, <5>1, FiniteImage
            <4>5. EntriesOf(d, active, p) \in SUBSET {entry[x] : x \in d.families \X ToSet(h)}
                <5> SUFFICES ASSUME NEW e \in EntriesOf(d, active, p)
                             PROVE  e \in {entry[x] : x \in d.families \X ToSet(h)}
                    OBVIOUS
                <5>1. PICK v \in d.families, n \in ToSet(h) : e = <<v, PortOf(p, n)>>
                    BY <3>2
                <5>2. <<v, n>> \in d.families \X ToSet(h) /\ entry[<<v, n>>] = e
                    BY <5>1
                <5> HIDE DEF entry
                <5> QED BY <5>2
            <4> QED BY <4>4, <4>5, FS_Subset
        <3> QED BY <3>5, <3>6, <3>7 DEF h
    <2> QED BY <2>1, <2>2
<1>4. IsFiniteSet(EntrySet(d, active))
    <2> DEFINE of == [p \in DOMAIN active |-> EntriesOf(d, active, p)]
    <2>1. IsFiniteSet({of[p] : p \in DOMAIN active})
        <3>1. DOMAIN of = DOMAIN active /\ of = [p \in DOMAIN of |-> of[p]]
            OBVIOUS
        <3> HIDE DEF of
        <3> QED BY <1>1, <3>1, FiniteImage
    <2>2. {of[p] : p \in DOMAIN active} = {EntriesOf(d, active, p) : p \in DOMAIN active}
        OBVIOUS
    <2>3. \A T \in {EntriesOf(d, active, p) : p \in DOMAIN active} : IsFiniteSet(T)
        BY <1>3
    <2> HIDE DEF of
    <2> QED BY <2>1, <2>2, <2>3, FS_UNION DEF EntrySet
<1>5. {e[2] : e \in EntrySet(d, active)} = PortsIn(active)
    <2>1. ASSUME NEW e \in EntrySet(d, active)
          PROVE  e[2] \in PortsIn(active)
        <3>1. PICK p \in DOMAIN active : e \in EntriesOf(d, active, p)
            BY DEF EntrySet
        <3>2. e[2] \in ToSet(portsFromBinding(p, active[p]))
            BY <1>3, <3>1
        <3> QED BY <3>2 DEF PortsIn
    <2>2. ASSUME NEW q \in PortsIn(active)
          PROVE  \E e \in EntrySet(d, active) : e[2] = q
        <3>1. PICK p \in DOMAIN active : q \in ToSet(portsFromBinding(p, active[p]))
            BY DEF PortsIn
        <3>2. PICK e \in EntriesOf(d, active, p) : e[2] = q
            BY <1>3, <3>1
        <3> QED BY <3>2 DEF EntrySet
    <2> QED BY <2>1, <2>2
<1>6. PortsIn(active) \in SUBSET RuntimePort
    <2>1. ASSUME NEW p \in DOMAIN active
          PROVE  ToSet(portsFromBinding(p, active[p])) \in SUBSET RuntimePort
        <3>1. portsFromBinding(p, active[p]) \in Seq(RuntimePort)
            BY <1>1, BindingPorts DEF IsPortMap
        <3> QED BY <3>1, SequencePositions DEF ToSet
    <2> QED BY <2>1 DEF PortsIn
<1> QED BY <1>4, <1>5, <1>6 DEF active

(* However the runtime lists its addresses, a row shows the ports of the    *)
(* container's port map (toPorts).                                          *)
LEMMA ReportedPortsAre ==
    ASSUME NEW d \in Description, NEW c, NEW ports \in ReportedPorts(d, c)
    PROVE  ports \in Seq(RuntimePort) /\ ToSet(ports) = PortsIn(ActivePorts(d, c))
<1> DEFINE E == EntrySet(d, ActivePorts(d, c))
           n == Cardinality(E)
<1>1. /\ IsFiniteSet(E) /\ {e[2] : e \in E} = PortsIn(ActivePorts(d, c))
      /\ \A e \in E : e[2] \in RuntimePort
    BY EntriesHavePorts
<1>2. PICK s \in SetToSeqs(E) : ports = [i \in DOMAIN s |-> s[i][2]]
    BY ReportedPortsDef
<1> HIDE DEF E
<1>3. s \in [1 .. n -> E] /\ \A i, j \in 1 .. n : i # j => s[i] # s[j]
    BY DEF SetToSeqs
<1>4. Enumerates(s, E)
    BY <1>1, <1>3, EnumeratesInjection
<1>5. n \in Nat /\ DOMAIN s = 1 .. n
    BY <1>1, <1>3, FS_CardinalityType
<1>6. ports \in Seq(RuntimePort) /\ DOMAIN ports = DOMAIN s
    <2>1. ports \in [1 .. n -> RuntimePort]
        BY <1>1, <1>2, <1>3, <1>5
    <2> QED BY <1>2, <1>5, <2>1, FunctionIsSequence
<1>7. ToSet(ports) = {e[2] : e \in E}
    <2>1. \A i \in DOMAIN ports : ports[i] = s[i][2] /\ s[i] \in E
        BY <1>2, <1>3, <1>5, <1>6
    <2>2. \A e \in E : \E i \in DOMAIN ports : s[i] = e
        BY <1>4, <1>6 DEF Enumerates
    <2> QED BY <2>1, <2>2 DEF ToSet
<1> QED BY <1>1, <1>6, <1>7

\* The enumerations of a port map give the same list of ports.
LEMMA PortsOfMapSame ==
    ASSUME NEW map, IsPortMap(map), NEW order, Enumerates(order, DOMAIN map),
           NEW other, Enumerates(other, DOMAIN map)
    PROVE  toPortsFromBindings(map, order) = toPortsFromBindings(map, other)
<1>1. PICK a \in Seq(RuntimePort) :
        ToSet(a) = PortsIn(map) /\ toPortsFromBindings(map, order) = toPorts(a)
    BY PortsOfMap
<1>2. PICK b \in Seq(RuntimePort) :
        ToSet(b) = PortsIn(map) /\ toPortsFromBindings(map, other) = toPorts(b)
    BY PortsOfMap
<1> QED BY <1>1, <1>2, PortsSame

\* What configuredPorts gathers from both places.
ConfiguredMap(d) ==
    [port \in d.exposed \cup DOMAIN d.bindings |->
        IF port \in DOMAIN d.bindings THEN d.bindings[port] ELSE <<>>]

LEMMA ConfiguredIsPortMap ==
    ASSUME NEW d \in Description
    PROVE  IsPortMap(ConfiguredMap(d))
<1>1. /\ d.exposed \in SUBSET (Nat \X DOMAIN ProtocolRank)
      /\ DOMAIN d.bindings \in SUBSET (Nat \X DOMAIN ProtocolRank)
      /\ \A p \in DOMAIN d.bindings : d.bindings[p] \in Seq(Nat \cup {None})
    BY PortAssumption
<1>2. << >> \in Seq(Nat \cup {None})
    OBVIOUS
<1> QED BY <1>1, <1>2 DEF IsPortMap, ConfiguredMap

\* What a line of the list becomes.
LEMMA SummaryOrders ==
    ASSUME NEW d \in Description, NEW c, NEW s \in Summaries(d, c)
    PROVE  \E o, p : /\ Enumerates(o, DOMAIN d.labels) /\ p \in ReportedPorts(d, c)
                     /\ s = Summary(d, c, o, p)
<1>1. PICK o \in MapOrders(DOMAIN d.labels), p \in ReportedPorts(d, c) : s = Summary(d, c, o, p)
    BY DEF Summaries
<1>2. Enumerates(o, DOMAIN d.labels)
    BY LabelAssumption, MapOrdersEnumerate
<1> QED BY <1>1, <1>2

LEMMA ServiceOf ==
    ASSUME NEW d, NEW c, NEW o, NEW p
    PROVE  LET name == LabelOf(d.labels, labelService)
           IN toService(Summary(d, c, o, p))
                = [ContainerID |-> d.id,
                   Name |-> IF name = None THEN d.name ELSE name,
                   Number |-> containerNumber(LabelOf(d.labels, labelNumber)),
                   Title |-> LabelOf(d.labels, LabelImageTitle),
                   URL |-> serviceURL(d.labels, o),
                   State |-> toState(c.state),
                   Status |-> StatusLine(d, c),
                   StatusKind |-> statusKind(StatusLine(d, c)),
                   Elapsed |-> statusElapsed(StatusLine(d, c)),
                   Health |-> healthFromStatus(StatusLine(d, c)),
                   Ports |-> toPorts(p)]
BY DEF toService, Summary

(* Two lists that the runtime gives of a container in one condition become  *)
(* the same service (toService).                                            *)
LEMMA ServiceSame ==
    ASSUME NEW d \in Description, NEW c,
           NEW s \in Summaries(d, c), NEW t \in Summaries(d, c)
    PROVE  toService(s) = toService(t)
<1>1. PICK o, p : /\ Enumerates(o, DOMAIN d.labels) /\ p \in ReportedPorts(d, c)
                  /\ s = Summary(d, c, o, p)
    BY SummaryOrders
<1>2. PICK q, r : /\ Enumerates(q, DOMAIN d.labels) /\ r \in ReportedPorts(d, c)
                  /\ t = Summary(d, c, q, r)
    BY SummaryOrders
<1>3. serviceURL(d.labels, o) = serviceURL(d.labels, q)
    BY <1>1, <1>2, LinkSame, LabelAssumption
<1>4. toPorts(p) = toPorts(r)
    BY <1>1, <1>2, ReportedPortsAre, PortsSame
<1> QED BY <1>1, <1>2, <1>3, <1>4, ServiceOf

\* Each order gives every key of its map, once.
Orders(d, c, o, n, p, k) ==
    /\ Enumerates(o, DOMAIN d.labels) /\ Enumerates(n, DOMAIN d.networks)
    /\ Enumerates(p, DOMAIN ActivePorts(d, c)) /\ Enumerates(k, DOMAIN ConfiguredMap(d))

LEMMA InTurn ==
    ASSUME NEW S, NEW T, NEW k \in OrdersInTurn(S, T)
    PROVE  \E b \in MapOrders(S), e \in MapOrders(T) : k = b \o e
BY DEF OrdersInTurn

LEMMA InspectionOrders ==
    ASSUME NEW d \in Description, NEW c, NEW i \in Inspections(d, c)
    PROVE  \E o, n, p, k : Orders(d, c, o, n, p, k) /\ i = Response(d, c, o, n, p, k)
<1>1. PICK o \in MapOrders(DOMAIN d.labels), n \in MapOrders(DOMAIN d.networks),
           p \in MapOrders(DOMAIN ActivePorts(d, c)), k \in ConfiguredOrders(d) :
             i = Response(d, c, o, n, p, k)
    BY DEF Inspections
<1>2. Enumerates(o, DOMAIN d.labels)
    BY LabelAssumption, MapOrdersEnumerate
<1>3. Enumerates(n, DOMAIN d.networks)
    BY NetworkAssumption, MapOrdersEnumerate
<1>4. Enumerates(p, DOMAIN ActivePorts(d, c))
    BY ActiveIsPortMap, MapOrdersEnumerate
<1>5. Enumerates(k, DOMAIN ConfiguredMap(d))
    <2>1. PICK b \in MapOrders(DOMAIN d.bindings), e \in MapOrders(d.exposed \ DOMAIN d.bindings) :
            k = b \o e
        BY InTurn DEF ConfiguredOrders
    <2>2. IsFiniteSet(DOMAIN d.bindings) /\ IsFiniteSet(d.exposed \ DOMAIN d.bindings)
        BY PortAssumption, FS_Difference
    <2>3. Enumerates(b, DOMAIN d.bindings) /\ Enumerates(e, d.exposed \ DOMAIN d.bindings)
        BY <2>2, MapOrdersEnumerate
    <2>4. Enumerates(k, DOMAIN d.bindings \cup (d.exposed \ DOMAIN d.bindings))
        BY <2>1, <2>3, EnumeratesConcat
    <2>5. DOMAIN ConfiguredMap(d) = DOMAIN d.bindings \cup (d.exposed \ DOMAIN d.bindings)
        BY DEF ConfiguredMap
    <2> QED BY <2>4, <2>5
<1> QED BY <1>1, <1>2, <1>3, <1>4, <1>5 DEF Orders

\* The ports on a detail page: what is bound, or else what is configured.
DetailPorts(d, c, p, k) ==
    LET active == toPortsFromBindings(ActivePorts(d, c), p)
    IN IF active = <<>> THEN toPortsFromBindings(ConfiguredMap(d), k) ELSE active

LEMMA DetailOf ==
    ASSUME NEW d, NEW c, NEW o, NEW n, NEW p, NEW k
    PROVE  LET detail == toDetail(Response(d, c, o, n, p, k))
               active == toPortsFromBindings(ActivePorts(d, c), p)
               name == LabelOf(d.labels, labelService)
           IN detail = [ContainerID |-> d.id,
                        Name |-> IF name = None THEN d.name ELSE name,
                        Number |-> containerNumber(LabelOf(d.labels, labelNumber)),
                        Title |-> LabelOf(d.labels, LabelImageTitle),
                        URL |-> serviceURL(d.labels, o),
                        State |-> toState(c.state),
                        Health |-> toHealth(c.health),
                        ExitCode |-> d.exit,
                        Finished |-> c.state = "exited",
                        Environment |-> redactEnvironment(d.env),
                        Labels |-> toLabels(o),
                        Mounts |-> toMounts(d.mounts),
                        Networks |-> toAttachments(d.networks, n),
                        Ports |-> DetailPorts(d, c, p, k),
                        PortsConfigured |-> active = <<>> /\ DetailPorts(d, c, p, k) # <<>>]
BY DEF toDetail, Response, configuredPorts, DetailPorts, ConfiguredMap

(* Two inspects of a container in one condition become the same detail      *)
(* (toDetail, toLabels, toPortsFromBindings, configuredPorts).              *)
LEMMA DetailSame ==
    ASSUME NEW d \in Description, NEW c,
           NEW i \in Inspections(d, c), NEW j \in Inspections(d, c)
    PROVE  toDetail(i) = toDetail(j)
<1>1. PICK o, n, p, k : Orders(d, c, o, n, p, k) /\ i = Response(d, c, o, n, p, k)
    BY InspectionOrders
<1>2. PICK q, m, r, l : Orders(d, c, q, m, r, l) /\ j = Response(d, c, q, m, r, l)
    BY InspectionOrders
<1>3. serviceURL(d.labels, o) = serviceURL(d.labels, q)
    BY <1>1, <1>2, LinkSame, LabelAssumption DEF Orders
<1>4. toLabels(o) = toLabels(q)
    BY <1>1, <1>2, LabelsSame, LabelAssumption DEF Orders
<1>5. toAttachments(d.networks, n) = toAttachments(d.networks, m)
    BY <1>1, <1>2, AttachmentsSame, NetworkAssumption DEF Orders
<1>6. toPortsFromBindings(ActivePorts(d, c), p) = toPortsFromBindings(ActivePorts(d, c), r)
    BY <1>1, <1>2, PortsOfMapSame, ActiveIsPortMap DEF Orders
<1>7. toPortsFromBindings(ConfiguredMap(d), k) = toPortsFromBindings(ConfiguredMap(d), l)
    BY <1>1, <1>2, PortsOfMapSame, ConfiguredIsPortMap DEF Orders
<1>8. DetailPorts(d, c, p, k) = DetailPorts(d, c, r, l)
    BY <1>6, <1>7 DEF DetailPorts
<1> QED BY <1>1, <1>2, <1>3, <1>4, <1>5, <1>6, <1>8, DetailOf

\* What a service, a row, a detail or a page of its own is made from.
LEMMA ServicesFrom ==
    ASSUME NEW a \in Services
    PROVE  fixed \in Description /\ \E s \in Summaries(fixed, container) : a = toService(s)
BY DEF Services, Now, Listed

LEMMA DetailsFrom ==
    ASSUME NEW a \in Details
    PROVE  fixed \in Description /\ \E i \in Inspections(fixed, container) : a = toDetail(i)
BY DEF Details, Now, Inspected

LEMMA RowsFrom ==
    ASSUME NEW a \in Now(Rows)
    PROVE  \E s \in Services : a = ServiceItem(s, TRUE, TRUE)
<1>1. PICK b \in Rows : b.d = fixed /\ b.c = container /\ a = b.as
    BY DEF Now
<1>2. PICK q \in Listed : b = [d |-> q.d, c |-> q.c, as |-> ServiceItem(q.as, TRUE, TRUE)]
    BY DEF Rows
<1>3. q.d = fixed /\ q.c = container /\ a = ServiceItem(q.as, TRUE, TRUE)
    BY <1>1, <1>2
<1>4. q.as \in Services
    BY <1>3 DEF Services, Now
<1> QED BY <1>3, <1>4

LEMMA ViewsFrom ==
    ASSUME NEW a \in Now(Views)
    PROVE  \E s \in Details : a = DetailView(s, TRUE)
<1>1. PICK b \in Views : b.d = fixed /\ b.c = container /\ a = b.as
    BY DEF Now
<1>2. PICK q \in Inspected : b = [d |-> q.d, c |-> q.c, as |-> DetailView(q.as, TRUE)]
    BY DEF Views
<1>3. q.d = fixed /\ q.c = container /\ a = DetailView(q.as, TRUE)
    BY <1>1, <1>2
<1>4. q.as \in Details
    BY <1>3 DEF Details, Now
<1> QED BY <1>3, <1>4

LEMMA ReadingsSame == ReadingsAgree
<1>1. ASSUME NEW a \in Services, NEW b \in Services
      PROVE  ~Changed(a, b) /\ a.URL = b.URL
    <2>1. a = b
        BY ServicesFrom, ServiceSame
    <2> QED BY <2>1 DEF Changed, Notable
<1>2. ASSUME NEW a \in Now(Views), NEW b \in Now(Views)
      PROVE  a = b
    <2>1. PICK s \in Details : a = DetailView(s, TRUE)
        BY ViewsFrom
    <2>2. PICK t \in Details : b = DetailView(t, TRUE)
        BY ViewsFrom
    <2>3. s = t
        BY DetailsFrom, DetailSame
    <2> QED BY <2>1, <2>2, <2>3
<1> QED BY <1>1, <1>2 DEF ReadingsAgree

-----------------------------------------------------------------------------
\* The row and the detail page.

\* A phrase is in a status line when it is an element of it.
LEMMA ContainsToSet ==
    ASSUME NEW S, NEW s \in Seq(S), NEW x
    PROVE  Contains(s, x) <=> x \in ToSet(s)
<1>1. DOMAIN s = 1 .. Len(s)
    BY SequencePositions
<1> QED BY <1>1 DEF Contains, ToSet

Says(line, phrases) == \A x : Contains(line, x) <=> x \in phrases

\* The lines that StatusLine has: up with a health, up without, stopped.
UpLine(a, b, y) == <<a, b>> \o <<y>>
BareLine(a, b) == <<a, b>> \o <<>>
PlainLine(a, b, y) == <<a, b, y>>

LEMMA UpPhrases == \A a, b, y : Says(UpLine(a, b, y), {a, b, y})
<1> SUFFICES ASSUME NEW a, NEW b, NEW y PROVE Says(UpLine(a, b, y), {a, b, y})
    OBVIOUS
<1>1. PICK S, s, t : S = {a, b, y} /\ s = <<a, b>> /\ t = <<y>>
    OBVIOUS
<1>2. s \in Seq(S) /\ t \in Seq(S)
    BY <1>1
<1>3. ToSet(s) = {a, b} /\ ToSet(t) = {y}
    BY <1>1 DEF ToSet
<1>4. s \o t \in Seq(S) /\ ToSet(s \o t) = ToSet(s) \cup ToSet(t)
    BY <1>2, ConcatToSet
<1>5. \A x : Contains(s \o t, x) <=> x \in ToSet(s \o t)
    BY <1>4, ContainsToSet
<1>6. UpLine(a, b, y) = s \o t
    BY <1>1 DEF UpLine
<1>7. ToSet(s \o t) = {a, b, y}
    BY <1>3, <1>4
<1> QED BY <1>5, <1>6, <1>7 DEF Says

LEMMA BarePhrases == \A a, b : Says(BareLine(a, b), {a, b})
<1> SUFFICES ASSUME NEW a, NEW b PROVE Says(BareLine(a, b), {a, b})
    OBVIOUS
<1>1. <<a, b>> \in Seq({a, b})
    OBVIOUS
<1>2. BareLine(a, b) = <<a, b>>
    BY <1>1, ConcatEmptySeq DEF BareLine
<1> QED BY <1>2 DEF Says, Contains

LEMMA PlainPhrases == \A a, b, y : Says(PlainLine(a, b, y), {a, b, y})
<1>1. \A i : i \in 1 .. 3 <=> i = 1 \/ i = 2 \/ i = 3
    OBVIOUS
<1> QED BY <1>1 DEF Says, Contains, PlainLine

(* What the list says of the health of a container that is up is what the   *)
(* inspect says (healthFromStatus, toHealth).                               *)
LEMMA HealthSame ==
    ASSUME NEW d, NEW c \in Condition, c.state = "running"
    PROVE  healthFromStatus(StatusLine(d, c)) = toHealth(c.health)
<1> DEFINE line == StatusLine(d, c)
<1>1. c.elapsed = "3 minutes" \/ c.elapsed = "4 minutes"
    BY Zenon DEF Condition, Elapsed
<1>2. line = <<"Up", c.elapsed>> \o (CASE c.health = "healthy" -> <<"(healthy)">>
                                       [] c.health = "unhealthy" -> <<"(unhealthy)">>
                                       [] c.health = "starting" -> <<"(health: starting)">>
                                       [] OTHER -> <<>>)
    BY Zenon DEF StatusLine
<1> HIDE DEF line
<1>3. CASE c.health = "healthy"
    <2>1. line = UpLine("Up", c.elapsed, "(healthy)")
        BY <1>2, <1>3, Zenon DEF UpLine
    <2>2. Says(line, {"Up", c.elapsed, "(healthy)"})
        BY <2>1, UpPhrases, Zenon
    <2>3. /\ "(healthy)" \in {"Up", c.elapsed, "(healthy)"}
          /\ "(unhealthy)" \notin {"Up", c.elapsed, "(healthy)"}
          /\ "(health: starting)" \notin {"Up", c.elapsed, "(healthy)"}
        BY <1>1, Zenon
    <2>4. /\ Contains(line, "(healthy)")
          /\ ~Contains(line, "(unhealthy)")
          /\ ~Contains(line, "(health: starting)")
        BY <2>2, <2>3, Zenon DEF Says
    <2> QED BY <2>4, <1>3, Zenon DEF healthFromStatus, toHealth, line
<1>4. CASE c.health = "unhealthy"
    <2>1. line = UpLine("Up", c.elapsed, "(unhealthy)")
        BY <1>2, <1>4, Zenon DEF UpLine
    <2>2. Says(line, {"Up", c.elapsed, "(unhealthy)"})
        BY <2>1, UpPhrases, Zenon
    <2>3. /\ "(healthy)" \notin {"Up", c.elapsed, "(unhealthy)"}
          /\ "(unhealthy)" \in {"Up", c.elapsed, "(unhealthy)"}
          /\ "(health: starting)" \notin {"Up", c.elapsed, "(unhealthy)"}
        BY <1>1, Zenon
    <2>4. /\ ~Contains(line, "(healthy)")
          /\ Contains(line, "(unhealthy)")
          /\ ~Contains(line, "(health: starting)")
        BY <2>2, <2>3, Zenon DEF Says
    <2> QED BY <2>4, <1>4, Zenon DEF healthFromStatus, toHealth, line
<1>5. CASE c.health = "starting"
    <2>1. line = UpLine("Up", c.elapsed, "(health: starting)")
        BY <1>2, <1>5, Zenon DEF UpLine
    <2>2. Says(line, {"Up", c.elapsed, "(health: starting)"})
        BY <2>1, UpPhrases, Zenon
    <2>3. /\ "(healthy)" \notin {"Up", c.elapsed, "(health: starting)"}
          /\ "(unhealthy)" \notin {"Up", c.elapsed, "(health: starting)"}
          /\ "(health: starting)" \in {"Up", c.elapsed, "(health: starting)"}
        BY <1>1, Zenon
    <2>4. /\ ~Contains(line, "(healthy)")
          /\ ~Contains(line, "(unhealthy)")
          /\ Contains(line, "(health: starting)")
        BY <2>2, <2>3, Zenon DEF Says
    <2> QED BY <2>4, <1>5, Zenon DEF healthFromStatus, toHealth, line
<1>6. CASE c.health \notin {"healthy", "unhealthy", "starting"}
    <2>1. line = BareLine("Up", c.elapsed)
        BY <1>2, <1>6, Zenon DEF BareLine
    <2>2. Says(line, {"Up", c.elapsed})
        BY <2>1, BarePhrases, Zenon
    <2>3. /\ "(healthy)" \notin {"Up", c.elapsed}
          /\ "(unhealthy)" \notin {"Up", c.elapsed}
          /\ "(health: starting)" \notin {"Up", c.elapsed}
        BY <1>1, Zenon
    <2>4. /\ ~Contains(line, "(healthy)")
          /\ ~Contains(line, "(unhealthy)")
          /\ ~Contains(line, "(health: starting)")
        BY <2>2, <2>3, Zenon DEF Says
    <2> QED BY <2>4, <1>6, Zenon DEF healthFromStatus, toHealth, line
<1> QED BY <1>3, <1>4, <1>5, <1>6, Zenon

(* The detail names an exit code where the status line does.                *)
LEMMA ExitSame ==
    ASSUME NEW d \in Description, NEW c \in Condition
    PROVE  Contains(StatusLine(d, c), "Exited (137)") <=> c.state = "exited" /\ d.exit # 0
<1> DEFINE line == StatusLine(d, c)
<1>1. c.elapsed = "3 minutes" \/ c.elapsed = "4 minutes"
    BY Zenon DEF Condition, Elapsed
<1>2. c.state = "running" \/ c.state = "paused" \/ c.state = "exited"
    BY StateAssumption, Zenon DEF Condition
<1>3. CASE c.state = "running"
    <2>1. \/ line = UpLine("Up", c.elapsed, "(healthy)")
          \/ line = UpLine("Up", c.elapsed, "(unhealthy)")
          \/ line = UpLine("Up", c.elapsed, "(health: starting)")
          \/ line = BareLine("Up", c.elapsed)
        BY <1>3, Zenon DEF StatusLine, UpLine, BareLine
    <2> HIDE DEF line
    <2>2. /\ Says(UpLine("Up", c.elapsed, "(healthy)"), {"Up", c.elapsed, "(healthy)"})
          /\ Says(UpLine("Up", c.elapsed, "(unhealthy)"), {"Up", c.elapsed, "(unhealthy)"})
          /\ Says(UpLine("Up", c.elapsed, "(health: starting)"),
                  {"Up", c.elapsed, "(health: starting)"})
          /\ Says(BareLine("Up", c.elapsed), {"Up", c.elapsed})
        BY UpPhrases, BarePhrases, Zenon
    <2>3. /\ "Exited (137)" \notin {"Up", c.elapsed, "(healthy)"}
          /\ "Exited (137)" \notin {"Up", c.elapsed, "(unhealthy)"}
          /\ "Exited (137)" \notin {"Up", c.elapsed, "(health: starting)"}
          /\ "Exited (137)" \notin {"Up", c.elapsed}
        BY <1>1, Zenon
    <2>4. /\ ~Contains(UpLine("Up", c.elapsed, "(healthy)"), "Exited (137)")
          /\ ~Contains(UpLine("Up", c.elapsed, "(unhealthy)"), "Exited (137)")
          /\ ~Contains(UpLine("Up", c.elapsed, "(health: starting)"), "Exited (137)")
          /\ ~Contains(BareLine("Up", c.elapsed), "Exited (137)")
        BY <2>2, <2>3, Zenon DEF Says
    <2>5. ~Contains(line, "Exited (137)")
        BY <2>1, <2>4, Zenon
    <2> QED BY <1>3, <2>5, Zenon DEF line
<1>4. CASE c.state = "paused"
    <2>1. line = PlainLine("Up", c.elapsed, "(Paused)")
        BY <1>4, Zenon DEF StatusLine, PlainLine
    <2> HIDE DEF line
    <2>2. Says(line, {"Up", c.elapsed, "(Paused)"})
        BY <2>1, PlainPhrases, Zenon
    <2>3. "Exited (137)" \notin {"Up", c.elapsed, "(Paused)"}
        BY <1>1, Zenon
    <2>4. ~Contains(line, "Exited (137)")
        BY <2>2, <2>3, Zenon DEF Says
    <2> QED BY <1>4, <2>4, Zenon DEF line
<1>5. CASE c.state = "exited" /\ d.exit = 0
    <2>1. line = PlainLine("Exited (0)", c.elapsed, "ago")
        BY <1>5, Zenon DEF StatusLine, PlainLine
    <2> HIDE DEF line
    <2>2. Says(line, {"Exited (0)", c.elapsed, "ago"})
        BY <2>1, PlainPhrases, Zenon
    <2>3. "Exited (137)" \notin {"Exited (0)", c.elapsed, "ago"}
        BY <1>1, Zenon
    <2>4. ~Contains(line, "Exited (137)")
        BY <2>2, <2>3, Zenon DEF Says
    <2> QED BY <1>5, <2>4, Zenon DEF line
<1>6. CASE c.state = "exited" /\ d.exit # 0
    <2>1. line = PlainLine("Exited (137)", c.elapsed, "ago")
        BY <1>6, Zenon DEF StatusLine, PlainLine
    <2> HIDE DEF line
    <2>2. Says(line, {"Exited (137)", c.elapsed, "ago"})
        BY <2>1, PlainPhrases, Zenon
    <2>3. "Exited (137)" \in {"Exited (137)", c.elapsed, "ago"}
        BY <1>1, Zenon
    <2>4. Contains(line, "Exited (137)")
        BY <2>2, <2>3, Zenon DEF Says
    <2> QED BY <1>6, <2>4, Zenon DEF line
<1> QED BY <1>2, <1>3, <1>4, <1>5, <1>6, Zenon

\* What Listed and Inspected keep to.
LEMMA InCondition ==
    ASSUME NEW a \in Services
    PROVE  container \in Condition
<1>1. PICK b \in Listed : b.d = fixed /\ b.c = container
    BY DEF Services, Now
<1> QED BY <1>1 DEF Listed

\* A stopped container whose status line names its exit code.
NamesExit(status) == Contains(status, "Exited (137)")

Codes(d, c) == c.state = "exited" /\ d.exit # 0

(* A service and a detail made of one container in one condition.           *)
LEMMA SameFacts ==
    ASSUME NEW d \in Description, NEW c \in Condition,
           NEW s \in Summaries(d, c), NEW i \in Inspections(d, c)
    PROVE  LET a == toService(s)
               b == toDetail(i)
           IN /\ a.Name = b.Name /\ a.Number = b.Number /\ a.Title = b.Title
              /\ a.URL = b.URL /\ a.State = b.State
              /\ CurrentHealth(a) = CurrentHealth(b)
              /\ a.Ports = b.Ports \/ (b.Ports # <<>> /\ b.PortsConfigured)
              /\ NamesExit(a.Status) <=> ExitCodeLabel(b) # None
<1> DEFINE a == toService(s)
           b == toDetail(i)
<1>1. PICK o, p : /\ Enumerates(o, DOMAIN d.labels) /\ p \in ReportedPorts(d, c)
                  /\ s = Summary(d, c, o, p)
    BY SummaryOrders
<1>2. PICK q, n, r, k : Orders(d, c, q, n, r, k) /\ i = Response(d, c, q, n, r, k)
    BY InspectionOrders
<1> HIDE DEF a, b
<1>a. /\ a.Name = IF LabelOf(d.labels, labelService) = None THEN d.name
                  ELSE LabelOf(d.labels, labelService)
      /\ a.Number = containerNumber(LabelOf(d.labels, labelNumber))
      /\ a.Title = LabelOf(d.labels, LabelImageTitle)
      /\ a.URL = serviceURL(d.labels, o) /\ a.State = toState(c.state)
      /\ a.Status = StatusLine(d, c) /\ a.Health = healthFromStatus(StatusLine(d, c))
      /\ a.Ports = toPorts(p)
    BY <1>1, ServiceOf DEF a
<1>b. /\ b.Name = IF LabelOf(d.labels, labelService) = None THEN d.name
                  ELSE LabelOf(d.labels, labelService)
      /\ b.Number = containerNumber(LabelOf(d.labels, labelNumber))
      /\ b.Title = LabelOf(d.labels, LabelImageTitle)
      /\ b.URL = serviceURL(d.labels, q) /\ b.State = toState(c.state)
      /\ b.Health = toHealth(c.health) /\ b.ExitCode = d.exit
      /\ b.Ports = DetailPorts(d, c, r, k)
    BY <1>2, DetailOf DEF b
<1>c. /\ b.Finished = (c.state = "exited")
      /\ b.PortsConfigured = (toPortsFromBindings(ActivePorts(d, c), r) = <<>>
                               /\ DetailPorts(d, c, r, k) # <<>>)
    BY <1>2, DetailOf DEF b
<1>3. a.Name = b.Name /\ a.Number = b.Number /\ a.Title = b.Title /\ a.State = b.State
    BY <1>a, <1>b
<1>4. a.URL = b.URL
    BY <1>1, <1>2, <1>a, <1>b, <1>c, LinkSame, LabelAssumption DEF Orders
<1>5. c.state \in {"running", "exited", "paused"} /\ toState(c.state) = c.state
    BY StateAssumption DEF Condition, toState
<1>6. CurrentHealth(a) = CurrentHealth(b)
    BY <1>a, <1>b, <1>c, <1>5, HealthSame DEF CurrentHealth, Online
<1>7. toPorts(p) = toPortsFromBindings(ActivePorts(d, c), r)
    <2>1. PICK ports \in Seq(RuntimePort) :
            /\ ToSet(ports) = PortsIn(ActivePorts(d, c))
            /\ toPortsFromBindings(ActivePorts(d, c), r) = toPorts(ports)
        BY <1>2, ActiveIsPortMap, PortsOfMap DEF Orders
    <2>2. p \in Seq(RuntimePort) /\ ToSet(p) = PortsIn(ActivePorts(d, c))
        BY <1>1, ReportedPortsAre
    <2> QED BY <2>1, <2>2, PortsSame
<1>8. a.Ports = b.Ports \/ (b.Ports # <<>> /\ b.PortsConfigured)
    BY <1>a, <1>b, <1>c, <1>7 DEF DetailPorts
<1>9. NamesExit(a.Status) <=> Codes(d, c)
    BY <1>a, <1>b, <1>c, ExitSame, Zenon DEF NamesExit, Codes
<1>10. ExitCodeLabel(b) # None <=> Codes(d, c)
    <2>1. d.exit \in Nat /\ d.exit # None
        BY ExitAssumption, NoneAssumption
    <2> QED BY <1>a, <1>b, <1>c, <1>5, <2>1 DEF ExitCodeLabel, Online, Codes
<1>11. /\ a.Name = b.Name /\ a.Number = b.Number /\ a.Title = b.Title
       /\ a.URL = b.URL /\ a.State = b.State
       /\ CurrentHealth(a) = CurrentHealth(b)
       /\ a.Ports = b.Ports \/ (b.Ports # <<>> /\ b.PortsConfigured)
       /\ NamesExit(a.Status) <=> ExitCodeLabel(b) # None
    BY <1>3, <1>4, <1>6, <1>8, <1>9, <1>10
<1> QED BY <1>11 DEF a, b

LEMMA RowsAndDetails == RowAndDetailAgree
<1>1. ASSUME NEW s \in Services, NEW t \in Details
      PROVE  /\ s.Name = t.Name /\ s.Number = t.Number /\ s.Title = t.Title
             /\ s.URL = t.URL /\ s.State = t.State
             /\ CurrentHealth(s) = CurrentHealth(t)
             /\ s.Ports = t.Ports \/ (t.Ports # <<>> /\ t.PortsConfigured)
             /\ NamesExit(s.Status) <=> ExitCodeLabel(t) # None
    <2>1. PICK u \in Summaries(fixed, container) : s = toService(u)
        BY ServicesFrom
    <2>2. PICK i \in Inspections(fixed, container) : t = toDetail(i)
        BY DetailsFrom
    <2>3. fixed \in Description /\ container \in Condition
        BY ServicesFrom, InCondition
    <2> QED BY <2>1, <2>2, <2>3, SameFacts
<1>2. ASSUME NEW line \in Now(Rows), NEW drawn \in Now(Views)
      PROVE  /\ line.display = drawn.identity.display
             /\ line.name \in {None, drawn.identity.name}
             /\ line.replica = drawn.identity.replica
             /\ line.state = drawn.identity.state
             /\ line.health = drawn.identity.health
             /\ line.actions = drawn.actions
             /\ line.ports = drawn.ports.ports \/ drawn.ports.notBound
    <2>1. PICK s \in Services : line = ServiceItem(s, TRUE, TRUE)
        BY RowsFrom
    <2>2. PICK t \in Details : drawn = DetailView(t, TRUE)
        BY ViewsFrom
    <2>3. /\ drawn.identity = Identity(t) /\ drawn.ports = PortsPanel(t)
          /\ drawn.actions = ServiceActions(t, TRUE)
        BY <2>2 DEF DetailView
    <2>4. /\ line.display = DisplayName(s) /\ line.replica = ReplicaLabel(s)
          /\ line.name = IF HasTitle(s) THEN s.Name ELSE None
          /\ line.actions = ServiceActions(s, TRUE) /\ line.state = s.State
          /\ line.health = CurrentHealth(s) /\ line.ports = s.Ports
        BY <2>1 DEF ServiceItem
    <2>5. /\ DisplayName(s) = DisplayName(t) /\ ReplicaLabel(s) = ReplicaLabel(t)
          /\ ServiceActions(s, TRUE) = ServiceActions(t, TRUE)
        BY <1>1 DEF DisplayName, ReplicaLabel, ServiceActions, Online
    <2>6. /\ drawn.identity.display = DisplayName(t) /\ drawn.identity.name = t.Name
          /\ drawn.identity.replica = ReplicaLabel(t) /\ drawn.identity.state = t.State
          /\ drawn.identity.health = CurrentHealth(t) /\ drawn.ports.ports = t.Ports
        BY <2>3 DEF Identity, PortsPanel
    <2>7. drawn.ports.notBound = (t.Ports # <<>> /\ t.PortsConfigured)
        BY <2>3 DEF PortsPanel
    <2>8. line.ports = drawn.ports.ports \/ drawn.ports.notBound
        BY <1>1, <2>4, <2>6, <2>7
    <2> QED BY <1>1, <2>3, <2>4, <2>5, <2>6, <2>8
<1>3. ASSUME NEW s \in Services, NEW drawn \in Now(Views)
      PROVE  (drawn.lifecycle.exit # None) = NamesExit(s.Status)
    <2>1. PICK t \in Details : drawn = DetailView(t, TRUE)
        BY ViewsFrom
    <2>2. drawn.lifecycle.exit = ExitCodeLabel(t)
        BY <2>1 DEF DetailView, Lifecycle
    <2>3. NamesExit(s.Status) \in BOOLEAN
        BY Zenon DEF NamesExit, Contains
    <2> QED BY <1>1, <2>2, <2>3
<1> QED BY <1>2, <1>3, Zenon DEF RowAndDetailAgree, NamesExit

-----------------------------------------------------------------------------
\* What the page of a container leaves out, which is nothing.

LEMMA BestLinkOf ==
    ASSUME fixed \in Description, NEW o, Enumerates(o, DOMAIN fixed.labels)
    PROVE  BestLink(serviceURL(fixed.labels, o))
<1> DEFINE labels == fixed.labels
           url == serviceURL(labels, o)
           named == {r \in Nat : RuleKey(r) \in DOMAIN labels /\ labels[RuleKey(r)] # None}
<1>1. \/ named = {} /\ url = None
      \/ /\ named # {}
         /\ \E r \in named : url = [secure |-> \E s \in named : secure(labels, s),
                                    host |-> labels[RuleKey(r)]]
    BY LinkIsBest, LabelAssumption
<1>2. named = {k[2] : k \in {l \in DOMAIN labels : l = RuleKey(l[2]) /\ labels[l] # None}}
    <2>1. \A r : RuleKey(r)[2] = r
        BY DEF RuleKey
    <2>2. \A k \in DOMAIN labels : k[2] \in Nat
        BY LabelAssumption
    <2> QED BY <2>1, <2>2
<1> HIDE DEF named
<1>3. ASSUME NEW r \in named,
             url = [secure |-> \E s \in named : secure(labels, s), host |-> labels[RuleKey(r)]]
      PROVE  url # None /\ url.secure = \E s \in named : secure(labels, s)
    <2>1. RuleKey(r) \in DOMAIN labels
        BY DEF named
    <2>2. url \in [secure : BOOLEAN, host : {labels[RuleKey(r)]}]
        BY <1>3
    <2>3. url # None
        BY <2>1, <2>2, LinkAssumption
    <2> QED BY <1>3, <2>3
<1>4. \/ named = {} /\ url = None
      \/ named # {} /\ url # None /\ url.secure = \E s \in named : secure(labels, s)
    BY <1>1, <1>3
<1> HIDE DEF url
<1>5. BestLink(url)
    BY <1>2, <1>4 DEF BestLink
<1> QED BY <1>5 DEF url

\* What the page shows, section by section.
LEMMA SectionsOf ==
    ASSUME NEW b, NEW drawn, drawn = DetailView(b, TRUE)
    PROVE  /\ drawn.folds.labels = GroupLabels(b.Labels)
           /\ drawn.folds.environment = IF b.Environment = <<>> THEN None ELSE b.Environment
           /\ DOMAIN drawn.mounts = DOMAIN b.Mounts
           /\ \A i \in DOMAIN drawn.mounts :
                drawn.mounts[i].destination = b.Mounts[i].Destination
           /\ DOMAIN drawn.networks = DOMAIN b.Networks
           /\ \A i \in DOMAIN drawn.networks : drawn.networks[i].name = b.Networks[i].Name
<1>1. /\ drawn.folds = Folds(b) /\ drawn.mounts = MountsPanel(b)
      /\ drawn.networks = NetworksPanel(b)
    BY DEF DetailView
<1>2. /\ Folds(b).labels = GroupLabels(b.Labels)
      /\ Folds(b).environment = IF b.Environment = <<>> THEN None ELSE b.Environment
    BY DEF Folds
<1>3. /\ DOMAIN MountsPanel(b) = DOMAIN b.Mounts
      /\ \A i \in DOMAIN b.Mounts : MountsPanel(b)[i].destination = b.Mounts[i].Destination
    BY DEF MountsPanel
<1>4. /\ DOMAIN NetworksPanel(b) = DOMAIN b.Networks
      /\ \A i \in DOMAIN b.Networks : NetworksPanel(b)[i].name = b.Networks[i].Name
    BY DEF NetworksPanel
<1> QED BY <1>1, <1>2, <1>3, <1>4

LEMMA EverythingShown == AllShown
<1>1. ASSUME NEW s \in Services
      PROVE  BestLink(s.URL)
    <2>1. PICK u \in Summaries(fixed, container) : s = toService(u)
        BY ServicesFrom
    <2>2. PICK o, p : Enumerates(o, DOMAIN fixed.labels) /\ u = Summary(fixed, container, o, p)
        BY ServicesFrom, SummaryOrders
    <2>3. s.URL = serviceURL(fixed.labels, o)
        BY <2>1, <2>2, ServiceOf
    <2> QED BY <2>2, <2>3, BestLinkOf, ServicesFrom
<1>2. ASSUME NEW t \in Details
      PROVE  fixed \in Description /\ \E o, n, p, k :
               Orders(fixed, container, o, n, p, k) /\ t = toDetail(Response(fixed, container, o, n, p, k))
    BY DetailsFrom, InspectionOrders
<1>3. ASSUME NEW t \in Details
      PROVE  BestLink(t.URL)
    <2>1. PICK o, n, p, k : /\ Orders(fixed, container, o, n, p, k)
                            /\ t = toDetail(Response(fixed, container, o, n, p, k))
        BY <1>2
    <2>2. t.URL = serviceURL(fixed.labels, o)
        BY <2>1, DetailOf
    <2> QED BY <1>2, <2>1, <2>2, BestLinkOf DEF Orders
<1>4. ASSUME NEW drawn \in Now(Views)
      PROVE  /\ \A key \in DOMAIN fixed.labels :
                  Cardinality({at \in (DOMAIN drawn.folds.labels) \X (DOMAIN KeyOrder) :
                                 /\ at[2] \in DOMAIN drawn.folds.labels[at[1]]
                                 /\ drawn.folds.labels[at[1]][at[2]] = key}) = 1
             /\ \A entry \in ToSet(fixed.env) :
                  Cardinality({i \in DOMAIN drawn.folds.environment :
                                 drawn.folds.environment[i].Key = entry.key}) = 1
             /\ \A m \in ToSet(fixed.mounts) :
                  Cardinality({i \in DOMAIN drawn.mounts :
                                 drawn.mounts[i].destination = m.destination}) = 1
             /\ \A n \in DOMAIN fixed.networks :
                  fixed.networks[n] # None =>
                    Cardinality({i \in DOMAIN drawn.networks : drawn.networks[i].name = n}) = 1
    <2>1. PICK t \in Details : drawn = DetailView(t, TRUE)
        BY ViewsFrom
    <2>2. PICK o, a, p, k : /\ Orders(fixed, container, o, a, p, k)
                            /\ t = toDetail(Response(fixed, container, o, a, p, k))
        BY <1>2
    <2>3. fixed \in Description
        BY <1>2
    <2> DEFINE env == redactEnvironment(fixed.env)
    <2>4. /\ t.Labels = toLabels(o) /\ t.Environment = env
          /\ t.Mounts = toMounts(fixed.mounts) /\ t.Networks = toAttachments(fixed.networks, a)
        BY <2>2, DetailOf
    <2> HIDE DEF env
    <2>5. /\ drawn.folds.labels = GroupLabels(toLabels(o))
          /\ drawn.folds.environment = IF env = <<>> THEN None ELSE env
          /\ DOMAIN drawn.mounts = DOMAIN toMounts(fixed.mounts)
          /\ \A i \in DOMAIN drawn.mounts :
               drawn.mounts[i].destination = toMounts(fixed.mounts)[i].Destination
          /\ DOMAIN drawn.networks = DOMAIN toAttachments(fixed.networks, a)
          /\ \A i \in DOMAIN drawn.networks :
               drawn.networks[i].name = toAttachments(fixed.networks, a)[i].Name
        <3>1. /\ drawn.folds.labels = GroupLabels(t.Labels)
              /\ drawn.folds.environment = IF t.Environment = <<>> THEN None ELSE t.Environment
              /\ DOMAIN drawn.mounts = DOMAIN t.Mounts
              /\ \A i \in DOMAIN drawn.mounts :
                   drawn.mounts[i].destination = t.Mounts[i].Destination
              /\ DOMAIN drawn.networks = DOMAIN t.Networks
              /\ \A i \in DOMAIN drawn.networks : drawn.networks[i].name = t.Networks[i].Name
            BY <2>1, SectionsOf
        <3> QED BY <2>4, <3>1
    <2>6. ASSUME NEW key \in DOMAIN fixed.labels
          PROVE  Cardinality({at \in (DOMAIN drawn.folds.labels) \X (DOMAIN KeyOrder) :
                                /\ at[2] \in DOMAIN drawn.folds.labels[at[1]]
                                /\ drawn.folds.labels[at[1]][at[2]] = key}) = 1
        <3>1. Enumerates(toLabels(o), DOMAIN fixed.labels)
            BY <2>2, <2>3, LabelsEnumerate, LabelAssumption DEF Orders
        <3>2. Cardinality({at \in (DOMAIN GroupLabels(toLabels(o))) \X (DOMAIN KeyOrder) :
                                /\ at[2] \in DOMAIN GroupLabels(toLabels(o))[at[1]]
                                /\ GroupLabels(toLabels(o))[at[1]][at[2]] = key}) = 1
            BY <2>3, <3>1, GroupedOnce, LabelAssumption
        <3> QED BY <2>5, <3>2
    <2>7. ASSUME NEW entry \in ToSet(fixed.env)
          PROVE  Cardinality({i \in DOMAIN drawn.folds.environment :
                                drawn.folds.environment[i].Key = entry.key}) = 1
        <3>1. PICK j \in DOMAIN fixed.env : fixed.env[j] = entry
            BY DEF ToSet
        <3> DEFINE at == {i \in DOMAIN env : env[i].Key = fixed.env[j].key}
        <3>2. Cardinality(at) = 1
            BY <2>3, EnvironmentOnce, InspectAssumption DEF env
        <3>3. env = <<>> => at = {}
            OBVIOUS
        <3>4. at # {}
            <4> HIDE DEF at
            <4> QED BY <3>2, FS_EmptySet
        <3> QED BY <2>5, <3>1, <3>2, <3>3, <3>4
    <2>8. ASSUME NEW m \in ToSet(fixed.mounts)
          PROVE  Cardinality({i \in DOMAIN drawn.mounts :
                                drawn.mounts[i].destination = m.destination}) = 1
        <3>1. PICK j \in DOMAIN fixed.mounts : fixed.mounts[j] = m
            BY DEF ToSet
        <3>2. Cardinality({i \in DOMAIN toMounts(fixed.mounts) :
                             toMounts(fixed.mounts)[i].Destination = fixed.mounts[j].destination}) = 1
            <4>1. /\ fixed.mounts \in Seq(ToSet(fixed.mounts))
                  /\ \A i \in DOMAIN fixed.mounts : fixed.mounts[i].destination \in Nat
                  /\ \A i, l \in DOMAIN fixed.mounts :
                       fixed.mounts[i].destination = fixed.mounts[l].destination => i = l
                BY <2>3, InspectAssumption
            <4> QED BY <4>1, MountsOnce
        <3>3. {i \in DOMAIN drawn.mounts : drawn.mounts[i].destination = m.destination}
                = {i \in DOMAIN toMounts(fixed.mounts) :
                     toMounts(fixed.mounts)[i].Destination = fixed.mounts[j].destination}
            BY <2>5, <3>1
        <3> QED BY <3>2, <3>3
    <2>9. ASSUME NEW n \in DOMAIN fixed.networks, fixed.networks[n] # None
          PROVE  Cardinality({i \in DOMAIN drawn.networks : drawn.networks[i].name = n}) = 1
        <3>1. Cardinality({i \in DOMAIN toAttachments(fixed.networks, a) :
                             toAttachments(fixed.networks, a)[i].Name = n}) = 1
            BY <2>2, <2>3, <2>9, AttachmentsOnce, NetworkAssumption DEF Orders
        <3>2. {i \in DOMAIN drawn.networks : drawn.networks[i].name = n}
                = {i \in DOMAIN toAttachments(fixed.networks, a) :
                     toAttachments(fixed.networks, a)[i].Name = n}
            BY <2>5
        <3> QED BY <3>1, <3>2
    <2> QED BY <2>6, <2>7, <2>8, <2>9
<1> QED BY <1>1, <1>3, <1>4 DEF AllShown

-----------------------------------------------------------------------------
\* What is drawn of one container, in every state the pages reach.

(* Two readings of a container that nothing happened to compare equal and  *)
(* draw the same page, in whatever order the runtime lists its ports,      *)
(* labels and networks (toPorts, serviceURL, toLabels, toDetail).          *)
THEOREM ReadingsAlike == Spec => []ReadingsAgree
BY ReadingsSame, PTL

(* The row, which comes from a list, and the detail page, which comes from *)
(* an inspect, do not contradict each other (toService, toDetail).         *)
THEOREM PagesConsistent == Spec => []RowAndDetailAgree
BY RowsAndDetails, PTL

(* Everything the container has is on its page, and once                   *)
(* (GroupLabels, redactEnvironment, toMounts, toDetail, serviceURL).       *)
THEOREM PageShowsAll == Spec => []AllShown
BY EverythingShown, PTL

-----------------------------------------------------------------------------
(* What is read of a container's log is what the container wrote.           *)

Token == [tag : {"stamp", "text", "newline", "piece"}, line : Nat]

\* What is shown of a log: texts, and a piece of a timestamp, which is not told
\* from one.
IsShown(token) == token.tag \in {"text", "piece"}

\* Lines that each have a timestamp, a text and a newline, numbered upwards; the
\* last may break off.
AreLines(tokens) ==
    /\ tokens \in Seq(Token)
    /\ \A i \in DOMAIN tokens : i + 1 \in DOMAIN tokens =>
         /\ tokens[i].tag = "stamp" => /\ tokens[i + 1].tag = "text"
                                       /\ tokens[i + 1].line = tokens[i].line
         /\ tokens[i].tag = "text" => tokens[i + 1].tag = "newline"
         /\ tokens[i].tag = "newline" => tokens[i + 1].tag \in {"stamp", "piece"}
         /\ tokens[i].tag # "piece"
    /\ \A i, j \in DOMAIN tokens :
         IsShown(tokens[i]) /\ IsShown(tokens[j]) /\ i < j
             => tokens[i].line < tokens[j].line

\* LastBefore is what its comment says: there always is one.
LEMMA LastBeforeIs ==
    ASSUME NEW n \in Nat, NEW b \in 1 .. n + 1, NEW stops
    PROVE  /\ LastBefore(b, n, stops) \in b - 1 .. n
           /\ \A i \in b .. LastBefore(b, n, stops) : i \notin stops
           /\ LastBefore(b, n, stops) = n \/ LastBefore(b, n, stops) + 1 \in stops
<1> DEFINE Fits(e) == /\ \A i \in b .. e : i \notin stops
                      /\ e = n \/ e + 1 \in stops
           T == {i \in b .. n : i \in stops}
<1>1. LastBefore(b, n, stops) = CHOOSE e \in b - 1 .. n : Fits(e)
    BY DEF LastBefore
<1>2. \E e \in b - 1 .. n : Fits(e)
    <2>1. CASE T = {}
        <3>1. Fits(n) /\ n \in b - 1 .. n
            BY <2>1
        <3> QED BY <3>1
    <2>2. CASE T # {}
        <3>1. T \in SUBSET Nat
            OBVIOUS
        <3>2. PICK i \in T : \A k \in T : i <= k
            BY <2>2, <3>1, LeastNumber
        <3>3. i \in b .. n /\ i \in stops
            OBVIOUS
        <3>4. \A k \in b .. i - 1 : k \notin stops
            BY <3>2, <3>3
        <3>5. i - 1 \in b - 1 .. n /\ (i - 1) + 1 = i
            BY <3>3
        <3>6. Fits(i - 1)
            BY <3>3, <3>4, <3>5
        <3> QED BY <3>5, <3>6
    <2> QED BY <2>1, <2>2
<1> HIDE DEF Fits
<1>3. LastBefore(b, n, stops) \in b - 1 .. n /\ Fits(LastBefore(b, n, stops))
    BY <1>1, <1>2
<1> QED BY <1>3 DEF Fits

\* A sequence of one entry of another.
LEMMA SingleEntry ==
    ASSUME NEW S, NEW s \in Seq(S), NEW m \in 1 .. Len(s)
    PROVE  SubSeq(s, m, m) = <<s[m]>> /\ <<s[m]>> \in Seq(S)
<1>1. Len(s) \in Nat /\ s[m] \in S /\ m \in Int /\ m \in m .. Len(s)
    BY SequencePositions
<1>2. <<s[m]>> \in Seq(S)
    BY <1>1
<1>3. SubSeq(s, m, m) = <<s[m]>> \o SubSeq(s, m + 1, m)
    BY <1>1, SubSeqRecursiveFirst
<1>4. SubSeq(s, m + 1, m) = << >>
    BY <1>1, SubSeqEmpty
<1>5. <<s[m]>> \o << >> = <<s[m]>>
    BY <1>2, ConcatEmptySeq
<1> QED BY <1>2, <1>3, <1>4, <1>5

\* The part between positions B and E shows at most one text, and that one
\* under no time but its own.
ShowsOne(part, tokens, B, E) ==
    /\ part.At \in Nat \cup {NoTime} /\ part.Text \in Seq(Token)
    /\ \/ part.Text = << >> /\ \A T \in B .. E : ~IsShown(tokens[T])
       \/ \E T \in B .. E :
            /\ IsShown(tokens[T]) /\ part.Text = <<tokens[T]>>
            /\ part.At \in {NoTime, tokens[T].line}
            /\ \A U \in B .. E : IsShown(tokens[U]) => U = T

\* So does every part without a newline (splitTimestamp).
LEMMA PartShows ==
    ASSUME NEW tokens, AreLines(tokens), NEW B \in 1 .. Len(tokens) + 1,
           NEW E \in B - 1 .. Len(tokens), \A i \in B .. E : tokens[i].tag # "newline",
           NEW part, part = splitTimestamp(SubSeq(tokens, B, E))
    PROVE  ShowsOne(part, tokens, B, E)
<1>1. /\ tokens \in Seq(Token) /\ Len(tokens) \in Nat /\ DOMAIN tokens = 1 .. Len(tokens)
      /\ \A i \in DOMAIN tokens : tokens[i] \in Token
    BY SequencePositions DEF AreLines
<1>2. \A i \in 1 .. Len(tokens) : /\ tokens[i].tag \in {"stamp", "text", "newline", "piece"}
                                  /\ tokens[i].line \in Nat
    BY <1>1 DEF Token
<1>3. \A i \in 1 .. Len(tokens) : i + 1 \in 1 .. Len(tokens) =>
         /\ tokens[i].tag = "stamp" => /\ tokens[i + 1].tag = "text"
                                       /\ tokens[i + 1].line = tokens[i].line
         /\ tokens[i].tag = "text" => tokens[i + 1].tag = "newline"
         /\ tokens[i].tag # "piece"
    BY <1>1 DEF AreLines
<1> DEFINE s == SubSeq(tokens, B, E)
           Only(T) == /\ IsShown(tokens[T]) /\ part.Text = <<tokens[T]>>
                      /\ part.At \in {NoTime, tokens[T].line}
                      /\ \A U \in B .. E : IsShown(tokens[U]) => U = T
<1> SUFFICES /\ part.At \in Nat \cup {NoTime} /\ part.Text \in Seq(Token)
             /\ \/ part.Text = << >> /\ \A T \in B .. E : ~IsShown(tokens[T])
                \/ \E T \in B .. E : Only(T)
    BY DEF ShowsOne
<1>4. B \in Nat /\ E \in Int /\ B >= 1 /\ E <= Len(tokens) /\ E >= B - 1
    BY <1>1
<1>5. CASE E = B - 1
    <2>1. s = << >>
        BY <1>4, <1>5, SubSeqEmpty
    <2>2. part = [At |-> NoTime, Text |-> << >>]
        BY <2>1 DEF splitTimestamp
    <2>3. \A T : ~(T \in B .. E)
        BY <1>4, <1>5
    <2> QED BY <2>2, <2>3
<1>6. CASE E >= B
    <2>1. B \in 1 .. Len(tokens) /\ E \in B .. Len(tokens) /\ B \in B .. E
        BY <1>4, <1>6
    <2>2. /\ Head(s) = tokens[B] /\ Tail(s) = SubSeq(tokens, B + 1, E)
          /\ s = <<tokens[B]>> \o SubSeq(tokens, B + 1, E)
        BY <1>1, <2>1, HeadTailOfSubSeq, SubSeqRecursiveFirst
    <2>3. s \in Seq(Token) /\ Len(s) = E - B + 1 /\ s # << >>
        <3>1. \A i \in B .. E : tokens[i] \in Token
            BY <1>1, <1>4
        <3>2. s \in Seq(Token) /\ Len(s) = E - B + 1
            BY <3>1, <1>4, <1>6, SubSeqProperties
        <3> HIDE DEF s, Only
        <3>3. E - B + 1 # 0
            BY <1>4, <1>6
        <3>4. Len(<< >>) = 0
            OBVIOUS
        <3>5. s # << >>
            BY <3>2, <3>3, <3>4
        <3> QED BY <3>2, <3>5
    <2>4. tokens[B].tag # "newline"
        BY <2>1
    <2>5. CASE IsShown(tokens[B])
        <3>1. E = B
            <4>1. B + 1 \in 1 .. Len(tokens) => tokens[B + 1].tag = "newline"
                BY <1>3, <2>1, <2>5 DEF IsShown
            <4>2. B + 1 \notin B .. E
                <5>1. B + 1 \in B .. E => B + 1 \in 1 .. Len(tokens)
                    BY <1>4
                <5> QED BY <4>1, <5>1
            <4> QED BY <4>2, <1>4, <1>6
        <3>2. s = <<tokens[B]>> /\ s \in Seq(Token)
            BY <3>1, <1>1, <2>1, SingleEntry
        <3>3. part = [At |-> NoTime, Text |-> s]
            BY <2>2, <2>5 DEF splitTimestamp, IsShown
        <3>4. part.At = NoTime /\ part.Text = <<tokens[B]>> /\ part.Text \in Seq(Token)
            <4> HIDE DEF s
            <4>1. part.At = NoTime /\ part.Text = s
                BY <3>3
            <4> QED BY <4>1, <3>2, Zenon
        <3>5. \A U \in B .. E : U = B
            BY <3>1, <1>4
        <3>6. Only(B)
            BY <3>4, <3>5, <2>5
        <3> HIDE DEF Only
        <3> QED BY <3>4, <3>6, <2>1
    <2>6. CASE tokens[B].tag = "stamp"
        <3>1. part = [At |-> tokens[B].line, Text |-> SubSeq(tokens, B + 1, E)]
            BY <2>2, <2>3, <2>6 DEF splitTimestamp
        <3>2. CASE E = B
            <4>1. SubSeq(tokens, B + 1, E) = << >>
                BY <3>2, <1>4, SubSeqEmpty
            <4>2. \A U \in B .. E : U = B
                BY <3>2, <1>4
            <4>3. part.At \in Nat /\ part.Text = << >> /\ part.Text \in Seq(Token)
                <5>1. part.At = tokens[B].line /\ part.Text = SubSeq(tokens, B + 1, E)
                    <6> HIDE DEF s, Only
                    <6> QED BY <3>1
                <5>2. tokens[B].line \in Nat /\ << >> \in Seq(Token)
                    BY <1>2, <2>1
                <5> QED BY <5>1, <5>2, <4>1, Zenon
            <4>4. \A T \in B .. E : ~IsShown(tokens[T])
                BY <4>2, <2>6 DEF IsShown
            <4> HIDE DEF Only
            <4> QED BY <4>3, <4>4
        <3>3. CASE E > B
            <4>1. /\ B + 1 \in 1 .. Len(tokens) /\ B + 1 \in B .. E
                  /\ tokens[B + 1].tag = "text" /\ tokens[B + 1].line = tokens[B].line
                <5>1. B + 1 \in 1 .. Len(tokens) /\ B + 1 \in B .. E
                    BY <1>4, <3>3
                <5> QED BY <5>1, <1>3, <2>1, <2>6
            <4>2. E = B + 1
                <5>1. (B + 1) + 1 \in 1 .. Len(tokens) => tokens[(B + 1) + 1].tag = "newline"
                    BY <1>3, <4>1
                <5>2. (B + 1) + 1 \in B .. E => (B + 1) + 1 \in 1 .. Len(tokens)
                    BY <1>4
                <5>3. (B + 1) + 1 \notin B .. E
                    BY <5>1, <5>2
                <5> QED BY <5>3, <1>4, <3>3
            <4>3. /\ SubSeq(tokens, B + 1, E) = <<tokens[B + 1]>>
                  /\ <<tokens[B + 1]>> \in Seq(Token)
                BY <4>1, <4>2, <1>1, SingleEntry
            <4>4. \A U \in B .. E : U = B \/ U = B + 1
                BY <4>2, <1>4
            <4>5. /\ part.At = tokens[B + 1].line /\ part.At \in Nat
                  /\ part.Text = <<tokens[B + 1]>> /\ part.Text \in Seq(Token)
                <5>1. part.At = tokens[B].line /\ part.Text = SubSeq(tokens, B + 1, E)
                    <6> HIDE DEF s, Only
                    <6> QED BY <3>1
                <5>2. tokens[B].line \in Nat
                    BY <1>2, <2>1
                <5> QED BY <5>1, <5>2, <4>1, <4>3, Zenon
            <4>6. Only(B + 1)
                BY <4>1, <4>4, <4>5, <2>6 DEF IsShown
            <4> HIDE DEF Only
            <4> QED BY <4>1, <4>5, <4>6
        <3> QED BY <3>2, <3>3, <1>4, <1>6
    <2>7. tokens[B].tag \in {"stamp", "text", "newline", "piece"}
        BY <1>2, <2>1
    <2> QED BY <2>4, <2>5, <2>6, <2>7 DEF IsShown
<1> QED BY <1>4, <1>5, <1>6

LogLine == [At : Nat \cup {NoTime}, Stream : {"stdout", "stderr"}, Text : Seq(Token)]

\* This line is the text at position T, under its own time or none, and on the
\* output it is expected on.
From(line, T, tokens, mark) ==
    /\ IsShown(tokens[T]) /\ line.Text = <<tokens[T]>>
    /\ line.At \in {NoTime, tokens[T].line} /\ line.Stream = mark[T]

\* These lines are the texts at the positions from a to z, in their order, with
\* nothing else among them than empty lines.
Reads(lines, tokens, mark, a, z) ==
    /\ lines \in Seq(LogLine)
    /\ \A k \in DOMAIN lines :
         lines[k].Text = << >> \/ \E T \in a .. z : From(lines[k], T, tokens, mark)
    /\ \A k, l \in DOMAIN lines : \A T, U \in a .. z :
         k < l /\ From(lines[k], T, tokens, mark) /\ From(lines[l], U, tokens, mark) => T < U
    /\ \A T \in a .. z : IsShown(tokens[T]) =>
         \E k \in DOMAIN lines : From(lines[k], T, tokens, mark)

\* No two texts are the same.
LEMMA OneSource ==
    ASSUME NEW tokens, AreLines(tokens), NEW T \in DOMAIN tokens, NEW U \in DOMAIN tokens,
           IsShown(tokens[T]), IsShown(tokens[U]), <<tokens[T]>> = <<tokens[U]>>
    PROVE  T = U
<1>1. tokens[T] = tokens[U]
    OBVIOUS
<1>2. T \in Nat /\ U \in Nat /\ tokens[T].line \in Nat
    <2>1. tokens \in Seq(Token)
        BY DEF AreLines
    <2>2. T \in Nat /\ U \in Nat /\ tokens[T] \in Token
        BY <2>1, SequencePositions
    <2> QED BY <2>2 DEF Token
<1>3. /\ T < U => tokens[T].line < tokens[U].line
      /\ U < T => tokens[U].line < tokens[T].line
    BY DEF AreLines
<1> QED BY <1>1, <1>2, <1>3

\* A part of a part, which may be empty.
LEMMA PartOfPart ==
    ASSUME NEW S, NEW s \in Seq(S), NEW a \in 1 .. Len(s), NEW y \in a .. Len(s),
           NEW b \in 1 .. y - a + 2, NEW e \in b - 1 .. y - a + 1
    PROVE  SubSeq(SubSeq(s, a, y), b, e) = SubSeq(s, a + b - 1, a + e - 1)
<1>1. Len(s) \in Nat
    BY SequencePositions
<1>2. a \in Int /\ y \in Int /\ b \in Int /\ e \in Int /\ a + b - 1 \in Int /\ a + e - 1 \in Int
    BY <1>1
<1>3. CASE e < b
    <2>1. a + e - 1 < a + b - 1
        BY <1>2, <1>3
    <2> QED BY <1>2, <1>3, <2>1, SubSeqEmpty
<1>4. CASE e >= b
    <2>1. y \in 1 .. Len(s) /\ b \in 1 .. y - a + 1 /\ e \in 1 .. y - a + 1
        BY <1>1, <1>2, <1>4
    <2> QED BY <2>1, SubSeqOfSubSeq
<1> QED BY <1>2, <1>3, <1>4

\* What is between two newlines, as a line.
LineFrom(part, stream) ==
    [At |-> splitTimestamp(part).At, Stream |-> stream, Text |-> splitTimestamp(part).Text]

\* Splitting what has no newline at its end.
LEMMA TrimmedReads ==
    ASSUME NEW tokens, AreLines(tokens), NEW a \in 1 .. Len(tokens), NEW y \in a .. Len(tokens),
           NEW stream \in {"stdout", "stderr"}, NEW mark, \A T \in a .. y : mark[T] = stream,
           NEW parts, parts = SplitAtNewlines(SubSeq(tokens, a, y))
    PROVE  Reads([i \in DOMAIN parts |-> LineFrom(parts[i], stream)], tokens, mark, a, y)
<1>1. /\ tokens \in Seq(Token) /\ Len(tokens) \in Nat /\ DOMAIN tokens = 1 .. Len(tokens)
      /\ \A i \in DOMAIN tokens : tokens[i] \in Token
    BY SequencePositions DEF AreLines
<1> DEFINE t == SubSeq(tokens, a, y)
           n == y - a + 1
           newlines == {i \in 1 .. n : tokens[a + i - 1].tag = "newline"}
           P == {1} \cup {i + 1 : i \in newlines}
           lastof(b) == LastBefore(b, n, newlines)
           s == [b \in 1 .. n + 1 |-> SubSeq(t, b, lastof(b))]
           begin(b) == a + b - 1
           end(b) == a + lastof(b) - 1
           L(b) == LineFrom(s[b], stream)
<1>2. n \in Nat /\ a \in Nat /\ y \in Nat /\ n >= 1 /\ a >= 1 /\ y = a + n - 1 /\ y <= Len(tokens)
    BY <1>1
<1>3. t \in Seq(Token) /\ Len(t) = n /\ \A i \in 1 .. n : t[i] = tokens[a + i - 1]
    <2>1. \A i \in a .. y : tokens[i] \in Token
        BY <1>1, <1>2
    <2>2. a \in Int /\ y \in Int /\ a <= y /\ y - a + 1 = n
        BY <1>2
    <2> QED BY <2>1, <2>2, SubSeqProperties
<1>4. DOMAIN t = 1 .. n
    BY <1>3, SequencePositions
<1>5. parts = EntriesAt(s, P)
    <2>1. newlines = {i \in DOMAIN t : t[i].tag = "newline"}
        BY <1>3, <1>4
    <2> QED BY <2>1, <1>3 DEF SplitAtNewlines
<1>6. P \in SUBSET (1 .. n + 1) /\ 1 \in P
    BY <1>2
<1>7. ASSUME NEW b \in P
      PROVE  /\ lastof(b) \in b - 1 .. n /\ b \in 1 .. n + 1
             /\ \A i \in b .. lastof(b) : i \notin newlines
             /\ lastof(b) = n \/ lastof(b) + 1 \in newlines
    <2>1. n \in Nat /\ b \in 1 .. n + 1
        BY <1>2, <1>6
    <2> HIDE DEF n, newlines, P
    <2>2. /\ LastBefore(b, n, newlines) \in b - 1 .. n
          /\ \A i \in b .. LastBefore(b, n, newlines) : i \notin newlines
          /\ LastBefore(b, n, newlines) = n \/ LastBefore(b, n, newlines) + 1 \in newlines
        BY <2>1, LastBeforeIs
    <2> QED BY <2>1, <2>2
<1>8. ASSUME NEW b \in P
      PROVE  /\ begin(b) \in 1 .. Len(tokens) + 1 /\ end(b) \in begin(b) - 1 .. Len(tokens)
             /\ begin(b) >= a /\ end(b) <= y
             /\ \A i \in begin(b) .. end(b) : tokens[i].tag # "newline"
             /\ s[b] = SubSeq(tokens, begin(b), end(b))
    <2> DEFINE e == lastof(b)
    <2>1. /\ e \in b - 1 .. n /\ b \in 1 .. n + 1
          /\ \A i \in b .. e : i \notin newlines
        BY <1>7
    <2> HIDE DEF lastof
    <2>2. s[b] = SubSeq(t, b, e)
        BY <2>1
    <2>3. SubSeq(t, b, e) = SubSeq(tokens, a + b - 1, a + e - 1)
        <3>1. b \in 1 .. y - a + 2 /\ e \in b - 1 .. y - a + 1
            BY <2>1, <1>2
        <3>2. tokens \in Seq(Token) /\ a \in 1 .. Len(tokens) /\ y \in a .. Len(tokens)
            BY <1>1
        <3> HIDE DEF e, t, n, newlines, P, s, begin, end, L
        <3>3. SubSeq(SubSeq(tokens, a, y), b, e) = SubSeq(tokens, a + b - 1, a + e - 1)
            BY <3>1, <3>2, PartOfPart
        <3> QED BY <3>3 DEF t
    <2>4. /\ b \in Int /\ e \in Int /\ b >= 1 /\ b <= n + 1 /\ e >= b - 1 /\ e <= n
        BY <2>1, <1>2
    <2>5. \A i \in a + b - 1 .. a + e - 1 : tokens[i].tag # "newline"
        <3> SUFFICES ASSUME NEW i \in a + b - 1 .. a + e - 1 PROVE tokens[i].tag # "newline"
            OBVIOUS
        <3> DEFINE j == i - a + 1
        <3>1. j \in b .. e /\ a + j - 1 = i /\ j \in 1 .. n
            BY <1>2, <2>4
        <3>2. j \notin newlines
            BY <3>1, <2>1
        <3> HIDE DEF j
        <3> QED BY <3>1, <3>2
    <2>6. /\ a + b - 1 \in 1 .. Len(tokens) + 1 /\ a + e - 1 \in a + b - 1 - 1 .. Len(tokens)
          /\ a + b - 1 >= a /\ a + e - 1 <= y
        BY <1>1, <1>2, <2>4
    <2>7. begin(b) = a + b - 1 /\ end(b) = a + e - 1
        OBVIOUS
    <2> HIDE DEF begin, end, s, e, t
    <2> QED BY <2>2, <2>3, <2>5, <2>6, <2>7
<1>9. ASSUME NEW b \in P
      PROVE  /\ L(b) \in LogLine
             /\ \/ L(b).Text = << >>
                \/ \E T \in begin(b) .. end(b) : From(L(b), T, tokens, mark)
             /\ \A T \in begin(b) .. end(b) : IsShown(tokens[T]) => From(L(b), T, tokens, mark)
    <2> DEFINE part == splitTimestamp(s[b])
               B == begin(b)
               E == end(b)
    <2>1. /\ B \in 1 .. Len(tokens) + 1 /\ E \in B - 1 .. Len(tokens)
          /\ \A i \in B .. E : tokens[i].tag # "newline"
          /\ part = splitTimestamp(SubSeq(tokens, B, E))
          /\ B >= a /\ E <= y
        BY <1>8
    <2>2. L(b) = [At |-> part.At, Stream |-> stream, Text |-> part.Text]
        BY DEF LineFrom
    <2> HIDE DEF part, B, E, begin, end, s, L
    <2>3. /\ part.At \in Nat \cup {NoTime} /\ part.Text \in Seq(Token)
          /\ \/ part.Text = << >> /\ \A T \in B .. E : ~IsShown(tokens[T])
             \/ \E T \in B .. E :
                  /\ IsShown(tokens[T]) /\ part.Text = <<tokens[T]>>
                  /\ part.At \in {NoTime, tokens[T].line}
                  /\ \A U \in B .. E : IsShown(tokens[U]) => U = T
        <3> HIDE DEF n, newlines, P
        <3>1. ShowsOne(part, tokens, B, E)
            BY <2>1, PartShows
        <3> QED BY <3>1 DEF ShowsOne
    <2>4. /\ L(b) \in LogLine /\ L(b).At = part.At /\ L(b).Text = part.Text
          /\ L(b).Stream = stream
        BY <2>2, <2>3 DEF LogLine
    <2>5. CASE part.Text = << >> /\ \A T \in B .. E : ~IsShown(tokens[T])
        BY <2>4, <2>5 DEF B, E
    <2>6. CASE \E T \in B .. E :
                  /\ IsShown(tokens[T]) /\ part.Text = <<tokens[T]>>
                  /\ part.At \in {NoTime, tokens[T].line}
                  /\ \A U \in B .. E : IsShown(tokens[U]) => U = T
        <3>1. PICK T \in B .. E :
                  /\ IsShown(tokens[T]) /\ part.Text = <<tokens[T]>>
                  /\ part.At \in {NoTime, tokens[T].line}
                  /\ \A U \in B .. E : IsShown(tokens[U]) => U = T
            BY <2>6
        <3>2. T \in a .. y
            BY <2>1, <1>2
        <3>3. mark[T] = stream
            BY <3>2
        <3>4. From(L(b), T, tokens, mark)
            BY <3>1, <3>3, <2>4, Zenon DEF From
        <3> QED BY <3>1, <3>4, <2>4 DEF B, E
    <2> QED BY <2>3, <2>5, <2>6
\* A part ends before the newline in front of a later one.
<1>10. ASSUME NEW b \in P, NEW c \in P, b < c
       PROVE  end(b) < begin(c)
    <2>1. c - 1 \in newlines /\ c \in Nat /\ b \in Nat
        BY <1>10, <1>6, <1>2
    <2>2. lastof(b) \in Int
        BY <1>7, <1>2
    <2>3. ~(c - 1 \in b .. lastof(b))
        BY <1>7, <2>1
    <2> HIDE DEF lastof
    <2> QED BY <2>1, <2>2, <2>3, <1>2, <1>10
\* Every text is in some part.
<1>11. ASSUME NEW T \in a .. y, IsShown(tokens[T])
       PROVE  \E b \in P : T \in begin(b) .. end(b)
    <2> DEFINE i == T - a + 1
               b == IF T > a /\ tokens[T - 1].tag # "newline" THEN i - 1 ELSE i
    <2>1. i \in 1 .. n /\ T = a + i - 1 /\ T \in Nat
        BY <1>2
    <2>2. i \notin newlines
        BY <2>1, <1>11 DEF IsShown
    <2>3. b \in P /\ (b = i \/ (b = i - 1 /\ b \in 1 .. n /\ b \notin newlines))
        <3>1. CASE T = a
            BY <3>1, <2>1, <1>2
        <3>2. CASE T > a /\ tokens[T - 1].tag = "newline"
            <4>1. b = i
                BY <3>2
            <4> HIDE DEF b
            <4>2. i - 1 \in 1 .. n /\ a + (i - 1) - 1 = T - 1 /\ (i - 1) + 1 = i
                BY <3>2, <2>1, <1>2
            <4>3. i - 1 \in newlines
                BY <3>2, <4>2
            <4>4. i \in P
                BY <4>2, <4>3
            <4> QED BY <4>1, <4>4
        <3>3. CASE T > a /\ tokens[T - 1].tag # "newline"
            <4>1. /\ b = i - 1 /\ b \in 1 .. n /\ a + b - 1 = T - 1
                  /\ T - 1 \in 1 .. Len(tokens) /\ (T - 1) + 1 = T
                <5>1. b = i - 1
                    BY <3>3
                <5> HIDE DEF b
                <5> QED BY <5>1, <3>3, <2>1, <1>2
            <4>2. b \notin newlines
                BY <4>1, <3>3
            <4>3. tokens[T - 1].tag = "stamp"
                <5>1. tokens[T - 1].tag \in {"stamp", "text", "newline", "piece"}
                    BY <4>1, <1>1 DEF Token
                <5>2. /\ tokens[T - 1].tag = "text" => tokens[T].tag = "newline"
                      /\ tokens[T - 1].tag # "piece"
                    <6>1. \A u \in DOMAIN tokens : u + 1 \in DOMAIN tokens =>
                            /\ tokens[u].tag = "text" => tokens[u + 1].tag = "newline"
                            /\ tokens[u].tag # "piece"
                        BY DEF AreLines
                    <6>2. T - 1 \in DOMAIN tokens /\ (T - 1) + 1 \in DOMAIN tokens
                        BY <4>1, <1>1, <1>2
                    <6> QED BY <6>1, <6>2, <4>1
                <5> QED BY <5>1, <5>2, <3>3, <1>11 DEF IsShown
            <4>4. b = 1 \/ b - 1 \in newlines
                <5>1. CASE b = 1
                    BY <5>1
                <5>2. CASE b # 1
                    <6>1. /\ b - 1 \in 1 .. n /\ a + (b - 1) - 1 = T - 2
                          /\ T - 2 \in 1 .. Len(tokens) /\ (T - 2) + 1 = T - 1
                          /\ T - 1 \in 1 .. Len(tokens)
                        BY <5>2, <4>1, <2>1, <1>2
                    <6>2. tokens[T - 2].tag \in {"stamp", "text", "newline", "piece"}
                        BY <6>1, <1>1 DEF Token
                    <6>3. /\ tokens[T - 2].tag = "text" => tokens[T - 1].tag = "newline"
                          /\ tokens[T - 2].tag = "stamp" => tokens[T - 1].tag = "text"
                          /\ tokens[T - 2].tag # "piece"
                        BY <6>1, <1>1 DEF AreLines
                    <6>4. tokens[T - 2].tag = "newline"
                        BY <6>2, <6>3, <4>3
                    <6> QED BY <6>1, <6>4
                <5> QED BY <5>1, <5>2
            <4>5. b \in P
                <5>1. b - 1 \in newlines => (b - 1) + 1 \in P /\ (b - 1) + 1 = b
                    BY <4>1, <2>1
                <5> HIDE DEF b
                <5> QED BY <4>4, <5>1
            <4> QED BY <4>1, <4>2, <4>5
        <3> QED BY <3>1, <3>2, <3>3, <1>2
    <2>4. /\ lastof(b) \in b - 1 .. n /\ b \in 1 .. n + 1
          /\ lastof(b) = n \/ lastof(b) + 1 \in newlines
        BY <2>3, <1>7
    <2> HIDE DEF lastof, i, b, newlines, P, n
    <2>5. lastof(b) >= i
        BY <2>1, <2>2, <2>3, <2>4, <1>2
    <2>6. T \in begin(b) .. end(b)
        BY <2>1, <2>3, <2>4, <2>5, <1>2
    <2> QED BY <2>3, <2>6
<1> DEFINE N == Cardinality(P)
           lines == [i \in DOMAIN parts |-> LineFrom(parts[i], stream)]
<1>12. /\ N \in Nat /\ DOMAIN parts = 1 .. N
       /\ \A k \in 1 .. N : PlaceIn(P, k) \in P /\ parts[k] = s[PlaceIn(P, k)]
       /\ \A k, l \in 1 .. N : k < l => PlaceIn(P, k) < PlaceIn(P, l)
       /\ \A p \in P : \E k \in 1 .. N : PlaceIn(P, k) = p
    <2>1. n + 1 \in Nat
        BY <1>2
    <2> HIDE DEF s, P, n
    <2>2. P \in SUBSET (1 .. n + 1)
        BY <1>6
    <2> HIDE DEF N
    <2>3. /\ Cardinality(P) \in Nat /\ DOMAIN EntriesAt(s, P) = 1 .. Cardinality(P)
          /\ \A k \in 1 .. Cardinality(P) :
               PlaceIn(P, k) \in P /\ EntriesAt(s, P)[k] = s[PlaceIn(P, k)]
          /\ \A k, l \in 1 .. Cardinality(P) : k < l => PlaceIn(P, k) < PlaceIn(P, l)
          /\ \A p \in P : \E k \in 1 .. Cardinality(P) : PlaceIn(P, k) = p
        BY <2>1, <2>2, EntriesInOrder, Zenon
    <2> QED BY <1>5, <2>3 DEF N
<1>13. DOMAIN lines = 1 .. N /\ \A k \in 1 .. N : lines[k] = L(PlaceIn(P, k))
    <2> HIDE DEF s, P, N
    <2> QED BY <1>12
<1> HIDE DEF s, P, N, L, lines, begin, end, t, n, newlines, lastof
<1>14. lines \in Seq(LogLine)
    <2>1. \A k \in 1 .. N : lines[k] \in LogLine
        BY <1>9, <1>12, <1>13
    <2>2. lines \in [1 .. N -> LogLine]
        BY <2>1, <1>13 DEF lines
    <2> QED BY <2>2, <1>12, FunctionIsSequence
<1>15. ASSUME NEW k \in DOMAIN lines
       PROVE  lines[k].Text = << >> \/ \E T \in a .. y : From(lines[k], T, tokens, mark)
    <2> DEFINE b == PlaceIn(P, k)
    <2>1. b \in P /\ lines[k] = L(b)
        BY <1>12, <1>13
    <2> HIDE DEF b
    <2>2. \A T \in begin(b) .. end(b) : T \in a .. y
        <3>1. begin(b) \in Int /\ end(b) \in Int /\ begin(b) >= a /\ end(b) <= y
            BY <2>1, <1>1, <1>8
        <3> QED BY <3>1, <1>2
    <2> QED BY <2>1, <2>2, <1>9
<1>16. ASSUME NEW T \in a .. y, IsShown(tokens[T])
       PROVE  \E k \in DOMAIN lines : From(lines[k], T, tokens, mark)
    <2>1. PICK b \in P : T \in begin(b) .. end(b)
        BY <1>11, <1>16
    <2>2. From(L(b), T, tokens, mark)
        BY <2>1, <1>9, <1>16
    <2>3. PICK k \in 1 .. N : PlaceIn(P, k) = b
        BY <1>12
    <2>4. k \in DOMAIN lines /\ lines[k] = L(b)
        BY <2>3, <1>13
    <2> QED BY <2>2, <2>4
<1>17. ASSUME NEW k \in DOMAIN lines, NEW T \in a .. y, From(lines[k], T, tokens, mark)
       PROVE  T \in begin(PlaceIn(P, k)) .. end(PlaceIn(P, k))
    <2> DEFINE b == PlaceIn(P, k)
    <2>1. b \in P /\ lines[k] = L(b)
        BY <1>12, <1>13
    <2> HIDE DEF b
    <2>2. IsShown(tokens[T]) /\ lines[k].Text = <<tokens[T]>>
        BY <1>17 DEF From
    <2>3. lines[k].Text # << >>
        BY <2>2
    <2>4. PICK U \in begin(b) .. end(b) : From(L(b), U, tokens, mark)
        BY <2>1, <2>3, <1>9
    <2>5. IsShown(tokens[U]) /\ lines[k].Text = <<tokens[U]>>
        BY <2>1, <2>4 DEF From
    <2>6. T \in DOMAIN tokens /\ U \in DOMAIN tokens
        <3>1. begin(b) \in Int /\ end(b) \in Int /\ begin(b) >= a /\ end(b) <= y
            BY <2>1, <1>1, <1>8
        <3> QED BY <3>1, <1>1, <1>2
    <2>7. T = U
        BY <2>2, <2>5, <2>6, OneSource, Zenon
    <2> QED BY <2>4, <2>7 DEF b
<1>18. ASSUME NEW k \in DOMAIN lines, NEW l \in DOMAIN lines, NEW T \in a .. y, NEW U \in a .. y,
              k < l, From(lines[k], T, tokens, mark), From(lines[l], U, tokens, mark)
       PROVE  T < U
    <2>1. T \in begin(PlaceIn(P, k)) .. end(PlaceIn(P, k))
        BY <1>17, <1>18
    <2>2. U \in begin(PlaceIn(P, l)) .. end(PlaceIn(P, l))
        BY <1>17, <1>18
    <2> DEFINE b == PlaceIn(P, k)
               c == PlaceIn(P, l)
    <2>3. b \in P /\ c \in P /\ b < c
        BY <1>12, <1>13, <1>18
    <2> HIDE DEF b, c
    <2>4. end(b) < begin(c)
        BY <2>3, <1>10
    <2>5. begin(c) \in Int /\ end(b) \in Int
        BY <2>3, <1>1, <1>8
    <2> QED BY <2>1, <2>2, <2>4, <2>5, <1>2 DEF b, c
<1>19. Reads(lines, tokens, mark, a, y)
    BY <1>14, <1>15, <1>16, <1>18 DEF Reads
<1> QED BY <1>19 DEF lines

\* Where there is no text, nothing is read.
LEMMA NothingReads ==
    ASSUME NEW tokens, NEW mark, NEW a, NEW z, \A T \in a .. z : ~IsShown(tokens[T])
    PROVE  Reads(<< >>, tokens, mark, a, z)
<1>1. << >> \in Seq(LogLine)
    BY EmptySeq
<1>2. DOMAIN << >> = {}
    OBVIOUS
<1> QED BY <1>1, <1>2 DEF Reads

\* Positions without text may be added at the end.
LEMMA ReadsFurther ==
    ASSUME NEW lines, NEW tokens, NEW mark, NEW a \in Int, NEW y \in Int, NEW z \in Int, y <= z,
           Reads(lines, tokens, mark, a, y), \A T \in y + 1 .. z : ~IsShown(tokens[T])
    PROVE  Reads(lines, tokens, mark, a, z)
<1>1. \A T \in a .. y : T \in a .. z
    OBVIOUS
<1>2. \A T \in a .. z : IsShown(tokens[T]) => T \in a .. y
    OBVIOUS
<1>3. \A k \in DOMAIN lines : \A T \in a .. z : From(lines[k], T, tokens, mark) => T \in a .. y
    BY <1>2 DEF From
<1>4. lines \in Seq(LogLine)
    BY DEF Reads
<1>5. \A k \in DOMAIN lines :
         lines[k].Text = << >> \/ \E T \in a .. z : From(lines[k], T, tokens, mark)
    BY <1>1 DEF Reads
<1>6. \A k, l \in DOMAIN lines : \A T, U \in a .. z :
         k < l /\ From(lines[k], T, tokens, mark) /\ From(lines[l], U, tokens, mark) => T < U
    BY <1>3 DEF Reads
<1>7. \A T \in a .. z : IsShown(tokens[T]) =>
         \E k \in DOMAIN lines : From(lines[k], T, tokens, mark)
    BY <1>2 DEF Reads
<1> QED BY <1>4, <1>5, <1>6, <1>7 DEF Reads

(* What was written from a to z is read from a payload that has just that    *)
(* (splitLines).                                                             *)
LEMMA SplitReads ==
    ASSUME NEW tokens, AreLines(tokens), NEW a \in 1 .. Len(tokens) + 1,
           NEW z \in a - 1 .. Len(tokens),
           NEW stream \in {"stdout", "stderr"}, NEW mark, \A T \in a .. z : mark[T] = stream
    PROVE  Reads(splitLines(SubSeq(tokens, a, z), stream), tokens, mark, a, z)
<1>1. /\ tokens \in Seq(Token) /\ Len(tokens) \in Nat /\ DOMAIN tokens = 1 .. Len(tokens)
      /\ \A i \in DOMAIN tokens : tokens[i] \in Token
    BY SequencePositions DEF AreLines
<1>2. a \in Nat /\ z \in Int /\ a >= 1 /\ z <= Len(tokens) /\ z >= a - 1
    BY <1>1
<1> DEFINE payload == SubSeq(tokens, a, z)
           trimmed == IF payload # << >> /\ Last(payload).tag = "newline"
                      THEN Front(payload) ELSE payload
           parts == SplitAtNewlines(trimmed)
           lines == [i \in DOMAIN parts |-> LineFrom(parts[i], stream)]
<1>3. splitLines(payload, stream) = IF trimmed = << >> THEN << >> ELSE lines
    BY DEF splitLines, LineFrom
\* What is left has everything but the newline at the end.
<1>4. \E y \in a - 1 .. z : /\ trimmed = SubSeq(tokens, a, y)
                            /\ \A T \in y + 1 .. z : ~IsShown(tokens[T])
    <2>1. CASE z = a - 1
        <3>1. payload = << >>
            BY <1>2, <2>1, SubSeqEmpty
        <3>2. trimmed = payload
            BY <3>1
        <3>3. z \in a - 1 .. z /\ \A T : T \notin z + 1 .. z
            BY <1>2
        <3> HIDE DEF trimmed
        <3> QED BY <3>2, <3>3
    <2>2. CASE z >= a
        <3>1. payload \in Seq(Token) /\ Len(payload) = z - a + 1 /\ payload[z - a + 1] = tokens[z]
            <4>1. \A i \in a .. z : tokens[i] \in Token
                BY <1>1, <1>2
            <4>2. /\ payload \in Seq(Token) /\ Len(payload) = z - a + 1
                  /\ \A i \in 1 .. z - a + 1 : payload[i] = tokens[a + i - 1]
                BY <4>1, <1>2, <2>2, SubSeqProperties
            <4>3. z - a + 1 \in 1 .. z - a + 1 /\ a + (z - a + 1) - 1 = z
                BY <1>2, <2>2
            <4> HIDE DEF payload
            <4> QED BY <4>2, <4>3
        <3>2. payload # << >> /\ Last(payload) = tokens[z]
            <4> HIDE DEF payload
            <4> QED BY <3>1, <1>2, <2>2, EmptySeq DEF Last
        <3>3. CASE tokens[z].tag = "newline"
            <4>1. trimmed = Front(payload)
                BY <3>2, <3>3
            <4>2. Front(payload) = SubSeq(payload, 1, z - a)
                <5>1. Len(payload) - 1 = z - a
                    BY <3>1, <1>2
                <5> QED BY <5>1 DEF Front
            <4>3. SubSeq(payload, 1, z - a) = SubSeq(tokens, a + 1 - 1, a + (z - a) - 1)
                <5>1. /\ a \in 1 .. Len(tokens) /\ z \in a .. Len(tokens)
                      /\ 1 \in 1 .. z - a + 2 /\ z - a \in 1 - 1 .. z - a + 1
                    BY <1>1, <1>2, <2>2
                <5> QED BY <5>1, <1>1, PartOfPart
            <4>4. a + 1 - 1 = a /\ a + (z - a) - 1 = z - 1 /\ z - 1 \in a - 1 .. z
                BY <1>2, <2>2
            <4>5. trimmed = SubSeq(tokens, a, z - 1)
                <5> HIDE DEF trimmed, payload
                <5> QED BY <4>1, <4>2, <4>3, <4>4
            <4>6. \A T \in (z - 1) + 1 .. z : T = z
                BY <1>2
            <4>7. \A T \in (z - 1) + 1 .. z : ~IsShown(tokens[T])
                BY <4>6, <3>3 DEF IsShown
            <4> HIDE DEF trimmed, payload
            <4> QED BY <4>4, <4>5, <4>7
        <3>4. CASE tokens[z].tag # "newline"
            <4>1. trimmed = payload
                BY <3>2, <3>4
            <4>2. z \in a - 1 .. z /\ \A T : T \notin z + 1 .. z
                BY <1>2
            <4> HIDE DEF trimmed
            <4> QED BY <4>1, <4>2
        <3> QED BY <3>3, <3>4
    <2>3. z = a - 1 \/ z >= a
        BY <1>2
    <2> HIDE DEF trimmed
    <2> QED BY <2>1, <2>2, <2>3, Zenon
<1>5. PICK y \in a - 1 .. z : /\ trimmed = SubSeq(tokens, a, y)
                              /\ \A T \in y + 1 .. z : ~IsShown(tokens[T])
    BY <1>4
<1>6. y \in Int /\ y <= z /\ y >= a - 1
    BY <1>2
<1>7. CASE trimmed = << >>
    <2>1. y = a - 1
        <3>1. \A i \in a .. y : tokens[i] \in Token
            BY <1>1, <1>2, <1>6
        <3>2. a <= y => Len(SubSeq(tokens, a, y)) = y - a + 1
            BY <3>1, <1>2, <1>6, SubSeqProperties
        <3>3. Len(SubSeq(tokens, a, y)) = 0
            <4> HIDE DEF trimmed
            <4> QED BY <1>5, <1>7, EmptySeq
        <3> QED BY <3>2, <3>3, <1>2, <1>6
    <2>2. \A T \in a .. z : ~IsShown(tokens[T])
        BY <2>1, <1>5, <1>2
    <2>3. Reads(<< >>, tokens, mark, a, z)
        BY <2>2, NothingReads
    <2> QED BY <2>3, <1>3, <1>7
<1>8. CASE trimmed # << >>
    <2>1. y >= a
        <3>1. y < a => SubSeq(tokens, a, y) = << >>
            BY <1>2, <1>6, SubSeqEmpty
        <3> QED BY <3>1, <1>2, <1>5, <1>6, <1>8
    <2>2. a \in 1 .. Len(tokens) /\ y \in a .. Len(tokens)
        BY <1>1, <1>2, <1>6, <2>1
    <2>3. parts = SplitAtNewlines(SubSeq(tokens, a, y))
        BY <1>5
    <2>4. \A T \in a .. y : mark[T] = stream
        BY <1>2, <1>6
    <2>5. Reads(lines, tokens, mark, a, y)
        <3> HIDE DEF parts
        <3> QED BY <2>2, <2>3, <2>4, TrimmedReads
    <2> HIDE DEF lines
    <2>6. Reads(lines, tokens, mark, a, z)
        BY <2>5, <1>2, <1>5, <1>6, ReadsFurther
    <2> QED BY <2>6, <1>3, <1>8
<1> QED BY <1>7, <1>8

(* Blocks read one after the other are read as one (the loop of             *)
(* readMultiplexedLog).                                                      *)
LEMMA BlocksRead ==
    ASSUME NEW tokens, AreLines(tokens), NEW mark, NEW a \in 1 .. Len(tokens) + 1,
           NEW z \in a - 1 .. Len(tokens), NEW blocks, NEW first, NEW last,
           NEW N \in Nat, DOMAIN blocks = 1 .. N, blocks \in Seq(Seq(LogLine)),
           \A i \in 1 .. N : /\ first[i] \in Int /\ last[i] \in Int
                             /\ a <= first[i] /\ last[i] <= z
                             /\ Reads(blocks[i], tokens, mark, first[i], last[i]),
           \A i, j \in 1 .. N : i < j => last[i] < first[j],
           \A T \in a .. z : IsShown(tokens[T]) => \E i \in 1 .. N : T \in first[i] .. last[i]
    PROVE  Reads(FlattenSeq(blocks), tokens, mark, a, z)
<1> DEFINE whole == FlattenSeq(blocks)
<1>1. /\ Len(tokens) \in Nat /\ DOMAIN tokens = 1 .. Len(tokens)
    BY SequencePositions DEF AreLines
<1>2. a \in Nat /\ a >= 1 /\ z \in Int /\ z <= Len(tokens)
    BY <1>1
<1>3. Len(blocks) = N
    BY SequencePositions
<1>4. whole \in Seq(LogLine)
    BY FlattenToSet
<1>5. PICK home, col : Runs(home, col, whole, blocks, N)
    BY <1>3, FlattenRuns
<1> HIDE DEF whole
<1>6. ASSUME NEW k \in DOMAIN whole
      PROVE  /\ home[k] \in 1 .. N /\ col[k] \in DOMAIN blocks[home[k]]
             /\ whole[k] = blocks[home[k]][col[k]]
             /\ \A T \in first[home[k]] .. last[home[k]] : T \in a .. z /\ T \in DOMAIN tokens
    <2>1. /\ home[k] \in 1 .. N /\ col[k] \in DOMAIN blocks[home[k]]
          /\ whole[k] = blocks[home[k]][col[k]]
        BY <1>5 DEF Runs
    <2>2. \A T \in first[home[k]] .. last[home[k]] : T \in a .. z /\ T \in DOMAIN tokens
        BY <2>1, <1>1, <1>2
    <2> QED BY <2>1, <2>2
<1>7. ASSUME NEW k \in DOMAIN whole
      PROVE  \/ whole[k].Text = << >>
             \/ \E T \in first[home[k]] .. last[home[k]] : From(whole[k], T, tokens, mark)
    <2> DEFINE i == home[k]
               j == col[k]
    <2>1. i \in 1 .. N /\ j \in DOMAIN blocks[i] /\ whole[k] = blocks[i][j]
        BY <1>6
    <2> HIDE DEF i, j
    <2>2. Reads(blocks[i], tokens, mark, first[i], last[i])
        BY <2>1
    <2>3. \/ blocks[i][j].Text = << >>
          \/ \E T \in first[i] .. last[i] : From(blocks[i][j], T, tokens, mark)
        BY <2>1, <2>2 DEF Reads
    <2> QED BY <2>1, <2>3 DEF i
<1>8. ASSUME NEW k \in DOMAIN whole, NEW T \in a .. z, From(whole[k], T, tokens, mark)
      PROVE  T \in first[home[k]] .. last[home[k]]
    <2>1. IsShown(tokens[T]) /\ whole[k].Text = <<tokens[T]>> /\ T \in DOMAIN tokens
        BY <1>1, <1>2, <1>8 DEF From
    <2>2. whole[k].Text # << >>
        BY <2>1
    <2>3. PICK U \in first[home[k]] .. last[home[k]] : From(whole[k], U, tokens, mark)
        BY <1>7, <2>2
    <2>4. IsShown(tokens[U]) /\ whole[k].Text = <<tokens[U]>> /\ U \in DOMAIN tokens
        BY <2>3, <1>6 DEF From
    <2>5. T = U
        BY <2>1, <2>4, OneSource, Zenon
    <2> QED BY <2>3, <2>5
<1>9. ASSUME NEW k \in DOMAIN whole, NEW l \in DOMAIN whole, NEW T \in a .. z, NEW U \in a .. z,
             k < l, From(whole[k], T, tokens, mark), From(whole[l], U, tokens, mark)
      PROVE  T < U
    <2>1. T \in first[home[k]] .. last[home[k]] /\ U \in first[home[l]] .. last[home[l]]
        BY <1>8, <1>9
    <2>2. home[k] < home[l] \/ (home[k] = home[l] /\ col[k] < col[l])
        BY <1>5, <1>9 DEF Runs
    <2>3. home[k] \in 1 .. N /\ home[l] \in 1 .. N
        BY <1>6
    <2>4. CASE home[k] < home[l]
        <3>1. last[home[k]] < first[home[l]]
            BY <2>3, <2>4
        <3>2. last[home[k]] \in Int /\ first[home[l]] \in Int /\ T \in Int /\ U \in Int
            BY <2>3, <1>2
        <3>3. T <= last[home[k]] /\ first[home[l]] <= U
            BY <2>1
        <3> QED BY <3>1, <3>2, <3>3
    <2>5. CASE home[k] = home[l] /\ col[k] < col[l]
        <3> DEFINE i == home[k]
        <3>1. /\ i \in 1 .. N /\ Reads(blocks[i], tokens, mark, first[i], last[i])
              /\ col[k] \in DOMAIN blocks[i] /\ col[l] \in DOMAIN blocks[i]
              /\ whole[k] = blocks[i][col[k]] /\ whole[l] = blocks[i][col[l]]
              /\ T \in first[i] .. last[i] /\ U \in first[i] .. last[i]
            BY <1>6, <2>1, <2>5
        <3> HIDE DEF i
        <3> QED BY <3>1, <2>5, <1>9 DEF Reads
    <2> QED BY <2>2, <2>4, <2>5
<1>10. ASSUME NEW T \in a .. z, IsShown(tokens[T])
       PROVE  \E k \in DOMAIN whole : From(whole[k], T, tokens, mark)
    <2>1. PICK i \in 1 .. N : T \in first[i] .. last[i]
        BY <1>10
    <2>2. PICK j \in DOMAIN blocks[i] : From(blocks[i][j], T, tokens, mark)
        BY <2>1, <1>10 DEF Reads
    <2>3. PICK k \in DOMAIN whole : home[k] = i /\ col[k] = j
        BY <1>5 DEF Runs
    <2>4. whole[k] = blocks[i][j]
        BY <2>3, <1>6
    <2> QED BY <2>2, <2>4
<1>11. Reads(whole, tokens, mark, a, z)
    <2>1. \A k \in DOMAIN whole :
             whole[k].Text = << >> \/ \E T \in a .. z : From(whole[k], T, tokens, mark)
        BY <1>6, <1>7
    <2> QED BY <1>4, <1>9, <1>10, <2>1 DEF Reads
<1> QED BY <1>11 DEF whole

\* The outputs the texts of a container without a terminal were written on.
Marks(tokens) == [T \in DOMAIN tokens |-> streamOf(KindOf(tokens[T].line))]

LEMMA StreamKnown ==
    ASSUME NEW kind
    PROVE  streamOf(kind) \in {"stdout", "stderr"}
BY DEF streamOf

\* One line has a timestamp and a text on one output.
LEMMA OutputAreLines ==
    ASSUME NEW last \in Nat, NEW tail \in Nat \ {0}
    PROVE  /\ AreLines(Output(last, tail))
           /\ \A T \in DOMAIN Output(last, tail) :
                Output(last, tail)[T].tag = "text" =>
                    Output(last, tail)[T].line \in 1 .. last
           /\ \A T \in DOMAIN Output(last, tail) : Output(last, tail)[T].tag # "piece"
           /\ \A T \in DOMAIN Output(last, tail) :
                Output(last, tail)[T].tag = "stamp" => T + 1 \in DOMAIN Output(last, tail)
           /\ \A line \in 1 .. last :
                \/ \E T \in DOMAIN Output(last, tail) : Output(last, tail)[T] = Text(line)
                \/ line <= last - tail
           /\ \A n \in 1 .. tail : last > tail =>
                \E T \in DOMAIN Output(last, tail) :
                    Output(last, tail)[T] = Text(last - tail + n)
<1> DEFINE from == IF last > tail THEN last - tail + 1 ELSE 1
           count == last - from + 1
           len == 3 * count
           tokens == Output(last, tail)
           lineat(i) == from + (i - 1) \div 3
<1>1. from \in Nat \ {0} /\ count \in Nat /\ len \in Nat /\ count = last - from + 1
    OBVIOUS
<1>2. tokens = [i \in 1 .. len |-> CASE i % 3 = 1 -> Stamp(lineat(i))
                                     [] i % 3 = 2 -> Text(lineat(i))
                                     [] OTHER -> Newline(lineat(i))]
    BY DEF Output
<1>3. last > tail => from = last - tail + 1
    OBVIOUS
<1>4. ~(last > tail) => from = 1
    OBVIOUS
<1> HIDE DEF from, count, len, tokens
<1>5. ASSUME NEW i \in 1 .. len
      PROVE  /\ lineat(i) \in Nat /\ lineat(i) \in from .. last
             /\ i % 3 = 1 => tokens[i] = [tag |-> "stamp", line |-> lineat(i)]
             /\ i % 3 = 2 => tokens[i] = [tag |-> "text", line |-> lineat(i)]
             /\ i % 3 = 0 => tokens[i] = [tag |-> "newline", line |-> lineat(i)]
             /\ i % 3 = 0 \/ i % 3 = 1 \/ i % 3 = 2
             /\ tokens[i].line = lineat(i)
             /\ tokens[i].tag = (IF i % 3 = 1 THEN "stamp"
                                 ELSE IF i % 3 = 2 THEN "text" ELSE "newline")
             /\ tokens[i] \in Token
    <2>1. lineat(i) \in Nat /\ lineat(i) \in from .. last
        BY <1>1 DEF len
    <2>2. i % 3 = 0 \/ i % 3 = 1 \/ i % 3 = 2
        BY <1>1
    <2> HIDE DEF lineat
    <2>3. /\ i % 3 = 1 => tokens[i] = [tag |-> "stamp", line |-> lineat(i)]
          /\ i % 3 = 2 => tokens[i] = [tag |-> "text", line |-> lineat(i)]
          /\ i % 3 = 0 => tokens[i] = [tag |-> "newline", line |-> lineat(i)]
        BY <1>2, <2>1, <2>2 DEF Stamp, Text, Newline
    <2>4. CASE i % 3 = 1
        BY <2>1, <2>3, <2>4 DEF Token
    <2>5. CASE i % 3 = 2
        BY <2>1, <2>3, <2>5 DEF Token
    <2>6. CASE i % 3 = 0
        BY <2>1, <2>3, <2>6 DEF Token
    <2> QED BY <2>2, <2>4, <2>5, <2>6
<1>6. DOMAIN tokens = 1 .. len /\ \A i \in 1 .. len : tokens[i] \in Token
    <2>1. DOMAIN tokens = 1 .. len
        BY <1>2
    <2> HIDE DEF lineat
    <2>2. ASSUME NEW i \in 1 .. len PROVE tokens[i] \in Token
        BY <1>5
    <2> QED BY <2>1, <2>2
<1>7. tokens \in Seq(Token)
    <2>1. tokens \in [1 .. len -> Token]
        BY <1>6, <1>2
    <2> QED BY <2>1, <1>1, FunctionIsSequence
<1>8. \A i \in 1 .. len : /\ tokens[i].tag = "stamp" <=> i % 3 = 1
                          /\ tokens[i].tag = "text" <=> i % 3 = 2
                          /\ tokens[i].tag = "newline" <=> i % 3 = 0
                          /\ tokens[i].line = lineat(i)
                          /\ i % 3 = 2 => tokens[i] = Text(lineat(i))
    <2> SUFFICES ASSUME NEW i \in 1 .. len
                 PROVE  /\ tokens[i].tag = "stamp" <=> i % 3 = 1
                        /\ tokens[i].tag = "text" <=> i % 3 = 2
                        /\ tokens[i].tag = "newline" <=> i % 3 = 0
                        /\ tokens[i].line = lineat(i)
                        /\ i % 3 = 2 => tokens[i] = Text(lineat(i))
        OBVIOUS
    <2> HIDE DEF lineat
    <2>1. i % 3 = 2 => tokens[i] = Text(lineat(i))
        BY <1>5 DEF Text
    <2> DEFINE r == i % 3
    <2>2. r = 0 \/ r = 1 \/ r = 2
        BY <1>5
    <2>3. /\ tokens[i].tag = (IF r = 1 THEN "stamp" ELSE IF r = 2 THEN "text" ELSE "newline")
          /\ tokens[i].line = lineat(i)
        BY <1>5
    <2> HIDE DEF r
    <2>4. /\ tokens[i].tag = "stamp" <=> r = 1
          /\ tokens[i].tag = "text" <=> r = 2
          /\ tokens[i].tag = "newline" <=> r = 0
        BY <2>2, <2>3
    <2> QED BY <2>1, <2>3, <2>4 DEF r
<1>9. \A i \in 1 .. len : i + 1 \in 1 .. len =>
        /\ i % 3 = 1 => (i + 1) % 3 = 2 /\ lineat(i + 1) = lineat(i)
        /\ i % 3 = 2 => (i + 1) % 3 = 0
        /\ i % 3 = 0 => (i + 1) % 3 = 1
    BY <1>1
<1>10. \A i, j \in 1 .. len : i % 3 = 2 /\ j % 3 = 2 /\ i < j => lineat(i) < lineat(j)
    BY <1>1
<1>11. \A line \in from .. last :
         \E T \in 1 .. len : T % 3 = 2 /\ lineat(T) = line
    <2> SUFFICES ASSUME NEW line \in from .. last
                 PROVE  \E T \in 1 .. len : T % 3 = 2 /\ lineat(T) = line
        OBVIOUS
    <2> DEFINE T == 3 * (line - from) + 2
    <2>1. T \in 1 .. len
        BY <1>1 DEF len
    <2>2. T % 3 = 2 /\ (T - 1) \div 3 = line - from
        BY <1>1
    <2>3. lineat(T) = line
        BY <2>2, <1>1
    <2> QED BY <2>1, <2>2, <2>3
<1> HIDE DEF lineat
<1>12. AreLines(tokens)
    <2>1. \A i \in DOMAIN tokens : tokens[i].tag # "piece"
        BY <1>5, <1>6
    <2>2. \A i \in DOMAIN tokens : i + 1 \in DOMAIN tokens =>
             /\ tokens[i].tag = "stamp" => /\ tokens[i + 1].tag = "text"
                                           /\ tokens[i + 1].line = tokens[i].line
             /\ tokens[i].tag = "text" => tokens[i + 1].tag = "newline"
             /\ tokens[i].tag = "newline" => tokens[i + 1].tag \in {"stamp", "piece"}
        BY <1>6, <1>8, <1>9
    <2>3. \A i, j \in DOMAIN tokens :
             IsShown(tokens[i]) /\ IsShown(tokens[j]) /\ i < j
                 => tokens[i].line < tokens[j].line
        BY <2>1, <1>6, <1>8, <1>10 DEF IsShown
    <2> QED BY <1>7, <2>1, <2>2, <2>3 DEF AreLines
<1>13. \A line \in from .. last : \E T \in DOMAIN tokens : tokens[T] = Text(line)
    BY <1>6, <1>8, <1>11
<1>14. \A T \in DOMAIN tokens : tokens[T].tag = "text" => tokens[T].line \in 1 .. last
    BY <1>1, <1>5, <1>6, <1>8
<1>15. \A line \in 1 .. last : line \in from .. last \/ line <= last - tail
    BY <1>3, <1>4
<1>16. \A n \in 1 .. tail : last > tail => last - tail + n \in from .. last
    BY <1>3
<1>17. \A i \in 1 .. len : i % 3 = 1 => i + 1 \in 1 .. len
    BY <1>1 DEF len
<1>18. \A T \in DOMAIN tokens : tokens[T].tag = "stamp" => T + 1 \in DOMAIN tokens
    BY <1>6, <1>8, <1>17
<1>19. \A T \in DOMAIN tokens : tokens[T].tag # "piece"
    BY <1>5, <1>6
<1> QED BY <1>12, <1>13, <1>14, <1>15, <1>16, <1>18, <1>19 DEF tokens

\* What arrives is again such lines, and what is shown of it was sent, unless it
\* is the piece of a timestamp at the end of a log that was cut.
Arrived(arrived, tokens) ==
    /\ AreLines(arrived) /\ Len(arrived) \in 0 .. Len(tokens)
    /\ \A i \in DOMAIN arrived : arrived[i].line = tokens[i].line
    /\ \A i \in DOMAIN arrived :
         arrived[i].tag = "piece" => i = Len(arrived) /\ arrived # tokens

LEMMA ArrivalArrived ==
    ASSUME NEW tokens, AreLines(tokens), NEW arrived \in Arrivals(tokens),
           \A T \in DOMAIN tokens : tokens[T].tag # "piece",
           \A T \in DOMAIN tokens : tokens[T].tag = "stamp" => T + 1 \in DOMAIN tokens
    PROVE  Arrived(arrived, tokens)
<1>1. /\ tokens \in Seq(Token) /\ Len(tokens) \in Nat /\ DOMAIN tokens = 1 .. Len(tokens)
      /\ \A i \in DOMAIN tokens : tokens[i] \in Token
    BY SequencePositions DEF AreLines
<1>2. \A i \in DOMAIN tokens : i + 1 \in DOMAIN tokens =>
         /\ tokens[i].tag = "stamp" => /\ tokens[i + 1].tag = "text"
                                       /\ tokens[i + 1].line = tokens[i].line
         /\ tokens[i].tag = "text" => tokens[i + 1].tag = "newline"
         /\ tokens[i].tag = "newline" => tokens[i + 1].tag \in {"stamp", "piece"}
         /\ tokens[i].tag # "piece"
    BY DEF AreLines
<1>3. \A i, j \in DOMAIN tokens : IsShown(tokens[i]) /\ IsShown(tokens[j]) /\ i < j
                                     => tokens[i].line < tokens[j].line
    BY DEF AreLines
\* The tokens up to some position.
<1>4. ASSUME NEW n \in 0 .. Len(tokens)
      PROVE  /\ SubSeq(tokens, 1, n) \in Seq(Token) /\ Len(SubSeq(tokens, 1, n)) = n
             /\ \A i \in 1 .. n : SubSeq(tokens, 1, n)[i] = tokens[i] /\ i \in DOMAIN tokens
    <2>1. n \in Int /\ \A i \in 1 .. n : i \in DOMAIN tokens /\ tokens[i] \in Token
        BY <1>1
    <2>2. CASE n = 0
        BY <2>2, SubSeqEmpty, EmptySeq
    <2>3. CASE n # 0
        <3>1. 1 \in Int /\ 1 <= n /\ n - 1 + 1 = n
            BY <2>1, <2>3
        <3>2. /\ SubSeq(tokens, 1, n) \in Seq(Token) /\ Len(SubSeq(tokens, 1, n)) = n - 1 + 1
              /\ \A i \in 1 .. n - 1 + 1 : SubSeq(tokens, 1, n)[i] = tokens[1 + i - 1]
            BY <2>1, <3>1, SubSeqProperties
        <3>3. \A i \in 1 .. n : 1 + i - 1 = i
            BY <2>1
        <3> QED BY <2>1, <3>1, <3>2, <3>3
    <2> QED BY <2>2, <2>3
<1>5. CASE arrived \in {SubSeq(tokens, 1, n) : n \in 0 .. Len(tokens)}
    <2>1. PICK n \in 0 .. Len(tokens) : arrived = SubSeq(tokens, 1, n)
        BY <1>5
    <2>2. /\ arrived \in Seq(Token) /\ Len(arrived) = n /\ DOMAIN arrived = 1 .. n
          /\ \A i \in DOMAIN arrived : arrived[i] = tokens[i] /\ i \in DOMAIN tokens
        BY <1>4, <2>1, SequencePositions
    <2>3. AreLines(arrived)
        BY <1>2, <1>3, <2>2 DEF AreLines
    <2> QED BY <2>2, <2>3 DEF Arrived
<1>6. CASE arrived \in {Append(SubSeq(tokens, 1, n - 1), Piece(tokens[n].line)) :
                           n \in {i \in DOMAIN tokens : tokens[i].tag = "stamp"}}
    <2>1. PICK n \in DOMAIN tokens :
            /\ tokens[n].tag = "stamp"
            /\ arrived = Append(SubSeq(tokens, 1, n - 1), Piece(tokens[n].line))
        BY <1>6
    <2> DEFINE s == SubSeq(tokens, 1, n - 1)
               piece == Piece(tokens[n].line)
    <2>2. n \in 1 .. Len(tokens) /\ n \in Nat /\ n - 1 \in 0 .. Len(tokens) /\ n - 1 \in Nat
        BY <1>1
    <2>3. /\ s \in Seq(Token) /\ Len(s) = n - 1
          /\ \A i \in 1 .. n - 1 : s[i] = tokens[i] /\ i \in DOMAIN tokens
        BY <1>4, <2>2
    <2>4. piece.tag = "piece" /\ piece.line = tokens[n].line /\ piece \in Token
        BY <1>1 DEF Piece, Token
    <2> HIDE DEF s, piece
    <2>5. /\ arrived \in Seq(Token) /\ Len(arrived) = n
          /\ \A i \in 1 .. n - 1 : arrived[i] = tokens[i] /\ i \in DOMAIN tokens
          /\ arrived[n] = piece
        <3>1. /\ Append(s, piece) \in Seq(Token) /\ Len(Append(s, piece)) = Len(s) + 1
              /\ \A i \in 1 .. Len(s) : Append(s, piece)[i] = s[i]
              /\ Append(s, piece)[Len(s) + 1] = piece
            BY <2>3, <2>4, AppendProperties
        <3>2. arrived = Append(s, piece) /\ Len(s) + 1 = n
            BY <2>1, <2>2, <2>3 DEF s, piece
        <3> QED BY <2>3, <3>1, <3>2
    <2>6. DOMAIN arrived = 1 .. n /\ \A i \in 1 .. n : i \in 1 .. n - 1 \/ i = n
        BY <2>2, <2>5, SequencePositions
    <2>7. \A i \in DOMAIN arrived : i + 1 \in DOMAIN arrived =>
            /\ i \in 1 .. n - 1 /\ arrived[i] = tokens[i] /\ i \in DOMAIN tokens
            /\ \/ i + 1 \in 1 .. n - 1 /\ arrived[i + 1] = tokens[i + 1]
               \/ i + 1 = n
        BY <2>2, <2>5, <2>6
    <2>8. \A i \in DOMAIN arrived : i + 1 \in DOMAIN arrived =>
            /\ arrived[i].tag = "stamp" => /\ arrived[i + 1].tag = "text"
                                           /\ arrived[i + 1].line = arrived[i].line
            /\ arrived[i].tag = "text" => arrived[i + 1].tag = "newline"
            /\ arrived[i].tag = "newline" => arrived[i + 1].tag \in {"stamp", "piece"}
            /\ arrived[i].tag # "piece"
        <3> SUFFICES ASSUME NEW i \in DOMAIN arrived, i + 1 \in DOMAIN arrived
                     PROVE  /\ arrived[i].tag = "stamp" => /\ arrived[i + 1].tag = "text"
                                                           /\ arrived[i + 1].line = arrived[i].line
                            /\ arrived[i].tag = "text" => arrived[i + 1].tag = "newline"
                            /\ arrived[i].tag = "newline"
                                 => arrived[i + 1].tag \in {"stamp", "piece"}
                            /\ arrived[i].tag # "piece"
            OBVIOUS
        <3>1. CASE i + 1 \in 1 .. n - 1 /\ arrived[i + 1] = tokens[i + 1]
            BY <3>1, <1>2, <2>5, <2>7
        <3>2. CASE i + 1 = n
            <4>1. i \in DOMAIN tokens /\ i + 1 \in DOMAIN tokens /\ arrived[i] = tokens[i]
                BY <3>2, <2>7
            <4>2. arrived[i + 1] = piece /\ tokens[i + 1].tag = "stamp"
                BY <3>2, <2>1, <2>5
            <4> QED BY <4>1, <4>2, <1>2, <2>4
        <3> QED BY <3>1, <3>2, <2>7
    <2>9. ASSUME NEW i \in DOMAIN arrived, NEW j \in DOMAIN arrived,
                 IsShown(arrived[i]), IsShown(arrived[j]), i < j
          PROVE  arrived[i].line < arrived[j].line
        <3>1. arrived[i] = tokens[i] /\ i \in DOMAIN tokens
            BY <2>2, <2>5, <2>6, <2>9
        <3>2. CASE j \in 1 .. n - 1
            BY <3>1, <3>2, <1>3, <2>5, <2>9
        <3>3. CASE j = n
            <4>1. /\ n + 1 \in DOMAIN tokens /\ tokens[n + 1].tag = "text"
                  /\ tokens[n + 1].line = tokens[n].line
                BY <1>2, <2>1
            <4>2. i < n + 1
                BY <2>2, <2>6, <2>9, <3>3
            <4>3. tokens[i].line < tokens[n + 1].line
                BY <3>1, <4>1, <4>2, <1>3, <2>9 DEF IsShown
            <4> QED BY <3>1, <3>3, <4>1, <4>3, <2>4, <2>5
        <3> QED BY <3>2, <3>3, <2>6
    <2>10. AreLines(arrived)
        BY <2>5, <2>8, <2>9 DEF AreLines
    <2>11. \A i \in DOMAIN arrived : arrived[i].line = tokens[i].line
        BY <2>4, <2>5, <2>6
    <2>12. arrived # tokens
        BY <2>1, <2>4, <2>5
    <2>13. \A i \in DOMAIN arrived : arrived[i].tag = "piece" => i = n
        BY <2>5, <2>6
    <2> QED BY <2>2, <2>5, <2>10, <2>11, <2>12, <2>13 DEF Arrived
<1> QED BY <1>5, <1>6 DEF Arrivals

\* The last position of the frame that starts at p, and of what arrives of it.
FrameEnd(tokens, starts, p) == LastBefore(p + 1, Len(tokens), starts)

ArrivedEnd(tokens, count, starts, p) ==
    IF FrameEnd(tokens, starts, p) < count THEN FrameEnd(tokens, starts, p) ELSE count

FrameAt(tokens, arrived, starts, p) ==
    [kind |-> KindOf(tokens[p].line),
     size |-> FrameEnd(tokens, starts, p) - p + 1,
     payload |-> SubSeq(arrived, p, ArrivedEnd(tokens, Len(arrived), starts, p))]

LEMMA FramesFromDef ==
    ASSUME NEW tokens, NEW arrived, NEW starts
    PROVE  FramesFrom(tokens, arrived, starts) =
             EntriesAt([p \in 1 .. Len(arrived) |-> FrameAt(tokens, arrived, starts, p)],
                       {p \in starts : p <= Len(arrived)})
BY Zenon DEF FramesFrom, FrameAt, ArrivedEnd, FrameEnd

\* Where a frame has to start, because the output changes.
Forced(tokens) ==
    {i \in DOMAIN tokens : i = 1 \/ KindOf(tokens[i].line) # KindOf(tokens[i - 1].line)}

LEMMA FramesDef ==
    ASSUME NEW tokens, NEW arrived, NEW frames \in Frames(tokens, arrived)
    PROVE  \E starts \in SUBSET DOMAIN tokens :
             Forced(tokens) \in SUBSET starts /\ frames = FramesFrom(tokens, arrived, starts)
<1>1. PICK more \in SUBSET DOMAIN tokens :
        frames = FramesFrom(tokens, arrived, Forced(tokens) \cup more)
    BY Zenon DEF Frames, Forced
<1>2. Forced(tokens) \cup more \in SUBSET DOMAIN tokens
    BY DEF Forced
<1> QED BY <1>1, <1>2

\* A frame ends before the next one starts, and carries one output.
LEMMA FrameIs ==
    ASSUME NEW tokens, AreLines(tokens), NEW count \in 0 .. Len(tokens),
           NEW starts \in SUBSET DOMAIN tokens, Forced(tokens) \in SUBSET starts,
           NEW p \in starts, p <= count
    PROVE  LET z == ArrivedEnd(tokens, count, starts, p) IN
           /\ p \in 1 .. Len(tokens) /\ z \in p .. count
           /\ \A q \in starts : p < q => z < q
           /\ z = count \/ z + 1 \in starts
           /\ \A T \in p .. z : KindOf(tokens[T].line) = KindOf(tokens[p].line)
<1> DEFINE n == Len(tokens)
           e == FrameEnd(tokens, starts, p)
           z == ArrivedEnd(tokens, count, starts, p)
           Kind(i) == KindOf(tokens[i].line)
<1>1. n \in Nat /\ DOMAIN tokens = 1 .. n
    BY SequencePositions DEF AreLines
<1>2. p \in 1 .. n /\ p + 1 \in 1 .. n + 1 /\ p \in Nat /\ count \in Nat /\ count <= n
    BY <1>1
<1>3. /\ e \in (p + 1) - 1 .. n /\ \A i \in p + 1 .. e : i \notin starts
      /\ e = n \/ e + 1 \in starts
    BY <1>1, <1>2, LastBeforeIs DEF FrameEnd
<1>4. z = IF e < count THEN e ELSE count
    BY DEF ArrivedEnd
<1> HIDE DEF n, e, z
<1>5. z \in p .. count /\ z <= e /\ e \in Int
    BY <1>1, <1>2, <1>3, <1>4
<1>6. z = count \/ z + 1 \in starts
    BY <1>1, <1>2, <1>3, <1>4
<1>7. ASSUME NEW q \in starts, p < q
      PROVE  z < q
    <2>1. q \in Nat
        BY <1>1
    <2>2. ~(q \in p + 1 .. e)
        BY <1>3
    <2> QED BY <2>1, <2>2, <1>2, <1>5, <1>7
<1>8. \A T \in p .. z : Kind(T) = Kind(p)
    <2> DEFINE Wrong == {T \in p .. z : Kind(T) # Kind(p)}
    <2>1. SUFFICES ASSUME Wrong # {} PROVE FALSE
        OBVIOUS
    <2>2. Wrong \in SUBSET Nat
        BY <1>2
    <2>3. PICK T \in Wrong : \A k \in Wrong : T <= k
        BY <2>1, <2>2, LeastNumber
    <2>4. T \in p .. z /\ Kind(T) # Kind(p)
        OBVIOUS
    <2> HIDE DEF Kind
    <2>5. T # p
        BY <2>4
    <2>6. T # p /\ T \in Int /\ T - 1 \in p .. z
        BY <2>4, <2>5, <1>2, <1>5
    <2>7. T - 1 \notin Wrong
        BY <2>3, <2>6
    <2>8. Kind(T - 1) = Kind(p)
        BY <2>6, <2>7
    <2>9. Kind(T) # Kind(T - 1)
        BY <2>4, <2>8
    <2>10. T \in DOMAIN tokens
        BY <1>1, <1>2, <1>5, <2>4
    <2>11. T \in starts
        BY <2>9, <2>10 DEF Forced, Kind
    <2>12. T \in p + 1 .. e
        BY <2>4, <2>6, <1>2, <1>5
    <2> QED BY <2>11, <2>12, <1>3
<1> QED BY <1>2, <1>5, <1>6, <1>7, <1>8 DEF n, z

\* Every position is in the frame that starts last before it.
LEMMA InSomeFrame ==
    ASSUME NEW tokens, AreLines(tokens), NEW count \in 0 .. Len(tokens),
           NEW starts \in SUBSET DOMAIN tokens, Forced(tokens) \in SUBSET starts,
           NEW T \in 1 .. count
    PROVE  \E p \in starts : p <= count /\ T \in p .. ArrivedEnd(tokens, count, starts, p)
<1>1. Len(tokens) \in Nat /\ DOMAIN tokens = 1 .. Len(tokens)
    BY SequencePositions DEF AreLines
<1>2. T \in Nat /\ T >= 1 /\ T <= count /\ count \in Nat /\ count <= Len(tokens)
    BY <1>1
<1> DEFINE Back == {T - s : s \in {q \in starts : q <= T}}
<1>3. 1 \in starts
    BY <1>1, <1>2 DEF Forced
<1>4. Back # {} /\ Back \in SUBSET Nat
    BY <1>1, <1>2, <1>3
<1>5. PICK d \in Back : \A k \in Back : d <= k
    BY <1>4, LeastNumber
<1>6. PICK p \in starts : p <= T /\ d = T - p
    OBVIOUS
<1>7. p \in Nat /\ p <= count
    BY <1>1, <1>2, <1>6
<1>8. ASSUME NEW q \in starts, q <= T
      PROVE  q <= p
    <2>1. T - q \in Back /\ q \in Nat
        BY <1>1, <1>8
    <2>2. d <= T - q
        BY <1>5, <2>1
    <2> QED BY <2>1, <2>2, <1>2, <1>6, <1>7
<1> DEFINE z == ArrivedEnd(tokens, count, starts, p)
<1>9. z \in p .. count /\ (z = count \/ z + 1 \in starts)
    BY <1>7, FrameIs
<1> HIDE DEF z
<1>10. T <= z
    <2>1. CASE z = count
        BY <2>1, <1>2
    <2>2. CASE z + 1 \in starts
        <3>1. z + 1 <= T => z + 1 <= p
            BY <2>2, <1>8
        <3> QED BY <3>1, <1>2, <1>7, <1>9
    <2> QED BY <2>1, <2>2, <1>9
<1>11. T \in p .. z
    BY <1>2, <1>6, <1>7, <1>9, <1>10
<1> QED BY <1>7, <1>11 DEF z

(* However the runtime cuts its stream into frames, and wherever the stream  *)
(* ends, what arrived of the output is what is read (readMultiplexedLog).    *)
LEMMA FramesRead ==
    ASSUME NEW tokens, AreLines(tokens), NEW arrived, Arrived(arrived, tokens),
           NEW frames \in Frames(tokens, arrived)
    PROVE  Reads(readMultiplexedLog(frames), arrived, Marks(arrived), 1, Len(arrived))
<1> DEFINE n == Len(arrived)
<1>1. /\ Len(tokens) \in Nat /\ DOMAIN tokens = 1 .. Len(tokens)
      /\ AreLines(arrived) /\ n \in 0 .. Len(tokens) /\ n \in Nat
      /\ DOMAIN arrived = 1 .. n /\ \A T \in 1 .. n : arrived[T].line = tokens[T].line
    BY SequencePositions DEF AreLines, Arrived
<1>2. PICK starts \in SUBSET DOMAIN tokens :
        Forced(tokens) \in SUBSET starts /\ frames = FramesFrom(tokens, arrived, starts)
    BY FramesDef
<1> DEFINE P == {p \in starts : p <= n}
           s == [p \in 1 .. n |-> FrameAt(tokens, arrived, starts, p)]
           N == Cardinality(P)
           first == [i \in 1 .. N |-> PlaceIn(P, i)]
           last == [i \in 1 .. N |-> ArrivedEnd(tokens, n, starts, PlaceIn(P, i))]
           mark == Marks(arrived)
           blocks == [i \in DOMAIN frames |->
                         splitLines(frames[i].payload, streamOf(frames[i].kind))]
<1>3. frames = EntriesAt(s, P)
    BY <1>2, FramesFromDef
<1>4. P \in SUBSET (1 .. n)
    BY <1>1
<1>5. /\ N \in Nat /\ DOMAIN frames = 1 .. N
      /\ \A i \in 1 .. N : PlaceIn(P, i) \in P /\ frames[i] = s[PlaceIn(P, i)]
      /\ \A i, j \in 1 .. N : i < j => PlaceIn(P, i) < PlaceIn(P, j)
      /\ \A p \in P : \E i \in 1 .. N : PlaceIn(P, i) = p
    <2> HIDE DEF s, P, N
    <2>1. /\ Cardinality(P) \in Nat /\ DOMAIN EntriesAt(s, P) = 1 .. Cardinality(P)
          /\ \A k \in 1 .. Cardinality(P) :
               PlaceIn(P, k) \in P /\ EntriesAt(s, P)[k] = s[PlaceIn(P, k)]
          /\ \A k, l \in 1 .. Cardinality(P) : k < l => PlaceIn(P, k) < PlaceIn(P, l)
          /\ \A p \in P : \E k \in 1 .. Cardinality(P) : PlaceIn(P, k) = p
        BY <1>1, <1>4, EntriesInOrder, Zenon
    <2> QED BY <1>3, <2>1 DEF N
<1>6. ASSUME NEW i \in 1 .. N
      PROVE  /\ first[i] \in starts /\ first[i] \in 1 .. n /\ last[i] \in first[i] .. n
             /\ \A q \in starts : first[i] < q => last[i] < q
             /\ Reads(blocks[i], arrived, mark, first[i], last[i])
    <2> DEFINE p == PlaceIn(P, i)
               z == ArrivedEnd(tokens, n, starts, p)
    <2>1. p \in starts /\ p <= n /\ frames[i] = s[p] /\ p \in 1 .. n
        BY <1>4, <1>5
    <2>2. first[i] = p /\ last[i] = z
        OBVIOUS
    <2> HIDE DEF n, p, first, last, N, P, s, mark, blocks
    <2>3. n \in 0 .. Len(tokens) /\ p \in starts /\ p <= n
        BY <1>1, <2>1
    <2>4. starts \in SUBSET DOMAIN tokens /\ Forced(tokens) \in SUBSET starts
        BY <1>2
    <2>5. LET w == ArrivedEnd(tokens, n, starts, p) IN
           /\ p \in 1 .. Len(tokens) /\ w \in p .. n
           /\ \A q \in starts : p < q => w < q
           /\ w = n \/ w + 1 \in starts
           /\ \A T \in p .. w : KindOf(tokens[T].line) = KindOf(tokens[p].line)
        BY <2>3, <2>4, FrameIs
    <2>6. /\ z \in p .. n
          /\ \A q \in starts : p < q => z < q
          /\ \A T \in p .. z : KindOf(tokens[T].line) = KindOf(tokens[p].line)
        BY <2>3, <2>4, <2>5
    <2> HIDE DEF z
    <2> DEFINE stream == streamOf(KindOf(tokens[p].line))
    <2>7. frames[i].payload = SubSeq(arrived, p, z) /\ frames[i].kind = KindOf(tokens[p].line)
        BY <2>1 DEF FrameAt, z, n, s
    <2>8. blocks[i] = splitLines(SubSeq(arrived, p, z), stream)
        BY <2>7, <1>5 DEF blocks
    <2>9. p \in 1 .. n + 1 /\ z \in p - 1 .. n
        BY <2>1, <2>6, <1>1
    <2>10. \A T \in p .. z : mark[T] = stream
        <3> SUFFICES ASSUME NEW T \in p .. z PROVE mark[T] = stream
            OBVIOUS
        <3>1. T \in DOMAIN arrived /\ arrived[T].line = tokens[T].line
            BY <2>1, <2>6, <1>1
        <3>2. KindOf(tokens[T].line) = KindOf(tokens[p].line)
            BY <2>6
        <3> QED BY <3>1, <3>2 DEF Marks, mark
    <2>11. stream \in {"stdout", "stderr"}
        BY StreamKnown
    <2> HIDE DEF stream
    <2>12. Reads(splitLines(SubSeq(arrived, p, z), stream), arrived, mark, p, z)
        BY <1>1, <2>9, <2>10, <2>11, SplitReads
    <2> QED BY <2>1, <2>2, <2>6, <2>8, <2>12
<1>7. DOMAIN blocks = 1 .. N /\ blocks \in Seq(Seq(LogLine))
    <2>1. \A i \in 1 .. N : blocks[i] \in Seq(LogLine)
        BY <1>6 DEF Reads
    <2>2. DOMAIN blocks = 1 .. N
        BY <1>5
    <2>3. blocks \in [1 .. N -> Seq(LogLine)]
        BY <2>1, <2>2
    <2> HIDE DEF blocks, N
    <2> QED BY <2>2, <2>3, <1>5, FunctionIsSequence
<1>8. ASSUME NEW i \in 1 .. N, NEW j \in 1 .. N, i < j
      PROVE  last[i] < first[j]
    <2>1. first[i] < first[j]
        BY <1>5, <1>8
    <2> HIDE DEF first, last, N, P
    <2> QED BY <2>1, <1>6
<1>9. ASSUME NEW T \in 1 .. n
      PROVE  \E i \in 1 .. N : T \in first[i] .. last[i]
    <2>1. PICK p \in starts : p <= n /\ T \in p .. ArrivedEnd(tokens, n, starts, p)
        BY <1>1, <1>2, InSomeFrame
    <2>2. PICK i \in 1 .. N : PlaceIn(P, i) = p
        BY <1>5, <2>1
    <2>3. first[i] = p /\ last[i] = ArrivedEnd(tokens, n, starts, p)
        BY <2>2
    <2> QED BY <2>1, <2>3
<1> HIDE DEF P, s, N, first, last, mark, blocks
<1>10. Reads(FlattenSeq(blocks), arrived, mark, 1, n)
    <2>1. \A i \in 1 .. N : /\ first[i] \in Int /\ last[i] \in Int
                            /\ 1 <= first[i] /\ last[i] <= n
                            /\ Reads(blocks[i], arrived, mark, first[i], last[i])
        BY <1>1, <1>6
    <2>2. 1 \in 1 .. n + 1 /\ n \in 1 - 1 .. n
        BY <1>1
    <2> QED BY <1>1, <1>5, <1>7, <1>8, <1>9, <2>1, <2>2, BlocksRead
<1> QED BY <1>10 DEF readMultiplexedLog, blocks, mark

(* And so is what a terminal shows (readTTYLog).                             *)
LEMMA TerminalReads ==
    ASSUME NEW arrived, AreLines(arrived)
    PROVE  Reads(readTTYLog(arrived), arrived, [T \in DOMAIN arrived |-> "stdout"],
                 1, Len(arrived))
<1>1. /\ Len(arrived) \in Nat /\ DOMAIN arrived = 1 .. Len(arrived)
      /\ arrived \in Seq(Token)
    BY SequencePositions DEF AreLines
<1> DEFINE mark == [T \in DOMAIN arrived |-> "stdout"]
<1>2. /\ 1 \in 1 .. Len(arrived) + 1 /\ Len(arrived) \in 1 - 1 .. Len(arrived)
      /\ \A T \in 1 .. Len(arrived) : mark[T] = "stdout"
    BY <1>1
<1>3. SubSeq(arrived, 1, Len(arrived)) = arrived
    BY <1>1, SubSeqFull
<1> HIDE DEF mark
<1>4. Reads(splitLines(SubSeq(arrived, 1, Len(arrived)), "stdout"), arrived, mark,
            1, Len(arrived))
    BY <1>2, SplitReads
<1> QED BY <1>3, <1>4 DEF readTTYLog, mark

\* What a reader of these lines sees.
ShownOf(lines) == FlattenSeq([i \in DOMAIN lines |-> lines[i].Text])

\* Lines that were read are of the log, and in its order.
LEMMA ReadIsOutput ==
    ASSUME NEW tokens, AreLines(tokens), NEW mark, NEW lines,
           Reads(lines, tokens, mark, 1, Len(tokens))
    PROVE  /\ \A i \in DOMAIN ShownOf(lines) :
                /\ IsShown(ShownOf(lines)[i])
                /\ \E T \in DOMAIN tokens : ShownOf(lines)[i] = tokens[T]
                /\ ShownOf(lines)[i].tag = "piece" => i = Len(ShownOf(lines))
           /\ \A i, j \in DOMAIN ShownOf(lines) :
                i < j => ShownOf(lines)[i].line < ShownOf(lines)[j].line
           /\ \A i \in DOMAIN lines : \A t \in ToSet(lines[i].Text) :
                \E T \in DOMAIN tokens : t = tokens[T] /\ From(lines[i], T, tokens, mark)
<1> DEFINE ss == [i \in DOMAIN lines |-> lines[i].Text]
           n == Len(lines)
           shown == ShownOf(lines)
           z == Len(tokens)
<1>1. z \in Nat /\ DOMAIN tokens = 1 .. z
    BY SequencePositions DEF AreLines
<1>2. /\ n \in Nat /\ DOMAIN lines = 1 .. n /\ \A i \in DOMAIN lines : lines[i] \in LogLine
    BY SequencePositions DEF Reads
<1>3. ss \in Seq(Seq(Token)) /\ Len(ss) = n
    <2>1. \A i \in 1 .. n : lines[i].Text \in Seq(Token)
        BY <1>2 DEF LogLine
    <2>2. ss \in [1 .. n -> Seq(Token)]
        BY <1>2, <2>1
    <2> QED BY <1>2, <2>2, FunctionIsSequence
<1>4. \A i \in 1 .. n : ss[i] = lines[i].Text
    BY <1>2
<1>5. shown = FlattenSeq(ss)
    BY DEF ShownOf
<1> HIDE DEF ss, n, shown, z
<1>6. PICK home, col : Runs(home, col, shown, ss, n)
    BY <1>3, <1>5, FlattenRuns
<1>7. ASSUME NEW i \in 1 .. n, NEW c \in DOMAIN ss[i]
      PROVE  \E T \in 1 .. z : c = 1 /\ ss[i][c] = tokens[T] /\ From(lines[i], T, tokens, mark)
    <2>1. lines[i].Text # << >>
        BY <1>4, <1>7
    <2>2. PICK T \in 1 .. z : From(lines[i], T, tokens, mark)
        BY <1>2, <2>1 DEF Reads, z
    <2>3. ss[i] = <<tokens[T]>>
        BY <2>2, <1>4 DEF From
    <2> QED BY <2>2, <2>3
<1>8. ASSUME NEW k \in DOMAIN shown
      PROVE  /\ home[k] \in 1 .. n /\ col[k] = 1
             /\ \E T \in 1 .. z : shown[k] = tokens[T] /\ From(lines[home[k]], T, tokens, mark)
    <2>1. home[k] \in 1 .. n /\ col[k] \in DOMAIN ss[home[k]] /\ shown[k] = ss[home[k]][col[k]]
        BY <1>6 DEF Runs
    <2> QED BY <2>1, <1>7
<1>9. ASSUME NEW k \in DOMAIN shown, NEW l \in DOMAIN shown, k < l
      PROVE  \E T, U \in DOMAIN tokens :
               /\ T < U /\ shown[k] = tokens[T] /\ shown[l] = tokens[U]
               /\ IsShown(tokens[T]) /\ IsShown(tokens[U])
    <2>1. home[k] < home[l] \/ (home[k] = home[l] /\ col[k] < col[l])
        BY <1>6, <1>9 DEF Runs
    <2>2. home[k] \in DOMAIN lines /\ home[l] \in DOMAIN lines /\ home[k] < home[l]
        BY <2>1, <1>2, <1>8
    <2>3. PICK T \in 1 .. z : shown[k] = tokens[T] /\ From(lines[home[k]], T, tokens, mark)
        BY <1>8
    <2>4. PICK U \in 1 .. z : shown[l] = tokens[U] /\ From(lines[home[l]], U, tokens, mark)
        BY <1>8
    <2>5. T < U
        BY <2>2, <2>3, <2>4 DEF Reads, z
    <2> QED BY <2>3, <2>4, <2>5, <1>1 DEF From
<1>10. \A k, l \in DOMAIN shown : k < l => shown[k].line < shown[l].line
    BY <1>9 DEF AreLines
<1>11. shown \in Seq(Token)
    BY <1>3, <1>5, FlattenToSet
<1>12. ASSUME NEW k \in DOMAIN shown
       PROVE  /\ IsShown(shown[k])
              /\ \E T \in DOMAIN tokens : shown[k] = tokens[T]
              /\ shown[k].tag = "piece" => k = Len(shown)
    <2>1. IsShown(shown[k]) /\ \E T \in DOMAIN tokens : shown[k] = tokens[T]
        BY <1>1, <1>8 DEF From
    <2>2. ASSUME k # Len(shown) PROVE shown[k].tag # "piece"
        <3>1. Len(shown) \in DOMAIN shown /\ k < Len(shown)
            BY <1>11, <2>2, SequencePositions
        <3>2. PICK T, U \in DOMAIN tokens : T < U /\ shown[k] = tokens[T]
            BY <3>1, <1>9
        <3>3. T + 1 \in DOMAIN tokens
            BY <3>2, <1>1
        <3> QED BY <3>2, <3>3 DEF AreLines
    <2> QED BY <2>1, <2>2
<1>13. ASSUME NEW i \in DOMAIN lines, NEW t \in ToSet(lines[i].Text)
       PROVE  \E T \in DOMAIN tokens : t = tokens[T] /\ From(lines[i], T, tokens, mark)
    <2>1. PICK c \in DOMAIN lines[i].Text : t = lines[i].Text[c]
        BY DEF ToSet
    <2>2. i \in 1 .. n /\ c \in DOMAIN ss[i] /\ t = ss[i][c]
        BY <2>1, <1>2, <1>4
    <2> QED BY <2>2, <1>1, <1>7
<1> QED BY <1>10, <1>12, <1>13 DEF shown

\* Fewer lines than were asked for are all that the container had written.
LEMMA ShortLogIsWhole ==
    ASSUME NEW last \in Nat, NEW tail \in Nat \ {0}, NEW tokens, tokens = Output(last, tail),
           NEW mark, NEW lines, Reads(lines, tokens, mark, 1, Len(tokens)), Len(lines) < tail,
           NEW line \in 1 .. last
    PROVE  \E i \in DOMAIN lines : Text(line) \in ToSet(lines[i].Text)
<1>1. AreLines(tokens)
    BY OutputAreLines
<1>2. Len(tokens) \in Nat /\ DOMAIN tokens = 1 .. Len(tokens)
    BY <1>1, SequencePositions DEF AreLines
<1>3. Len(lines) \in Nat /\ DOMAIN lines = 1 .. Len(lines)
    BY SequencePositions DEF Reads
<1>4. ASSUME NEW T \in DOMAIN tokens, NEW l, tokens[T] = Text(l)
      PROVE  \E i \in DOMAIN lines : lines[i].Text = <<Text(l)>>
    <2>1. tokens[T].tag = "text" /\ T \in 1 .. Len(tokens)
        BY <1>2, <1>4 DEF Text
    <2>2. PICK i \in DOMAIN lines : From(lines[i], T, tokens, mark)
        BY <2>1 DEF Reads, IsShown
    <2> QED BY <2>2, <1>4 DEF From
<1>5. CASE \E T \in DOMAIN tokens : tokens[T] = Text(line)
    <2>1. PICK i \in DOMAIN lines : lines[i].Text = <<Text(line)>>
        BY <1>4, <1>5
    <2>2. 1 \in DOMAIN lines[i].Text /\ lines[i].Text[1] = Text(line)
        BY <2>1
    <2> QED BY <2>2 DEF ToSet
<1>6. CASE line <= last - tail
    <2>1. last > tail
        BY <1>6
    <2> DEFINE l(k) == last - tail + k
               at == [k \in 1 .. tail |->
                         CHOOSE i \in DOMAIN lines : lines[i].Text = <<Text(l(k))>>]
    <2>2. ASSUME NEW k \in 1 .. tail
          PROVE  at[k] \in DOMAIN lines /\ lines[at[k]].Text = <<Text(l(k))>>
        <3>1. \E T \in DOMAIN tokens : tokens[T] = Text(last - tail + k)
            BY <2>1, OutputAreLines
        <3>2. \E i \in DOMAIN lines : lines[i].Text = <<Text(l(k))>>
            BY <3>1, <1>4
        <3> QED BY <3>2
    <2>3. ASSUME NEW j \in 1 .. tail, NEW k \in 1 .. tail, at[j] = at[k]
          PROVE  j = k
        <3>1. <<Text(l(j))>> = <<Text(l(k))>>
            BY <2>2, <2>3
        <3>2. l(j) = l(k)
            BY <3>1 DEF Text
        <3> QED BY <3>2
    <2> HIDE DEF at
    <2>4. at \in Injection(1 .. tail, 1 .. Len(lines))
        <3>1. at \in [1 .. tail -> 1 .. Len(lines)]
            BY <2>2, <1>3 DEF at
        <3> QED BY <3>1, <2>3 DEF Injection, IsInjective
    <2>5. /\ IsFiniteSet(1 .. Len(lines)) /\ Cardinality(1 .. Len(lines)) = Len(lines)
          /\ Cardinality(1 .. tail) = tail
        <3>1. 1 \in Int /\ tail \in Int /\ ~(1 > tail) /\ tail - 1 + 1 = tail
            OBVIOUS
        <3>2. Cardinality(1 .. tail) = tail
            BY <3>1, FS_Interval
        <3>3. /\ IsFiniteSet(1 .. Len(lines))
              /\ Cardinality(1 .. Len(lines)) = IF 1 > Len(lines) THEN 0 ELSE Len(lines) - 1 + 1
            <4>1. 1 \in Int /\ Len(lines) \in Int
                BY <1>3
            <4> QED BY <4>1, FS_Interval, Zenon
        <3> QED BY <3>2, <3>3, <1>3
    <2>6. tail <= Len(lines)
        BY <2>4, <2>5, FS_Injection
    <2> QED BY <2>6, <1>3
<1>7. (\E T \in DOMAIN tokens : tokens[T] = Text(line)) \/ line <= last - tail
    BY OutputAreLines
<1> QED BY <1>5, <1>6, <1>7

-----------------------------------------------------------------------------
(* Whatever the runtime answers, what is read of it hides nothing and is     *)
(* nothing but output (Logs).                                                *)
HidesNothing(logs) ==
    ~logs.failure /\ ~logs.cut /\ ~logs.Truncated
        => \A line \in 1 .. logs.asked :
             \E i \in DOMAIN logs.Lines : Text(line) \in ToSet(logs.Lines[i].Text)

IsOutput(logs) ==
    /\ \A i \in DOMAIN ShownOf(logs.Lines) :
         \/ ShownOf(logs.Lines)[i].tag = "text"
         \/ /\ ShownOf(logs.Lines)[i].tag = "piece"
            /\ i = Len(ShownOf(logs.Lines)) /\ logs.cut
    /\ \A i, j \in DOMAIN ShownOf(logs.Lines) :
         i < j => ShownOf(logs.Lines)[i].line < ShownOf(logs.Lines)[j].line
    /\ \A i \in DOMAIN logs.Lines : \A t \in ToSet(logs.Lines[i].Text) :
         /\ logs.Lines[i].At \in {NoTime, t.line}
         /\ logs.tty \/ logs.Lines[i].Stream = streamOf(KindOf(t.line))

LEMMA ReadingIs ==
    ASSUME NEW logs \in Readings
    PROVE  HidesNothing(logs) /\ IsOutput(logs)
<1>1. PICK last \in 0 .. MaxLines, tail \in 1 .. MaxLogTail, tty \in BOOLEAN :
        logs \in ReadingsOf(last, tail, tty)
    BY DEF Readings
<1>2. last \in Nat /\ tail \in Nat \ {0}
    BY TailAssumption
<1> DEFINE tokens == Output(last, tail)
           answer(read, failure, cut) ==
             [Lines |-> read.Lines, Tail |-> tail, Truncated |-> read.Truncated,
              failure |-> failure, asked |-> last, cut |-> cut, tty |-> tty]
<1>3. \/ logs = answer([Lines |-> << >>, Truncated |-> FALSE], TRUE, FALSE)
      \/ \E arrived \in Arrivals(tokens) :
           \E stream \in IF tty THEN {arrived} ELSE Frames(tokens, arrived) :
             logs = answer(Logs(tty, stream, tail), FALSE, arrived # tokens)
    BY <1>1, Zenon DEF ReadingsOf
<1>4. /\ AreLines(tokens)
      /\ \A T \in DOMAIN tokens : tokens[T].tag # "piece"
      /\ \A T \in DOMAIN tokens : tokens[T].tag = "stamp" => T + 1 \in DOMAIN tokens
    BY <1>2, OutputAreLines
<1>5. CASE logs = answer([Lines |-> << >>, Truncated |-> FALSE], TRUE, FALSE)
    <2>1. logs.failure /\ logs.Lines = << >>
        BY <1>5
    <2>2. ShownOf(<< >>) = << >>
        BY DEF ShownOf, FlattenSeq
    <2> QED BY <2>1, <2>2 DEF HidesNothing, IsOutput
<1>6. ASSUME NEW arrived \in Arrivals(tokens),
             NEW stream \in IF tty THEN {arrived} ELSE Frames(tokens, arrived),
             logs = answer(Logs(tty, stream, tail), FALSE, arrived # tokens)
      PROVE  HidesNothing(logs) /\ IsOutput(logs)
    <2> DEFINE lines == IF tty THEN readTTYLog(stream) ELSE readMultiplexedLog(stream)
               mark == IF tty THEN [T \in DOMAIN arrived |-> "stdout"] ELSE Marks(arrived)
    <2>1. Logs(tty, stream, tail)
            = [Lines |-> lines, Tail |-> tail, Truncated |-> Len(lines) >= tail]
        BY DEF Logs
    <2> HIDE DEF tokens
    <2>2. /\ logs.Lines = lines /\ logs.Truncated = (Len(lines) >= tail) /\ logs.asked = last
          /\ logs.cut = (arrived # tokens) /\ logs.tty = tty
        <3> HIDE DEF lines
        <3> QED BY <1>6, <2>1
    <2>3. Arrived(arrived, tokens)
        BY <1>4, ArrivalArrived
    <2>4. AreLines(arrived)
        BY <2>3 DEF Arrived
    <2>5. Reads(lines, arrived, mark, 1, Len(arrived))
        <3>1. CASE tty
            BY <2>4, <3>1, TerminalReads
        <3>2. CASE ~tty
            BY <1>4, <2>3, <3>2, FramesRead
        <3> QED BY <3>1, <3>2
    <2> HIDE DEF lines
    <2>6. HidesNothing(logs)
        <3> SUFFICES ASSUME ~logs.cut, ~logs.Truncated, NEW line \in 1 .. logs.asked
                     PROVE  \E i \in DOMAIN lines : Text(line) \in ToSet(lines[i].Text)
            BY <2>2 DEF HidesNothing
        <3>1. arrived = tokens /\ ~(Len(lines) >= tail) /\ line \in 1 .. last
            BY <2>2
        <3>2. Len(lines) \in Nat
            BY <2>5, SequencePositions DEF Reads
        <3>3. Len(lines) < tail
            BY <3>1, <3>2, <1>2
        <3> HIDE DEF mark
        <3>4. Reads(lines, tokens, mark, 1, Len(tokens))
            BY <2>5, <3>1
        <3> QED BY <3>1, <3>3, <3>4, <1>2, ShortLogIsWhole DEF tokens
    <2>7. IsOutput(logs)
        <3> DEFINE shown == ShownOf(lines)
        <3>1. /\ \A i \in DOMAIN ShownOf(lines) :
                   /\ IsShown(ShownOf(lines)[i])
                   /\ \E T \in DOMAIN arrived : ShownOf(lines)[i] = arrived[T]
                   /\ ShownOf(lines)[i].tag = "piece" => i = Len(ShownOf(lines))
              /\ \A i, j \in DOMAIN ShownOf(lines) :
                   i < j => ShownOf(lines)[i].line < ShownOf(lines)[j].line
              /\ \A i \in DOMAIN lines : \A t \in ToSet(lines[i].Text) :
                   \E T \in DOMAIN arrived : t = arrived[T] /\ From(lines[i], T, arrived, mark)
            <4> HIDE DEF mark
            <4> QED BY <2>4, <2>5, ReadIsOutput
        <3>2. ASSUME NEW i \in DOMAIN lines, NEW t \in ToSet(lines[i].Text)
              PROVE  /\ lines[i].At \in {NoTime, t.line}
                     /\ tty \/ lines[i].Stream = streamOf(KindOf(t.line))
            <4>1. PICK T \in DOMAIN arrived : t = arrived[T] /\ From(lines[i], T, arrived, mark)
                BY <3>1
            <4>2. lines[i].At \in {NoTime, arrived[T].line} /\ lines[i].Stream = mark[T]
                BY <4>1 DEF From
            <4>3. ~tty => mark[T] = streamOf(KindOf(arrived[T].line))
                BY DEF Marks
            <4> QED BY <4>1, <4>2, <4>3
        <3> HIDE DEF shown
        <3>3. ASSUME NEW i \in DOMAIN shown
              PROVE  \/ shown[i].tag = "text"
                     \/ shown[i].tag = "piece" /\ i = Len(shown) /\ logs.cut
            <4>1. /\ IsShown(shown[i])
                  /\ \E T \in DOMAIN arrived : shown[i] = arrived[T]
                  /\ shown[i].tag = "piece" => i = Len(shown)
                BY <3>1 DEF shown
            <4>2. shown[i].tag = "piece" => logs.cut
                BY <4>1, <2>2, <2>3 DEF Arrived
            <4> QED BY <4>1, <4>2 DEF IsShown
        <3> QED BY <2>2, <3>1, <3>2, <3>3 DEF IsOutput, shown
    <2> QED BY <2>6, <2>7
<1> QED BY <1>3, <1>5, <1>6

\* What the panel holds, and what was answered to it, was read from its own
\* container.
LogInv ==
    /\ panel.body = "log" => panel.logs \in Readings /\ panel.logs.tty = fixed.tty
    /\ \A f \in Fetch :
         fetches[f].stage = "answered" =>
             fetches[f].logs \in Readings /\ fetches[f].logs.tty = fixed.tty

LEMMA LogInit == Init => LogInv
BY DEF Init, DetailInit, Idle, LogInv

\* A container is never made anew.
LEMMA FixedStays == [Next]_vars => UNCHANGED fixed
<1> SUFFICES ASSUME [Next]_vars PROVE UNCHANGED fixed
    OBVIOUS
<1>1. CASE UNCHANGED containerVars
    BY <1>1 DEF containerVars
<1>2. CASE UNCHANGED vars
    BY <1>2 DEF vars, containerVars
<1>3. CASE RuntimeNext
    BY <1>3 DEF RuntimeNext, Enters, Vanishes
<1>4. ASSUME NEW i \in Slot, Submit(i) \/ ServerStep(i)
      PROVE  UNCHANGED fixed
    BY <1>4 DEF Submit, ServerStep, Resolve, Act, Announce, Receive, Enters, containerVars
<1>5. CASE Refresh \/ Sync \/ RowClock
    BY <1>5 DEF Refresh, Sync, RowClock, ClockAdvances, containerVars
<1>6. CASE ListNext
    BY <1>4, <1>5, <1>6 DEF ListNext
<1>7. CASE DetailNext
    BY <1>7 DEF DetailNext, Write, Toggle, PressSize, InspectForLog, ReadLog, FillPanel,
                FailFetch, containerVars
<1> QED BY <1>1, <1>2, <1>3, <1>6, <1>7 DEF Next

LEMMA LogStep == PanelInv /\ LogInv /\ [Next]_vars => LogInv'
<1> SUFFICES ASSUME PanelInv, LogInv, [Next]_vars
             PROVE  LogInv'
    OBVIOUS
<1>1. fixed' = fixed
    BY FixedStays
<1>2. PanelShape /\ FetchesShape
    BY DEF PanelInv
<1> DEFINE Good(logs) == logs \in Readings /\ logs.tty = fixed.tty
           Holds(p) == p.body = "log" => Good(p.logs)
           Answered(r) == r.stage = "answered" => Good(r.logs)
<1>3. SUFFICES Holds(panel') /\ \A f \in Fetch : Answered(fetches'[f])
    <2>1. Readings' = Readings
        BY DEF Readings, ReadingsOf
    <2> QED BY <1>1, <2>1 DEF LogInv
<1>4. Holds(panel) /\ \A f \in Fetch : Answered(fetches[f])
    BY DEF LogInv
<1> HIDE DEF Good
\* One slot changes, and holds what is asked of it.
<1>5. ASSUME NEW f \in Fetch, NEW r, fetches' = [fetches EXCEPT ![f] = r], Answered(r)
      PROVE  \A g \in Fetch : Answered(fetches'[g])
    <2>1. \A g \in Fetch : fetches'[g] = IF g = f THEN r ELSE fetches[g]
        BY <1>2, <1>5 DEF FetchesShape
    <2> QED BY <2>1, <1>4, <1>5
<1>6. ASSUME NEW f \in Fetch, NEW tail, loadLog(f, tail)
      PROVE  \A g \in Fetch : Answered(fetches'[g])
    <2> DEFINE r == [tail |-> tail, stage |-> "sent", logs |-> NoLogs]
    <2>1. fetches' = [fetches EXCEPT ![f] = r] /\ r.stage = "sent"
        BY <1>6 DEF loadLog
    <2> QED BY <2>1, <1>5
<1>7. CASE UNCHANGED <<panel, fetches>>
    BY <1>4, <1>7
<1>8. CASE Toggle
    <2>1. Holds(panel')
        BY <1>2, <1>4, <1>8 DEF Toggle, PanelShape
    <2>2. \A f \in Fetch : Answered(fetches'[f])
        BY <1>4, <1>6, <1>8 DEF Toggle
    <2> QED BY <2>1, <2>2
<1>9. CASE PressSize
    <2>1. Holds(panel')
        BY <1>2, <1>4, <1>9 DEF PressSize, PanelShape
    <2>2. \A f \in Fetch : Answered(fetches'[f])
        BY <1>6, <1>9 DEF PressSize
    <2> QED BY <2>1, <2>2
<1>10. ASSUME NEW f \in Fetch, InspectForLog(f)
       PROVE  Holds(panel') /\ \A g \in Fetch : Answered(fetches'[g])
    <2> DEFINE r == [tail |-> ClampLogTail(fetches[f].tail), stage |-> "inspected",
                     logs |-> NoLogs]
    <2>1. fetches' = [fetches EXCEPT ![f] = r] /\ r.stage = "inspected" /\ panel' = panel
        BY <1>10 DEF InspectForLog
    <2> QED BY <2>1, <1>4, <1>5
<1>11. ASSUME NEW f \in Fetch, ReadLog(f)
       PROVE  Holds(panel') /\ \A g \in Fetch : Answered(fetches'[g])
    <2>1. PICK logs \in Readings :
            /\ logs.tty = fixed.tty
            /\ fetches' = [fetches EXCEPT ![f] = [tail |-> logs.Tail,
                                                  stage |-> "answered", logs |-> logs]]
        BY <1>11 DEF ReadLog
    <2> DEFINE r == [tail |-> logs.Tail, stage |-> "answered", logs |-> logs]
    <2>2. r.logs = logs /\ Good(logs) /\ panel' = panel
        BY <1>11, <2>1 DEF ReadLog, Good
    <2> QED BY <2>1, <2>2, <1>4, <1>5
<1>12. ASSUME NEW f \in Fetch, FillPanel(f)
       PROVE  Holds(panel') /\ \A g \in Fetch : Answered(fetches'[g])
    <2>1. Good(fetches[f].logs) /\ panel' = [panel EXCEPT !.body = "log", !.logs = fetches[f].logs]
        BY <1>4, <1>12 DEF FillPanel
    <2>2. panel'.logs = fetches[f].logs
        BY <1>2, <2>1 DEF PanelShape
    <2>3. fetches' = [fetches EXCEPT ![f] = Idle] /\ Idle.stage = "idle"
        BY <1>12 DEF FillPanel, Idle
    <2> QED BY <2>1, <2>2, <2>3, <1>5
<1>13. ASSUME NEW f \in Fetch, FailFetch(f)
       PROVE  Holds(panel') /\ \A g \in Fetch : Answered(fetches'[g])
    <2>1. panel'.body = "error"
        BY <1>2, <1>13 DEF FailFetch, Failed, PanelShape
    <2>2. fetches' = [fetches EXCEPT ![f] = Idle] /\ Idle.stage = "idle"
        BY <1>13 DEF FailFetch, Idle
    <2> QED BY <2>1, <2>2, <1>5
<1>14. DetailNext => \/ Toggle \/ PressSize \/ UNCHANGED <<panel, fetches>>
                     \/ \E f \in Fetch :
                          InspectForLog(f) \/ ReadLog(f) \/ FillPanel(f) \/ FailFetch(f)
    BY DEF DetailNext, Write
<1>15. DetailNext \/ UNCHANGED <<panel, fetches>>
    BY DEF Next, RuntimeNext, vars, detailVars
<1> QED BY <1>7, <1>8, <1>9, <1>10, <1>11, <1>12, <1>13, <1>14, <1>15

LEMMA LogAlways == Spec => []LogInv
BY LogInit, LogStep, PanelInit, PanelStep, PTL DEF Spec

\* What holds of every reading holds of what the panel shows.
LEMMA PanelShows == LogInv => NothingHidden /\ OnlyOutput
<1> SUFFICES ASSUME LogInv, panel.body = "log"
             PROVE  NothingHidden /\ OnlyOutput
    BY DEF NothingHidden, OnlyOutput
<1>1. HidesNothing(panel.logs) /\ IsOutput(panel.logs) /\ panel.logs.tty = fixed.tty
    BY ReadingIs DEF LogInv
<1>2. NothingHidden
    BY <1>1 DEF NothingHidden, HidesNothing
<1>3. OnlyOutput
    BY <1>1 DEF OnlyOutput, IsOutput, ShownOf
<1> QED BY <1>2, <1>3

(* A log that arrived whole and is not announced as truncated shows every   *)
(* line the container had written, for every length of log and tail and     *)
(* every cutting into frames (domain.Logs, Truncated).                      *)
THEOREM LogHidesNothing == Spec => []NothingHidden
BY LogAlways, PanelShows, PTL

(* The panel shows nothing but what the container wrote, in that order, on  *)
(* the output it is marked with and under its own time, however the stream  *)
(* is cut into frames and wherever it ends; only the piece of a timestamp   *)
(* may follow, in a log that was cut (readMultiplexedLog, readTTYLog).      *)
THEOREM LogShowsOutput == Spec => []OnlyOutput
BY LogAlways, PanelShows, PTL
=============================================================================
