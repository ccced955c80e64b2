----------------------------- MODULE HubProofs -----------------------------
(***************************************************************************)
(* The hub is correct for any number of subscribers, any buffer and any    *)
(* number of events: HubInv is inductive, the safety properties of module  *)
(* Hub follow from it, and every step is a step of module Broadcaster.     *)
(***************************************************************************)
EXTENDS Hub, TLAPS, SequenceTheorems

USE BufferAssumption, MaxPublishedAssumption

\* Appending a number larger than every element keeps a sequence increasing.
LEMMA AppendIncreasing ==
    ASSUME NEW s \in Seq(Nat), NEW e \in Nat, Increasing(s),
           \A k \in DOMAIN s : s[k] < e
    PROVE  Increasing(Append(s, e))
BY AppendProperties DEF Increasing

\* The tail of an increasing sequence is increasing and above its head.
LEMMA TailIncreasing ==
    ASSUME NEW s \in Seq(Nat), s # <<>>, Increasing(s)
    PROVE  /\ Increasing(Tail(s))
           /\ \A k \in DOMAIN Tail(s) : /\ Head(s) < Tail(s)[k]
                                        /\ Tail(s)[k] = s[k + 1]
                                        /\ k + 1 \in DOMAIN s
<1>1. /\ Tail(s) \in Seq(Nat) /\ Len(Tail(s)) = Len(s) - 1
      /\ \A k \in 1 .. Len(Tail(s)) : Tail(s)[k] = s[k + 1]
    BY HeadTailProperties
<1>2. DOMAIN s = 1 .. Len(s) /\ DOMAIN Tail(s) = 1 .. Len(s) - 1 /\ Len(s) \in Nat
    BY <1>1
<1>3. \A k \in DOMAIN Tail(s) : Tail(s)[k] = s[k + 1] /\ k + 1 \in DOMAIN s
    BY <1>1, <1>2
<1>4. Head(s) = s[1] /\ 1 \in DOMAIN s
    BY <1>2
<1>5. Increasing(Tail(s))
    BY <1>2, <1>3 DEF Increasing
<1>6. QED
    BY <1>2, <1>3, <1>4, <1>5 DEF Increasing

\* A non-blocking send appends or does nothing, and keeps within capacity.
LEMMA OfferProperties ==
    ASSUME NEW q \in Seq(Nat), NEW cap \in Nat, NEW v \in Nat, Len(q) <= cap
    PROVE  /\ Offer(q, cap, v) \in Seq(Nat)
           /\ Len(Offer(q, cap, v)) <= cap
           /\ Offer(q, cap, v) = q \/ Offer(q, cap, v) = Append(q, v)
BY DEF Offer

-----------------------------------------------------------------------------

LEMMA HubInit == Init => HubInv
<1> SUFFICES ASSUME Init PROVE HubInv
    OBVIOUS
<1>1. DOMAIN subs = {}
    BY DEF Init
<1>2. TypeOK
    <2>1. /\ queue \in [Client -> Seq(Nat)]
          /\ got \in [Client -> Seq(Nat)]
          /\ \A c \in Client : Len(queue[c]) = 0
        BY DEF Init
    <2>2. /\ id \in [Client -> Nat \cup {NoID}]
          /\ phase \in [Client -> {"idle", "reading", "ended"}]
        BY DEF Init
    <2>3. \A c \in Client : Len(queue[c]) <= SubscriberBuffer
        BY <2>1
    <2>4. /\ nextID \in Nat /\ published \in Nat
          /\ closed \in BOOLEAN /\ shut \subseteq Client /\ once \subseteq Client
        BY DEF Init
    <2>5. QED
        BY <1>1, <2>1, <2>2, <2>3, <2>4 DEF TypeOK
<1>3. TableInv /\ PhaseInv
    BY <1>1 DEF Init, TableInv, PhaseInv, NoID
<1>4. OrderInv
    BY DEF Init, OrderInv, Increasing
<1>5. QED
    BY <1>2, <1>3, <1>4 DEF HubInv

LEMMA PublishType == HubInv /\ Publish => TypeOK'
<1> SUFFICES ASSUME HubInv, Publish PROVE TypeOK'
    OBVIOUS
<1> USE DEF HubInv, TypeOK
<1>1. \A c \in Client : Offer(queue[c], SubscriberBuffer, published + 1) \in Seq(Nat)
                        /\ Len(Offer(queue[c], SubscriberBuffer, published + 1))
                                <= SubscriberBuffer
    BY OfferProperties
<1>2. queue' \in [Client -> Seq(Nat)]
    BY <1>1 DEF Publish
<1>3. \A c \in Client : Len(queue'[c]) <= SubscriberBuffer
    BY <1>1 DEF Publish
<1>4. QED
    BY <1>2, <1>3 DEF Publish, hubVars

LEMMA PublishOrder == HubInv /\ Publish => OrderInv'
<1> SUFFICES ASSUME HubInv, Publish, NEW c \in Client
             PROVE  /\ Increasing(got[c])
                    /\ Increasing(queue'[c])
                    /\ \A k \in DOMAIN queue'[c] : queue'[c][k] \in 1 .. published'
                    /\ \A k \in DOMAIN got[c] : got[c][k] \in 1 .. published'
                    /\ \A k \in DOMAIN got[c], l \in DOMAIN queue'[c] :
                            got[c][k] < queue'[c][l]
    BY DEF OrderInv, Publish
<1> DEFINE e == published + 1
<1>1. /\ published \in Nat /\ queue[c] \in Seq(Nat) /\ got[c] \in Seq(Nat)
      /\ Increasing(got[c]) /\ Increasing(queue[c])
      /\ \A k \in DOMAIN queue[c] : queue[c][k] \in 1 .. published
      /\ \A k \in DOMAIN got[c] : got[c][k] \in 1 .. published
      /\ \A k \in DOMAIN got[c], l \in DOMAIN queue[c] : got[c][k] < queue[c][l]
      /\ published' = e
    BY DEF HubInv, TypeOK, OrderInv, Publish
<1>2. queue'[c] = queue[c] \/ queue'[c] = Append(queue[c], e)
    BY DEF Publish, Offer, HubInv, TypeOK
<1>3. CASE queue'[c] = queue[c]
    BY <1>1, <1>3
<1>4. CASE queue'[c] = Append(queue[c], e)
    <2>1. Increasing(Append(queue[c], e))
        BY <1>1, AppendIncreasing
    <2>2. QED
        BY <1>1, <1>4, <2>1, AppendProperties
<1>5. QED
    BY <1>2, <1>3, <1>4

LEMMA PublishInv == HubInv /\ Publish => HubInv'
<1> SUFFICES ASSUME HubInv, Publish PROVE HubInv'
    OBVIOUS
<1>1. TypeOK' /\ OrderInv'
    BY PublishType, PublishOrder
<1>2. TableInv'
    BY DEF HubInv, TableInv, Publish, hubVars
<1>3. \A c \in Client : c \notin Registered => queue'[c] = queue[c]
    BY DEF Publish, HubInv, TypeOK
<1>4. PhaseInv'
    BY <1>3 DEF HubInv, TypeOK, TableInv, PhaseInv, Publish, hubVars, Registered
<1>5. QED
    BY <1>1, <1>2, <1>4 DEF HubInv

LEMMA SubscribeInv ==
    ASSUME NEW c \in Client
    PROVE  HubInv /\ Subscribe(c) => HubInv'
<1> SUFFICES ASSUME HubInv, Subscribe(c) PROVE HubInv'
    OBVIOUS
<1> USE DEF HubInv, TypeOK, Subscribe
<1>1. CASE SubscribeOpen(c)
    <2> USE <1>1 DEF SubscribeOpen
    <2>1. TypeOK'
        BY DEF NoID
    <2>2. TableInv'
        <3>1. /\ \A i \in DOMAIN subs : i < nextID /\ i # nextID
              /\ \A d \in Client : id[d] < nextID /\ id[d] # nextID
              /\ nextID # NoID
            BY DEF TableInv, NoID
        <3>2. /\ DOMAIN subs' = DOMAIN subs \cup {nextID}
              /\ subs'[nextID] = c
              /\ \A i \in DOMAIN subs : subs'[i] = subs[i]
            BY <3>1
        <3>3. id[c] = NoID /\ c \notin shut
            BY DEF PhaseInv
        <3>4. /\ id'[c] = nextID
              /\ \A d \in Client : d # c => id'[d] = id[d]
            OBVIOUS
        <3>5. \A i \in DOMAIN subs : subs[i] # c
            BY DEF TableInv
        <3>6. \A i \in DOMAIN subs' : /\ id'[subs'[i]] = i
                                      /\ phase'[subs'[i]] # "idle"
                                      /\ subs'[i] \notin shut'
            BY <3>1, <3>2, <3>3, <3>4, <3>5 DEF TableInv
        <3>7. \A d \in Client : (phase'[d] # "idle" /\ d \notin shut')
                        => id'[d] \in DOMAIN subs' /\ subs'[id'[d]] = d
            BY <3>1, <3>2, <3>4 DEF TableInv
        <3>8. /\ \A d \in Client : id'[d] < nextID'
              /\ \A d, f \in Client : id'[d] = id'[f] /\ id'[d] # NoID => d = f
            <4>1. \A d \in Client : id'[d] < nextID'
                <5>1. \A d \in Client : id[d] \in Int
                    BY DEF NoID
                <5>2. nextID' = nextID + 1 /\ nextID \in Nat
                    OBVIOUS
                <5> HIDE DEF HubInv, TypeOK, Subscribe, SubscribeOpen
                <5>3. QED
                    BY <3>1, <3>4, <5>1, <5>2
            <4>2. \A d, f \in Client : id[d] = id[f] /\ id[d] # NoID => d = f
                BY DEF TableInv
            <4>3. ASSUME NEW d \in Client, NEW f \in Client,
                         id'[d] = id'[f], id'[d] # NoID
                  PROVE  d = f
                BY <3>1, <3>4, <4>2, <4>3
            <4>4. QED
                BY <4>1, <4>3
        <3>9. QED
            BY <3>6, <3>7, <3>8 DEF TableInv
    <2>3. PhaseInv' /\ OrderInv'
        BY DEF PhaseInv, OrderInv
    <2>4. QED
        BY <2>1, <2>2, <2>3
<1>2. CASE SubscribeClosed(c)
    <2> USE <1>2 DEF SubscribeClosed
    <2>1. TypeOK' /\ TableInv'
        BY DEF TableInv
    <2>2. PhaseInv' /\ OrderInv'
        BY DEF PhaseInv, OrderInv
    <2>3. QED
        BY <2>1, <2>2
<1>3. QED
    BY <1>1, <1>2

\* Removing entries and closing exactly their channels keeps the table true.
LEMMA DropTable ==
    ASSUME NEW gone, HubInv, Drop(gone), UNCHANGED <<id, phase, nextID>>,
           closed' => closed \/ DOMAIN subs \subseteq gone
    PROVE  /\ TableInv'
           /\ DOMAIN subs' \subseteq 0 .. nextID' - 1
           /\ \A i \in DOMAIN subs' : subs'[i] \in Client
           /\ shut' \subseteq Client
           /\ shut \subseteq shut'
           /\ \A c \in Client : phase[c] = "idle" => (c \in shut' => c \in shut)
<1>1. DOMAIN subs' = DOMAIN subs \ gone /\ \A i \in DOMAIN subs' : subs'[i] = subs[i]
    BY DEF Drop
<1>2. shut' = shut \cup {subs[i] : i \in DOMAIN subs \cap gone}
    BY DEF Drop
<1>3. \A i, j \in DOMAIN subs : subs[i] = subs[j] => i = j
    BY DEF HubInv, TableInv
<1>4. TableInv'
    BY <1>1, <1>2, <1>3 DEF HubInv, TypeOK, TableInv
<1>5. QED
    BY <1>1, <1>2, <1>4 DEF HubInv, TypeOK, TableInv

LEMMA UnsubscribeInv ==
    ASSUME NEW c \in Client
    PROVE  HubInv /\ Unsubscribe(c) => HubInv'
<1> SUFFICES ASSUME HubInv, Unsubscribe(c) PROVE HubInv'
    OBVIOUS
<1> USE DEF Unsubscribe
<1>1. OrderInv'
    BY DEF HubInv, OrderInv
<1>2. CASE c \in once
    BY <1>1, <1>2 DEF HubInv, TypeOK, TableInv, PhaseInv
<1>3. CASE c \notin once
    <2>1. Drop({id[c]}) /\ UNCHANGED <<id, phase, nextID, closed>>
        BY <1>3
    <2>2. /\ TableInv'
          /\ DOMAIN subs' \subseteq 0 .. nextID' - 1
          /\ \A i \in DOMAIN subs' : subs'[i] \in Client
          /\ shut' \subseteq Client
          /\ shut \subseteq shut'
          /\ \A d \in Client : phase[d] = "idle" => (d \in shut' => d \in shut)
        BY <2>1, DropTable
    <2>3. TypeOK' /\ PhaseInv'
        BY <2>2 DEF HubInv, TypeOK, PhaseInv
    <2>4. QED
        BY <1>1, <2>2, <2>3 DEF HubInv
<1>4. QED
    BY <1>2, <1>3

LEMMA CloseInv == HubInv /\ Close => HubInv'
<1> SUFFICES ASSUME HubInv, Close PROVE HubInv'
    OBVIOUS
<1> USE DEF Close
<1>1. OrderInv'
    BY DEF HubInv, OrderInv
<1>2. CASE closed
    BY <1>1, <1>2 DEF HubInv, TypeOK, TableInv, PhaseInv
<1>3. CASE ~closed
    <2>1. Drop(DOMAIN subs) /\ UNCHANGED <<id, phase, nextID>>
        BY <1>3
    <2>2. /\ TableInv'
          /\ DOMAIN subs' \subseteq 0 .. nextID' - 1
          /\ \A i \in DOMAIN subs' : subs'[i] \in Client
          /\ shut' \subseteq Client
          /\ shut \subseteq shut'
          /\ \A d \in Client : phase[d] = "idle" => (d \in shut' => d \in shut)
        BY <2>1, DropTable
    <2>3. TypeOK' /\ PhaseInv'
        BY <2>2 DEF HubInv, TypeOK, PhaseInv
    <2>4. QED
        BY <1>1, <2>2, <2>3 DEF HubInv
<1>4. QED
    BY <1>2, <1>3

LEMMA ReceiveInv ==
    ASSUME NEW c \in Client
    PROVE  HubInv /\ Receive(c) => HubInv'
<1> SUFFICES ASSUME HubInv, Receive(c) PROVE HubInv'
    OBVIOUS
<1>1. /\ queue[c] \in Seq(Nat) /\ queue[c] # <<>> /\ got[c] \in Seq(Nat)
      /\ Head(queue[c]) \in Nat /\ Tail(queue[c]) \in Seq(Nat)
      /\ Len(Tail(queue[c])) = Len(queue[c]) - 1
      /\ queue' = [queue EXCEPT ![c] = Tail(queue[c])]
      /\ got' = [got EXCEPT ![c] = Append(got[c], Head(queue[c]))]
    BY HeadTailProperties DEF HubInv, TypeOK, Receive
<1>2. TypeOK'
    <2>1. queue' \in [Client -> Seq(Nat)] /\ got' \in [Client -> Seq(Nat)]
        BY <1>1, AppendProperties DEF HubInv, TypeOK
    <2>2. \A d \in Client : Len(queue'[d]) <= SubscriberBuffer
        BY <1>1 DEF HubInv, TypeOK
    <2>3. QED
        BY <2>1, <2>2 DEF HubInv, TypeOK, Receive, hubVars
<1>3. TableInv'
    BY DEF HubInv, TableInv, Receive, hubVars
<1>4. PhaseInv'
    BY <1>1 DEF HubInv, TypeOK, PhaseInv, Receive, hubVars
<1>5. OrderInv'
    <2> SUFFICES ASSUME NEW d \in Client
                 PROVE  /\ Increasing(got'[d])
                        /\ Increasing(queue'[d])
                        /\ \A k \in DOMAIN queue'[d] : queue'[d][k] \in 1 .. published
                        /\ \A k \in DOMAIN got'[d] : got'[d][k] \in 1 .. published
                        /\ \A k \in DOMAIN got'[d], l \in DOMAIN queue'[d] :
                                got'[d][k] < queue'[d][l]
        BY DEF OrderInv, Receive
    <2>1. CASE d # c
        BY <1>1, <2>1 DEF HubInv, TypeOK, OrderInv
    <2>2. CASE d = c
        <3> DEFINE h == Head(queue[c])
        <3>1. queue'[c] = Tail(queue[c]) /\ got'[c] = Append(got[c], h)
            BY <1>1 DEF HubInv, TypeOK
        <3>2. /\ Increasing(got[c]) /\ Increasing(queue[c])
              /\ \A k \in DOMAIN queue[c] : queue[c][k] \in 1 .. published
              /\ \A k \in DOMAIN got[c] : got[c][k] \in 1 .. published
              /\ \A k \in DOMAIN got[c], l \in DOMAIN queue[c] :
                        got[c][k] < queue[c][l]
            BY DEF HubInv, OrderInv
        <3>3. h = queue[c][1] /\ 1 \in DOMAIN queue[c]
            BY <1>1
        <3>4. /\ Increasing(Tail(queue[c]))
              /\ \A k \in DOMAIN Tail(queue[c]) :
                    /\ h < Tail(queue[c])[k]
                    /\ Tail(queue[c])[k] = queue[c][k + 1]
                    /\ k + 1 \in DOMAIN queue[c]
            BY <1>1, <3>2, TailIncreasing
        <3>5. Increasing(Append(got[c], h))
            BY <1>1, <3>2, <3>3, AppendIncreasing
        <3>6. \A k \in DOMAIN Append(got[c], h) :
                    \/ Append(got[c], h)[k] = h
                    \/ /\ k \in DOMAIN got[c]
                       /\ Append(got[c], h)[k] = got[c][k]
            <4>1. Append(got[c], h) \in Seq(Nat) /\ Len(Append(got[c], h)) = Len(got[c]) + 1
                BY <1>1, AppendProperties
            <4>2. /\ \A k \in 1 .. Len(got[c]) : Append(got[c], h)[k] = got[c][k]
                  /\ Append(got[c], h)[Len(got[c]) + 1] = h
                BY <1>1, AppendProperties
            <4>3. Len(got[c]) \in Nat /\ DOMAIN got[c] = 1 .. Len(got[c])
                BY <1>1
            <4>4. QED
                BY <4>1, <4>2, <4>3
        <3>7. \A k \in DOMAIN Tail(queue[c]) :
                    Tail(queue[c])[k] \in 1 .. published
            BY <3>2, <3>4
        <3>8. \A k \in DOMAIN Append(got[c], h) :
                    Append(got[c], h)[k] \in 1 .. published
            BY <3>2, <3>3, <3>6
        <3>9. \A k \in DOMAIN Append(got[c], h), l \in DOMAIN Tail(queue[c]) :
                    Append(got[c], h)[k] < Tail(queue[c])[l]
            BY <3>2, <3>4, <3>6
        <3>10. QED
            BY <2>2, <3>1, <3>4, <3>5, <3>7, <3>8, <3>9
    <2>3. QED
        BY <2>1, <2>2
<1>6. QED
    BY <1>2, <1>3, <1>4, <1>5 DEF HubInv

LEMMA SeeClosedInv ==
    ASSUME NEW c \in Client
    PROVE  HubInv /\ SeeClosed(c) => HubInv'
BY DEF HubInv, TypeOK, TableInv, PhaseInv, OrderInv, SeeClosed, hubVars

LEMMA HubNext == HubInv /\ [Next]_vars => HubInv'
<1> SUFFICES ASSUME HubInv, [Next]_vars PROVE HubInv'
    OBVIOUS
<1>1. CASE Publish
    BY <1>1, PublishInv
<1>2. CASE Close
    BY <1>2, CloseInv
<1>3. ASSUME NEW c \in Client, Subscribe(c) PROVE HubInv'
    BY <1>3, SubscribeInv
<1>4. ASSUME NEW c \in Client, Unsubscribe(c) PROVE HubInv'
    BY <1>4, UnsubscribeInv
<1>5. ASSUME NEW c \in Client, Read(c) PROVE HubInv'
    BY <1>5, ReceiveInv, SeeClosedInv DEF Read
<1>6. CASE UNCHANGED vars
    BY <1>6 DEF vars, HubInv, TypeOK, TableInv, PhaseInv, OrderInv
<1>7. QED
    BY <1>1, <1>2, <1>3, <1>4, <1>5, <1>6 DEF Next

\* The inductive invariant holds throughout: h.subs holds exactly the open
\* channels, and every channel is a window of the published events.
THEOREM HubSafe == SafeSpec => []HubInv
<1>1. Init => HubInv
    BY HubInit
<1>2. HubInv /\ [Next]_vars => HubInv'
    BY HubNext
<1>3. QED
    BY <1>1, <1>2, PTL DEF SafeSpec

\* The fields of the hub and its channels keep their shape; no channel ever
\* holds more than its capacity.
THEOREM HubTypeOK == SafeSpec => []TypeOK
<1>1. HubInv => TypeOK
    BY DEF HubInv
<1>2. QED
    BY <1>1, HubSafe, PTL

\* No send on a closed channel and no second close: the process does not die
\* of a subscriber leaving while another one is being served.
THEOREM HubNoPanic == SafeSpec => []NoPanic
<1>1. HubInv => NoPanic
    BY DEF HubInv, TypeOK, TableInv, NoPanic, Registered
<1>2. QED
    BY <1>1, HubSafe, PTL

\* A channel is open exactly while the table holds it under its own id.
THEOREM HubOpenIffRegistered == SafeSpec => []OpenIffRegistered
<1>1. HubInv => OpenIffRegistered
    BY DEF HubInv, TypeOK, TableInv, PhaseInv, OpenIffRegistered, NoID
<1>2. QED
    BY <1>1, HubSafe, PTL

\* After Close every channel ever handed out is closed, also those handed out
\* afterwards.
THEOREM HubClosedForGood == SafeSpec => []ClosedForGood
<1>1. HubInv => ClosedForGood
    BY DEF HubInv, TypeOK, TableInv, PhaseInv, ClosedForGood
<1>2. QED
    BY <1>1, HubSafe, PTL

\* Every subscriber sees a strictly increasing run of the published events.
THEOREM HubInOrderOnce == SafeSpec => []InOrderOnce
<1>1. HubInv => InOrderOnce
    <2> SUFFICES ASSUME HubInv, NEW c \in Client,
                        NEW i \in DOMAIN (got[c] \o queue[c]),
                        NEW j \in DOMAIN (got[c] \o queue[c]), i < j
                 PROVE  (got[c] \o queue[c])[i] < (got[c] \o queue[c])[j]
        BY DEF InOrderOnce, Increasing, Stream
    <2>1. /\ got[c] \in Seq(Nat) /\ queue[c] \in Seq(Nat)
          /\ Increasing(got[c]) /\ Increasing(queue[c])
          /\ \A k \in DOMAIN got[c], l \in DOMAIN queue[c] :
                got[c][k] < queue[c][l]
        BY DEF HubInv, TypeOK, OrderInv
    <2> DEFINE m == Len(got[c])
               n == Len(queue[c])
               s == got[c] \o queue[c]
    <2>2. /\ s \in Seq(Nat) /\ Len(s) = m + n
          /\ \A k \in 1 .. m + n : s[k] = IF k <= m THEN got[c][k]
                                                 ELSE queue[c][k - m]
        BY <2>1, ConcatProperties
    <2>3. /\ m \in Nat /\ n \in Nat
          /\ DOMAIN got[c] = 1 .. m /\ DOMAIN queue[c] = 1 .. n
        BY <2>1
    <2>4. i \in 1 .. m + n /\ j \in 1 .. m + n
        <3>1. DOMAIN s = 1 .. Len(s)
            BY <2>2
        <3>2. QED
            BY <2>2, <3>1
    <2> HIDE DEF m, n
    <2>5. CASE j <= m
        <3>1. i \in DOMAIN got[c] /\ j \in DOMAIN got[c]
            BY <2>3, <2>4, <2>5
        <3>2. s[i] = got[c][i] /\ s[j] = got[c][j]
            BY <2>2, <2>3, <2>4, <2>5
        <3>3. QED
            BY <2>1, <3>1, <3>2 DEF Increasing
    <2>6. CASE i <= m /\ m < j
        <3>1. i \in DOMAIN got[c] /\ j - m \in DOMAIN queue[c]
            BY <2>3, <2>4, <2>6
        <3>2. s[i] = got[c][i] /\ s[j] = queue[c][j - m]
            BY <2>2, <2>3, <2>4, <2>6
        <3>3. QED
            BY <2>1, <3>1, <3>2
    <2>7. CASE m < i
        <3>1. i - m \in DOMAIN queue[c] /\ j - m \in DOMAIN queue[c] /\ i - m < j - m
            BY <2>3, <2>4, <2>7
        <3>2. s[i] = queue[c][i - m] /\ s[j] = queue[c][j - m]
            BY <2>2, <2>3, <2>4, <2>7
        <3>3. QED
            BY <2>1, <3>1, <3>2 DEF Increasing
    <2>8. QED
        BY <2>3, <2>4, <2>5, <2>6, <2>7
<1>2. QED
    BY <1>1, HubSafe, PTL

-----------------------------------------------------------------------------
(* The refinement.  Abstract variables, as expressions over the hub's.     *)

statusBar  == [c \in Client |-> Status(c)]
pendingBar == [c \in Client |-> Waiting(c)]
lastBar    == [c \in Client |-> Last(c)]

\* The live subscriptions are those in the table.
LEMMA LiveIsRegistered ==
    ASSUME HubInv
    PROVE  \A c \in Client : Status(c) = "live" <=> c \in Registered
BY DEF HubInv, TypeOK, TableInv, PhaseInv, Status, Registered

LEMMA RefineInit == Init => B!Init
<1> SUFFICES ASSUME Init PROVE B!Init
    OBVIOUS
<1>1. \A c \in Client : Status(c) = "none" /\ Waiting(c) = {} /\ Last(c) = 0
    BY DEF Init, Status, Waiting, Last
<1>2. QED
    BY <1>1 DEF Init, B!Init

LEMMA RefinePublish == HubInv /\ Publish => B!Publish
<1> SUFFICES ASSUME HubInv, Publish PROVE B!Publish
    OBVIOUS
<1> DEFINE e == published + 1
           reached == {c \in Client : /\ c \in Registered /\ ~closed
                                      /\ Len(queue[c]) < SubscriberBuffer}
<1>1. /\ published \in Nat /\ published < MaxPublished /\ published' = e
      /\ queue \in [Client -> Seq(Nat)]
      /\ UNCHANGED <<closed, shut, phase, got>>
    BY DEF HubInv, TypeOK, Publish, hubVars
<1>2. statusBar' = statusBar /\ lastBar' = lastBar
    BY <1>1 DEF statusBar, lastBar, Status, Last
<1>3. closed => Registered = {}
    BY DEF HubInv, TableInv, Registered
<1>4. reached \in SUBSET {c \in Client : statusBar[c] = "live"}
    BY LiveIsRegistered DEF statusBar
<1>5. ASSUME NEW c \in Client \ reached, statusBar[c] = "live"
      PROVE  \E f \in [1 .. SubscriberBuffer -> pendingBar[c]] :
                \A i, j \in 1 .. SubscriberBuffer : f[i] = f[j] => i = j
    <2>1. c \in Registered /\ ~closed
        BY <1>3, <1>5, LiveIsRegistered DEF statusBar
    <2>2. Len(queue[c]) >= SubscriberBuffer /\ queue[c] \in Seq(Nat) /\ Increasing(queue[c])
        BY <1>1, <2>1 DEF HubInv, OrderInv
    <2> DEFINE f == [k \in 1 .. SubscriberBuffer |-> queue[c][k]]
    <2>3. /\ \A k \in 1 .. SubscriberBuffer : k \in DOMAIN queue[c]
          /\ \A k \in 1 .. SubscriberBuffer : queue[c][k] \in Nat
        BY <2>2
    <2>4. f \in [1 .. SubscriberBuffer -> pendingBar[c]]
        BY <2>3 DEF pendingBar, Waiting
    <2>5. ASSUME NEW i \in 1 .. SubscriberBuffer, NEW j \in 1 .. SubscriberBuffer,
                 f[i] = f[j]
          PROVE  i = j
        <3>1. i < j => queue[c][i] < queue[c][j]
            BY <2>2, <2>3 DEF Increasing
        <3>2. j < i => queue[c][j] < queue[c][i]
            BY <2>2, <2>3 DEF Increasing
        <3>3. queue[c][i] = queue[c][j] /\ queue[c][i] \in Nat
            BY <2>3, <2>5
        <3>4. QED
            BY <3>1, <3>2, <3>3
    <2>6. QED
        BY <2>4, <2>5
<1>6. pendingBar' = [c \in Client |-> IF c \in reached THEN pendingBar[c] \cup {e}
                                      ELSE pendingBar[c]]
    <2> SUFFICES ASSUME NEW c \in Client
                 PROVE  Waiting(c)' = IF c \in reached THEN Waiting(c) \cup {e}
                                      ELSE Waiting(c)
        BY DEF pendingBar
    <2>1. CASE c \in reached
        <3>1. queue'[c] = Append(queue[c], e)
            BY <1>1, <2>1 DEF Publish, Offer
        <3>2. /\ DOMAIN queue'[c] = DOMAIN queue[c] \cup {Len(queue[c]) + 1}
              /\ \A k \in DOMAIN queue[c] : queue'[c][k] = queue[c][k]
              /\ queue'[c][Len(queue[c]) + 1] = e
            BY <1>1, <3>1
        <3>3. QED
            BY <2>1, <3>2 DEF Waiting
    <2>2. CASE c \notin reached
        <3>1. queue'[c] = queue[c]
            BY <1>1, <1>3, <2>2 DEF Publish, Offer
        <3>2. QED
            BY <2>2, <3>1 DEF Waiting
    <2>3. QED
        BY <2>1, <2>2
<1>7. \E r \in SUBSET {c \in Client : statusBar[c] = "live"} :
        /\ \A c \in Client \ r : statusBar[c] = "live"
                => \E f \in [1 .. SubscriberBuffer -> pendingBar[c]] :
                        \A i, j \in 1 .. SubscriberBuffer : f[i] = f[j] => i = j
        /\ pendingBar' = [c \in Client |-> IF c \in r THEN pendingBar[c] \cup {e}
                                           ELSE pendingBar[c]]
    BY <1>4, <1>5, <1>6
<1> HIDE DEF reached
<1>8. QED
    BY <1>1, <1>2, <1>7 DEF B!Publish, B!FarBehind, statusBar, pendingBar, lastBar

LEMMA RefineSubscribe ==
    ASSUME NEW c \in Client
    PROVE  HubInv /\ Subscribe(c) => B!Join(c)
<1> SUFFICES ASSUME HubInv, Subscribe(c) PROVE B!Join(c)
    OBVIOUS
<1>1. UNCHANGED <<closed, queue, published, got>>
    BY DEF Subscribe
<1>2. pendingBar' = pendingBar /\ lastBar' = lastBar
    BY <1>1 DEF pendingBar, lastBar, Waiting, Last
<1>3. phase[c] = "idle" /\ c \notin shut
    BY DEF HubInv, PhaseInv, Subscribe
<1>4. shut' = IF closed THEN shut \cup {c} ELSE shut
    BY DEF Subscribe, SubscribeOpen, SubscribeClosed
<1>5. phase' = [phase EXCEPT ![c] = "reading"] /\ DOMAIN phase = Client
    BY DEF Subscribe, HubInv, TypeOK
<1>6. statusBar' = [statusBar EXCEPT ![c] = IF closed THEN "over" ELSE "live"]
    <2> SUFFICES ASSUME NEW d \in Client
                 PROVE  Status(d)' = IF d = c THEN (IF closed THEN "over" ELSE "live")
                                     ELSE Status(d)
        BY DEF statusBar
    <2>1. QED
        BY <1>3, <1>4, <1>5 DEF Status
<1>7. statusBar[c] = "none"
    BY <1>3 DEF statusBar, Status
<1>8. QED
    BY <1>1, <1>2, <1>6, <1>7 DEF B!Join, statusBar, pendingBar, lastBar


LEMMA RefineUnsubscribe ==
    ASSUME NEW c \in Client
    PROVE  HubInv /\ Unsubscribe(c) => B!Leave(c) \/ UNCHANGED B!bvars
<1> SUFFICES ASSUME HubInv, Unsubscribe(c)
             PROVE  B!Leave(c) \/ UNCHANGED B!bvars
    OBVIOUS
<1>1. UNCHANGED <<closed, queue, published, got, phase>>
    BY DEF Unsubscribe
<1>2. pendingBar' = pendingBar /\ lastBar' = lastBar
    BY <1>1 DEF pendingBar, lastBar, Waiting, Last
<1>3. CASE shut' = shut
    <2>1. statusBar' = statusBar
        BY <1>1, <1>3 DEF statusBar, Status
    <2>2. QED
        BY <1>1, <1>2, <2>1 DEF B!bvars, statusBar, pendingBar, lastBar
<1>4. CASE shut' # shut
    <2>1. id[c] \in DOMAIN subs /\ shut' = shut \cup {subs[id[c]]}
        BY <1>4 DEF Unsubscribe, Drop
    <2>2. subs[id[c]] = c /\ phase[c] # "idle" /\ c \notin shut
        BY <2>1 DEF HubInv, TypeOK, TableInv, NoID
    <2>3. phase[c] = "reading"
        BY <2>2 DEF HubInv, TypeOK, PhaseInv
    <2>4. statusBar' = [statusBar EXCEPT ![c] = "over"]
        <3> SUFFICES ASSUME NEW d \in Client
                     PROVE  Status(d)' = IF d = c THEN "over" ELSE Status(d)
            BY DEF statusBar
        <3>1. QED
            BY <1>1, <2>1, <2>2, <2>3 DEF Status
    <2>5. statusBar[c] = "live"
        BY <2>2, <2>3 DEF statusBar, Status
    <2>6. QED
        BY <1>1, <1>2, <2>4, <2>5 DEF B!Leave, statusBar, pendingBar, lastBar
<1>5. QED
    BY <1>3, <1>4

LEMMA RefineClose == HubInv /\ Close => B!Stop
<1> SUFFICES ASSUME HubInv, Close PROVE B!Stop
    OBVIOUS
<1>1. UNCHANGED <<queue, published, got, phase>> /\ closed' = TRUE
    BY DEF Close
<1>2. pendingBar' = pendingBar /\ lastBar' = lastBar
    BY <1>1 DEF pendingBar, lastBar, Waiting, Last
<1>3. HubInv'
    BY CloseInv
<1>4. \A c \in Client : phase[c] # "idle" => c \in shut'
    BY <1>1, <1>3 DEF HubInv, TypeOK, TableInv
<1>5. shut \subseteq shut'
    BY DEF Close, Drop
<1>6. statusBar' = [c \in Client |-> IF statusBar[c] = "live" THEN "over"
                                     ELSE statusBar[c]]
    <2> SUFFICES ASSUME NEW c \in Client
                 PROVE  Status(c)' = IF Status(c) = "live" THEN "over" ELSE Status(c)
        BY DEF statusBar
    <2>1. QED
        BY <1>1, <1>4, <1>5 DEF Status
<1>7. QED
    BY <1>1, <1>2, <1>6 DEF B!Stop, statusBar, pendingBar, lastBar

LEMMA RefineReceive ==
    ASSUME NEW c \in Client
    PROVE  HubInv /\ Receive(c) => B!Deliver(c)
<1> SUFFICES ASSUME HubInv, Receive(c) PROVE B!Deliver(c)
    OBVIOUS
<1> DEFINE h == Head(queue[c])
<1>1. UNCHANGED <<closed, published, phase, shut>>
    BY DEF Receive, hubVars
<1>2. statusBar' = statusBar
    BY <1>1 DEF statusBar, Status
<1>3. statusBar[c] \in {"live", "over"}
    BY DEF statusBar, Status, Receive
<1>4. /\ queue \in [Client -> Seq(Nat)] /\ got \in [Client -> Seq(Nat)]
      /\ queue[c] # <<>> /\ h \in Nat /\ Increasing(queue[c])
      /\ queue' = [queue EXCEPT ![c] = Tail(queue[c])]
      /\ got' = [got EXCEPT ![c] = Append(got[c], h)]
    BY HeadTailProperties DEF HubInv, TypeOK, OrderInv, Receive
<1>5. h = queue[c][1] /\ 1 \in DOMAIN queue[c] /\ queue[c] \in Seq(Nat)
    BY <1>4
<1>6. h \in Waiting(c) /\ \A x \in Waiting(c) : h <= x
    <2>1. DOMAIN queue[c] = 1 .. Len(queue[c]) /\ Len(queue[c]) \in Nat
        BY <1>5
    <2>2. ASSUME NEW k \in DOMAIN queue[c] PROVE h <= queue[c][k]
        <3>1. k = 1 \/ 1 < k
            BY <2>1
        <3>2. queue[c][k] \in Nat
            BY <1>5
        <3>3. QED
            BY <1>4, <1>5, <3>1, <3>2 DEF Increasing
    <2>3. QED
        BY <1>5, <2>2 DEF Waiting
<1>7. Waiting(c)' = Waiting(c) \ {h}
    <2>1. \A k \in DOMAIN Tail(queue[c]) : /\ h < Tail(queue[c])[k]
                                           /\ Tail(queue[c])[k] = queue[c][k + 1]
                                           /\ k + 1 \in DOMAIN queue[c]
        BY <1>4, <1>5, TailIncreasing
    <2>2. \A k \in DOMAIN queue[c] :
                k = 1 \/ (k - 1 \in DOMAIN Tail(queue[c]) /\ (k - 1) + 1 = k)
        BY <1>4, <1>5, HeadTailProperties
    <2>3. queue'[c] = Tail(queue[c])
        BY <1>4
    <2>4. \A x \in Waiting(c)' : x \in Waiting(c) \ {h}
        BY <1>4, <1>5, <2>1, <2>3 DEF Waiting
    <2>5. ASSUME NEW x \in Waiting(c) \ {h} PROVE x \in Waiting(c)'
        <3>1. PICK k \in DOMAIN queue[c] : x = queue[c][k]
            BY DEF Waiting
        <3>2. k # 1
            BY <1>5, <3>1
        <3>3. k - 1 \in DOMAIN Tail(queue[c]) /\ (k - 1) + 1 = k
            BY <2>2, <3>2
        <3>4. Tail(queue[c])[k - 1] = x
            BY <2>1, <3>1, <3>3
        <3>5. QED
            BY <2>3, <3>3, <3>4 DEF Waiting
    <2>6. QED
        BY <2>4, <2>5
<1>8. pendingBar' = [pendingBar EXCEPT ![c] = @ \ {h}]
    <2> SUFFICES ASSUME NEW d \in Client
                 PROVE  Waiting(d)' = IF d = c THEN Waiting(c) \ {h} ELSE Waiting(d)
        BY DEF pendingBar
    <2>1. CASE d = c
        BY <1>7, <2>1
    <2>2. CASE d # c
        BY <1>4, <2>2 DEF Waiting
    <2>3. QED
        BY <2>1, <2>2
<1>9. lastBar' = [lastBar EXCEPT ![c] = h]
    <2> SUFFICES ASSUME NEW d \in Client
                 PROVE  Last(d)' = IF d = c THEN h ELSE Last(d)
        BY DEF lastBar
    <2>1. CASE d = c
        <3>1. got'[c] = Append(got[c], h) /\ got[c] \in Seq(Nat)
            BY <1>4
        <3>2. /\ Append(got[c], h) # <<>>
              /\ Len(Append(got[c], h)) = Len(got[c]) + 1
              /\ Append(got[c], h)[Len(got[c]) + 1] = h
            <4>1. h \in Nat /\ got[c] \in Seq(Nat)
                BY <1>4
            <4> HIDE DEF h
            <4>2. QED
                BY <4>1, AppendProperties
        <3>3. QED
            BY <2>1, <3>1, <3>2 DEF Last
    <2>2. CASE d # c
        BY <1>4, <2>2 DEF Last
    <2>3. QED
        BY <2>1, <2>2
<1>10. \E e \in pendingBar[c] :
            /\ \A f \in pendingBar[c] : e <= f
            /\ pendingBar' = [pendingBar EXCEPT ![c] = @ \ {e}]
            /\ lastBar' = [lastBar EXCEPT ![c] = e]
    BY <1>6, <1>8, <1>9 DEF pendingBar
<1>11. QED
    BY <1>1, <1>2, <1>3, <1>10
    DEF B!Deliver, B!Oldest, statusBar, pendingBar, lastBar

LEMMA RefineSeeClosed ==
    ASSUME NEW c \in Client
    PROVE  HubInv /\ SeeClosed(c) => B!End(c)
<1> SUFFICES ASSUME HubInv, SeeClosed(c) PROVE B!End(c)
    OBVIOUS
<1>1. UNCHANGED <<closed, published, queue, got, shut>>
    BY DEF SeeClosed, hubVars
<1>2. pendingBar' = pendingBar /\ lastBar' = lastBar
    BY <1>1 DEF pendingBar, lastBar, Waiting, Last
<1>3. phase' = [phase EXCEPT ![c] = "ended"] /\ DOMAIN phase = Client
    BY DEF SeeClosed, HubInv, TypeOK
<1>4. phase[c] = "reading" /\ c \in shut /\ queue[c] = <<>>
    BY DEF SeeClosed
<1>5. statusBar' = [statusBar EXCEPT ![c] = "ended"]
    <2> SUFFICES ASSUME NEW d \in Client
                 PROVE  Status(d)' = IF d = c THEN "ended" ELSE Status(d)
        BY DEF statusBar
    <2>1. QED
        BY <1>1, <1>3 DEF Status
<1>6. statusBar[c] = "over" /\ pendingBar[c] = {}
    BY <1>4 DEF statusBar, pendingBar, Status, Waiting
<1>7. QED
    BY <1>1, <1>2, <1>5, <1>6 DEF B!End, statusBar, pendingBar, lastBar

LEMMA RefineNext == HubInv /\ [Next]_vars => [B!Next]_(B!bvars)
<1> SUFFICES ASSUME HubInv, [Next]_vars PROVE B!Next \/ UNCHANGED B!bvars
    OBVIOUS
<1>1. CASE Publish
    BY <1>1, RefinePublish DEF B!Next
<1>2. CASE Close
    BY <1>2, RefineClose DEF B!Next
<1>3. ASSUME NEW c \in Client, Subscribe(c) PROVE B!Next
    BY <1>3, RefineSubscribe DEF B!Next
<1>4. ASSUME NEW c \in Client, Unsubscribe(c) PROVE B!Next \/ UNCHANGED B!bvars
    BY <1>4, RefineUnsubscribe DEF B!Next
<1>5. ASSUME NEW c \in Client, Read(c) PROVE B!Next
    BY <1>5, RefineReceive, RefineSeeClosed DEF Read, B!Next, B!Serve
<1>6. CASE UNCHANGED vars
    BY <1>6 DEF vars, B!bvars, Status, Waiting, Last
<1>7. QED
    BY <1>1, <1>2, <1>3, <1>4, <1>5, <1>6 DEF Next

\* The hub does what ports.EventBroadcaster promises: a subscriber that keeps
\* up misses nothing, one that does not is the only one to miss events, and
\* nobody ever waits for it.
THEOREM HubImplements == SafeSpec => B!SafeSpec
<1>1. Init => B!Init
    BY RefineInit
<1>2. HubInv /\ [Next]_vars => [B!Next]_(B!bvars)
    BY RefineNext
<1>3. QED
    BY <1>1, <1>2, HubSafe, PTL DEF SafeSpec, B!SafeSpec
=============================================================================
