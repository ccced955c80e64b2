---------------------------- MODULE ServerProofs ----------------------------
(* What is proved of Server for any number of clients and requests: the    *)
(* process uses the hub as module Hub says, so the hub's own theorems hold *)
(* in it, and with them the order of the shutdown does what it is for.     *)
EXTENDS Server, TLAPS

\* The theorems about the hub, for the hub of this process.
HP == INSTANCE HubProofs

LEMMA EnvironmentKeepsHub == Environment => UNCHANGED hub
BY DEF Environment, GoDeaf, Connect, ClientLeaves, Ask, Hang, Signal

\* Every step is a step of the hub or none of its business.
LEMMA HubStep == Next => H!Next \/ UNCHANGED hub
<1> SUFFICES ASSUME Next PROVE H!Next \/ UNCHANGED hub
    OBVIOUS
<1> USE DEF H!Next
<1>1. CASE Environment
    BY <1>1, EnvironmentKeepsHub
<1>2. ASSUME NEW c \in Client, Handle(c) PROVE H!Next \/ UNCHANGED hub
    BY <1>2 DEF Handle, Subscribe, ReadRows, Written, Loop, Leave, H!Read
<1>3. ASSUME NEW r \in Request, Serve(r) PROVE H!Next \/ UNCHANGED hub
    BY <1>3 DEF Serve, Act, Announce
<1>4. CASE Watch
    BY <1>4 DEF Watch, RunnerReads, RunnerHasRead, RunnerPublishes, RunnerStops
<1>5. CASE ShutDown
    BY <1>5 DEF ShutDown, CloseHub, Drain, Drained, Timeout, CloseIdle
<1>6. CASE Run
    BY <1>6 DEF Run, Listen, ServerClosed, ListenFails, Exit
<1>7. QED
    BY <1>1, <1>2, <1>3, <1>4, <1>5, <1>6 DEF Next

\* By the way Server is composed a behaviour of the process is one of the hub,
\* which lets the hub's theorems be used here (main.go:111, 149, 205).
LEMMA ServerUsesHub == SafeSpec => H!SafeSpec
<1>1. Init => H!Init
    BY DEF Init
<1>2. [Next]_vars => [H!Next]_(H!vars)
    BY HubStep DEF vars, hub, H!vars
<1>3. QED
    BY <1>1, <1>2, PTL DEF SafeSpec, H!SafeSpec

\* Both instances of the hub's definitions say the same.
LEMMA SameHub == H!SafeSpec => HP!SafeSpec
<1>1. H!Init => HP!Init
    BY DEF H!Init, HP!Init, H!NoID, HP!NoID
<1>2. [H!Next]_(H!vars) => [HP!Next]_(HP!vars)
    BY DEF H!Next, HP!Next, H!vars, HP!vars, H!hubVars, HP!hubVars,
           H!Publish, HP!Publish, H!Registered, HP!Registered,
           H!Offer, HP!Offer, H!Close, HP!Close, H!Drop, HP!Drop,
           H!Subscribe, HP!Subscribe, H!SubscribeOpen, HP!SubscribeOpen,
           H!SubscribeClosed, HP!SubscribeClosed,
           H!Unsubscribe, HP!Unsubscribe, H!Read, HP!Read,
           H!Receive, HP!Receive, H!SeeClosed, HP!SeeClosed
<1>3. QED
    BY <1>1, <1>2, PTL DEF H!SafeSpec, HP!SafeSpec

\* So what is proved of the hub holds in the process.
LEMMA HubInServer == SafeSpec => [](H!TypeOK /\ H!ClosedForGood)
<1>1. HP!SafeSpec => []HP!ClosedForGood
    BY HP!HubClosedForGood, BufferAssumption, MaxPublishedAssumption
<1>2. HP!SafeSpec => []HP!TypeOK
    BY HP!HubTypeOK, BufferAssumption, MaxPublishedAssumption
<1>3. HP!ClosedForGood => H!ClosedForGood
    BY DEF HP!ClosedForGood, H!ClosedForGood
<1>4. HP!TypeOK => H!TypeOK
    BY DEF HP!TypeOK, H!TypeOK, HP!NoID, H!NoID
<1>5. QED
    BY <1>1, <1>2, <1>3, <1>4, ServerUsesHub, SameHub, PTL

-----------------------------------------------------------------------------

LEMMA ServerInit == Init => ServerInv
<1> SUFFICES ASSUME Init PROVE ServerInv
    OBVIOUS
<1>1. TypeOK
    <2>1. /\ handler \in [Client -> {"none", "accepted", "subscribed", "writing",
                                     "live", "leaving", "gone"}]
          /\ request \in [Request -> {"none", "working", "announcing", "gone"}]
        BY DEF Init
    <2>2. wg \in 0 .. 2
        BY DEF Init
    <2>3. QED
        BY <2>1, <2>2 DEF Init, TypeOK
<1>2. HubFirst /\ GroupInv
    BY DEF Init, HubFirst, GroupInv
<1>3. QED
    BY <1>1, <1>2 DEF ServerInv

LEMMA EnvironmentInv == ServerInv /\ Environment => ServerInv'
<1> SUFFICES ASSUME ServerInv, Environment PROVE ServerInv'
    OBVIOUS
<1> USE DEF ServerInv, TypeOK, HubFirst, GroupInv, Over, Listening,
            process, outside, hub
<1>1. ASSUME NEW c \in Client, GoDeaf(c) PROVE ServerInv'
    BY <1>1 DEF GoDeaf
<1>2. ASSUME NEW c \in Client, Connect(c) PROVE ServerInv'
    BY <1>2 DEF Connect
<1>3. ASSUME NEW c \in Client, ClientLeaves(c) PROVE ServerInv'
    BY <1>3 DEF ClientLeaves
<1>4. ASSUME NEW r \in Request, Ask(r) PROVE ServerInv'
    BY <1>4 DEF Ask
<1>5. CASE Hang
    BY <1>5 DEF Hang
<1>6. CASE Signal
    BY <1>6 DEF Signal
<1>7. QED
    BY <1>1, <1>2, <1>3, <1>4, <1>5, <1>6 DEF Environment

\* A client that has subscribed has a channel from then on.
LEMMA HubPhases ==
    ASSUME H!TypeOK, NEW c \in Client
    PROVE  /\ H!Subscribe(c) =>
                /\ closed' = closed
                /\ phase'[c] # "idle"
                /\ \A d \in Client : phase[d] # "idle" => phase'[d] # "idle"
           /\ H!Read(c) =>
                /\ closed' = closed
                /\ \A d \in Client : phase[d] # "idle" => phase'[d] # "idle"
           /\ H!Unsubscribe(c) => closed' = closed /\ phase' = phase
BY DEF H!TypeOK, H!Subscribe, H!SubscribeOpen, H!SubscribeClosed, H!Read,
       H!Receive, H!SeeClosed, H!Unsubscribe, H!hubVars

\* Publishing and closing subscribe nobody.
LEMMA HubStays ==
    /\ H!Publish => closed' = closed /\ phase' = phase
    /\ H!Close => closed' = TRUE /\ phase' = phase
BY DEF H!Publish, H!Close, H!hubVars

LEMMA HandleInv ==
    ASSUME H!TypeOK, NEW c \in Client
    PROVE  ServerInv /\ Handle(c) => ServerInv'
<1> SUFFICES ASSUME ServerInv, Handle(c) PROVE ServerInv'
    OBVIOUS
<1> USE HubPhases, HubStays DEF ServerInv, TypeOK, HubFirst, GroupInv, Over, process,
                      outside, hub
<1>1. CASE Subscribe(c)
    BY <1>1 DEF Subscribe
<1>2. CASE ReadRows(c)
    BY <1>2 DEF ReadRows
<1>3. CASE Written(c)
    BY <1>3 DEF Written
<1>4. CASE Loop(c)
    BY <1>4 DEF Loop, H!Read
<1>5. CASE Leave(c)
    BY <1>5 DEF Leave
<1>6. QED
    BY <1>1, <1>2, <1>3, <1>4, <1>5 DEF Handle

LEMMA ServeInv ==
    ASSUME H!TypeOK, NEW r \in Request
    PROVE  ServerInv /\ Serve(r) => ServerInv'
<1> SUFFICES ASSUME ServerInv, Serve(r) PROVE ServerInv'
    OBVIOUS
<1> USE HubPhases, HubStays DEF ServerInv, TypeOK, HubFirst, GroupInv, Over, process,
                      outside, hub
<1>1. CASE Act(r)
    BY <1>1 DEF Act
<1>2. CASE Announce(r)
    BY <1>2 DEF Announce
<1>3. QED
    BY <1>1, <1>2 DEF Serve

\* The goroutines leave the wait group once each.
LEMMA GoroutineInv ==
    ASSUME H!TypeOK
    PROVE  ServerInv /\ (Watch \/ ShutDown) => ServerInv'
<1> SUFFICES ASSUME ServerInv, Watch \/ ShutDown PROVE ServerInv'
    OBVIOUS
<1> USE HubPhases, HubStays DEF ServerInv, TypeOK, HubFirst, GroupInv, Over, process,
                      outside, hub, Watch, ShutDown
<1>1. CASE Watch /\ (RunnerReads \/ RunnerHasRead)
    BY <1>1 DEF RunnerReads, RunnerHasRead
<1>2. CASE Watch /\ RunnerPublishes
    BY <1>2 DEF RunnerPublishes
<1>3. CASE Watch /\ RunnerStops
    BY <1>3 DEF RunnerStops
<1>4. CASE ShutDown /\ CloseHub
    BY <1>4 DEF CloseHub
<1>5. CASE ShutDown /\ Drain
    BY <1>5 DEF Drain
<1>6. CASE ShutDown /\ (Drained \/ Timeout)
    <2>1. /\ closer = "draining" /\ closer' = "done" /\ wg' = wg - 1
          /\ UNCHANGED <<hub, main, cancelled, runner, handler, request, deaf, hung>>
          /\ gaveUp' \in BOOLEAN
          /\ ~gaveUp' => /\ \A c \in Client : handler[c] \in Over
                         /\ \A r \in Request : request[r] \in Over
        BY <1>6 DEF Drained, Timeout
    <2>2. TypeOK' /\ HubFirst'
        BY <2>1
    <2>3. main # "exited"
        BY <1>6
    <2>4. GroupInv'
        BY <2>1, <2>3
    <2>5. QED
        BY <2>2, <2>4
<1>7. ASSUME NEW c \in Client, CloseIdle(c) PROVE ServerInv'
    BY <1>7 DEF CloseIdle
<1>8. QED
    BY <1>1, <1>2, <1>3, <1>4, <1>5, <1>6, <1>7

LEMMA RunInv ==
    ASSUME H!TypeOK
    PROVE  ServerInv /\ Run => ServerInv'
<1> SUFFICES ASSUME ServerInv, Run PROVE ServerInv'
    OBVIOUS
<1> USE HubPhases, HubStays DEF ServerInv, TypeOK, HubFirst, GroupInv, Over, process,
                      outside, hub
<1>1. CASE Listen
    BY <1>1 DEF Listen
<1>2. CASE ServerClosed
    BY <1>2 DEF ServerClosed
<1>3. CASE ListenFails
    BY <1>3 DEF ListenFails
<1>4. CASE Exit
    BY <1>4 DEF Exit
<1>5. QED
    BY <1>1, <1>2, <1>3, <1>4 DEF Run

LEMMA ServerNext == H!TypeOK /\ ServerInv /\ [Next]_vars => ServerInv'
<1> SUFFICES ASSUME H!TypeOK, ServerInv, [Next]_vars PROVE ServerInv'
    OBVIOUS
<1>1. CASE UNCHANGED vars
    BY <1>1 DEF vars, hub, process, outside, ServerInv, TypeOK, HubFirst,
                GroupInv
<1>2. CASE Next
    BY <1>2, EnvironmentInv, HandleInv, ServeInv, GoroutineInv, RunInv DEF Next
<1>3. QED
    BY <1>1, <1>2

\* The inductive invariant of the process, for any number of clients.
THEOREM ServerSafe == SafeSpec => []ServerInv
<1>1. Init => ServerInv
    BY ServerInit
<1>2. H!TypeOK /\ ServerInv /\ [Next]_vars => ServerInv'
    BY ServerNext
<1>3. QED
    BY <1>1, <1>2, HubInServer, PTL DEF SafeSpec

\* Exiting in good order cuts off no stream, no request and no watch loop
\* (main.go:192-193, 202-213).
THEOREM ServerNothingCutOff == SafeSpec => []NothingCutOff
<1>1. ServerInv => NothingCutOff
    BY DEF ServerInv, TypeOK, GroupInv, NothingCutOff
<1>2. QED
    BY <1>1, ServerSafe, PTL

\* Since the hub was closed first and a closed hub has closed every channel it
\* ever gave out, no stream waits for an event when the timeout elapses
\* (main.go:199-210, hub.go:66-70, 91-108).
THEOREM ServerStreamsEnd == SafeSpec => StreamsDoNotHoldShutdown
<1> DEFINE Ended ==
        (gaveUp' /\ ~gaveUp) =>
            \A c \in Client :
                \/ handler[c] \in Over
                \/ handler[c] = "writing" /\ c \in deaf
                \/ handler[c] = "subscribed" /\ hung
<1>1. ServerInv /\ H!ClosedForGood /\ Timeout => Ended
    BY DEF ServerInv, TypeOK, HubFirst, H!ClosedForGood, Timeout, Moving, Over
<1>2. [Next]_vars => Timeout \/ gaveUp' = gaveUp
    BY DEF Next, vars, process, Environment, GoDeaf, Connect, ClientLeaves, Ask,
           Hang, Signal, Handle, Subscribe, ReadRows, Written, Loop, Leave,
           Serve, Act, Announce, Watch, RunnerReads, RunnerHasRead,
           RunnerPublishes, RunnerStops, ShutDown, CloseHub, Drain, Drained,
           CloseIdle, Run, Listen, ServerClosed, ListenFails, Exit
<1>3. ServerInv /\ H!ClosedForGood /\ [Next]_vars => [Ended]_vars
    BY <1>1, <1>2
<1>4. QED
    BY <1>3, ServerSafe, HubInServer, PTL DEF SafeSpec, StreamsDoNotHoldShutdown
=============================================================================
