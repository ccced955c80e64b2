------------------------------- MODULE Server -------------------------------
(***************************************************************************)
(* The process of cmd/server/main.go from ListenAndServe to its exit: the  *)
(* signal, the goroutine that shuts down, the watch loop, the handlers of  *)
(* the HTTP server and the hub they share, which is module Hub.            *)
(*                                                                         *)
(* The HTTP server is what its documentation says: Shutdown closes the     *)
(* listener and waits for the handlers, but does not cancel their          *)
(* contexts, and a connection that has not sent its request yet may still  *)
(* do so for some seconds.  One keep-alive frame is one more write and is  *)
(* not told apart from a change.                                           *)
(***************************************************************************)
EXTENDS Integers, Sequences

CONSTANTS
    Client,             \* event streams: clients that open one
    Request,            \* other requests: they act on the runtime
    SubscriberBuffer,   \* as in Hub
    MaxPublished        \* bound, as in Hub

ASSUME BufferAssumption == SubscriberBuffer \in Nat \ {0}
ASSUME MaxPublishedAssumption == MaxPublished \in Nat

VARIABLES
    \* The hub, see Hub.
    subs, nextID, closed, queue, shut, id, once, phase, published, got,
    \* The process.
    main,       \* "starting", "serving", "waiting", "failed" or "exited"
    cancelled,  \* ctx is done
    closer,     \* "waiting", "closed", "draining" or "done"
    runner,     \* "selecting", "reading", "publishing" or "done"
    wg,         \* the counter of the WaitGroup
    gaveUp,     \* Shutdown returned because its timeout elapsed
    \* The handlers.
    handler,    \* of each stream, see TypeOK
    request,    \* of each other request
    \* What they wait for.
    deaf,       \* streams whose client does not read and keeps writes waiting
    hung        \* the runtime does not answer

hub == <<subs, nextID, closed, queue, shut, id, once, phase, published, got>>
process == <<main, cancelled, closer, runner, wg, gaveUp>>
outside == <<deaf, hung>>
vars == <<hub, process, handler, request, outside>>

H == INSTANCE Hub

Init ==
    /\ H!Init
    /\ main = "starting"
    /\ cancelled = FALSE
    /\ closer = "waiting"
    /\ runner = "selecting"
    /\ wg = 2
    /\ gaveUp = FALSE
    /\ handler = [c \in Client |-> "none"]
    /\ request = [r \in Request |-> "none"]
    /\ deaf = {}
    /\ hung = FALSE

-----------------------------------------------------------------------------
(* Clients and the runtime.                                                *)

\* A client stops reading, and a write to it waits; its connection stays open.
GoDeaf(c) ==
    /\ handler[c] = "writing"
    /\ deaf' = deaf \cup {c}
    /\ UNCHANGED <<hub, process, handler, request, hung>>

Hang ==
    /\ hung' = ~hung
    /\ UNCHANGED <<hub, process, handler, request, deaf>>

Listening == main = "serving" /\ closer \notin {"draining", "done"}

\* A connection is accepted; its request has not been read yet.
Connect(c) ==
    /\ Listening
    /\ handler[c] = "none"
    /\ handler' = [handler EXCEPT ![c] = "accepted"]
    /\ UNCHANGED <<hub, process, request, outside>>

\* The client closes the connection: the context of its request is done.
ClientLeaves(c) ==
    /\ handler[c] \in {"accepted", "subscribed", "writing", "live"}
    /\ handler' = [handler EXCEPT ![c] =
                        IF @ = "accepted" THEN "gone" ELSE "leaving"]
    /\ UNCHANGED <<hub, process, request, outside>>

Ask(r) ==
    /\ Listening
    /\ request[r] = "none"
    /\ request' = [request EXCEPT ![r] = "working"]
    /\ UNCHANGED <<hub, process, handler, outside>>

Signal ==
    /\ ~cancelled
    /\ cancelled' = TRUE
    /\ UNCHANGED <<hub, main, closer, runner, wg, gaveUp, handler, request,
                   outside>>

Environment ==
    /\ main # "exited"
    /\ \/ \E c \in Client : GoDeaf(c) \/ Connect(c) \/ ClientLeaves(c)
       \/ \E r \in Request : Ask(r)
       \/ Hang
       \/ Signal

-----------------------------------------------------------------------------
(* The handlers.  Adapter.stream first.                                    *)

\* Whether the hub is still open makes no difference to the handler here.
Subscribe(c) ==
    /\ handler[c] = "accepted"
    /\ H!Subscribe(c)
    /\ handler' = [handler EXCEPT ![c] = "subscribed"]
    /\ UNCHANGED <<process, request, outside>>

\* The rows are read; the sync frame is next, or the answer is 503.
ReadRows(c) ==
    /\ handler[c] = "subscribed"
    /\ ~hung
    /\ \E next \in {"writing", "leaving"} :
            handler' = [handler EXCEPT ![c] = next]
    /\ UNCHANGED <<hub, process, request, outside>>

Written(c) ==
    /\ handler[c] = "writing"
    /\ c \notin deaf
    /\ handler' = [handler EXCEPT ![c] = "live"]
    /\ UNCHANGED <<hub, process, request, outside>>

\* The loop: a change is written, a closed channel ends the handler.
Loop(c) ==
    /\ handler[c] = "live"
    /\ \/ /\ H!Receive(c)
          /\ handler' = [handler EXCEPT ![c] = "writing"]
       \/ /\ H!SeeClosed(c)
          /\ handler' = [handler EXCEPT ![c] = "leaving"]
    /\ UNCHANGED <<process, request, outside>>

\* The deferred unsubscribe.
Leave(c) ==
    /\ handler[c] = "leaving"
    /\ H!Unsubscribe(c)
    /\ handler' = [handler EXCEPT ![c] = "gone"]
    /\ UNCHANGED <<process, request, outside>>

Handle(c) ==
    /\ main # "exited"
    /\ Subscribe(c) \/ ReadRows(c) \/ Written(c) \/ Loop(c) \/ Leave(c)

\* Some other request: it calls the runtime, announces what it did, and ends.
Act(r) ==
    /\ request[r] = "working"
    /\ ~hung
    /\ request' = [request EXCEPT ![r] = "announcing"]
    /\ UNCHANGED <<hub, process, handler, outside>>

Announce(r) ==
    /\ request[r] = "announcing"
    /\ H!Publish \/ UNCHANGED hub
    /\ request' = [request EXCEPT ![r] = "gone"]
    /\ UNCHANGED <<process, handler, outside>>

Serve(r) ==
    /\ main # "exited"
    /\ Act(r) \/ Announce(r)

-----------------------------------------------------------------------------
(* The watch loop, as far as the hub and the wait group see it.            *)

RunnerReads ==
    /\ runner = "selecting"
    /\ runner' = "reading"
    /\ UNCHANGED <<hub, main, cancelled, closer, wg, gaveUp, handler, request,
                   outside>>

\* The read fails at once when the context is done.
RunnerHasRead ==
    /\ runner = "reading"
    /\ \/ ~hung /\ ~cancelled /\ runner' = "publishing"
       \/ runner' = "selecting" /\ ~hung
       \/ runner' = "selecting" /\ cancelled
    /\ UNCHANGED <<hub, main, cancelled, closer, wg, gaveUp, handler, request,
                   outside>>

RunnerPublishes ==
    /\ runner = "publishing"
    /\ H!Publish \/ UNCHANGED hub
    /\ runner' = "selecting"
    /\ UNCHANGED <<main, cancelled, closer, wg, gaveUp, handler, request,
                   outside>>

\* Mutant: the goroutine calls Done itself and defers it too.
RunnerStopsTwice ==
    /\ runner = "selecting"
    /\ cancelled
    /\ runner' = "done"
    /\ wg' = wg - 2
    /\ UNCHANGED <<hub, main, cancelled, closer, gaveUp, handler, request,
                   outside>>

RunnerStops ==
    /\ runner = "selecting"
    /\ cancelled
    /\ runner' = "done"
    /\ wg' = wg - 1
    /\ UNCHANGED <<hub, main, cancelled, closer, gaveUp, handler, request,
                   outside>>

Watch ==
    /\ main # "exited"
    /\ RunnerReads \/ RunnerHasRead \/ RunnerPublishes \/ RunnerStops

-----------------------------------------------------------------------------
(* shutdown, in a goroutine of its own.                                    *)

\* Mutant: the server is drained first, and the hub closed by main's defer.
LeaveHub ==
    /\ closer = "waiting"
    /\ cancelled
    /\ closer' = "closed"
    /\ UNCHANGED <<hub, main, cancelled, runner, wg, gaveUp, handler, request,
                   outside>>

CloseHub ==
    /\ closer = "waiting"
    /\ cancelled
    /\ H!Close
    /\ closer' = "closed"
    /\ UNCHANGED <<main, cancelled, runner, wg, gaveUp, handler, request,
                   outside>>

\* Shutdown marks the server and closes its listener.
Drain ==
    /\ closer = "closed"
    /\ closer' = "draining"
    /\ UNCHANGED <<hub, main, cancelled, runner, wg, gaveUp, handler, request,
                   outside>>

\* A connection without a request is closed after some seconds.
CloseIdle(c) ==
    /\ closer = "draining"
    /\ handler[c] = "accepted"
    /\ handler' = [handler EXCEPT ![c] = "gone"]
    /\ UNCHANGED <<hub, process, request, outside>>

Over == {"none", "gone"}

Drained ==
    /\ closer = "draining"
    /\ \A c \in Client : handler[c] \in Over
    /\ \A r \in Request : request[r] \in Over
    /\ closer' = "done"
    /\ wg' = wg - 1
    /\ UNCHANGED <<hub, main, cancelled, runner, gaveUp, handler, request,
                   outside>>

\* A handler that waits for nobody.
Moving(c) ==
    \/ handler[c] \in {"accepted", "leaving"}
    \/ handler[c] = "subscribed" /\ ~hung
    \/ handler[c] = "writing" /\ c \notin deaf
    \/ handler[c] = "live" /\ (queue[c] # <<>> \/ c \in shut)

\* The timeout (10 s unless configured) is taken to be longer than all the
\* handlers do that waits for nobody: it elapses only when none of them moves.
Timeout ==
    /\ closer = "draining"
    /\ \E c \in Client : handler[c] \notin Over
       \/ \E r \in Request : request[r] \notin Over
    /\ \A c \in Client : ~Moving(c)
    /\ \A r \in Request : request[r] \in Over \/ (request[r] = "working" /\ hung)
    /\ gaveUp' = TRUE
    /\ closer' = "done"
    /\ wg' = wg - 1
    /\ UNCHANGED <<hub, main, cancelled, runner, handler, request, outside>>

ShutDown ==
    /\ main # "exited"
    /\ \/ CloseHub \/ Drain \/ Drained \/ Timeout
       \/ \E c \in Client : CloseIdle(c)

-----------------------------------------------------------------------------
(* The main goroutine.                                                     *)

\* ListenAndServe accepts connections, unless Shutdown was there first.
Listen ==
    /\ main = "starting"
    /\ main' = IF closer \in {"draining", "done"} THEN "waiting" ELSE "serving"
    /\ UNCHANGED <<hub, cancelled, closer, runner, wg, gaveUp, handler,
                   request, outside>>

\* It returns ErrServerClosed as soon as Shutdown begins.
ServerClosed ==
    /\ main = "serving"
    /\ closer \in {"draining", "done"}
    /\ main' = "waiting"
    /\ UNCHANGED <<hub, cancelled, closer, runner, wg, gaveUp, handler,
                   request, outside>>

\* Mutant: the failure is returned without stopping the goroutines.
ListenFailsAlone ==
    /\ main \in {"starting", "serving"}
    /\ closer \notin {"draining", "done"}
    /\ main' = "failed"
    /\ UNCHANGED <<hub, cancelled, closer, runner, wg, gaveUp, handler,
                   request, outside>>

\* The port is taken, or accepting fails: stop() cancels the context.
ListenFails ==
    /\ main \in {"starting", "serving"}
    /\ closer \notin {"draining", "done"}
    /\ main' = "failed"
    /\ cancelled' = TRUE
    /\ UNCHANGED <<hub, closer, runner, wg, gaveUp, handler, request, outside>>

\* Mutant: main returns as soon as the server does.
ExitAtOnce ==
    /\ main \in {"waiting", "failed"}
    /\ H!Close
    /\ main' = "exited"
    /\ UNCHANGED <<cancelled, closer, runner, wg, gaveUp, handler, request,
                   outside>>

\* wg.Wait returns, and the deferred calls close the hub again and the source.
Exit ==
    /\ main \in {"waiting", "failed"}
    /\ wg = 0
    /\ H!Close
    /\ main' = "exited"
    /\ UNCHANGED <<cancelled, closer, runner, wg, gaveUp, handler, request,
                   outside>>

Run == Listen \/ ServerClosed \/ ListenFails \/ Exit

Next ==
    \/ Environment
    \/ \E c \in Client : Handle(c)
    \/ \E r \in Request : Serve(r)
    \/ Watch
    \/ ShutDown
    \/ Run

SafeSpec == Init /\ [][Next]_vars

\* Goroutines that can go on do; the select of the watch loop, which has its
\* context and perhaps its timers to choose from, chooses at random, so it
\* does not overlook the context for ever; the timer of the shutdown elapses
\* however often the runtime wakes up and falls asleep again.  Clients, signals
\* and the runtime owe us nothing.
Fairness ==
    /\ \A c \in Client : WF_vars(Handle(c))
    /\ \A r \in Request : WF_vars(Serve(r))
    /\ WF_vars(Watch)
    /\ SF_vars(main # "exited" /\ RunnerStops)
    /\ SF_vars(ShutDown)
    /\ WF_vars(Run)

Spec == SafeSpec /\ Fairness

-----------------------------------------------------------------------------

\* TYPE: the shape of the process; the wait group never goes below zero, which
\* would be a panic.
TypeOK ==
    /\ main \in {"starting", "serving", "waiting", "failed", "exited"}
    /\ cancelled \in BOOLEAN
    /\ closer \in {"waiting", "closed", "draining", "done"}
    /\ runner \in {"selecting", "reading", "publishing", "done"}
    /\ wg \in 0 .. 2
    /\ gaveUp \in BOOLEAN
    /\ handler \in [Client -> {"none", "accepted", "subscribed", "writing",
                               "live", "leaving", "gone"}]
    /\ request \in [Request -> {"none", "working", "announcing", "gone"}]
    /\ deaf \subseteq Client
    /\ hung \in BOOLEAN

\* When the shutdown runs into its timeout, every stream that is left waits for
\* a client that does not read or a runtime that does not answer, and none for
\* an event: the others have ended by themselves, those that subscribed during
\* the shutdown included, so that "Shutdown has nothing left to wait for"
\* (main.go:199-201).
StreamsDoNotHoldShutdown ==
    [][(gaveUp' /\ ~gaveUp) =>
            \A c \in Client :
                \/ handler[c] \in Over
                \/ handler[c] = "writing" /\ c \in deaf
                \/ handler[c] = "subscribed" /\ hung]_vars

\* A process that exits without having run into the timeout cuts nothing off:
\* no stream, no action half done, no watch loop (main.go:85-86, 192-193).
NothingCutOff ==
    main = "exited" /\ ~gaveUp =>
        /\ \A c \in Client : handler[c] \in Over
        /\ \A r \in Request : request[r] \in Over
        /\ runner = "done"

\* A handler that has subscribed holds a channel; the hub is closed before the
\* server is drained.
HubFirst ==
    /\ \A c \in Client :
        handler[c] \in {"subscribed", "writing", "live"} => phase[c] # "idle"
    /\ closer # "waiting" => closed

\* The wait group counts the goroutines that are left; the one that shuts down
\* is only through when no handler is left or its timeout elapsed.
GroupInv ==
    /\ wg = (IF runner = "done" THEN 0 ELSE 1) + (IF closer = "done" THEN 0 ELSE 1)
    /\ main = "exited" => wg = 0
    /\ closer = "done" /\ ~gaveUp =>
        /\ \A c \in Client : handler[c] \in Over
        /\ \A r \in Request : request[r] \in Over

\* The inductive invariant behind NothingCutOff and, with the hub's own,
\* StreamsDoNotHoldShutdown.
ServerInv == TypeOK /\ HubFirst /\ GroupInv

\* Once it is told to stop, or cannot listen, the process exits, even if a
\* client never reads and the runtime never answers (main.go:176-194).
Stops == cancelled \/ main = "failed" ~> main = "exited"
=============================================================================
