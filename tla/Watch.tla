------------------------------- MODULE Watch -------------------------------
(***************************************************************************)
(* How a change of the project becomes a read of it: the goroutine behind  *)
(* docker.Client.Watch follows the runtime's event stream and reconnects   *)
(* with a growing delay (internal/adapters/docker/client.go), and the loop *)
(* of MonitorService.Run debounces its signals and also reads on a ticker  *)
(* (internal/app/monitor_service.go).  What a read then does is module     *)
(* LiveView.                                                               *)
(*                                                                         *)
(* Time is a tick that advances every timer at once.  A timer that reached *)
(* zero stays ready until the loop's select takes it, and select may take  *)
(* any ready case, so nothing here is prompt.                              *)
(***************************************************************************)
EXTENDS Integers, Sequences, Channel

CONSTANTS
    Debounce,       \* ticks from the first signal of a burst to its read
    Interval,       \* ticks between the ticker's reads
    MinDelay,       \* reconnectMinDelay, in ticks
    MaxDelay,       \* reconnectMaxDelay, in ticks
    MaxWire,        \* bound: messages sent by the runtime and not yet read
    MaxOutages      \* bound: how often the runtime becomes unreachable

ASSUME TimerAssumption ==
    /\ Debounce \in Nat \ {0}
    /\ Interval \in Nat \ {0}
    /\ MinDelay \in Nat \ {0}
    /\ MaxDelay \in Nat
    /\ MinDelay <= MaxDelay

ASSUME BoundAssumption == MaxWire \in Nat /\ MaxOutages \in Nat

Stopped == -1       \* a timer that is not running

VARIABLES
    up,         \* the runtime answers
    outages,    \* bound: outages so far
    wire,       \* messages in the event stream
    done,       \* ctx is done
    broken,     \* the event stream's connection is lost
    link,       \* the Watch goroutine: "off", "streaming", "waiting", "closed"
    err,        \* what stream returned when it last ended
    delay,      \* the next reconnection delay
    wait,       \* what is left of the current one
    out,        \* the signal channel, of capacity one
    loop,       \* Run: "first", "select", "reading", "stopped"
    deaf,       \* changes = nil: the signal channel was seen closed
    armed,      \* the loop's flag
    timer,      \* what is left of the debounce, 0 = fired, or Stopped
    ticker,     \* what is left until the ticker's next tick
    ticked,     \* a tick waits in ticker.C
    stale,      \* history: the project changed since it was last read
    recent,     \* history: how many messages are about such a change
    owed,       \* history: stream() has taken a message about such a change
    failed,     \* history: the last read failed
    waited,     \* history: ticks since the debounce was armed
    since,      \* history: ticks since it last fired, up to Debounce
    useful      \* history: this event stream has carried a message

runtime == <<up, outages, broken>>
source  == <<wire, link, err, delay, wait, useful>>
timers  == <<timer, ticker, ticked, waited, since>>
run     == <<loop, deaf, armed>>
ledger  == <<stale, recent, owed, failed>>
vars == <<runtime, done, source, out, run, timers, ledger>>

Init ==
    /\ up = TRUE
    /\ outages = 0
    /\ broken = FALSE
    /\ wire = 0
    /\ done = FALSE
    /\ link = "off"
    /\ err = "nil"
    /\ delay = MinDelay
    /\ wait = 0
    /\ out = <<>>
    /\ loop = "first"
    /\ deaf = FALSE
    /\ armed = FALSE
    /\ timer = Stopped
    /\ ticker = Interval
    /\ ticked = FALSE
    /\ stale = TRUE
    /\ recent = 0
    /\ owed = FALSE
    /\ failed = FALSE
    /\ waited = 0
    /\ since = Debounce
    /\ useful = FALSE

AtMost(a, b) == IF a < b THEN a ELSE b

-----------------------------------------------------------------------------
(* The runtime, and time.                                                  *)

\* The project changes.  Only a connected event stream hears of it.
ProjectChanges ==
    /\ wire < MaxWire
    /\ stale' = TRUE
    /\ IF link = "streaming" /\ up /\ ~broken
       THEN wire' = wire + 1 /\ recent' = recent + 1
       ELSE UNCHANGED <<wire, recent>>
    /\ UNCHANGED <<runtime, done, link, err, delay, wait, useful, out, run,
                   timers, owed, failed>>

\* However short, an outage costs the event stream its connection.
Outage ==
    /\ up
    /\ outages < MaxOutages
    /\ up' = FALSE
    /\ outages' = outages + 1
    /\ broken' = (link = "streaming")
    /\ UNCHANGED <<done, source, out, run, timers, ledger>>

Recover ==
    /\ ~up
    /\ up' = TRUE
    /\ UNCHANGED <<outages, broken, done, source, out, run, timers, ledger>>

\* SIGINT or SIGTERM.
Cancel ==
    /\ ~done
    /\ done' = TRUE
    /\ UNCHANGED <<runtime, source, out, run, timers, ledger>>

CountDown(n) == IF n > 0 THEN n - 1 ELSE n

\* A ticker whose last tick was not taken drops the next one.
Tick ==
    /\ loop # "stopped"
    /\ timer' = CountDown(timer)
    /\ waited' = IF timer = Stopped THEN waited ELSE AtMost(waited + 1, Debounce)
    /\ since' = AtMost(since + 1, Debounce)
    /\ wait' = CountDown(wait)
    /\ IF loop = "first" THEN UNCHANGED <<ticker, ticked>>
       ELSE IF ticker = 1 THEN ticker' = Interval /\ ticked' = TRUE
       ELSE ticker' = ticker - 1 /\ UNCHANGED ticked
    /\ UNCHANGED <<runtime, done, wire, link, err, delay, useful, out, run,
                   ledger>>

-----------------------------------------------------------------------------
(* docker.Client.Watch and stream.                                         *)

\* A message becomes a signal, or nothing when a signal waits already.
Message ==
    /\ link = "streaming"
    /\ wire > 0
    /\ wire' = wire - 1
    /\ recent' = AtMost(recent, wire - 1)
    /\ owed' = (owed \/ recent = wire)
    /\ out' = Offer(out, 1, "changed")
    /\ useful' = TRUE
    /\ UNCHANGED <<runtime, done, link, err, delay, wait, run, timers, stale,
                   failed>>

\* The stream fails, or the daemon ends it: either way stream returns an error
\* that is not nil, and the messages still on the wire are lost.
Interrupted ==
    /\ link = "streaming"
    /\ ~up \/ broken
    /\ ~done
    /\ err' \in {"StreamClosed", "StreamFailed"}
    /\ link' = "waiting"
    /\ wait' = delay
    /\ wire' = 0
    /\ recent' = 0
    /\ UNCHANGED <<runtime, done, delay, useful, out, run, timers, stale,
                   owed, failed>>

\* Mutant: the delay is doubled without a bound.
ReconnectUncapped ==
    /\ link = "waiting"
    /\ wait = 0
    /\ delay' = delay * 2
    /\ link' = "streaming"
    /\ broken' = FALSE
    /\ useful' = FALSE
    /\ UNCHANGED <<up, outages, done, wire, err, wait, out, run, timers,
                   ledger>>

\* After the delay: double it, within bounds, and take the doubling back if
\* stream ended without an error.  Then follow the stream again.
Reconnect ==
    /\ link = "waiting"
    /\ wait = 0
    /\ delay' = IF err = "nil" THEN MinDelay ELSE AtMost(delay * 2, MaxDelay)
    /\ link' = "streaming"
    /\ broken' = FALSE
    /\ useful' = FALSE
    /\ UNCHANGED <<up, outages, done, wire, err, wait, out, run, timers,
                   ledger>>

\* Mutant: only the wait between two streams looks at ctx.
StopWatchingWhenIdle ==
    /\ done
    /\ link = "waiting"
    /\ link' = "closed"
    /\ wire' = 0
    /\ recent' = 0
    /\ UNCHANGED <<runtime, done, err, delay, wait, useful, out, run, timers,
                   stale, owed, failed>>

\* ctx is done: the goroutine returns and closes the signal channel.
StopWatching ==
    /\ done
    /\ link \in {"streaming", "waiting"}
    /\ link' = "closed"
    /\ wire' = 0
    /\ recent' = 0
    /\ UNCHANGED <<runtime, done, err, delay, wait, useful, out, run, timers,
                   stale, owed, failed>>

-----------------------------------------------------------------------------
(* MonitorService.Run.                                                     *)

\* Mutant: every signal of a burst starts the debounce again.
TakeSignalAgain ==
    /\ loop = "select"
    /\ ~deaf
    /\ out # <<>>
    /\ out' = Tail(out)
    /\ armed' = TRUE
    /\ timer' = Debounce
    /\ UNCHANGED <<waited, runtime, done, source, loop, deaf, ticker, ticked,
                   since, ledger>>

\* Mutant: the first signal is acted on at once.
TakeSignalAtOnce ==
    /\ loop = "select"
    /\ ~deaf
    /\ out # <<>>
    /\ out' = Tail(out)
    /\ armed' = TRUE
    /\ timer' = 0
    /\ UNCHANGED <<waited, runtime, done, source, loop, deaf, ticker, ticked,
                   since, ledger>>

\* case <-changes: the first signal of a burst arms the debounce, the others
\* are absorbed.
TakeSignal ==
    /\ loop = "select"
    /\ ~deaf
    /\ out # <<>>
    /\ out' = Tail(out)
    /\ armed' = TRUE
    /\ IF armed THEN UNCHANGED <<timer, waited>>
                ELSE timer' = Debounce /\ waited' = 0
    /\ UNCHANGED <<runtime, done, source, loop, deaf, ticker, ticked, since,
                   ledger>>

\* The signal channel is closed: the case stops firing.
SourceFinished ==
    /\ loop = "select"
    /\ ~deaf
    /\ out = <<>>
    /\ link = "closed"
    /\ deaf' = TRUE
    /\ UNCHANGED <<runtime, done, source, out, loop, armed, timers, ledger>>

\* Mutant: the flag is not taken back when the debounce fires.
DebounceFiresArmed ==
    /\ loop = "select"
    /\ timer = 0
    /\ timer' = Stopped
    /\ since' = 0
    /\ loop' = "reading"
    /\ UNCHANGED <<runtime, done, source, out, deaf, armed, ticker, ticked,
                   waited, ledger>>

\* case <-debounce.C
DebounceFires ==
    /\ loop = "select"
    /\ timer = 0
    /\ timer' = Stopped
    /\ armed' = FALSE
    /\ since' = 0
    /\ loop' = "reading"
    /\ UNCHANGED <<runtime, done, source, out, deaf, ticker, ticked, waited,
                   ledger>>

\* case <-ticker.C
TickerFires ==
    /\ loop = "select"
    /\ ticked
    /\ ticked' = FALSE
    /\ loop' = "reading"
    /\ UNCHANGED <<runtime, done, source, out, deaf, armed, timer, ticker,
                   waited, since, ledger>>

\* The loop goes on after a read; Watch is called after the first one.
Proceed ==
    /\ loop \in {"first", "reading"}
    /\ loop' = "select"
    /\ link' = IF loop = "first" THEN "streaming" ELSE link

Read ==
    /\ up
    /\ Proceed
    /\ stale' = FALSE
    /\ recent' = 0
    /\ owed' = FALSE
    /\ failed' = FALSE
    /\ UNCHANGED <<runtime, done, wire, err, delay, wait, useful, out, deaf,
                   armed, timers>>

\* Mutant: a failed read is returned, which ends the loop.
ReadFailsForGood ==
    /\ ~up \/ done
    /\ loop \in {"first", "reading"}
    /\ loop' = "stopped"
    /\ failed' = TRUE
    /\ UNCHANGED <<runtime, done, source, out, deaf, armed, timers, stale,
                   recent, owed>>

\* Logged and left to the next read, also when ctx was done meanwhile.
ReadFails ==
    /\ ~up \/ done
    /\ Proceed
    /\ failed' = TRUE
    /\ UNCHANGED <<runtime, done, wire, err, delay, wait, useful, out, deaf,
                   armed, timers, stale, recent, owed>>

\* case <-ctx.Done()
StopRunning ==
    /\ loop = "select"
    /\ done
    /\ loop' = "stopped"
    /\ UNCHANGED <<runtime, done, source, out, deaf, armed, timers, ledger>>

Follow == Message \/ Interrupted \/ Reconnect
Finish == Read \/ ReadFails

Next ==
    \/ ProjectChanges \/ Outage \/ Recover \/ Cancel \/ Tick
    \/ Follow \/ StopWatching
    \/ TakeSignal \/ SourceFinished \/ DebounceFires \/ TickerFires
    \/ Finish \/ StopRunning

SafeSpec == Init /\ [][Next]_vars

\* Go's select chooses at random among the ready cases, so none that is ready
\* again and again is passed over for ever; the runtime comes back; time goes
\* on.  Nobody is obliged to change a container or to stop the program.
Fairness ==
    /\ WF_vars(Recover)
    /\ WF_vars(Tick)
    /\ WF_vars(Follow)
    /\ WF_vars(StopWatching)
    /\ WF_vars(TakeSignal)
    /\ WF_vars(SourceFinished)
    /\ WF_vars(DebounceFires)
    /\ SF_vars(TickerFires)
    /\ WF_vars(Finish)
    /\ SF_vars(StopRunning)

Spec == SafeSpec /\ Fairness

-----------------------------------------------------------------------------

FlagsType ==
    /\ up \in BOOLEAN
    /\ broken \in BOOLEAN
    /\ done \in BOOLEAN
    /\ useful \in BOOLEAN
    /\ deaf \in BOOLEAN
    /\ armed \in BOOLEAN
    /\ ticked \in BOOLEAN
    /\ stale \in BOOLEAN
    /\ owed \in BOOLEAN
    /\ failed \in BOOLEAN

SourceType ==
    /\ outages \in 0 .. MaxOutages
    /\ wire \in 0 .. MaxWire
    /\ recent \in 0 .. wire
    /\ link \in {"off", "streaming", "waiting", "closed"}
    /\ err \in {"nil", "StreamClosed", "StreamFailed"}
    /\ delay \in MinDelay .. MaxDelay
    /\ wait \in 0 .. MaxDelay
    /\ out \in {<<>>, <<"changed">>}

RunType ==
    /\ loop \in {"first", "select", "reading", "stopped"}
    /\ timer \in Stopped .. Debounce
    /\ ticker \in 1 .. Interval
    /\ waited \in 0 .. Debounce
    /\ since \in 0 .. Debounce

\* TYPE: the shape of the state; the delay stays between its two bounds.
TypeOK == FlagsType /\ SourceType /\ RunType

\* A message taken from the stream is never forgotten: until the project is
\* read after the change it was about, its signal waits in the channel or the
\* debounce timer is running or has fired or a read is under way, unless that
\* read failed.  Capacity one and the armed flag may swallow messages, never
\* the last of them (client.go:151-153, monitor_service.go:272-301).
NoLostSignal ==
    owed => \/ out # <<>>
            \/ timer # Stopped
            \/ loop = "reading"
            \/ failed
            \/ done

\* A burst postpones nothing: from its first signal the debounce takes
\* Debounce ticks, whatever arrives meanwhile (monitor_service.go:274-277).
NeverPostponed == timer # Stopped => waited + timer = Debounce

\* Two debounced reads are at least Debounce apart, so a burst costs a single
\* read (monitor_service.go:272-275).
Debounced == [][timer = 0 /\ timer' = Stopped => since >= Debounce]_vars

\* The flag says whether a debounce is under way; the last one fired before
\* this one was armed; a signal channel is seen closed only once it is.
LoopInv ==
    /\ armed <=> timer # Stopped
    /\ timer # Stopped => waited <= since
    /\ deaf => link = "closed"
    /\ loop = "first" => link = "off"

\* The inductive invariant behind NoLostSignal, NeverPostponed and Debounced:
\* the flag, the timer and the channel never disagree, in whatever order
\* signals, timers and cancellation come (monitor_service.go:272-312).
WatchInv == TypeOK /\ LoopInv /\ NoLostSignal /\ NeverPostponed

\* Whatever is lost, a change is read sooner or later: signals swallowed,
\* messages on a broken stream, changes before the stream was connected and
\* failed reads are all made up for by the ticker.
EventuallyRead == stale ~> (~stale \/ done)

\* Cancelling ctx ends both goroutines, whatever they were doing.
StopsCleanly == done ~> (loop = "stopped" /\ link = "closed")

\* "A stream that ran long enough to be worth reconnecting to quickly gets the
\* short delay back" (client.go:177-179): after a stream that carried messages
\* the backoff starts over.
ShortDelayBack ==
    [][link = "waiting" /\ link' = "streaming" /\ useful
            => delay' = MinDelay]_vars
=============================================================================
