---------------------------- MODULE WatchProofs ----------------------------
(***************************************************************************)
(* How a change becomes a read, for any debounce, interval and delays: no  *)
(* signal is lost, no burst postpones its read, and debounced reads are a  *)
(* debounce apart.                                                         *)
(***************************************************************************)
EXTENDS Watch, TLAPS

USE TimerAssumption, BoundAssumption DEF Stopped

\* The signal channel holds at most one signal.
LEMMA SignalChannel ==
    ASSUME out \in {<<>>, <<"changed">>}
    PROVE  /\ Offer(out, 1, "changed") = <<"changed">>
           /\ out # <<>> => Tail(out) = <<>>
           /\ <<"changed">> # <<>>
<1>1. CASE out = <<>>
    <2>1. Len(out) = 0 /\ Append(out, "changed") = <<"changed">>
        BY <1>1
    <2>2. Offer(out, 1, "changed") = <<"changed">>
        BY <2>1 DEF Offer
    <2> QED
        BY <1>1, <2>2
<1>2. CASE out = <<"changed">>
    <2>1. Len(out) = 1 /\ Tail(out) = <<>>
        BY <1>2
    <2>2. Offer(out, 1, "changed") = <<"changed">>
        BY <1>2, <2>1 DEF Offer
    <2> QED
        BY <2>1, <2>2
<1> QED
    BY <1>1, <1>2

LEMMA WatchInit == Init => WatchInv
<1> SUFFICES ASSUME Init
             PROVE  WatchInv
    OBVIOUS
<1>1. FlagsType
    BY DEF Init, FlagsType
<1>2. SourceType
    BY DEF Init, SourceType
<1>3. RunType
    BY DEF Init, RunType
<1>4. LoopInv
    BY DEF Init, LoopInv
<1>5. NoLostSignal
    BY DEF Init, NoLostSignal
<1>6. NeverPostponed
    BY DEF Init, NeverPostponed
<1> QED
    BY <1>1, <1>2, <1>3, <1>4, <1>5, <1>6 DEF WatchInv, TypeOK

-----------------------------------------------------------------------------
(* The runtime and the clock.                                              *)

LEMMA ChangeStep == WatchInv /\ ProjectChanges => WatchInv'
<1> SUFFICES ASSUME WatchInv, ProjectChanges
             PROVE  WatchInv'
    OBVIOUS
<1> USE DEF WatchInv, TypeOK
<1>1. FlagsType'
    BY DEF FlagsType, LoopInv, ProjectChanges, runtime, run, timers
<1>2. SourceType'
    BY DEF SourceType, ProjectChanges, runtime, run, timers
<1>3. RunType'
    BY DEF RunType, LoopInv, ProjectChanges, runtime, run, timers
<1>4. LoopInv'
    BY DEF LoopInv, RunType, SourceType, ProjectChanges, runtime, run, timers
<1>5. NoLostSignal'
    BY DEF NoLostSignal, LoopInv, RunType, SourceType, ProjectChanges,
           runtime, run, timers
<1>6. NeverPostponed'
    BY DEF NeverPostponed, LoopInv, RunType, ProjectChanges, runtime, run,
           timers
<1> QED
    BY <1>1, <1>2, <1>3, <1>4, <1>5, <1>6

LEMMA OutageStep == WatchInv /\ (Outage \/ Recover \/ Cancel) => WatchInv'
<1> SUFFICES ASSUME WatchInv, Outage \/ Recover \/ Cancel
             PROVE  WatchInv'
    OBVIOUS
<1> USE DEF WatchInv, TypeOK
<1>1. FlagsType'
    BY DEF FlagsType, LoopInv, Outage, Recover, Cancel, runtime, source, run,
           timers, ledger
<1>2. SourceType'
    BY DEF SourceType, Outage, Recover, Cancel, runtime, source, run, timers,
           ledger
<1>3. RunType'
    BY DEF RunType, LoopInv, Outage, Recover, Cancel, runtime, source, run,
           timers, ledger
<1>4. LoopInv'
    BY DEF LoopInv, RunType, SourceType, Outage, Recover, Cancel, runtime,
           source, run, timers, ledger
<1>5. NoLostSignal'
    BY DEF NoLostSignal, LoopInv, RunType, SourceType, Outage, Recover,
           Cancel, runtime, source, run, timers, ledger
<1>6. NeverPostponed'
    BY DEF NeverPostponed, LoopInv, RunType, Outage, Recover, Cancel, runtime,
           source, run, timers, ledger
<1> QED
    BY <1>1, <1>2, <1>3, <1>4, <1>5, <1>6

LEMMA TickStep == WatchInv /\ Tick => WatchInv'
<1> SUFFICES ASSUME WatchInv, Tick
             PROVE  WatchInv'
    OBVIOUS
<1> USE DEF WatchInv, TypeOK
<1>1. FlagsType'
    BY DEF FlagsType, LoopInv, Tick, AtMost, CountDown, runtime, run, ledger
<1>2. SourceType'
    BY DEF SourceType, Tick, AtMost, CountDown, runtime, run, ledger
<1>3. RunType'
    BY DEF RunType, LoopInv, Tick, AtMost, CountDown, runtime, run, ledger
<1>4. LoopInv'
    BY DEF LoopInv, RunType, SourceType, Tick, AtMost, CountDown, runtime,
           run, ledger
<1>5. NoLostSignal'
    BY DEF NoLostSignal, LoopInv, RunType, SourceType, Tick, AtMost,
           CountDown, runtime, run, ledger
<1>6. NeverPostponed'
    BY DEF NeverPostponed, LoopInv, RunType, Tick, AtMost, CountDown, runtime,
           run, ledger
<1> QED
    BY <1>1, <1>2, <1>3, <1>4, <1>5, <1>6

-----------------------------------------------------------------------------
(* The goroutine that follows the event stream.                            *)

LEMMA MessageStep == WatchInv /\ Message => WatchInv'
<1> SUFFICES ASSUME WatchInv, Message
             PROVE  WatchInv'
    OBVIOUS
<1> USE DEF WatchInv, TypeOK
<1>1. FlagsType'
    BY DEF FlagsType, LoopInv, Message, AtMost, runtime, run,
           timers
<1>2. SourceType'
    BY SignalChannel DEF SourceType, Message, AtMost, runtime, run, timers
<1>3. RunType'
    BY DEF RunType, LoopInv, Message, AtMost, runtime, run,
           timers
<1>4. LoopInv'
    BY DEF LoopInv, RunType, SourceType, Message, AtMost,
           runtime, run, timers
<1>5. NoLostSignal'
    BY SignalChannel DEF NoLostSignal, LoopInv, RunType, SourceType, Message,
           AtMost, runtime, run, timers
<1>6. NeverPostponed'
    BY DEF NeverPostponed, LoopInv, RunType, Message, AtMost,
           runtime, run, timers
<1> QED
    BY <1>1, <1>2, <1>3, <1>4, <1>5, <1>6

LEMMA StreamEndStep == WatchInv /\ (Interrupted \/ StopWatching) => WatchInv'
<1> SUFFICES ASSUME WatchInv, Interrupted \/ StopWatching
             PROVE  WatchInv'
    OBVIOUS
<1> USE DEF WatchInv, TypeOK
<1>1. FlagsType'
    BY DEF FlagsType, LoopInv, Interrupted, StopWatching, runtime, run, timers
<1>2. SourceType'
    BY DEF SourceType, Interrupted, StopWatching, runtime, run, timers
<1>3. RunType'
    BY DEF RunType, LoopInv, Interrupted, StopWatching, runtime, run, timers
<1>4. LoopInv'
    BY DEF LoopInv, RunType, SourceType, Interrupted, StopWatching, runtime,
           run, timers
<1>5. NoLostSignal'
    BY DEF NoLostSignal, LoopInv, RunType, SourceType, Interrupted,
           StopWatching, runtime, run, timers
<1>6. NeverPostponed'
    BY DEF NeverPostponed, LoopInv, RunType, Interrupted, StopWatching,
           runtime, run, timers
<1> QED
    BY <1>1, <1>2, <1>3, <1>4, <1>5, <1>6

LEMMA ReconnectStep == WatchInv /\ Reconnect => WatchInv'
<1> SUFFICES ASSUME WatchInv, Reconnect
             PROVE  WatchInv'
    OBVIOUS
<1> USE DEF WatchInv, TypeOK
<1>1. FlagsType'
    BY DEF FlagsType, LoopInv, Reconnect, AtMost, run, timers, ledger
<1>2. SourceType'
    BY DEF SourceType, Reconnect, AtMost, run, timers, ledger
<1>3. RunType'
    BY DEF RunType, LoopInv, Reconnect, AtMost, run, timers, ledger
<1>4. LoopInv'
    BY DEF LoopInv, RunType, SourceType, Reconnect, AtMost, run, timers,
           ledger
<1>5. NoLostSignal'
    BY DEF NoLostSignal, LoopInv, RunType, SourceType, Reconnect, AtMost, run,
           timers, ledger
<1>6. NeverPostponed'
    BY DEF NeverPostponed, LoopInv, RunType, Reconnect, AtMost, run, timers,
           ledger
<1> QED
    BY <1>1, <1>2, <1>3, <1>4, <1>5, <1>6

-----------------------------------------------------------------------------
(* The loop.                                                               *)

LEMMA SignalStep == WatchInv /\ (TakeSignal \/ SourceFinished) => WatchInv'
<1> SUFFICES ASSUME WatchInv, TakeSignal \/ SourceFinished
             PROVE  WatchInv'
    OBVIOUS
<1> USE DEF WatchInv, TypeOK
<1>1. FlagsType'
    BY DEF FlagsType, LoopInv, TakeSignal, SourceFinished,
           runtime, source, timers, ledger
<1>2. SourceType'
    BY SignalChannel DEF SourceType, TakeSignal, SourceFinished, runtime,
           source, timers, ledger
<1>3. RunType'
    BY DEF RunType, LoopInv, TakeSignal, SourceFinished,
           runtime, source, timers, ledger
<1>4. LoopInv'
    BY DEF LoopInv, RunType, SourceType, TakeSignal,
           SourceFinished, runtime, source, timers, ledger
<1>5. NoLostSignal'
    <2>1. CASE TakeSignal
        <3>1. timer' # Stopped
            BY <2>1 DEF RunType, LoopInv, TakeSignal
        <3> QED
            BY <3>1 DEF NoLostSignal
    <2>2. CASE SourceFinished
        BY <2>2 DEF NoLostSignal, SourceFinished, runtime, source, timers, ledger
    <2> QED
        BY <2>1, <2>2
<1>6. NeverPostponed'
    BY DEF NeverPostponed, LoopInv, RunType, TakeSignal,
           SourceFinished, runtime, source, timers, ledger
<1> QED
    BY <1>1, <1>2, <1>3, <1>4, <1>5, <1>6

LEMMA TimerStep == WatchInv /\ (DebounceFires \/ TickerFires) => WatchInv'
<1> SUFFICES ASSUME WatchInv, DebounceFires \/ TickerFires
             PROVE  WatchInv'
    OBVIOUS
<1> USE DEF WatchInv, TypeOK
<1>1. FlagsType'
    BY DEF FlagsType, LoopInv, DebounceFires, TickerFires, runtime, source,
           ledger
<1>2. SourceType'
    BY DEF SourceType, DebounceFires, TickerFires, runtime, source, ledger
<1>3. RunType'
    BY DEF RunType, LoopInv, DebounceFires, TickerFires, runtime, source,
           ledger
<1>4. LoopInv'
    BY DEF LoopInv, RunType, SourceType, DebounceFires, TickerFires, runtime,
           source, ledger
<1>5. NoLostSignal'
    BY DEF NoLostSignal, LoopInv, RunType, SourceType, DebounceFires,
           TickerFires, runtime, source, ledger
<1>6. NeverPostponed'
    BY DEF NeverPostponed, LoopInv, RunType, DebounceFires, TickerFires,
           runtime, source, ledger
<1> QED
    BY <1>1, <1>2, <1>3, <1>4, <1>5, <1>6

LEMMA ReadStep == WatchInv /\ (Read \/ ReadFails) => WatchInv'
<1> SUFFICES ASSUME WatchInv, Read \/ ReadFails
             PROVE  WatchInv'
    OBVIOUS
<1> USE DEF WatchInv, TypeOK
<1>1. FlagsType'
    BY DEF FlagsType, LoopInv, Read, ReadFails, Proceed, runtime, timers
<1>2. SourceType'
    BY DEF SourceType, Read, ReadFails, Proceed, runtime, timers
<1>3. RunType'
    BY DEF RunType, LoopInv, Read, ReadFails, Proceed, runtime, timers
<1>4. LoopInv'
    BY DEF LoopInv, RunType, SourceType, Read, ReadFails, Proceed, runtime,
           timers
<1>5. NoLostSignal'
    BY DEF NoLostSignal, LoopInv, RunType, SourceType, Read, ReadFails,
           Proceed, runtime, timers
<1>6. NeverPostponed'
    BY DEF NeverPostponed, LoopInv, RunType, Read, ReadFails, Proceed,
           runtime, timers
<1> QED
    BY <1>1, <1>2, <1>3, <1>4, <1>5, <1>6

LEMMA StopRunningStep == WatchInv /\ StopRunning => WatchInv'
<1> SUFFICES ASSUME WatchInv, StopRunning
             PROVE  WatchInv'
    OBVIOUS
<1> USE DEF WatchInv, TypeOK
<1>1. FlagsType'
    BY DEF FlagsType, LoopInv, StopRunning, runtime, source, timers, ledger
<1>2. SourceType'
    BY DEF SourceType, StopRunning, runtime, source, timers, ledger
<1>3. RunType'
    BY DEF RunType, LoopInv, StopRunning, runtime, source, timers, ledger
<1>4. LoopInv'
    BY DEF LoopInv, RunType, SourceType, StopRunning, runtime, source, timers,
           ledger
<1>5. NoLostSignal'
    BY DEF NoLostSignal, LoopInv, RunType, SourceType, StopRunning, runtime,
           source, timers, ledger
<1>6. NeverPostponed'
    BY DEF NeverPostponed, LoopInv, RunType, StopRunning, runtime, source,
           timers, ledger
<1> QED
    BY <1>1, <1>2, <1>3, <1>4, <1>5, <1>6

LEMMA WatchStep == WatchInv /\ [Next]_vars => WatchInv'
<1> SUFFICES ASSUME WatchInv, [Next]_vars
             PROVE  WatchInv'
    OBVIOUS
<1>1. CASE UNCHANGED vars
    BY <1>1 DEF WatchInv, TypeOK, FlagsType, SourceType, RunType,
                LoopInv, NoLostSignal, NeverPostponed, vars, runtime, source, run,
                timers, ledger
<1>2. CASE Next
    BY <1>2, ChangeStep, OutageStep, TickStep, MessageStep, StreamEndStep,
       ReconnectStep, SignalStep, TimerStep, ReadStep, StopRunningStep
       DEF Next, Follow, Finish
<1> QED
    BY <1>1, <1>2

(* The flag, the timer, the channel of capacity one and the loop agree in  *)
(* every reachable state, for any timers and bounds (monitor_service.go,   *)
(* Run; client.go, Watch).                                                 *)
THEOREM WatchSafe == SafeSpec => []WatchInv
<1> QED
    BY WatchInit, WatchStep, PTL DEF SafeSpec

(* The last message of a burst is never forgotten, though all but one of   *)
(* its signals are dropped or absorbed (client.go:151-153).                *)
THEOREM WatchNoLostSignal == SafeSpec => []NoLostSignal
<1>1. WatchInv => NoLostSignal
    BY DEF WatchInv
<1> QED
    BY <1>1, WatchSafe, PTL

(* A steady stream of signals does not postpone the read that the first of *)
(* them asked for (monitor_service.go:272-277).                            *)
THEOREM WatchNeverPostponed == SafeSpec => []NeverPostponed
<1>1. WatchInv => NeverPostponed
    BY DEF WatchInv
<1> QED
    BY <1>1, WatchSafe, PTL

(* Two debounced reads are at least a debounce apart, so that a burst      *)
(* costs one (monitor_service.go:272-275).                                 *)
THEOREM WatchDebounced == SafeSpec => Debounced
<1>1. WatchInv /\ [Next]_vars
        => [timer = 0 /\ timer' = Stopped => since >= Debounce]_vars
    BY DEF WatchInv, TypeOK, RunType, LoopInv, NeverPostponed
<1> QED
    BY <1>1, WatchSafe, PTL DEF SafeSpec, Debounced
=============================================================================
