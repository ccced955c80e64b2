----------------------------- MODULE Broadcaster -----------------------------
(***************************************************************************)
(* What ports.EventBroadcaster promises (internal/ports/events.go), without *)
(* saying how: no ids, no channels, no lock.  A subscriber is owed a set of *)
(* events and is handed the oldest of them next.  Delivery is best-effort,  *)
(* in one sense only: a subscriber that is already owed Patience events     *)
(* may miss the next one.                                                   *)
(***************************************************************************)
EXTENDS Naturals

CONSTANTS
    Client,     \* the subscriptions
    Patience,   \* how far behind a subscriber must be before it may miss one
    MaxLog      \* bound: how many events are ever published

VARIABLES
    log,        \* how many events have been published
    stopped,    \* the broadcaster has been shut down
    status,     \* "none", "live", "over" (unregistered), "ended" (reader knows)
    pending,    \* the events each subscriber is owed
    last        \* the newest event each subscriber was handed

bvars == <<log, stopped, status, pending, last>>

Init ==
    /\ log = 0
    /\ stopped = FALSE
    /\ status = [c \in Client |-> "none"]
    /\ pending = [c \in Client |-> {}]
    /\ last = [c \in Client |-> 0]

\* The subscriber is owed at least Patience events.
FarBehind(c) ==
    \E f \in [1 .. Patience -> pending[c]] :
        \A i, j \in 1 .. Patience : f[i] = f[j] => i = j

\* Publishing never waits for anyone.
Publish ==
    /\ log < MaxLog
    /\ log' = log + 1
    /\ \E reached \in SUBSET {c \in Client : status[c] = "live"} :
        /\ \A c \in Client \ reached : status[c] = "live" => FarBehind(c)
        /\ pending' = [c \in Client |->
                        IF c \in reached THEN pending[c] \cup {log + 1}
                        ELSE pending[c]]
    /\ UNCHANGED <<stopped, status, last>>

Join(c) ==
    /\ status[c] = "none"
    /\ status' = [status EXCEPT ![c] = IF stopped THEN "over" ELSE "live"]
    /\ UNCHANGED <<log, stopped, pending, last>>

Leave(c) ==
    /\ status[c] = "live"
    /\ status' = [status EXCEPT ![c] = "over"]
    /\ UNCHANGED <<log, stopped, pending, last>>

Stop ==
    /\ stopped' = TRUE
    /\ status' = [c \in Client |->
                    IF status[c] = "live" THEN "over" ELSE status[c]]
    /\ UNCHANGED <<log, pending, last>>

Oldest(e, s) == e \in s /\ \A f \in s : e <= f

Deliver(c) ==
    /\ status[c] \in {"live", "over"}
    /\ \E e \in pending[c] :
        /\ Oldest(e, pending[c])
        /\ pending' = [pending EXCEPT ![c] = @ \ {e}]
        /\ last' = [last EXCEPT ![c] = e]
    /\ UNCHANGED <<log, stopped, status>>

End(c) ==
    /\ status[c] = "over"
    /\ pending[c] = {}
    /\ status' = [status EXCEPT ![c] = "ended"]
    /\ UNCHANGED <<log, stopped, pending, last>>

Serve(c) == Deliver(c) \/ End(c)

Next ==
    \/ Publish
    \/ Stop
    \/ \E c \in Client : Join(c) \/ Leave(c) \/ Serve(c)

SafeSpec == Init /\ [][Next]_bvars
Spec == SafeSpec /\ \A c \in Client : WF_bvars(Serve(c))

\* TYPE: the abstract state.
BTypeOK ==
    /\ log \in Nat
    /\ stopped \in BOOLEAN
    /\ status \in [Client -> {"none", "live", "over", "ended"}]
    /\ pending \in [Client -> SUBSET (1 .. log)]
    /\ last \in [Client -> 0 .. log]
=============================================================================
