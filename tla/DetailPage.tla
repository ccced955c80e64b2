----------------------------- MODULE DetailPage ------------------------------
(***************************************************************************)
(* The log panel of a container's page: the listeners of app.js that fill  *)
(* it, the log handler of internal/adapters/web/services/handlers and the  *)
(* adapter's reading of the log.  Fetches overlap, and their answers come  *)
(* in any order.                                                           *)
(***************************************************************************)
EXTENDS Container, LogStream

CONSTANTS
    Fetch,              \* bound: fetches in flight at a time
    MaxLines,           \* bound: lines the container writes
    Size,               \* the sizes the panel's buttons offer
    DefaultLogTail, MaxLogTail,
    NoLogs              \* an answer, or a panel, without a log

ASSUME TailAssumption == /\ DefaultLogTail \in Nat \ {0}
                         /\ MaxLogTail \in Nat /\ DefaultLogTail <= MaxLogTail
                         /\ MaxLines \in Nat

VARIABLES
    written,    \* how many lines the container has written
    panel,      \* open, logLoaded, and what its body holds
    fetches     \* the fetches in flight

detailVars == <<written, panel, fetches>>

\* A fetch slot not in use.
Idle == [tail |-> 0, stage |-> "idle", logs |-> NoLogs]

DetailInit ==
    /\ written = 0
    /\ panel = [open |-> FALSE, loaded |-> FALSE, body |-> "placeholder",
                logs |-> NoLogs]
    /\ fetches = [f \in Fetch |-> Idle]

\* Odd lines go to stdout and even ones to stderr.
KindOf(line) == IF line % 2 = 1 THEN 1 ELSE 2

Write ==
    /\ container # Gone
    /\ written < MaxLines
    /\ written' = written + 1
    /\ UNCHANGED <<panel, fetches, containerVars>>

\* The tokens of the last `tail` of the lines 1 .. last, three for each.
Output(last, tail) ==
    LET first == IF last > tail THEN last - tail + 1 ELSE 1
        LineAt(i) == first + (i - 1) \div 3
    IN [i \in 1 .. 3 * (last - first + 1) |->
            CASE i % 3 = 1 -> Stamp(LineAt(i))
              [] i % 3 = 2 -> Text(LineAt(i))
              [] OTHER -> Newline(LineAt(i))]

\* What may arrive of them: all, or less, the last of it a piece of a timestamp
\* when the connection is lost inside one.
Arrivals(tokens) ==
    {SubSeq(tokens, 1, n) : n \in 0 .. Len(tokens)} \cup
    {Append(SubSeq(tokens, 1, n - 1), Piece(tokens[n].line)) :
        n \in {i \in DOMAIN tokens : tokens[i].tag = "stamp"}}

\* A frame for each of these positions, from there up to the next, as far as
\* the tokens arrive.
FramesFrom(tokens, arrived, starts) ==
    LET End(p) == LastBefore(p + 1, Len(tokens), starts)
        n == Len(arrived)
        Frame(p) == [kind |-> KindOf(tokens[p].line),
                     size |-> End(p) - p + 1,
                     payload |-> SubSeq(arrived, p, IF End(p) < n THEN End(p) ELSE n)]
    IN EntriesAt([p \in 1 .. n |-> Frame(p)], {p \in starts : p <= n})

\* The streams the runtime may send for these tokens, cut into frames that
\* each carry one of the two outputs, when only this arrives of them.
Frames(tokens, arrived) ==
    LET Kind(i) == KindOf(tokens[i].line)
        forced == {i \in DOMAIN tokens : i = 1 \/ Kind(i) # Kind(i - 1)}
    IN {FramesFrom(tokens, arrived, forced \cup more) : more \in SUBSET DOMAIN tokens}

ClampLogTail(tail) ==
    IF tail <= 0 THEN DefaultLogTail
    ELSE IF tail > MaxLogTail THEN MaxLogTail ELSE tail

-----------------------------------------------------------------------------
\* Mutant: the flag stays set when a fetch fails.
FailedAndLoaded == [panel EXCEPT !.body = "error", !.logs = NoLogs]

\* The catch at the end of loadLog, which also puts the controls away.
Failed == [panel EXCEPT !.body = "error", !.logs = NoLogs, !.loaded = FALSE]

loadLog(f, tail) ==
    /\ fetches[f].stage = "idle"
    /\ fetches' = [fetches EXCEPT ![f] = [tail |-> tail, stage |-> "sent",
                                          logs |-> NoLogs]]

\* Opening the panel fills it the first time, and after a failure.
Toggle ==
    /\ UNCHANGED <<written, containerVars>>
    /\ IF ~panel.open /\ ~panel.loaded
       THEN /\ panel' = [panel EXCEPT !.open = TRUE, !.loaded = TRUE]
            /\ \E f \in Fetch : loadLog(f, 0)
       ELSE /\ panel' = [panel EXCEPT !.open = ~panel.open]
            /\ UNCHANGED fetches

\* The controls come with the log, and Refresh asks for its own size again.
PressSize ==
    /\ panel.open /\ panel.body = "log"
    /\ panel' = [panel EXCEPT !.loaded = TRUE]
    /\ \E f \in Fetch, tail \in Size \cup {panel.logs.Tail} : loadLog(f, tail)
    /\ UNCHANGED <<written, containerVars>>

\* The log handler: Inspect, which must find the container, and the size.
InspectForLog(f) ==
    /\ fetches[f].stage = "sent"
    /\ container # Gone
    /\ fetches' = [fetches EXCEPT ![f] =
                     [tail |-> ClampLogTail(fetches[f].tail),
                      stage |-> "inspected", logs |-> NoLogs]]
    /\ UNCHANGED <<written, panel, containerVars>>

\* What reading the last `tail` of `last` lines may give: the runtime's
\* refusal, which the panel shows as a log of no lines, or what arrived.
\* `asked`, `tty` and `cut` remember what the answer was taken from.
ReadingsOf(last, tail, tty) ==
    LET tokens == Output(last, tail)
        Answer(logs, failure, cut) ==
            [Lines |-> logs.Lines, Tail |-> tail, Truncated |-> logs.Truncated,
             failure |-> failure, asked |-> last, cut |-> cut, tty |-> tty]
    IN {Answer([Lines |-> <<>>, Truncated |-> FALSE], TRUE, FALSE)} \cup
       UNION {{Answer(Logs(tty, stream, tail), FALSE, arrived # tokens) :
                 stream \in IF tty THEN {arrived} ELSE Frames(tokens, arrived)} :
              arrived \in Arrivals(tokens)}

Readings == UNION {ReadingsOf(last, tail, tty) :
                     last \in 0 .. MaxLines, tail \in 1 .. MaxLogTail, tty \in BOOLEAN}

ReadLog(f) ==
    /\ fetches[f].stage = "inspected"
    /\ \E logs \in Readings :
         /\ logs.asked = written /\ logs.tty = fixed.tty
         /\ logs.Tail = ClampLogTail(fetches[f].tail)
         /\ container = Gone => logs.failure
         /\ fetches' = [fetches EXCEPT ![f] =
                          [tail |-> logs.Tail, stage |-> "answered", logs |-> logs]]
    /\ UNCHANGED <<written, panel, containerVars>>

\* The page gets the fragment.
FillPanel(f) ==
    /\ fetches[f].stage = "answered"
    /\ panel' = [panel EXCEPT !.body = "log", !.logs = fetches[f].logs]
    /\ fetches' = [fetches EXCEPT ![f] = Idle]
    /\ UNCHANGED <<written, containerVars>>

\* An error status, a 404 for a container that is gone or a 503 for a runtime
\* out of reach, or a connection lost at any point.
FailFetch(f) ==
    /\ fetches[f].stage # "idle"
    /\ panel' = Failed
    /\ fetches' = [fetches EXCEPT ![f] = Idle]
    /\ UNCHANGED <<written, containerVars>>

DetailNext ==
    \/ Write \/ Toggle \/ PressSize
    \/ \E f \in Fetch : InspectForLog(f) \/ ReadLog(f) \/ FillPanel(f) \/ FailFetch(f)

-----------------------------------------------------------------------------
(* A panel that shows no log, and has none on its way, fetches it when it  *)
(* is opened again: neither a failed request nor an answer that comes      *)
(* after another leaves it stuck without the log and without the controls  *)
(* that would ask for it (app.js, `logLoaded`).                            *)
PanelCanBeRetried ==
    panel.body # "log" /\ (\A f \in Fetch : fetches[f].stage = "idle")
        => ~panel.loaded

(* A log that arrived whole and is not announced as truncated is all the   *)
(* container had written, however its lines were cut into frames           *)
(* (domain.Logs, Truncated).                                               *)
NothingHidden ==
    panel.body = "log" /\ ~panel.logs.failure /\ ~panel.logs.cut
                       /\ ~panel.logs.Truncated
        => \A line \in 1 .. panel.logs.asked :
             \E i \in DOMAIN panel.logs.Lines :
               Text(line) \in ToSet(panel.logs.Lines[i].Text)

(* What the panel shows was written by the container, in that order, on    *)
(* the output it is marked with and under its own time, even when frames   *)
(* carry several lines, a part of one, or end early; at most the last of   *)
(* what arrived is a piece of a timestamp (readMultiplexedLog).            *)
OnlyOutput ==
    panel.body = "log" =>
      LET lines == panel.logs.Lines
          shown == FlattenSeq([i \in DOMAIN lines |-> lines[i].Text])
      IN /\ \A i \in DOMAIN shown :
              \/ shown[i].tag = "text"
              \/ shown[i].tag = "piece" /\ i = Len(shown) /\ panel.logs.cut
         /\ \A i, j \in DOMAIN shown : i < j => shown[i].line < shown[j].line
         /\ \A i \in DOMAIN lines : \A t \in ToSet(lines[i].Text) :
              /\ lines[i].At \in {NoTime, t.line}
              /\ fixed.tty \/ lines[i].Stream = streamOf(KindOf(t.line))
=============================================================================
