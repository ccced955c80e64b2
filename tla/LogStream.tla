------------------------------ MODULE LogStream ------------------------------
(***************************************************************************)
(* Reading a container's log: internal/adapters/docker/logs.go.            *)
(*                                                                         *)
(* The text of a payload is a sequence of tokens: the timestamp the        *)
(* runtime puts in front of a line (with the blank that follows it), the   *)
(* line's text, and the newline; or a piece of a timestamp, where the      *)
(* stream ended in the middle of one.  A frame is [kind, size, payload],   *)
(* the payload holding what arrived of it: fewer than `size` tokens when   *)
(* the daemon closed the connection in the middle of the frame.  A stream  *)
(* that ends inside a header is one that ends before the frame.            *)
(***************************************************************************)
EXTENDS Sorting

CONSTANT NoTime     \* the zero time of a line that carried none

Stamp(line) == [tag |-> "stamp", line |-> line]
Text(line) == [tag |-> "text", line |-> line]
Newline(line) == [tag |-> "newline", line |-> line]
Piece(line) == [tag |-> "piece", line |-> line]
Nul == [tag |-> "nul", line |-> 0]

streamOf(kind) == IF kind = 2 THEN "stderr" ELSE "stdout"

\* A part that does not start with a timestamp is shown whole.
splitTimestamp(part) ==
    IF part # <<>> /\ Head(part).tag = "stamp"
    THEN [At |-> Head(part).line, Text |-> Tail(part)]
    ELSE [At |-> NoTime, Text |-> part]

\* The last of the positions from b to n that comes before any stop.
LastBefore(b, n, stops) ==
    CHOOSE e \in b - 1 .. n : /\ \A i \in b .. e : i \notin stops
                              /\ e = n \/ e + 1 \in stops

\* strings.Split(payload, "\n"): a part begins at the front and after each
\* newline, and goes up to the next.
SplitAtNewlines(payload) ==
    LET newlines == {i \in DOMAIN payload : payload[i].tag = "newline"}
        Part(b) == SubSeq(payload, b, LastBefore(b, Len(payload), newlines))
    IN EntriesAt([b \in 1 .. Len(payload) + 1 |-> Part(b)],
                 {1} \cup {i + 1 : i \in newlines})

splitLines(payload, stream) ==
    LET trimmed == IF payload # <<>> /\ Last(payload).tag = "newline"
                   THEN Front(payload) ELSE payload
        parts == SplitAtNewlines(trimmed)
    IN IF trimmed = <<>> THEN <<>>
       ELSE [i \in DOMAIN parts |->
                [At |-> splitTimestamp(parts[i]).At, Stream |-> stream,
                 Text |-> splitTimestamp(parts[i]).Text]]

\* Mutant: the whole buffer is emitted, with zeroes for what never arrived.
readMultiplexedLogPadded(frames) ==
    LET Padded(f) == f.payload \o [i \in 1 .. f.size - Len(f.payload) |-> Nul]
    IN FlattenSeq([i \in DOMAIN frames |->
                       splitLines(Padded(frames[i]), streamOf(frames[i].kind))])

readMultiplexedLog(frames) ==
    FlattenSeq([i \in DOMAIN frames |->
                    splitLines(frames[i].payload, streamOf(frames[i].kind))])

\* No framing: one payload, and the terminal has merged the two outputs.
readTTYLog(payload) == splitLines(payload, "stdout")

\* Mutant: only a log longer than what was asked for counts as truncated.
LogsExact(tty, stream, tail) ==
    LET lines == IF tty THEN readTTYLog(stream) ELSE readMultiplexedLog(stream)
    IN [Lines |-> lines, Tail |-> tail, Truncated |-> Len(lines) > tail]

\* What is read is a payload from a terminal, and frames from anything else.
Logs(tty, stream, tail) ==
    LET lines == IF tty THEN readTTYLog(stream) ELSE readMultiplexedLog(stream)
    IN [Lines |-> lines, Tail |-> tail, Truncated |-> Len(lines) >= tail]
=============================================================================
