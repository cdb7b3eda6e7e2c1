-------------------------------- MODULE SSE --------------------------------
(***************************************************************************)
(* The three readers of a server-sent event stream: iterSSEChunks (chat),  *)
(* iterSSEEvents (responses), both of sse.go, and the exact-byte framing   *)
(* of receipts.go (capture and digest).                                    *)
(*                                                                         *)
(* A stream is a sequence of tokens: CR, LF and the contents of lines.  A  *)
(* data line is named for its JSON: a chunk, an empty payload, [DONE], the *)
(* same with more white space, no JSON at all, an object with an "error",  *)
(* one with another type, one whose type ends a response, JSON that is no  *)
(* object, one with the receipt, one with another receipt, one whose       *)
(* inference_receipt is no object.                                         *)
(***************************************************************************)
EXTENDS Integers, SequencesExt

CR == "CR"
LF == "LF"

DataLines == {"chunk", "empty", "done", "paddedDone", "garbage", "errorChunk", "typed",
              "terminal", "nonObject", "receipt", "otherReceipt", "badReceipt"}
NameLines == {"name", "terminalName"}
OtherLines == {"comment"}
Lines == DataLines \cup NameLines \cup OtherLines

(* The line without the CR and LF at its end.                              *)
TrimRight(line) ==
    LET text == {i \in DOMAIN line : line[i] \notin {CR, LF}}
    IN  SubSeq(line, 1, IF text = {} THEN 0 ELSE Max(text))

-----------------------------------------------------------------------------
(* Frames.  dataOf is what the data lines of a frame join to: white space  *)
(* around a payload is trimmed, two payloads joined are no JSON value.     *)

trimmed(line) == IF line = "paddedDone" THEN "done" ELSE line

dataOf(frame) ==
    LET parts == {i \in DOMAIN frame : frame[i] \in DataLines \ {"empty"}}
    IN  CASE parts = {} -> "empty"
          [] Cardinality(parts) = 1 -> trimmed(frame[Min(parts)])
          [] OTHER -> "garbage"

Nothing       == [event |-> "none", terminal |-> FALSE, failed |-> FALSE]
Yields(event) == [event |-> event, terminal |-> FALSE, failed |-> FALSE]
Terminates    == [event |-> "none", terminal |-> TRUE, failed |-> FALSE]
Fails         == [event |-> "none", terminal |-> FALSE, failed |-> TRUE]

parseChatSSEFrame(frame) ==
    LET data == dataOf(frame)
    IN  CASE data = "empty" -> Nothing
          [] data = "done" -> Terminates
          [] data \in {"garbage", "nonObject", "errorChunk"} -> Fails
          [] OTHER -> Yields(data)

(* The last event: line names the event; the type of the object, when it   *)
(* has one, comes first; what is no object is never terminal.              *)
isTerminalResponseEvent(frame, data) ==
    LET names == {i \in DOMAIN frame : frame[i] \in NameLines}
    IN  \/ data = "terminal"
        \/ /\ data \notin {"typed", "nonObject"}
           /\ names # {} /\ frame[Max(names)] = "terminalName"

parseSSEFrame(frame) ==
    LET data == dataOf(frame)
    IN  CASE data = "empty" -> Nothing
          [] data = "done" -> Terminates
          [] data = "garbage" -> Fails
          [] OTHER -> [Yields(data) EXCEPT !.terminal = isTerminalResponseEvent(frame, data)]

parseFrame(consumer, frame) ==
    IF consumer = "chunks" THEN parseChatSSEFrame(frame) ELSE parseSSEFrame(frame)

-----------------------------------------------------------------------------
(* The decoding loop of iterSSEChunks and iterSSEEvents: the frame being   *)
(* collected, the events handed over and how the iteration stands: open,   *)
(* complete, error, unexpectedEOF.                                         *)

Start == [frame |-> << >>, yielded |-> << >>, state |-> "open"]

(* One frame is parsed.                                                    *)
frameEnds(consumer, d, atEOF) ==
    LET p == parseFrame(consumer, d.frame)
    IN  [frame   |-> << >>,
         yielded |-> IF p.event = "none" THEN d.yielded ELSE Append(d.yielded, p.event),
         state   |-> CASE p.failed -> "error"
                       [] p.terminal -> "complete"
                       [] atEOF /\ ~p.failed /\ ~p.terminal -> "unexpectedEOF"
                       [] OTHER -> "open"]

(* ReadString has returned a line; a blank one ends the frame.             *)
lineRead(consumer, d, line) ==
    LET text == TrimRight(line)
    IN  IF text = << >> THEN frameEnds(consumer, d, FALSE)
        ELSE [d EXCEPT !.frame = Append(@, text[1])]

(* A mutant: the end of the stream ends the iteration like [DONE].         *)
lenientEOF(consumer, d, rest) ==
    LET read == IF rest = << >> THEN d ELSE lineRead(consumer, d, rest)
    IN  IF read.state # "open" THEN read ELSE [read EXCEPT !.state = "complete"]

(* ReadString returns io.EOF with the rest of a line that has no end.      *)
eofRead(consumer, d, rest) ==
    LET read == IF rest = << >> THEN d ELSE lineRead(consumer, d, rest)
    IN  IF read.state # "open" THEN read ELSE frameEnds(consumer, read, TRUE)

-----------------------------------------------------------------------------
(* Receipts.  A slice of n bytes is given as data and n.  Events end with  *)
(* LF LF or CR LF CR LF, whichever comes first (the one that starts first  *)
(* also ends first).                                                       *)

EndsWith(data, offset, e, pattern) ==
    /\ e - offset >= Len(pattern)
    /\ \A k \in DOMAIN pattern : data[e - Len(pattern) + k] = pattern[k]

EndsEvent(data, offset, e) ==
    EndsWith(data, offset, e, <<LF, LF>>) \/ EndsWith(data, offset, e, <<CR, LF, CR, LF>>)

(* Where the next event after `offset` ends, if it is complete.            *)
nextReceiptSSEEvent(data, offset, n) ==
    {e \in (offset + 1)..n :
        EndsEvent(data, offset, e) /\ \A f \in (offset + 1)..(e - 1) : ~EndsEvent(data, offset, f)}

(* The ends of the complete events after `offset`, in order.               *)
EventEnds(data, offset, n) ==
    LET from[o \in 0..n] ==
            LET next == nextReceiptSSEEvent(data, o, n)
            IN  IF next = {} THEN << >> ELSE LET end == CHOOSE e \in next : TRUE IN <<end>> \o from[end]
    IN  from[offset]

Refused == [ok |-> FALSE, name |-> "none", payload |-> "none"]

(* A mutant: of several data fields the first counts.                      *)
someData(data) == data # {}

oneData(data) == Cardinality(data) = 1

(* One data field, at most one event field, and no other line.             *)
decodeReceiptSSEEvent(raw) ==
    LET cut   == IF Len(raw) >= 4 /\ SubSeq(raw, Len(raw) - 3, Len(raw)) = <<CR, LF, CR, LF>>
                 THEN 4 ELSE 2
        body  == SubSeq(raw, 1, Len(raw) - cut)
        lines == Cardinality({i \in DOMAIN body : body[i] = LF}) + 1
        data  == {i \in DOMAIN body : body[i] \in DataLines}
        names == {i \in DOMAIN body : body[i] \in NameLines}
    IN  IF /\ oneData(data) /\ Cardinality(names) <= 1
           /\ Cardinality(data) + Cardinality(names) = lines
        THEN [ok |-> TRUE, name |-> IF names = {} THEN "none" ELSE body[Min(names)],
              payload |-> body[Min(data)]]
        ELSE Refused

(* embeddedReceiptFromPayload: "none", the receipt, or an error.           *)
embedded(data) ==
    CASE data \in {"receipt", "otherReceipt"} -> data
      [] data = "badReceipt" -> "invalid"
      [] OTHER -> "none"

(* These events, decoded.                                                  *)
Decoded(data, offset, ends) ==
    [i \in DOMAIN ends |->
        decodeReceiptSSEEvent(SubSeq(data, (IF i = 1 THEN offset ELSE ends[i - 1]) + 1, ends[i]))]

-----------------------------------------------------------------------------
(* What the hasher is given of an event.                                   *)
written(domain, e) == IF domain = "sse-events-v1" THEN <<e.name, e.payload>> ELSE <<e.payload>>

NoDigest == [ok |-> FALSE, covered |-> << >>, hashed |-> << >>]

(* receiptStreamDigest.  Its loop refuses an event that does not decode,   *)
(* an incomplete tail, anything after [DONE], a second receipt, a receipt  *)
(* that is not the expected one, other payloads after the receipt, and in  *)
(* the data domain an event with a name; it ends well after a receipt and  *)
(* [DONE].  So the stream is covered events, the receipt, [DONE].  The     *)
(* result has the payloads covered, and what was hashed of each event.     *)
receiptStreamDigest(data, n, domain, expected) ==
    LET ends   == EventEnds(data, 0, n)
        events == Decoded(data, 0, ends)
        last   == Len(events)
        covers(e) ==
            /\ e.payload # "done" /\ embedded(e.payload) = "none"
            /\ domain = "sse-data-v1" => e.name = "none"
        ok == /\ expected \notin {"none", "invalid"}
              /\ last >= 2 /\ ends[last] = n
              /\ \A i \in 1..last : events[i].ok
              /\ \A i \in 1..(last - 2) : covers(events[i])
              /\ embedded(events[last - 1].payload) = expected
              /\ events[last].payload = "done"
    IN  IF ok THEN [ok      |-> TRUE,
                    covered |-> [i \in 1..(last - 2) |-> events[i].payload],
                    hashed  |-> [i \in 1..(last - 2) |-> written(domain, events[i])]]
        ELSE NoDigest

-----------------------------------------------------------------------------
(* ReceiptCapture: how many bytes it has copied, how far they have been    *)
(* scanned, and the last receipt found.                                    *)

CaptureStart == [size |-> 0, scanned |-> 0, receipt |-> "none"]

(* A mutant: what has been read is not scanned again.                      *)
resumeAtEnd(c, ends) == c.size

(* Where the next scan starts: an incomplete tail is scanned again.        *)
resumeAt(c, ends) == IF ends = << >> THEN c.scanned ELSE Last(ends)

(* refreshReceipt: events that do not decode are passed over.              *)
refreshReceipt(data, c) ==
    LET ends     == EventEnds(data, c.scanned, c.size)
        events   == Decoded(data, c.scanned, ends)
        receipts == {i \in DOMAIN events : embedded(events[i].payload) \notin {"none", "invalid"}}
    IN  [size    |-> c.size,
         scanned |-> resumeAt(c, ends),
         receipt |-> IF receipts = {} THEN c.receipt ELSE events[Max(receipts)].payload]

(* Read has copied the bytes up to n.                                      *)
CaptureRead(data, c, n) ==
    IF n = c.size THEN c ELSE refreshReceipt(data, [c EXCEPT !.size = n])
=============================================================================
