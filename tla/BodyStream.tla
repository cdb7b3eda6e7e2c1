----------------------------- MODULE BodyStream -----------------------------
(***************************************************************************)
(* An open stream and its reader: the response body, the idle-timeout      *)
(* wrapper around it (transport.go), and one of three readers - the two    *)
(* SSE iterators, or a ReceiptCapture over the raw body.  The idle timer,  *)
(* the caller's context, a Close from another goroutine and the arrival of *)
(* data in pieces of any size, at any time or never, interleave with Read. *)
(*                                                                         *)
(* Read has two steps: the body returns, then the wrapper resets or stops  *)
(* its timer.  A consumer that stops early is modelled in Call.            *)
(***************************************************************************)
EXTENDS SSE

CONSTANTS
    Modes,      \* readers, and whether the call has a timeout
    Scripts,    \* what gateways send: sequences of frames
    Endings     \* line endings: "lf", "crlf", "mixed" (blank lines CRLF)

ASSUME ModesAssumption ==
    Modes \subseteq [consumer : {"chunks", "events", "capture"}, timed : BOOLEAN]

ASSUME ScriptsAssumption ==
    /\ \A s \in Scripts : s \in Seq(Seq(Lines)) /\ \A i \in DOMAIN s : s[i] # << >>
    /\ Endings \subseteq {"lf", "crlf", "mixed"}

VARIABLES
    mode,
    script,     \* the frames of the stream
    stream,     \* its tokens
    ended,      \* eof, reset: how it ends
    pos,        \* tokens the body has returned
    cause,      \* cause of the stream's context: none, idle, caller, closed
    armed,      \* the idle timer is running
    closed,     \* streamIdleTimeoutReadCloser.closed
    reading,    \* no, body, returned: where Read is
    err,        \* the error the body, then Read, returned
    taken,      \* tokens the iterator's ReadString has returned
    dec,        \* the SSE iterator
    capture     \* the ReceiptCapture

body == <<mode, script, stream, ended>>
wrapper == <<cause, armed, closed>>
vars == <<body, pos, wrapper, reading, err, taken, dec, capture>>

consumer == mode.consumer
timed    == mode.timed

-----------------------------------------------------------------------------
(* Frames on the wire.                                                     *)

Eol(ending) == IF ending = "crlf" THEN <<CR, LF>> ELSE <<LF>>
Blank(ending) == IF ending = "lf" THEN <<LF>> ELSE <<CR, LF>>

(* The lines of a frame; the last without its ending.                      *)
Joined(frame, ending) ==
    LET upTo[i \in 1..Len(frame)] ==
            IF i = 1 THEN <<frame[1]>> ELSE upTo[i - 1] \o Eol(ending) \o <<frame[i]>>
    IN  upTo[Len(frame)]

Rendered(frames, ending) ==
    LET upTo[i \in 0..Len(frames)] ==
            IF i = 0 THEN << >>
            ELSE upTo[i - 1] \o Joined(frames[i], ending) \o Eol(ending) \o Blank(ending)
    IN  upTo[Len(frames)]

(* The stream ends after a whole frame, or before the blank line of its    *)
(* last one.                                                               *)
Init ==
    /\ mode \in Modes
    /\ script \in Scripts
    /\ \E ending \in Endings :
          \/ /\ stream = Rendered(script, ending)
             /\ ended \in {"eof", "reset"}
          \/ /\ script # << >>
             /\ stream = Rendered(Front(script), ending) \o Joined(Last(script), ending)
             /\ ended = "eof"
    /\ pos = 0
    /\ cause = "none" /\ armed = timed /\ closed = FALSE
    /\ reading = "no" /\ err = "none"
    /\ taken = 0 /\ dec = Start /\ capture = CaptureStart

-----------------------------------------------------------------------------
(* Read.                                                                   *)

Buffered == SubSeq(stream, taken + 1, pos)
HasLine == consumer # "capture" /\ \E i \in DOMAIN Buffered : Buffered[i] = LF

(* The iterator reads when no line is buffered, a raw reader at any time.  *)
ReadStarts ==
    /\ reading = "no" /\ err = "none" /\ ~HasLine /\ dec.state = "open"
    /\ reading' = "body"
    /\ UNCHANGED <<body, pos, wrapper, err, taken, dec, capture>>

(* What body.Read may report with the tokens up to p.                      *)
BodyErrors(p) ==
    (IF p > pos THEN {"none"} ELSE {})
    \cup (IF cause # "none" THEN {"cancelled"} ELSE {})
    \cup (IF p = Len(stream) THEN {ended} ELSE {})

(* Where a piece may end: anywhere, but an iterator's buffer hides how its *)
(* lines were cut, and a piece of at most one line is enough.              *)
PieceEnds ==
    LET lines == {i \in (pos + 1)..Len(stream) : stream[i] = LF}
    IN  pos..(IF consumer = "capture" \/ lines = {} THEN Len(stream) ELSE Min(lines))

BodyReturns ==
    /\ reading = "body"
    /\ \E p \in PieceEnds : \E e \in BodyErrors(p) : pos' = p /\ err' = e
    /\ reading' = "returned"
    /\ UNCHANGED <<body, wrapper, taken, dec, capture>>

(* A mutant: reset does not look whether the stream was closed.            *)
resetAlways(data) == armed \/ (timed /\ data)

(* A mutant: reset stops the timer and does not start it.                  *)
resetStops(data) == armed /\ ~data

(* reset: the timer starts again, also after it fired, unless the stream   *)
(* was closed.                                                             *)
reset(data) == armed \/ (timed /\ data /\ ~closed)

(* Whether the read at hand brought data.                                  *)
NewData == IF consumer = "capture" THEN pos > capture.size ELSE Buffered # << >>

(* The wrapper's part of Read: whatever the body returned, after the idle  *)
(* timer fired an error is the idle timeout.  The capture then takes what  *)
(* was read, with or without an error.                                     *)
ReadReturns ==
    /\ reading = "returned"
    /\ reading' = "no"
    /\ armed' = (err = "none" /\ reset(NewData))
    /\ closed' = (closed \/ (timed /\ err # "none"))
    /\ err' = IF timed /\ cause = "idle" /\ err # "none" THEN "idle" ELSE err
    /\ capture' = IF consumer = "capture"
                  THEN CaptureRead(stream, capture, pos) ELSE capture
    /\ UNCHANGED <<body, pos, cause, taken, dec>>

-----------------------------------------------------------------------------
(* The iterator's loop: a line, the end of the stream, or another error,   *)
(* which waits until the lines before it are consumed.                     *)

NextLine ==
    /\ reading = "no" /\ HasLine /\ dec.state = "open"
    /\ LET n == Min({i \in DOMAIN Buffered : Buffered[i] = LF})
       IN  /\ dec' = lineRead(consumer, dec, SubSeq(Buffered, 1, n))
           /\ taken' = taken + n
    /\ UNCHANGED <<body, pos, wrapper, reading, err, capture>>

Failed == consumer # "capture" /\ reading = "no" /\ ~HasLine /\ dec.state = "open" /\ err # "none"

StreamEnds ==
    /\ Failed /\ err = "eof"
    /\ dec' = eofRead(consumer, dec, Buffered)
    /\ taken' = pos
    /\ UNCHANGED <<body, pos, wrapper, reading, err, capture>>

(* A line cut off by the error is still read: a lone CR ends the frame.    *)
StreamFails ==
    /\ Failed /\ err # "eof"
    /\ LET read == IF Buffered = << >> THEN dec ELSE lineRead(consumer, dec, Buffered)
       IN  dec' = IF read.state = "open" THEN [read EXCEPT !.state = "error"] ELSE read
    /\ taken' = pos
    /\ UNCHANGED <<body, pos, wrapper, reading, err, capture>>

-----------------------------------------------------------------------------
TimerFires ==
    /\ armed
    /\ armed' = FALSE
    /\ cause' = IF cause = "none" THEN "idle" ELSE cause
    /\ UNCHANGED <<body, pos, closed, reading, err, taken, dec, capture>>

CallerCancels ==
    /\ cause = "none"
    /\ cause' = "caller"
    /\ UNCHANGED <<body, pos, armed, closed, reading, err, taken, dec, capture>>

(* Close, by the reader when it is done or by another goroutine: stop the  *)
(* timer, close the body, cancel the context.                              *)
Close ==
    /\ ~closed
    /\ closed' = TRUE
    /\ armed' = FALSE
    /\ cause' = IF cause = "none" THEN "closed" ELSE cause
    /\ UNCHANGED <<body, pos, reading, err, taken, dec, capture>>

Next ==
    \/ ReadStarts \/ BodyReturns \/ ReadReturns
    \/ NextLine \/ StreamEnds \/ StreamFails
    \/ TimerFires \/ CallerCancels \/ Close

Spec == Init /\ [][Next]_vars

(* A running timer fires; a read returns once its context has ended.  The  *)
(* gateway owes nothing.                                                   *)
FairSpec ==
    /\ Spec
    /\ WF_vars(TimerFires)
    /\ WF_vars(timed /\ cause # "none" /\ BodyReturns)
    /\ WF_vars(timed /\ ReadReturns)

-----------------------------------------------------------------------------
(* The wrapper's variables have their types.                               *)
TypeOK ==
    /\ mode \in Modes
    /\ cause \in {"none", "idle", "caller", "closed"}
    /\ armed \in BOOLEAN /\ closed \in BOOLEAN
    /\ reading \in {"no", "body", "returned"}

(* After Close, or after an error, the idle timer never runs again, though *)
(* a Read that had its data before may still come to its reset; without a  *)
(* timeout it never runs at all.                                           *)
ClosedIsQuiet == closed \/ ~timed => ~armed

WrapperInv == TypeOK /\ ClosedIsQuiet

(* The entries of s other than x, in order.  (Not SelectSeq, of which the  *)
(* provers know nothing.)                                                  *)
Without(s, x) ==
    LET upTo[i \in 0..Len(s)] ==
            IF i = 0 THEN << >>
            ELSE IF s[i] = x THEN upTo[i - 1] ELSE Append(upTo[i - 1], s[i])
    IN  upTo[Len(s)]

(* An iterator hands over the events that were sent, in order, and ends    *)
(* without an error only if a terminal event was sent: a stream cut short  *)
(* never passes for a complete one.                                        *)
Sent ==
    LET parsed == [i \in DOMAIN script |-> parseFrame(consumer, script[i])]
        stops  == {i \in DOMAIN parsed : parsed[i].terminal \/ parsed[i].failed}
        last   == IF stops = {} THEN Len(parsed) ELSE Min(stops)
    IN  [events |-> Without([i \in 1..last |-> parsed[i].event], "none"),
         complete |-> stops # {} /\ parsed[last].terminal]

DecodedIsSent ==
    consumer # "capture" =>
        /\ IsPrefix(dec.yielded, Sent.events)
        /\ dec.state = "complete" => Sent.complete /\ dec.yielded = Sent.events
        /\ dec.state = "unexpectedEOF" => ~Sent.complete /\ dec.yielded = Sent.events

(* The receipt a capture holds does not depend on how the stream came in   *)
(* pieces: it is the one a single scan of all the bytes read so far finds. *)
CaptureIsScan ==
    capture.receipt = CaptureRead(stream, CaptureStart, capture.size).receipt

(* What a verified receipt covers is what a reader of the same stream      *)
(* sees: if the digest accepts all the captured bytes, the chat iterator   *)
(* yields the covered payloads and then the receipt; it stops earlier only *)
(* at a payload that it takes for an error or for [DONE].                  *)
Stoppers == {"garbage", "nonObject", "errorChunk", "paddedDone"}

AcceptedIsSeen ==
    \A domain \in {"sse-data-v1", "sse-events-v1"} :
        LET digest  == receiptStreamDigest(stream, capture.size, domain, capture.receipt)
            visible == Without(digest.covered, "empty")
            seen    == Without([i \in DOMAIN script |-> parseChatSSEFrame(script[i]).event], "none")
        IN  digest.ok /\ (\A i \in DOMAIN digest.covered : digest.covered[i] \notin Stoppers)
                => IsPrefix(Append(visible, capture.receipt), seen)

(* With a timeout no read blocks for ever, whatever the gateway does, also *)
(* after a timer that fired between the data and its reset.                *)
ReadEnds == (timed /\ reading # "no") ~> (reading = "no")
=============================================================================
