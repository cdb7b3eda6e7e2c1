------------------------------ MODULE Recorder ------------------------------
(***************************************************************************)
(* requestRecorder (telemetry.go): the account of ONE logical inference    *)
(* call.  Every callback holds the recorder's mutex for its whole body, so *)
(* each is one operator from the recorder's state to its next state; the   *)
(* engine (Transport) and the body wrapper (Call) apply them.              *)
(*                                                                         *)
(* Durations, request ids and model names are left out.  A recovered       *)
(* callback panic (recoverTelemetryPanic) is a lost callback: the operator *)
(* that begins an attempt says what survives it, the others change nothing *)
(* and are simply not applied.                                             *)
(***************************************************************************)
EXTENDS Policy, FiniteSets, FiniteSetsExt, SequencesExt

CONSTANTS
    MaxEventAttempts,   \* telemetryMaxEventAttempts: 16 in the code
    MaxHeaderIndex      \* the largest attempt index the header grammar has: 99

ASSUME CapsAssumption == MaxEventAttempts \in Nat \ {0} /\ MaxHeaderIndex \in Nat

(* telemetryHostCustom; a named host is its position in the candidates.    *)
Custom == -1

(* telemetryAttempt, the record of one attempt.                            *)
NoAttempt == [index |-> -1, host |-> Custom, outcome |-> "ok", errorClass |-> "none",
              status |-> 0, phase |-> "none", moved |-> FALSE]

(* newRequestRecorder.                                                     *)
NewRecorder(recordable) ==
    [recordable |-> recordable, begun |-> FALSE, attempts |-> << >>,
     overflow |-> << >>, foldedIndex |-> -1, recorded |-> 0,
     firstErrorClass |-> "none", last |-> NoAttempt, hasLast |-> FALSE,
     nextIndex |-> 0, currentIndex |-> 0, currentHost |-> Custom,
     failoverUsed |-> FALSE, ttft |-> FALSE, exhausted |-> FALSE, finished |-> FALSE]

statusClass(s) ==
    CASE s \in 200..299           -> "2xx"
      [] s = 429                  -> "429"
      [] s \in 400..499 /\ s # 429 -> "4xx"
      [] s \in 500..599           -> "5xx"
      [] OTHER                    -> "none"

(* attemptCounterKeyLocked, the fields that vary within one call.          *)
CounterKey(a) ==
    [host |-> a.host, outcome |-> a.outcome, errorClass |-> a.errorClass,
     class |-> statusClass(a.status), phase |-> a.phase]

HasRecord(r, index) == \E i \in DOMAIN r.attempts : r.attempts[i].index = index

(* currentRecordLocked # nil: the attempt in flight has a record.          *)
HasCurrent(r) == r.hasLast /\ r.last.index = r.currentIndex

-----------------------------------------------------------------------------
(* storeAttempt: store or replace the record of a.index.                   *)
StoreAttempt(r, a) ==
    LET replaced == r.hasLast /\ r.last.index = a.index
        stored   == HasRecord(r, a.index)
        kept     == [i \in DOMAIN r.attempts |->
                        IF r.attempts[i].index = a.index THEN a ELSE r.attempts[i]]
        room     == ~stored /\ ~replaced /\ Len(r.attempts) < MaxEventAttempts
    IN  [r EXCEPT !.attempts = IF room THEN Append(kept, a) ELSE kept,
                  !.recorded = IF replaced THEN @ ELSE @ + 1,
                  !.firstErrorClass = IF @ = "none" THEN a.errorClass ELSE @,
                  !.last = a,
                  !.hasLast = TRUE]

(* A mutant: the last record is folded again by every later fold.          *)
FoldForgetful(r) ==
    IF ~r.hasLast \/ HasRecord(r, r.last.index)
    THEN r
    ELSE [r EXCEPT !.overflow = Append(@,
            [key |-> CounterKey(r.last), attempts |-> 1,
             moved |-> IF r.last.moved THEN 1 ELSE 0])]

(* telemetryOverflowEntry: entries with equal keys are merged.             *)
EntriesOf(overflow, rowKey) == {i \in DOMAIN overflow : overflow[i].key = rowKey}

MergeEntry(overflow, rowKey, move) ==
    IF EntriesOf(overflow, rowKey) = {}
    THEN Append(overflow, [key |-> rowKey, attempts |-> 1, moved |-> move])
    ELSE LET k == Min(EntriesOf(overflow, rowKey))
         IN  [overflow EXCEPT ![k] = [key |-> rowKey, attempts |-> overflow[k].attempts + 1,
                                      moved |-> overflow[k].moved + move]]

(* foldOverflowLocked: a record past the event cap survives only as a      *)
(* counter contribution.                                                   *)
FoldOverflow(r) ==
    IF ~r.hasLast \/ r.last.index = r.foldedIndex \/ HasRecord(r, r.last.index)
    THEN r
    ELSE [r EXCEPT !.foldedIndex = r.last.index,
                   !.overflow = MergeEntry(@, CounterKey(r.last),
                                           IF r.last.moved THEN 1 ELSE 0)]

(* A mutant: the index is derived from the records kept, so a lost record  *)
(* rewinds the numbering.                                                  *)
BeginFromRecorded(r, host, panics) ==
    [FoldOverflow([r EXCEPT !.currentIndex = r.recorded, !.nextIndex = r.recorded + 1])
        EXCEPT !.begun = TRUE, !.currentHost = IF panics THEN Custom ELSE host]

(* beginAttempt: the index advances and the host is reset before anything  *)
(* that can panic.                                                         *)
BeginAttempt(r, host, panics) ==
    [FoldOverflow([r EXCEPT !.currentIndex = r.nextIndex, !.nextIndex = @ + 1])
        EXCEPT !.begun = TRUE, !.currentHost = IF panics THEN Custom ELSE host]

(* onResponse.                                                             *)
OnResponse(r, resp) ==
    IF ~r.begun THEN r
    ELSE StoreAttempt(r, [NoAttempt EXCEPT
            !.index = r.currentIndex, !.host = r.currentHost, !.status = resp.status,
            !.outcome = IF resp.status < 400 THEN "ok" ELSE "http_error"])

(* The error class of a transport error; the SDK's own idle sentinel       *)
(* arrives as err = "idle". The classes of failures that are not timeouts  *)
(* (dns, tls, proxy, refused, reset, protocol, io, unknown) are one,       *)
(* "other": they take the same branches and no property tells them apart.  *)
(* A write that times out is not among the inputs.                         *)
ErrorClassOf(err, openTimedOut) ==
    CASE openTimedOut -> IF err \in {"connect_timeout", "dial"}
                         THEN "connect_timeout" ELSE "read_timeout"
      [] ~openTimedOut /\ err \in {"idle", "read_timeout"} -> "read_timeout"
      [] ~openTimedOut /\ err = "connect_timeout" -> "connect_timeout"
      [] OTHER -> "other"

(* onTransportError: what is known after the headers is kept.              *)
OnTransportError(r, err, openTimedOut, responseOpened, bodyStarted) ==
    IF ~r.begun THEN r
    ELSE LET class    == ErrorClassOf(err, openTimedOut)
             timedOut == class \in {"connect_timeout", "read_timeout"}
             keep     == HasCurrent(r) /\ responseOpened
         IN  StoreAttempt(r, [NoAttempt EXCEPT
                !.index = r.currentIndex, !.host = r.currentHost,
                !.status = IF keep THEN r.last.status ELSE 0,
                !.outcome = IF timedOut THEN "timeout"
                            ELSE IF bodyStarted THEN "stream_broken"
                            ELSE "transport_error",
                !.errorClass = IF bodyStarted /\ class = "read_timeout"
                               THEN "stream_stalled" ELSE class,
                !.phase = IF ~timedOut THEN "none"
                          ELSE IF bodyStarted THEN "idle"
                          ELSE IF class = "connect_timeout" THEN "connect"
                          ELSE "first_byte"])

(* onMoved: the call left the host of the attempt in flight.               *)
OnMoved(r) ==
    LET moved == [r EXCEPT !.failoverUsed = TRUE]
    IN  IF ~HasCurrent(r) THEN moved
        ELSE [moved EXCEPT !.last.moved = TRUE,
                           !.attempts = [i \in DOMAIN @ |->
                                IF @[i].index = r.last.index
                                THEN [@[i] EXCEPT !.moved = TRUE] ELSE @[i]]]

(* onFirstEvent: time to first token is set once.                          *)
OnFirstEvent(r) == IF r.begun THEN [r EXCEPT !.ttft = TRUE] ELSE r

(* A mutant: the abort record starts afresh and forgets the move.          *)
AbortFresh(r) ==
    IF ~r.begun THEN r
    ELSE StoreAttempt(r, [NoAttempt EXCEPT !.index = r.currentIndex,
                            !.host = r.currentHost, !.outcome = "aborted"])

(* onAborted: the attempt in flight ends "aborted", keeping every fact     *)
(* already observed for it.                                                *)
OnAborted(r) ==
    IF ~r.begun THEN r
    ELSE StoreAttempt(r, [(IF HasCurrent(r) THEN r.last ELSE NoAttempt) EXCEPT
            !.index = r.currentIndex, !.host = r.currentHost, !.outcome = "aborted"])

(* markExhausted.                                                          *)
MarkExhausted(r, exhausted) == [r EXCEPT !.exhausted = exhausted]

-----------------------------------------------------------------------------
(* finish hands one event and its counter rows to the sink, once.          *)
Reportable(r) == ~r.finished /\ r.recordable /\ r.begun /\ r.hasLast

RequestRow(r) ==
    [level |-> "request", requests |-> 1, attempts |-> r.recorded,
     failoverUsed |-> IF r.failoverUsed THEN 1 ELSE 0,
     firstAttemptSuccess |->
        IF (IF r.attempts # << >> THEN r.attempts[1] ELSE r.last).outcome = "ok"
        THEN 1 ELSE 0,
     key |-> [CounterKey(r.last) EXCEPT !.errorClass = r.firstErrorClass]]

AttemptRow(key, count, moves) ==
    [level |-> "attempt", requests |-> count, attempts |-> count,
     failoverUsed |-> moves, firstAttemptSuccess |-> 0, key |-> key]

ReportOf(q) ==
    LET r == FoldOverflow(q)
    IN  [attempts |-> r.attempts,
         finalOutcome |-> IF r.exhausted /\ r.recorded > 1 /\ r.last.outcome # "ok"
                          THEN "exhausted" ELSE r.last.outcome,
         finalStatus |-> r.last.status,
         failoverUsed |-> r.failoverUsed,
         ttft |-> r.ttft,
         counters |->
            << RequestRow(r) >>
            \o [i \in DOMAIN r.attempts |->
                    AttemptRow(CounterKey(r.attempts[i]), 1,
                               IF r.attempts[i].moved THEN 1 ELSE 0)]
            \o [i \in DOMAIN r.overflow |->
                    AttemptRow(r.overflow[i].key, r.overflow[i].attempts,
                               r.overflow[i].moved)]]

(* A mutant: every path that ends the call reports again.                  *)
FinishAgain(r) == [FoldOverflow(r) EXCEPT !.finished = FALSE]

(* finish.                                                                 *)
Finish(r) ==
    IF Reportable(r) THEN [FoldOverflow(r) EXCEPT !.finished = TRUE]
    ELSE [r EXCEPT !.finished = TRUE]

(* The reports finish adds to those already handed to the sink.            *)
Reported(r) == IF Reportable(r) THEN << ReportOf(r) >> ELSE << >>

-----------------------------------------------------------------------------
(* headerValue: the x-tr-client value of the attempt in flight.            *)
NoHeader == [a |-> -1, po |-> "none", ph |-> Custom, fo |-> FALSE]

(* A mutant: the latest record stands for the previous attempt.            *)
HeaderFromLatest(r) ==
    IF ~r.begun \/ r.currentHost = Custom \/ r.currentIndex > MaxHeaderIndex
       \/ (r.currentIndex > 0 /\ ~r.hasLast)
    THEN NoHeader
    ELSE [a |-> r.currentIndex, ph |-> IF r.currentIndex > 0 THEN r.last.host ELSE Custom,
          po |-> IF r.currentIndex = 0 \/ r.last.outcome \in {"ok", "aborted"}
                 THEN "none" ELSE r.last.outcome,
          fo |-> r.currentIndex > 0 /\ r.failoverUsed]

HeaderValue(r) ==
    IF \/ ~r.begun \/ r.currentHost = Custom
       \/ r.currentIndex > MaxHeaderIndex
       \/ r.currentIndex > 0 /\ (~r.hasLast \/ r.last.index # r.currentIndex - 1)
    THEN NoHeader
    ELSE [a |-> r.currentIndex, ph |-> IF r.currentIndex > 0 THEN r.last.host ELSE Custom,
          po |-> IF r.currentIndex = 0 \/ r.last.outcome \in {"ok", "aborted"}
                 THEN "none" ELSE r.last.outcome,
          fo |-> r.currentIndex > 0 /\ r.failoverUsed]
=============================================================================
