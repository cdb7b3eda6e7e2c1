-------------------------------- MODULE Call --------------------------------
(***************************************************************************)
(* One logical call from do() to the last byte: the transport engine, and  *)
(* after it the body the caller was given.  With telemetry on, that body   *)
(* is a telemetryBody (telemetry.go), where the recorder learns how the    *)
(* call ended; the SSE decoder (sse.go) reports the first event and a      *)
(* consumer that stops early.  Reader and closer may be two goroutines.    *)
(***************************************************************************)
EXTENDS Transport

VARIABLES
    body,       \* telemetryBody: bodyStarted, sawEOF, done
    bodyState,  \* none, open, closing (inside Close), closed
    stopped     \* history: no, or the consumer stopped "first" or "late": before
                \* or after the body had failed or been closed

callVars == <<vars, body, bodyState, stopped>>

NoBody == [started |-> FALSE, sawEOF |-> FALSE, done |-> FALSE]

CallInit == Init /\ body = NoBody /\ bodyState = "none" /\ stopped = "no"

(* A step of do(); a returned response hands its body to the caller.       *)
EngineStep ==
    /\ Loop \/ Environment
    /\ bodyState' = IF result = "none" /\ result' = "response" THEN "open" ELSE bodyState
    /\ UNCHANGED <<body, stopped>>

(* Only the SSE decoder of an opened stream fires the hooks.               *)
decoding == streamOpen /\ answer.status \in 200..299

bodyOnly == <<engine, history, panics, headers>>

(* iterSSEEvents / iterSSEChunks yield the first event.                    *)
FirstEvent ==
    /\ bodyState = "open" /\ decoding
    /\ ~body.started /\ ~body.sawEOF /\ ~body.done
    /\ body' = [body EXCEPT !.started = TRUE]
    /\ Telemetry(OnFirstEvent(rec))
    /\ UNCHANGED <<bodyOnly, reports, bodyState, stopped>>

(* The consumer stops iterating: the decoder's onAborted hook.             *)
ConsumerStops ==
    /\ bodyState = "open" /\ decoding /\ body.started /\ stopped = "no"
    /\ stopped' = IF body.done THEN "late" ELSE "first"
    /\ body' = [body EXCEPT !.done = TRUE]
    /\ Telemetry(IF body.done THEN rec ELSE OnAborted(rec))
    /\ UNCHANGED <<bodyOnly, reports, bodyState>>

(* A read ends with io.EOF.                                                *)
ReadEOF ==
    /\ bodyState = "open" /\ ~body.sawEOF
    /\ body' = [body EXCEPT !.sawEOF = TRUE]
    /\ UNCHANGED <<bodyOnly, rec, reports, bodyState, stopped>>

(* What a failed read can fail with.  Idle is the sentinel of the          *)
(* idle-timeout wrapper, which only timed streams have.                    *)
ReadErrors == {"other", "read_timeout"}
                \cup (IF streamOpen /\ call.hasTimeout THEN {"idle"} ELSE {})

(* A mutant: a failed read is recorded even after the call was settled.    *)
ReadRecordsAlways(done) == TRUE
ReadRecords(done) == ~done

(* observeReadError: a read fails, possibly because Close, in another      *)
(* goroutine, has closed the connection under it.                          *)
ReadFails ==
    /\ bodyState \in {"open", "closing"} /\ ~body.sawEOF
    /\ body' = [body EXCEPT !.done = TRUE]
    /\ \E err \in ReadErrors :
          IF ReadRecords(body.done)
          THEN TelemetryFinish(IF ctxDone THEN OnAborted(rec)
                               ELSE OnTransportError(rec, err, FALSE, TRUE, body.started))
          ELSE UNCHANGED <<rec, reports>>
    /\ UNCHANGED <<bodyOnly, bodyState, stopped>>

(* telemetryBody.Close: the connection is closed first, outside the lock.  *)
CloseStarts ==
    /\ bodyState = "open"
    /\ bodyState' = "closing"
    /\ UNCHANGED <<bodyOnly, rec, reports, body, stopped>>

(* A mutant: Close relies on the read path to have finished the call.      *)
CloseForgets(r) == r
CloseFinishes(r) == Finish(r)

CloseEnds ==
    /\ bodyState = "closing"
    /\ bodyState' = "closed"
    /\ body' = [body EXCEPT !.done = TRUE]
    /\ LET ended == IF ~body.done /\ ctxDone /\ ~body.sawEOF THEN OnAborted(rec) ELSE rec
       IN  /\ Telemetry(CloseFinishes(ended))
           /\ reports' = IF recording /\ CloseFinishes(ended).finished
                         THEN reports \o Reported(ended) ELSE reports
    /\ UNCHANGED <<bodyOnly, stopped>>

CallOver == /\ pc = "returned" /\ bodyState \in {"none", "closed"}
            /\ UNCHANGED callVars

CallNext ==
    \/ EngineStep
    \/ FirstEvent \/ ConsumerStops \/ ReadEOF \/ ReadFails
    \/ CloseStarts \/ CloseEnds
    \/ CallOver

CallSpec == CallInit /\ [][CallNext]_callVars

(* The call is over for the caller too.                                    *)
Settled == pc = "returned" /\ bodyState \in {"none", "closed"}
-----------------------------------------------------------------------------
Sent == Len(wire)

(* One column of a report's attempt rows, and its sum.                     *)
AttemptsColumn(rows) ==
    [i \in DOMAIN rows |-> IF rows[i].level = "attempt" THEN rows[i].attempts ELSE 0]
MovesColumn(rows) ==
    [i \in DOMAIN rows |-> IF rows[i].level = "attempt" THEN rows[i].failoverUsed ELSE 0]

(* A finished call is reported to the sink exactly once - by an error      *)
(* return of do(), by a failed read or by Close, whichever comes first and *)
(* however they interleave - and one that never sent anything is not.      *)
ReportedOnce ==
    /\ Len(reports) <= 1
    /\ Settled => Len(reports) = IF rec.recordable /\ rec.hasLast THEN 1 ELSE 0
    /\ reports # << >> => Sent > 0

(* telemetry.go, telemetryOverflowEntry: "the counters stay exact while    *)
(* recorder memory stays bounded".  The attempt rows of a report add up to *)
(* the attempts sent (less one for each record a panic cost), and their    *)
(* failovers to the moves really made, past the event cap too.             *)
CountersExact ==
    \A i \in DOMAIN reports :
        LET report == reports[i]
            total  == SumFunction(AttemptsColumn(report.counters))
            moves  == SumFunction(MovesColumn(report.counters))
        IN  /\ total = report.counters[1].attempts
            /\ total \in (Sent - panics)..Sent
            /\ moves \in (baseIndex - panics)..baseIndex
            /\ Len(report.attempts) <= MaxEventAttempts
            /\ report.failoverUsed = (baseIndex > 0)

(* What an attempt's header says of the attempt before it is what that     *)
(* attempt's answer was, on the host it went to; a lost record costs the   *)
(* header, never its truth.                                                *)
OutcomeOf(a) ==
    CASE a.kind = "response" /\ a.status < 400  -> {"none"}
      [] a.kind = "response" /\ a.status >= 400 -> {"http_error"}
      [] a.kind = "error"                       -> {"transport_error", "timeout"}

HeadersTellTheTruth ==
    \A i \in DOMAIN wire :
        LET h == headers[i]
        IN  h # NoHeader =>
              /\ h.a = i - 1
              /\ ~call.custom
              /\ i > 1 => /\ h.po \in OutcomeOf(answers[i - 1])
                          /\ h.ph \in {wire[i - 1].host, Custom}
                          /\ h.fo = (wire[i].host # wire[1].host)

(* The final outcome of a report: "exhausted" only after the whole budget  *)
(* went to answers that permitted a retry; "ok" only for a response below  *)
(* 400; "aborted" only when the caller ended its context or stopped        *)
(* iterating - and always when it stopped before anything else went wrong  *)
(* (a 200 that said "retry" still exhausts the budget).  A panic may have  *)
(* cost the last record, so "ok" is judged of the calls that lost none.    *)
FinalOutcomeTruth ==
    \A i \in DOMAIN reports :
        LET outcome == reports[i].finalOutcome
        IN  /\ outcome = "exhausted" =>
                  /\ Sent = MaxRetries + 1 /\ Sent > 1
                  /\ \A j \in 1..Sent : PermitsRetry(answers[j])
            /\ outcome = "ok" /\ panics = 0 => answer.kind = "response" /\ answer.status < 400
            /\ outcome = "aborted" => ctxDone \/ stopped # "no"
            /\ stopped = "first" => outcome \in {"aborted", "exhausted"}
=============================================================================
