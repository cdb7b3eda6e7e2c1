------------------------------ MODULE Reporter ------------------------------
(***************************************************************************)
(* The beacon reporter (telemetry_reporter.go) and its owner, the client   *)
(* (client.go, Close and telemetrySinkFor).  Three kinds of goroutine meet *)
(* here: the calls of the SDK, which hand finished calls to onRequest; the *)
(* worker, which flushes on a schedule; and Close, which makes one final   *)
(* flush.  mu makes each locked section one action; flushMu makes a flush  *)
(* - from its select to the handling of the reply - exclusive, while calls *)
(* go on changing the buffer under it.                                     *)
(*                                                                         *)
(* Time is relative: each deadline is the number of ticks until it, and a  *)
(* tick starts a new client minute.                                        *)
(***************************************************************************)
EXTENDS ReportBuffer

CONSTANTS
    MaxRequests,        \* bound: the calls that finish
    Finishes,           \* what a finished call may bring: an event and counter keys
    UrgentEvents,       \* telemetryURGENTEvents
    BatchTriggerBytes,  \* telemetryBatchTriggerBytes, in items
    FlushInterval,      \* telemetryFlushInterval, in ticks
    BackoffMin,         \* telemetryBackoffMin
    BackoffMax,         \* telemetryBackoffMax
    HasApiKey,          \* the client has a key to send the beacon with
    Statuses,           \* what the control plane may answer with
    RetryAfters,        \* usable Retry-After values, 0 for none
    Policies            \* policies a 202 may carry

(* A policy names what it changes; NoChange leaves a field alone.          *)
NoChange == -1
NoPolicy == [rate |-> NoChange, flush |-> NoChange, pause |-> NoChange]

(* What becomes of the event of a finished call: sampleReason always keeps *)
(* a failure and a success that was retried, failed over or slow; of the   *)
(* plain successes it keeps some, while the rate is positive.              *)
(* telemetryWireEventFrom may refuse an event.                             *)
Kinds == {"failure", "retried", "plain", "unsampled", "invalid"}
Sampled(kind) == kind \in {"failure", "retried", "plain"}

ASSUME ReporterAssumption ==
    /\ \A c \in Finishes : c.kind \in Kinds /\ c.keys \in Seq(Nat)
    /\ MaxRequests \in Nat /\ HasApiKey \in BOOLEAN
    /\ FlushInterval \in Nat \ {0} /\ BackoffMin \in Nat \ {0} /\ BackoffMax \in Nat
    /\ FlushInterval <= BackoffMax /\ BackoffMin <= BackoffMax
    /\ RetryAfters \subseteq Nat
    /\ \A p \in Policies : {p.rate, p.flush, p.pause} \subseteq Nat \cup {NoChange}

Flushers == {"worker", "final"}

VARIABLES
    created,        \* the client has a reporter
    clientClosed,   \* Client.Close has been called
    buf,            \* the buffer (ReportBuffer)
    rate,           \* successSampleRate: 0 samples no plain success
    flushInterval, flushIn, backoff, backoffIn, pauseIn,
    urgentFlush, wake, stopped, disabled, closed,
    pc,             \* where each flusher is
    batch,          \* the batch of a flusher that is posting
    ticked,         \* a minute began during the POST: it lasts at most 5 s
    closer,         \* where Client.Close is
    timedOut,       \* Close's own deadline has passed
    requests,       \* history: calls finished
    taken,          \* history: every event and row the reporter took charge of
    served,         \* history: the items the control plane has accepted
    acked,          \* history: drops told in batches it acknowledged
    replyLost       \* history: an accepted batch whose reply was lost

schedule == <<flushInterval, flushIn, backoff, backoffIn, pauseIn>>
flags    == <<created, clientClosed, disabled, closed, stopped>>
ledger   == <<taken, served, acked, replyLost>>
vars == <<buf, rate, schedule, flags, ledger, urgentFlush, wake, pc, batch, ticked,
          closer, timedOut, requests>>

NoBatch == [events |-> << >>, counters |-> << >>, windows |-> << >>, dropped |-> 0]
Posting == \E f \in Flushers : pc[f] = "posting"

Init ==
    /\ created = FALSE /\ clientClosed = FALSE
    /\ buf = NewBuffer /\ rate = 1
    /\ flushInterval = FlushInterval /\ flushIn = 0
    /\ backoff = BackoffMin /\ backoffIn = 0 /\ pauseIn = 0
    /\ urgentFlush = FALSE /\ wake = FALSE /\ stopped = FALSE
    /\ disabled = FALSE /\ closed = FALSE
    /\ pc = [f \in Flushers |-> "none"] /\ batch = [f \in Flushers |-> NoBatch]
    /\ ticked = FALSE /\ closer = "none" /\ timedOut = FALSE
    /\ requests = 0 /\ taken = {} /\ served = {} /\ acked = 0 /\ replyLost = FALSE

(* A new client minute.                                                    *)
Down(n) == IF n > 0 THEN n - 1 ELSE 0

Tick ==
    /\ ~(Posting /\ ticked)
    /\ ticked' = Posting
    /\ flushIn' = Down(flushIn) /\ backoffIn' = Down(backoffIn) /\ pauseIn' = Down(pauseIn)
    /\ buf' = Aged(buf)
    /\ UNCHANGED <<rate, flushInterval, backoff, flags, ledger, urgentFlush, wake, pc, batch,
                   closer, timedOut, requests>>

-----------------------------------------------------------------------------
(* telemetrySinkFor: the first recorded call creates the reporter.         *)
CreateReporter ==
    /\ ~created
    /\ created' = TRUE
    /\ UNCHANGED <<clientClosed, disabled, closed, stopped, buf, rate, schedule, ledger,
                   urgentFlush, wake, pc, batch, ticked, closer, timedOut, requests>>

(* A mutant: onRequest looks only at closed.                               *)
OnlyClosedRefuses == closed

(* onRequest drops what arrives after the end.                             *)
RefusesRequests == disabled \/ closed

Recorded(kind, keys, id) ==
    LET merged  == MergeCounters(RollWindow(buf), keys)
        counted == IF kind = "invalid" THEN [merged EXCEPT !.droppedSinceLast = @ + 1] ELSE merged
    IN  IF Sampled(kind) THEN AppendEvent(counted, [id |-> id, ok |-> kind # "failure"])
        ELSE counted

Urgent(b) ==
    \/ Len(b.events) >= UrgentEvents
    \/ Len(b.events) + b.retainedWindowBytes + Len(b.current) >= BatchTriggerBytes

(* The rows that left the current minute for a closed window.              *)
ClosedRows(before, after) ==
    IF after.nextWindow = before.nextWindow THEN {}
    ELSE {<<before.nextWindow, before.current[i]>> : i \in DOMAIN before.current}

OnRequest ==
    /\ created /\ requests < MaxRequests
    /\ requests' = requests + 1
    /\ \E c \in Finishes :
          /\ c.kind = "plain" => rate > 0
          /\ IF RefusesRequests
             THEN UNCHANGED <<buf, pc, flushIn, urgentFlush, wake, taken>>
             ELSE /\ buf' = Recorded(c.kind, c.keys, requests + 1)
                  /\ taken' = taken \cup ClosedRows(buf, buf')
                                \cup (IF c.kind = "unsampled" THEN {} ELSE {EventItem(requests + 1)})
                  \* startWorkerLocked
                  /\ LET starts == pc["worker"] = "none"
                     IN  /\ pc' = IF starts THEN [pc EXCEPT !["worker"] = "loop"] ELSE pc
                         /\ flushIn' = IF starts THEN flushInterval ELSE flushIn
                  /\ urgentFlush' = (urgentFlush \/ Urgent(buf'))
                  /\ wake' = (wake \/ Urgent(buf'))
    /\ UNCHANGED <<rate, flushInterval, backoff, backoffIn, pauseIn, flags, served, acked,
                   replyLost, batch, ticked, closer, timedOut>>

-----------------------------------------------------------------------------
(* The worker.                                                             *)

(* A mutant: the worker ends only with a disabled reporter.                *)
SeesOnlyDisabled == disabled
SeesStop == stopped

Quiet == pauseIn > 0 \/ backoffIn > 0
IsUrgent == urgentFlush /\ ~Quiet

(* A mutant: only an urgent flush is ever due.                             *)
DueWhenUrgent == IsUrgent
Due == IsUrgent \/ (flushIn = 0 /\ ~Quiet)

WorkerUnchanged ==
    UNCHANGED <<buf, rate, schedule, flags, ledger, batch, ticked, closer, timedOut, requests>>

(* The head of the loop.                                                   *)
WorkerDecides ==
    /\ pc["worker"] = "loop"
    /\ pc' = [pc EXCEPT !["worker"] =
                IF SeesStop THEN "done" ELSE IF Due THEN "lock" ELSE "waiting"]
    /\ urgentFlush' = (urgentFlush /\ (SeesStop \/ ~IsUrgent))
    /\ UNCHANGED wake
    /\ WorkerUnchanged

(* The select: the timer, the wake token or the stop channel.              *)
WorkerWakes ==
    /\ pc["worker"] = "waiting"
    /\ \/ flushIn = 0 /\ ~Quiet /\ pc' = [pc EXCEPT !["worker"] = "loop"] /\ UNCHANGED wake
       \/ wake /\ wake' = FALSE /\ pc' = [pc EXCEPT !["worker"] = "loop"]
       \/ SeesStop /\ pc' = [pc EXCEPT !["worker"] = "done"] /\ UNCHANGED wake
    /\ UNCHANGED urgentFlush
    /\ WorkerUnchanged

-----------------------------------------------------------------------------
(* flushOnce.                                                              *)

(* What a flusher does after it: the worker reschedules, Close's goroutine *)
(* ends.                                                                   *)
AfterFlush(f) == IF f = "worker" THEN "loop" ELSE "done"
Reschedules(f) == flushIn' = IF f = "worker" THEN flushInterval' ELSE flushIn

(* A mutant: flushes are not serialised.                                   *)
AlwaysFree == TRUE

(* flushMu.                                                                *)
FlushMuFree == ~Posting

HeldBack == disabled \/ Quiet \/ ~HasApiKey

(* The flush is skipped, or there is nothing to send.                      *)
FlushSkipped(f) ==
    /\ pc[f] = "lock" /\ FlushMuFree
    /\ \/ HeldBack /\ UNCHANGED <<buf, taken>>
       \/ /\ ~HeldBack
          /\ buf' = BeforeSelect(buf) /\ NothingToSend(buf')
          /\ taken' = taken \cup ClosedRows(buf, buf')
    /\ pc' = [pc EXCEPT ![f] = AfterFlush(f)]
    /\ UNCHANGED flushInterval /\ Reschedules(f)
    /\ UNCHANGED <<rate, backoff, backoffIn, pauseIn, flags, served, acked, replyLost,
                   urgentFlush, wake, batch, ticked, closer, timedOut, requests>>

(* selectBatchLocked, then the POST begins.                                *)
FlushBegins(f) ==
    /\ pc[f] = "lock" /\ FlushMuFree /\ ~HeldBack
    /\ \E prepared \in {BeforeSelect(buf)} :
          /\ ~NothingToSend(prepared)
          /\ buf' = prepared
          /\ batch' = [batch EXCEPT ![f] = SelectBatch(prepared)]
          /\ taken' = taken \cup ClosedRows(buf, prepared)
    /\ pc' = [pc EXCEPT ![f] = "posting"]
    /\ ticked' = FALSE
    /\ UNCHANGED <<rate, schedule, flags, served, acked, replyLost, urgentFlush, wake,
                   closer, timedOut, requests>>

(* The end of a flush that posted.                                         *)
PostEnds(f) ==
    /\ pc' = [pc EXCEPT ![f] = AfterFlush(f)]
    /\ batch' = [batch EXCEPT ![f] = NoBatch]
    /\ ticked' = FALSE
    /\ Reschedules(f)
    /\ UNCHANGED <<created, clientClosed, closed, urgentFlush, closer, timedOut, requests, taken>>

(* setBackoffLocked.                                                       *)
AtMost(n, m) == IF n < m THEN n ELSE m
AtLeast(n, m) == IF n > m THEN n ELSE m

(* A mutant: the delay doubles for ever.                                   *)
DoubledBackoff(n) == AtLeast(n * 2, BackoffMin)
NextBackoff(n) == AtMost(AtLeast(n * 2, BackoffMin), BackoffMax)

SetBackoff(retryAfter) ==
    /\ backoffIn' = AtMost(AtLeast(backoff, retryAfter), BackoffMax)
    /\ backoff' = NextBackoff(backoff)
    /\ wake' = TRUE
    /\ UNCHANGED <<buf, rate, flushInterval, pauseIn, disabled, stopped, acked>>

(* post fails: the request, or only its reply, was lost.                   *)
PostFails(f) ==
    /\ pc[f] = "posting"
    /\ \E accepted \in BOOLEAN :
          /\ served' = IF accepted THEN served \cup ItemsOf(batch[f]) ELSE served
          /\ replyLost' = (replyLost \/ accepted)
    /\ SetBackoff(0)
    /\ PostEnds(f)

(* disableLocked with stopLocked.                                          *)
Disable ==
    /\ disabled' = TRUE /\ stopped' = TRUE /\ wake' = TRUE
    /\ buf' = Emptied(buf)
    /\ UNCHANGED <<rate, flushInterval, backoff, backoffIn, pauseIn, acked>>

DisablingStatuses == {400, 401, 403, 404, 410}

(* A mutant: an acknowledged batch settles every drop so far.              *)
DropsReset(now, told) == 0

(* An acknowledged batch settles only the drops it told of.                *)
DropsAfterAck(now, told) == AtLeast(now - told, 0)

(* applyPolicyLocked: a policy is applied only where it reduces volume.    *)
ApplyPolicy(p) ==
    /\ rate' = IF p.rate # NoChange /\ p.rate < rate THEN p.rate ELSE rate
    /\ flushInterval' = IF p.flush > flushInterval THEN AtMost(p.flush, BackoffMax)
                        ELSE flushInterval
    /\ pauseIn' = AtLeast(pauseIn, p.pause)

Accepted(f) ==
    /\ buf' = LET kept == RemoveSelected(buf, batch[f])
              IN  [kept EXCEPT !.droppedSinceLast = DropsAfterAck(@, batch[f].dropped)]
    /\ acked' = acked + batch[f].dropped
    /\ backoff' = BackoffMin /\ backoffIn' = 0
    /\ \E p \in Policies : ApplyPolicy(p)
    /\ UNCHANGED <<disabled, stopped, wake>>

(* 413: the batch is given up and counted as dropped.                      *)
TooLarge(f) ==
    /\ buf' = LET kept == RemoveSelected(buf, batch[f])
              IN  [kept EXCEPT !.droppedSinceLast =
                        @ + Len(batch[f].events) + Len(batch[f].counters)]
    /\ UNCHANGED <<rate, flushInterval, backoff, backoffIn, pauseIn, disabled, stopped, acked, wake>>

(* handleResponse.  off: the response carries x-tr-telemetry: off.         *)
PostAnswered(f) ==
    /\ pc[f] = "posting"
    /\ UNCHANGED replyLost
    /\ \E status \in Statuses, off \in BOOLEAN :
          /\ served' = IF status = 202 THEN served \cup ItemsOf(batch[f]) ELSE served
          /\ \/ (off \/ status \in DisablingStatuses) /\ Disable
             \/ ~off /\ status = 202 /\ Accepted(f)
             \/ ~off /\ status = 413 /\ TooLarge(f)
             \/ /\ ~off /\ status \notin DisablingStatuses \cup {202, 413}
                /\ \E retryAfter \in RetryAfters : SetBackoff(retryAfter)
    /\ PostEnds(f)

-----------------------------------------------------------------------------
(* Client.Close.  Before the first recorded call there is no reporter to   *)
(* close; closing a closed one returns at once and changes nothing.        *)
ClientClose ==
    /\ ~closed
    /\ clientClosed' = TRUE
    /\ IF created
       THEN /\ closed' = TRUE /\ stopped' = TRUE /\ wake' = TRUE
            /\ pc' = [pc EXCEPT !["final"] = "lock"]
            /\ closer' = "waitFinal"
       ELSE closer' = "returned" /\ UNCHANGED <<closed, stopped, wake, pc>>
    /\ UNCHANGED <<created, disabled, buf, rate, schedule, ledger, urgentFlush, batch, ticked,
                   timedOut, requests>>

(* Close's deadline passes.                                                *)
CloseDeadline ==
    /\ closer \in {"waitFinal", "waitWorker"} /\ ~timedOut
    /\ timedOut' = TRUE
    /\ UNCHANGED <<buf, rate, schedule, flags, ledger, urgentFlush, wake, pc, batch, ticked,
                   closer, requests>>

CloseAdvances ==
    /\ \/ /\ closer = "waitFinal" /\ (pc["final"] = "done" \/ timedOut)
          /\ closer' = IF pc["worker"] = "none" \/ timedOut THEN "returned" ELSE "waitWorker"
       \/ /\ closer = "waitWorker" /\ (pc["worker"] = "done" \/ timedOut)
          /\ closer' = "returned"
    /\ UNCHANGED <<buf, rate, schedule, flags, ledger, urgentFlush, wake, pc, batch, ticked,
                   timedOut, requests>>

-----------------------------------------------------------------------------
Worker == WorkerDecides \/ WorkerWakes
Flush(f) == FlushSkipped(f) \/ FlushBegins(f)
Post(f) == PostFails(f) \/ PostAnswered(f)

Next ==
    \/ Tick \/ CreateReporter \/ OnRequest
    \/ Worker \/ (\E f \in Flushers : Flush(f) \/ Post(f))
    \/ ClientClose \/ CloseDeadline \/ CloseAdvances

Spec == Init /\ [][Next]_vars

(* Fairness.  Time passes; goroutines that can run do; a waiting flusher   *)
(* gets the mutex; the HTTP timeout ends every POST; timers fire.  Nothing *)
(* obliges the control plane to accept anything.                           *)
FairSpec ==
    /\ Spec
    /\ WF_vars(Tick) /\ WF_vars(Worker)
    /\ \A f \in Flushers : SF_vars(Flush(f)) /\ WF_vars(Post(f))
    /\ WF_vars(CloseDeadline) /\ WF_vars(CloseAdvances)

(* The control plane acknowledges a batch.                                 *)
Acknowledged ==
    \E f \in Flushers :
        /\ pc[f] = "posting"
        /\ served' = served \cup ItemsOf(batch[f]) /\ UNCHANGED replyLost
        /\ Accepted(f)
        /\ PostEnds(f)
-----------------------------------------------------------------------------
(* The reporter's schedule, buffer and flushers have their types, and the  *)
(* control plane accepts only what the reporter took charge of.            *)
TypeOK ==
    /\ flushInterval \in FlushInterval..BackoffMax /\ flushIn \in 0..flushInterval
    /\ backoff \in BackoffMin..BackoffMax /\ backoffIn \in 0..BackoffMax
    /\ Len(buf.events) <= MaxEvents /\ buf.droppedSinceLast \in Nat
    /\ pc["worker"] \in {"none", "loop", "waiting", "lock", "posting", "done"}
    /\ pc["final"] \in {"none", "lock", "posting", "done"}
    /\ closer \in {"none", "waitFinal", "waitWorker", "returned"}
    /\ served \subseteq taken

(* telemetry_reporter.go, fold ladder and 413: what is given up is counted.*)
(* Every event and row the reporter took charge of is still buffered, was  *)
(* accepted by the control plane, or stands in a drop count that was       *)
(* acknowledged or is yet to be told - whatever calls did to the buffer    *)
(* while a batch was in flight.                                            *)
Lost == taken \ (served \cup Buffered(buf))
NoSilentLoss == ~disabled => Cardinality(Lost) <= acked + buf.droppedSinceLast

(* A batch repeats what the control plane already accepted only if a reply *)
(* was lost: the worker's flush and Close's never carry the same items.    *)
RepeatsNeedALostReply ==
    \A f \in Flushers :
        pc[f] = "posting" /\ ItemsOf(batch[f]) \cap served # {} => replyLost

(* "turns the reporter off for the rest of the process and releases every  *)
(* buffer" (disableLocked): nothing is buffered or posted again, whichever *)
(* flush met the refusal and whatever calls finish after it.               *)
DisabledStaysEmpty ==
    disabled => /\ buf.events = << >> /\ buf.current = << >> /\ buf.closedWindows = << >>
                /\ buf.droppedSinceLast = 0
                /\ ~Posting

(* Close and a refusal end the worker, wherever it is, and Close returns.  *)
StopEndsEverything ==
    stopped ~> /\ pc["worker"] \in {"none", "done"}
               /\ closed => pc["final"] = "done" /\ closer = "returned"

(* If the control plane does not refuse for ever, buffered events leave:   *)
(* no wake, backoff or pause leaves the worker asleep on a full buffer.    *)
BufferDrains == SF_vars(Acknowledged) => ((buf.events # << >>) ~> (buf.events = << >> \/ stopped))

(* telemetryCounterWindow: closed minutes are "retained ... under the byte *)
(* cap".                                                                   *)
RetentionBounded == BytesIn(buf.closedWindows) <= RetentionBytes

(* Client.Close: "The client remains usable afterwards, but records no     *)
(* further telemetry."                                                     *)
ClosedClientRecordsNothing == [][closer = "returned" => taken' \subseteq taken]_vars
=============================================================================
