----------------------------- MODULE Transport -----------------------------
(***************************************************************************)
(* The transport engine (transport.go, do): the one retry and failover     *)
(* loop of the SDK, for one logical call, with the telemetry recorder it   *)
(* drives.  Around the loop are the caller, who may end its context at any *)
(* moment, the attempt's timer (the stream-open timer, or the per-attempt  *)
(* deadline of a buffered call) and the gateways that answer.              *)
(*                                                                         *)
(* pc names where do() is blocked:                                         *)
(*   start     before the first line                                       *)
(*   top       the head of the loop                                        *)
(*   inflight  inside http.Client.Do                                       *)
(*   answered  Do has returned, its result not looked at yet               *)
(*   draining  inside drainAndClose of a response that will be retried     *)
(*   sleep     inside sleepForRetry                                        *)
(*   returned  do() has returned; result says what                         *)
(***************************************************************************)
EXTENDS Recorder

CONSTANTS
    MaxRetries,     \* Client.maxRetries, after negatives became 0
    NumCandidates,  \* the default host and its aliases
    MaxPanics,      \* bound: recovered callback panics in one call
    Calls           \* the calls under study, a subset of AllCalls

(* The requestSpecs the plane router (planes.go) and the stream adapter    *)
(* (chat.go) can build.                                                    *)
Methods == {"GET", "POST", "PATCH"}
Key     == {NoKey, 1}     \* 1: a key the caller or a buffered adapter put in opts

AllCalls ==
    { c \in [plane : {"stream", "buffered", "control", "public"}, method : Methods,
             key : Key, hasTimeout : BOOLEAN, failover : BOOLEAN,
             candidates : {1, NumCandidates}, custom : BOOLEAN,
             telemetry : BOOLEAN, valid : BOOLEAN] :
        /\ c.plane = "stream" => c.method = "POST"
        /\ c.plane = "public" => c.method = "POST" /\ c.key = NoKey
        /\ c.plane \in {"control", "public"} => c.candidates = 1 /\ c.failover
        /\ c.custom => c.candidates = 1 }

ASSUME BoundsAssumption ==
    MaxRetries \in Nat /\ NumCandidates \in Nat \ {0} /\ MaxPanics \in Nat
ASSUME CallsAssumption == Calls \subseteq AllCalls

VARIABLES
    call,       \* the requestSpec of this call
    pc,
    attempt,    \* retries made so far
    baseIndex,  \* index into the candidates
    key,        \* opts.IdempotencyKey
    ctxDone,    \* the caller's context has ended
    cause,      \* cancellation cause of the attempt's context
    armed,      \* the attempt's timer may still fire
    answer,     \* what Do returned
    result,     \* what do() returned
    rec,        \* the recorder
    panics,     \* callback panics recovered so far
    reports,    \* what the telemetry sink has received
    headers,    \* history: the x-tr-client header of each request
    wire,       \* history: the requests put on the wire
    answers     \* history: the answers seen, in order

engine  == <<call, pc, attempt, baseIndex, key, ctxDone, cause, armed, answer, result>>
history == <<wire, answers>>
telemetry == <<rec, panics, reports, headers>>
vars == <<engine, history, telemetry>>

streamOpen     == call.plane = "stream"
controlPlane   == call.plane \in {"control", "public"}
credentialFree == call.plane = "public"
recording      == call.telemetry /\ ~controlPlane

replaySafe == requestReplaySafe(call.method, key)

(* A mutant: the attempt's context does not descend from the caller's.     *)
CancelledByTimer == cause # "none"

(* The attempt's context has ended.                                        *)
Cancelled == ctxDone \/ cause # "none"

NoAnswer == [kind |-> "none", status |-> 0, verdict |-> "absent", err |-> "none"]

(* hostEnum of a candidate: a custom base is never named.                  *)
hostEnum(index) == IF call.custom THEN Custom ELSE index

(* A key minted by newIdempotencyKey is unlike any other: the number of    *)
(* requests already sent tells mints apart.                                *)
newIdempotencyKey == 2 + Len(wire)

-----------------------------------------------------------------------------
(* Telemetry: all recorder calls are no-ops on the nil recorder.           *)

Telemetry(r) == rec' = IF recording THEN r ELSE rec

TelemetryFinish(r) ==
    /\ Telemetry(Finish(r))
    /\ reports' = IF recording THEN reports \o Reported(r) ELSE reports

(* Whether the next recorder callback panics.                              *)
Panic == IF recording /\ panics < MaxPanics THEN BOOLEAN ELSE {FALSE}
Panicked(p) == panics' = IF p THEN panics + 1 ELSE panics

-----------------------------------------------------------------------------
Init ==
    /\ call \in Calls
    /\ pc = "start" /\ attempt = 0 /\ baseIndex = 0
    /\ key = call.key
    /\ ctxDone \in BOOLEAN
    /\ cause = "none" /\ armed = FALSE
    /\ answer = NoAnswer /\ result = "none"
    /\ rec = NewRecorder(call.method \in {"GET", "POST"})
    /\ panics = 0 /\ reports = << >> /\ headers = << >>
    /\ wire = << >> /\ answers = << >>

(* The caller cancels, or its deadline passes.                             *)
CallerCancels ==
    /\ ~ctxDone
    /\ ctxDone' = TRUE
    /\ UNCHANGED <<call, pc, attempt, baseIndex, key, cause, armed, answer, result>>
    /\ UNCHANGED <<history, telemetry>>

(* The attempt's timer fires; the first cause of a context is the one kept.*)
TimerFires ==
    /\ armed
    /\ armed' = FALSE
    /\ cause' = IF Cancelled THEN cause
                ELSE IF streamOpen THEN "openTimeout" ELSE "deadline"
    /\ UNCHANGED <<call, pc, attempt, baseIndex, key, ctxDone, answer, result>>
    /\ UNCHANGED <<history, telemetry>>

(* A mutant: stream opens rely on the caller's key.                        *)
MintNever(c) == FALSE

(* autoIdempotency: stream opens mint a key when the caller gave none.     *)
MintsKey(c) == c.plane = "stream" /\ c.key = NoKey

(* The lines before the loop.                                              *)
Start ==
    /\ pc = "start"
    /\ pc' = "top"
    /\ key' = IF MintsKey(call) THEN newIdempotencyKey ELSE key
    /\ UNCHANGED <<call, attempt, baseIndex, ctxDone, cause, armed, answer, result>>
    /\ UNCHANGED <<history, telemetry>>

(* A mutant: every attempt mints its own key.                              *)
FreshWireKey == IF key = NoKey THEN NoKey ELSE 2 + Len(wire)

(* newHTTPRequest: a credential-free request carries no key.               *)
WireKey == IF credentialFree THEN NoKey ELSE key

(* A new attempt is assembled and sent.                                    *)
Send ==
    /\ pc = "top" /\ ~ctxDone /\ call.valid
    /\ pc' = "inflight"
    /\ cause' = "none"
    /\ armed' = call.hasTimeout
    /\ wire' = Append(wire, [host |-> baseIndex, key |-> WireKey])
    /\ \E p \in Panic :
          LET begun == BeginAttempt(rec, hostEnum(baseIndex), p)
          IN  /\ Telemetry(begun)
              /\ Panicked(p)
              /\ headers' = Append(headers, IF recording THEN HeaderValue(begun) ELSE NoHeader)
    /\ UNCHANGED <<call, attempt, baseIndex, key, ctxDone, answer, result, answers, reports>>

(* The request cannot be assembled: nothing is sent.                       *)
RequestError ==
    /\ pc = "top" /\ ~ctxDone /\ ~call.valid
    /\ pc' = "returned" /\ result' = "requestError"
    /\ \E p \in Panic :
          /\ Panicked(p)
          /\ TelemetryFinish(BeginAttempt(rec, hostEnum(baseIndex), p))
    /\ UNCHANGED <<call, attempt, baseIndex, key, ctxDone, cause, armed, answer>>
    /\ UNCHANGED <<history, headers>>

(* The end of a call whose context ended: at the head of the loop, or in   *)
(* the sleep before a retry.                                               *)
Abort ==
    /\ pc \in {"top", "sleep"} /\ ctxDone
    /\ pc' = "returned" /\ result' = "contextError"
    /\ TelemetryFinish(OnAborted(rec))
    /\ UNCHANGED <<call, attempt, baseIndex, key, ctxDone, cause, armed, answer>>
    /\ UNCHANGED <<history, panics, headers>>

(* The errors Do may return, given why the attempt's context ended.        *)
PossibleErrors ==
    {e \in Errors : CASE cause = "deadline"    -> e.err \in {"connect_timeout", "read_timeout"}
                      [] cause = "openTimeout" -> e.err \in {"dial", "other"}
                      [] cause = "none"        -> TRUE}

(* http.Client.Do returns.                                                 *)
DoReturns ==
    /\ pc = "inflight"
    /\ \E a \in PossibleErrors \cup (IF Cancelled THEN {} ELSE Responses) :
          answer' = a /\ answers' = Append(answers, a)
    /\ pc' = "answered"
    /\ UNCHANGED <<call, attempt, baseIndex, key, ctxDone, cause, armed, result, wire>>
    /\ UNCHANGED telemetry

-----------------------------------------------------------------------------
(* Do returned an error.                                                   *)

ErrorAnswer == pc = "answered" /\ answer.kind = "error"
openTimedOut == streamOpen /\ cause = "openTimeout"

(* OnTransportError of this answer, unless the callback panics.            *)
ErrorRecorded(p) ==
    IF p THEN rec ELSE OnTransportError(rec, answer.err, openTimedOut, FALSE, FALSE)

(* The caller's context had ended.                                         *)
ErrorAborts ==
    /\ ErrorAnswer /\ ctxDone
    /\ pc' = "returned" /\ result' = "contextError" /\ armed' = FALSE
    /\ TelemetryFinish(OnAborted(rec))
    /\ UNCHANGED <<call, attempt, baseIndex, key, ctxDone, cause, answer, history, panics, headers>>

(* A mutant: the budget is checked one attempt late.                       *)
BudgetOffByOne(n) == n > MaxRetries

BudgetSpent(n) == n >= MaxRetries

ErrorGivesUp ==
    /\ ErrorAnswer /\ ~ctxDone
    /\ BudgetSpent(attempt) \/ ~replaySafe
    /\ pc' = "returned" /\ result' = "transportError" /\ armed' = FALSE
    /\ \E p \in Panic :
          /\ Panicked(p)
          /\ TelemetryFinish(MarkExhausted(ErrorRecorded(p), attempt > 0 /\ replaySafe))
    /\ UNCHANGED <<call, attempt, baseIndex, key, ctxDone, cause, answer, history, headers>>

(* Whether the engine moves to the next candidate after this answer.       *)
CanMove == call.failover /\ baseIndex < call.candidates - 1
MovesAfterError == CanMove
MovesAfterResponse == CanMove /\ regionalFailoverable(answer)

ErrorRetries ==
    /\ ErrorAnswer /\ ~ctxDone
    /\ ~BudgetSpent(attempt) /\ replaySafe
    /\ pc' = "sleep" /\ armed' = FALSE
    /\ baseIndex' = IF MovesAfterError THEN baseIndex + 1 ELSE baseIndex
    /\ \E p \in Panic :
          /\ Panicked(p)
          /\ Telemetry(IF MovesAfterError THEN OnMoved(ErrorRecorded(p)) ELSE ErrorRecorded(p))
    /\ UNCHANGED <<call, attempt, key, ctxDone, cause, answer, result, history, reports, headers>>

-----------------------------------------------------------------------------
(* Do returned a response.                                                 *)

ResponseAnswer == pc = "answered" /\ answer.kind = "response"
canRetry == retryable(answer) /\ replaySafe
ResponseRecorded(p) == IF p THEN rec ELSE OnResponse(rec, answer)

(* A mutant: every timer ends with the response headers.                   *)
TimerEndsAtHeaders == FALSE

(* stopTimer ends the stream-open timer here; the deadline of a buffered   *)
(* attempt lives on in the response body.                                  *)
TimerOutlivesHeaders == ~streamOpen

ResponseReturned ==
    /\ ResponseAnswer
    /\ BudgetSpent(attempt) \/ ~canRetry
    /\ pc' = "returned" /\ result' = "response"
    /\ armed' = (armed /\ TimerOutlivesHeaders)
    /\ \E p \in Panic :
          /\ Panicked(p)
          /\ Telemetry(MarkExhausted(ResponseRecorded(p), attempt > 0 /\ canRetry))
    /\ UNCHANGED <<call, attempt, baseIndex, key, ctxDone, cause, answer, history, reports, headers>>

ResponseRetried ==
    /\ ResponseAnswer
    /\ ~BudgetSpent(attempt) /\ canRetry
    /\ pc' = "draining"
    /\ armed' = (armed /\ TimerOutlivesHeaders)
    /\ \E p \in Panic : Panicked(p) /\ Telemetry(ResponseRecorded(p))
    /\ UNCHANGED <<call, attempt, baseIndex, key, ctxDone, cause, answer, result>>
    /\ UNCHANGED <<history, reports, headers>>

(* drainAndClose returns: the discarded body has ended or failed.          *)
Drained ==
    /\ pc = "draining"
    /\ pc' = "sleep" /\ armed' = FALSE
    /\ baseIndex' = IF MovesAfterResponse THEN baseIndex + 1 ELSE baseIndex
    /\ Telemetry(IF MovesAfterResponse THEN OnMoved(rec) ELSE rec)
    /\ UNCHANGED <<call, attempt, key, ctxDone, cause, answer, result>>
    /\ UNCHANGED <<history, panics, reports, headers>>

(* The retry delay has passed (when the context has ended too, the select  *)
(* of sleepContext may still choose the timer).                            *)
SleepDone ==
    /\ pc = "sleep"
    /\ pc' = "top" /\ attempt' = attempt + 1
    /\ UNCHANGED <<call, baseIndex, key, ctxDone, cause, armed, answer, result>>
    /\ UNCHANGED <<history, telemetry>>

-----------------------------------------------------------------------------
(* do() is over.                                                           *)
Over == pc = "returned" /\ UNCHANGED vars

Loop ==
    \/ Start \/ Send \/ RequestError \/ Abort
    \/ ErrorAborts \/ ErrorGivesUp \/ ErrorRetries
    \/ ResponseReturned \/ ResponseRetried \/ SleepDone

Environment == CallerCancels \/ TimerFires \/ DoReturns \/ Drained

Next == Loop \/ Environment \/ Over

Spec == Init /\ [][Next]_vars

(* Fairness.  The loop's own steps are a running goroutine; an armed timer *)
(* fires; Do and a body read return once their context has ended.  Nothing *)
(* makes a gateway answer, or a response body end.                         *)
FairSpec ==
    /\ Spec
    /\ WF_vars(Loop)
    /\ WF_vars(TimerFires)
    /\ WF_vars(DoReturns /\ Cancelled)
    /\ WF_vars(Drained /\ Cancelled)
-----------------------------------------------------------------------------
(* The engine's variables have their types.                                *)
PCs     == {"start", "top", "inflight", "answered", "draining", "sleep", "returned"}
Causes  == {"none", "openTimeout", "deadline"}
Results == {"none", "response", "transportError", "contextError", "requestError"}

TypeOK ==
    /\ call \in Calls
    /\ pc \in PCs
    /\ attempt \in 0..MaxRetries
    /\ baseIndex \in 0..(call.candidates - 1)
    /\ key \in Nat
    /\ ctxDone \in BOOLEAN /\ armed \in BOOLEAN
    /\ cause \in Causes
    /\ answer \in Answers \cup {NoAnswer}
    /\ result \in Results

(* Invariant (5) of transport.go: the key is minted once, before the loop, *)
(* and every attempt on every domain carries the same one; a stream open   *)
(* never goes out without.                                                 *)
OneKey ==
    \A i \in DOMAIN wire :
        /\ wire[i].key = wire[1].key
        /\ streamOpen => wire[i].key # NoKey

(* Invariants (5) and (8): a request is sent a second time only if what    *)
(* was on the wire lets the gateway recognise the replay - its method is   *)
(* idempotent or it carried a key - whatever the first attempt ended with. *)
NoUnsafeReplay ==
    Len(wire) > 1 => call.method \in SafeMethods \/ wire[1].key # NoKey

(* Invariants (1) and (4): every answer that was followed by another       *)
(* attempt permitted it; an explicit "false" is never followed by one.     *)
PermitsRetry(a) ==
    \/ a.kind = "error"
    \/ a.verdict = "true"
    \/ a.verdict = "absent" /\ (a.status = 429 \/ a.status >= 500)

RetriesArePermitted == \A i \in 1..(Len(wire) - 1) : PermitsRetry(answers[i])

(* Invariants (2), (3), (7) and (8): the host changes only to the next     *)
(* candidate, only with failover enabled, and only after a transport error *)
(* or a gateway-level 502, 503 or 504 - never after a 500.                 *)
PermitsMove(a) == a.kind = "error" \/ (a.status \in {502, 503, 504} /\ a.verdict # "false")

MovesArePermitted ==
    \A i \in 1..(Len(wire) - 1) :
        \/ wire[i + 1].host = wire[i].host
        \/ /\ wire[i + 1].host = wire[i].host + 1
           /\ wire[i + 1].host < call.candidates
           /\ call.failover
           /\ PermitsMove(answers[i])

(* The attempts of one call never exceed the retry budget plus one, and an *)
(* answer that could have been retried surfaces only once the budget is    *)
(* spent: the engine neither overruns nor gives up early (invariant (9)).  *)
BudgetExact ==
    /\ Len(wire) <= MaxRetries + 1
    /\ result \in {"response", "transportError"} =>
          \/ Len(wire) = MaxRetries + 1
          \/ ~PermitsRetry(answers[Len(wire)])
          \/ call.method \notin SafeMethods /\ wire[1].key = NoKey

(* The inductive invariant of the engine: what each place in the loop      *)
(* knows of the attempts behind it.                                        *)
WireTyped ==
    /\ wire \in Seq([host : Nat, key : Nat])
    /\ answers \in Seq(Answers)

Counted ==
    /\ pc \in {"start", "top"} => Len(wire) = attempt
    /\ pc \notin {"start", "top", "returned"} => Len(wire) = attempt + 1
    /\ pc = "returned" => Len(wire) \in {attempt, attempt + 1}
    /\ Len(answers) = IF pc = "inflight" THEN Len(wire) - 1 ELSE Len(wire)
    /\ pc = "start" => attempt = 0
    /\ (pc = "returned") <=> (result # "none")

KeyHeld ==
    /\ pc = "start" => key = call.key
    /\ streamOpen /\ pc # "start" => key # NoKey
    /\ credentialFree => key = NoKey
    /\ \A i \in DOMAIN wire : wire[i].key = WireKey
    /\ Len(wire) > 1 => replaySafe

(* Between two attempts: the last answer permits the next one.             *)
BetweenAttempts == pc = "sleep" \/ (pc = "top" /\ wire # << >>)

LastAnswerKnown ==
    /\ pc = "answered" => answer = answers[Len(answers)]
    /\ pc = "draining" => /\ answer = answers[Len(answers)]
                          /\ answer.kind = "response" /\ canRetry
    /\ pc \in {"draining", "sleep"} => attempt < MaxRetries
    /\ BetweenAttempts => replaySafe /\ PermitsRetry(answers[Len(answers)])

HostKnown ==
    /\ wire = << >> => baseIndex = 0
    /\ pc \in {"inflight", "answered", "draining"} => wire[Len(wire)].host = baseIndex
    /\ BetweenAttempts =>
          \/ baseIndex = wire[Len(wire)].host
          \/ /\ baseIndex = wire[Len(wire)].host + 1
             /\ call.failover
             /\ PermitsMove(answers[Len(answers)])

EngineInv ==
    /\ TypeOK /\ WireTyped /\ Counted /\ KeyHeld /\ LastAnswerKnown /\ HostKnown
    /\ RetriesArePermitted /\ MovesArePermitted /\ BudgetExact

(* The engine implements the contract of ReplayContract: its wire history  *)
(* is the requests of the contract, its result the outcome.                *)
Contract ==
    INSTANCE ReplayContract WITH
        Budget     <- MaxRetries + 1,
        idempotent <- call.method \in SafeMethods,
        failover   <- call.failover,
        hosts      <- call.candidates,
        requests   <- wire,
        outcome    <- result

ImplementsContract == Contract!ContractSpec

(* However do() stands - in flight, draining, asleep - a caller that ends  *)
(* its context gets its call back.                                         *)
CancelEndsCall == ctxDone ~> (pc = "returned")

(* README.md "Timeouts": with a timeout a buffered call returns, whatever  *)
(* the gateways do: each attempt, its drain included, is under a deadline. *)
TimedBufferedCallReturns ==
    (call.hasTimeout /\ ~streamOpen) ~> (pc = "returned")

(* The same of a stream open: client.go says the timeout applies to        *)
(* opening response headers "and, after open, to the idle gap between      *)
(* chunks".                                                                *)
TimedStreamOpenReturns ==
    (call.hasTimeout /\ streamOpen) ~> (pc = "returned")

(* transport.go: "The open timer covers exactly the wait for response      *)
(* headers": a stream handed to the caller has not been cancelled by it.   *)
OpenTimerSparesOpenStream ==
    result = "response" /\ streamOpen => cause # "openTimeout"
=============================================================================
