# Verification of trusted-router-go

TLA+ models of the Go SDK's stateful core, the TLC runs that check them and the
TLAPS proofs about them. Paths and line numbers refer to `src/`; the `map` of
`PROJECT.json` gives the lines every definition stands for.

## 1. The system

The SDK sends LLM requests to a set of gateways ("inference plane") and account
requests to a control plane, verifies what a gateway claims to be, and reports
client-side telemetry.

| Component | State it keeps | Operations | Why it is hard | What makes it correct |
|---|---|---|---|---|
| Policy kernel (`retry_policy.go`) | none | `retryable`, `regionalFailoverable`, `requestReplaySafe`, Retry-After parsing | precedence of `x-should-retry` over the status heuristic | decisions match the documented invariants over any sequence of answers |
| Transport engine (`transport.go`, `do`) | attempt, candidate index, idempotency key, attempt context and timer | send, error path, response path, drain, sleep, abort | caller cancellation, timers and answers race at every step; a transport error says nothing about execution | no unsafe replay, one key, permitted retries and moves, exact budget, termination |
| Plane router (`planes.go`, `chat.go`) | none | builds a `requestSpec` | which planes fail over, mint keys, carry credentials | its specs are the inputs of the engine |
| Request recorder (`telemetry.go`) | attempt records, overflow fold, abort/exhausted flags, finished | `beginAttempt`, `onResponse`, `onTransportError`, `onMoved`, `onAborted`, `markExhausted`, `finish`, header | a cap on records, recovered panics, three places that may finish | reported once, exact counters, truthful headers and outcome |
| Body and SSE hooks (`telemetry.go`, `sse.go`) | started, sawEOF, done | `Read`, `Close`, first event, consumer stop | reader and closer in two goroutines | the first event that settles a call decides |
| Beacon reporter (`telemetry_reporter.go`) | events, minute windows, byte counts, drop count, schedule, backoff, worker | `onRequest`, worker loop, `flushOnce`, `handleResponse`, `Close` | buffer changes under a batch in flight; Close's flush against the worker's; lost replies | no uncounted loss, no repetition without a lost reply, a refusal is final, everything ends |
| SSE iterators (`sse.go`) | buffered bytes, the lines of a frame | `iterSSEEvents`, `iterSSEChunks` | a stream may end, reset or time out anywhere | events in order; complete only after a terminal event |
| Stream idle timeout (`transport.go` 592-651) | timer, closed, cause | `Read`, `Close`, fire | timer against read, reset and Close | never runs on a closed stream; no read blocks for ever |
| Gateway session (`session.go`) | pinned connection, its deadline, retained reader | `VerifyGatewaySession`, `FetchAttestationAgain` | deadline watcher against cleanup; a failed fetch leaves its response behind; relays | granted only to the enclave's own channel; a refusal leaves nothing open; calls return |
| OAuth loopback (`oauth_loopback.go`, `oauth.go`) | one-slot result, listener | callback, `Wait`, `Close`, exchange | stray callbacks, Wait against its context, slow browsers | one result, a key of this flow only, no goroutine left blocked |
| Attestation (`attestation.go`) | none | claim checks of a live channel or a receipt key | two bindings, folded and exact comparisons, optional pins | accepted only for this nonce, channel, image and signer |
| Receipts (`receipts.go`) | stream capture | `VerifyReceipt`, digest, `ReceiptCapture` | some twenty ordered checks; events cut across reads; two parsers of one stream | vouches for exactly the traffic the caller holds |
| Chat collection (`chat_types.go`) | the caller's chunks | `CollectCompletion` | interleaved choices and tool calls, shared maps | every choice gets what was sent to it |
| Errors, facades, wire types, CLI | none | building, formatting | - | - |

Interactions: a facade builds a `requestSpec` and calls `do`; `do` drives the
recorder through callbacks that recover panics; a returned body carries the
recorder on, wrapped so that `Read` and `Close` finish it; `finish` hands one
report to the client's reporter (`onRequest`), which a worker goroutine and
`Client.Close` flush to the control plane. The reporter never calls back into
the engine. A stream that `do` returns is read through the idle-timeout wrapper
by an SSE iterator, which feeds `CollectCompletion`, or by a `ReceiptCapture`,
whose bytes `VerifyReceipt` checks. Sessions and receipts share the attestation
checks; the OAuth flow ends in a control-plane call.

## 2. Modules

    Policy -> Recorder -> Transport -> Call          ReportBuffer -> Reporter
                         |      |        |                              |
            ReplayContract  TransportProofs -> CallProofs        ReporterProofs

    Attestation -> Session -> SessionProofs       OAuthLoopback -> OAuthProofs
         |
      Receipts <- SSE -> BodyStream -> BodyStreamProofs

    RetryDelay, CounterTable, Completion, Receipts -> MCKernels -> KernelProofs

    DataLemmas -> CallProofs, ReporterProofs, BodyStreamProofs, KernelProofs

* `Policy`: answers (a response with status and `x-should-retry`, or an error)
  and the pure decisions over them.
* `Recorder`: `requestRecorder` as a record and one pure operator per callback,
  with the event cap and the overflow fold. Durations, ids and names are left out.
* `Transport`: `do()` for one call. `pc` is where the goroutine is blocked; each
  segment of code between two blocking points is one action, its recorder
  callbacks included. The environment is the caller (`CallerCancels`), the
  attempt's timer (`TimerFires`), `http.Client.Do` (`DoReturns`, external) and the
  end of a drained body (`Drained`). `AllCalls` is the set of request shapes the
  router and the adapters build. `wire` and `answers` are history variables.
* `Call`: the engine, then the body the caller holds: first event, consumer stop,
  EOF, failed read (also while `Close` runs), and the two halves of `Close`,
  which closes the connection before it takes the lock.
* `ReportBuffer`: the reporter's buffer and every function the code calls with
  `mu` held: append with eviction, roll, prune, select, remove.
* `Reporter`: calls, worker, flush, reply and `Client.Close` around that buffer.
  Each section under `mu` is an action; a flush holds `flushMu` from its select
  to the handling of the reply, and calls go on in between.
* `ReplayContract`: what one call promises whoever sees only its requests and its
  outcome: one after another, repeated only under the first key and only when that
  is safe, the same host or the next, within the budget, settled once.
  `Transport!ImplementsContract` maps `wire` to the requests and `result` to the
  outcome; steps of timers, answers, drains and sleeps are stutters.
* `Attestation`: the checks of `checkAttestationClaimsForBinding` for both
  bindings, the policy of a trust release and the choice of the signing key, as
  operators on a symbolic document (who signed it, its claims).
* `Session`: one `VerifyGatewaySession` and the fetches that follow on its
  connection. An exchange is write, head, body; the peer answers in parts, at any
  time or never; each exchange has a watcher goroutine that may act at any time
  after its context ended, also after the exchange is over. `fetched` and
  `abandoned` are history variables.
* `OAuthLoopback`: connections and their handlers (connect, arrive, write the page,
  deliver; a connection accepted before the shutdown may bring its request while it
  drains), the listener, `Wait`, `Close` with its 2 s of grace, and the exchange of the code.
* `SSE`: line reading, framing and both parsers; and the receipts' own framing,
  stream digest and capture. A stream is a sequence of tokens: the text of a line,
  CR, LF.
* `BodyStream`: the body, the idle-timeout wrapper (`Read` in two steps, so that
  timer and `Close` come in between) and one of three readers.
* `Receipts`: the checks of `VerifyReceipt` in their order, each with the error it
  fails with, and `ReceiptCapture.Verify`. They take two readings of the wall clock,
  `clock.verify` where the receipt's age is measured without a `Now`
  (`receipts.go:434`) and `clock.attest` where the document's expiry is checked
  (`attestation.go:631`): the caller's `Now` replaces the first only.
* `RetryDelay`, `CounterTable`, `Completion`: the retry delay in milliseconds, the
  fold ladder of a counter window, and `CollectCompletion`.
* `MCTransport`, `MCCall`, `MCReporter`, `MCSession`, `MCStream`, `MCOAuth`,
  `MCKernels`: instances for TLC.

Abstractions worth knowing:

* the engine's sleep has no length: it ends, or the context ends, and when both
  are ready either may be chosen (Go's `select`);
* a recovered panic costs the record of the callback it happened in
  (`MaxPanics` of them per call);
* in the reporter an event and a counter row weigh one unit each; a tick is a
  client minute and deadlines are kept relative to now, so that time has no bound.
  A POST lasts at most 5 s in the code, so it spans at most one tick;
* `flushOnce` takes `mu` twice (check, then select): nothing that may run between
  the two changes what the check read, except calls and `Close`, which the check
  does not look at, so they are one action;
* batch ids and sequence numbers are labels the code never reads back; the fold
  ladder past 256 counter keys a minute is in `CounterTable`, not in `Reporter`,
  which stays below it; counts stay below `telemetryMaxCount`; the idle
  connections closed by `closeHTTPClient` are left out;
* `Policies` are what a 202 may carry; a field that would raise volume is ignored,
  as in `applyPolicyLocked`;
* of the reasons to sample an event `Kinds` keeps what they lead to: failures and
  retried (or slow) successes always, a plain success only while the rate is
  positive and the draw is below it (`unsampled` when it is not), and an event that
  no wire form exists for (`invalid`), which is dropped and counted. A counter whose
  level or outcome is none of the schema's (`RejectedKey`) is dropped and counted
  too; equal keys of one call share a row;
* the error classes of failures that are not timeouts are one, "other": they take
  the same branches of the recorder, and no property tells them apart;
* cryptography is symbolic: a digest is what was hashed (the names of events in the
  `sse-events-v1` domain included), a signature is its key and what it covers; a
  hexadecimal value keeps whether it is spelled in upper case, because some
  comparisons fold case (`dbgstat` among them) and some do not;
* a body of the caller is absent (`Absent`, a nil slice) or present, and then may be
  empty; `Now` and `MaxAgeSeconds` are unset, a number, or NaN or infinite
  (`Unset`, `Finite`, `NotFinite`);
* a head that `readGatewaySessionHTTPResponse` refuses may have been read to any
  line: it leaves nothing of itself, or lines that no later read can take for a head
  (`HeadRefused`, `Remains`); a read cut short leaves a head that is `Damaged`;
* a read may cut a stream between any two tokens (CR and LF too), never inside
  the text of a line: neither parser looks at a line before its end;
* in `Completion` a text is a sequence of pieces, one string field and one nested
  list stand for the extra fields of message and choice; the first nested map of a
  choice is shared with the caller's chunks, as in the code. Chunks are kept as the
  deltas of their choices, one after the other, as the two loops meet them.

## 3. Runs

| Run | Instance | Shows |
|---|---|---|
| `engine` | every request shape without telemetry, 2 retries, 3 candidates, statuses 200/429/500/503 with every `x-should-retry` | replay safety, one key, permitted retries and moves, exact budget, the inductive invariant, termination |
| `call` | recorded calls, 2 retries, 2 candidates, event cap 1, one panic | one report per call, exact counters, truthful headers and final outcome |
| `reporter` | 2 calls of four kinds (failure, plain and retried success, an event without a wire form) with equal, distinct and rejected counter keys; event cap 1, batches of one event and one row, `RetentionMinutes = 0` (a window expires with the next minute), 1 retained row; answers 202/401/413/503 with and without Retry-After or `x-tr-telemetry: off`, a policy that slows everything down | no uncounted loss, no repetition without a lost reply, refusal final; Close and refusal end every goroutine; the buffer drains |
| `session` | an enclave or a relay, 3 exchanges, documents for this nonce, an old one and the exporter sent as a nonce, another image, signer or time; statuses 200/500, closing and unframed answers | only the enclave is granted, refusals close, deadline and stream in step, calls return |
| `stream` | streams of up to four frames of 14 kinds, LF, CRLF and mixed endings, whole or cut in the last frame, ended by EOF or reset; both iterators with a timeout, a capture without | no cut stream passes for complete, captures do not depend on the pieces, receipts cover what is seen, reads end |
| `oauth` | two connections with requests out of six kinds, with and without state and PKCE | one result, this flow's key, port closed, handlers and `Wait` end |
| `kernels` | five exchanges (a body, an empty request and response, a stream in each digest domain), their receipts and every recombination of altered claims, headers, forms and signatures, the options a caller may set; for the genuine receipts every kind of `Now` and `MaxAgeSeconds` under three pairs of clock readings; retry headers of 5 kinds at their boundaries, 10 attempts; 4 increments of 18 keys in 2 rows; up to 4 deltas of 2 choices and 2 tool calls, collected up to three times | acceptance iff genuine, delay bounded, counts exact, collection as streamed |
| `stream_drain`, `open_timer`, `retention`, `after_close`, `receipt_clock` | see findings | violations |

Why the bounds are enough: two retries give an attempt that is first, middle and
last, and three candidates give a host that is first, middle and last; an event
cap below the number of attempts makes the overflow fold happen twice, and with
it the fold of a record that later moves or aborts. In the reporter, caps of one
make eviction, pruning and trimming all happen with two calls: one in the batch
and one that finishes while it is in flight; what is left of the first call goes
into a later batch.
`MaxHeaderIndex` keeps its value of 99 and is not reached; the panics and finished
calls are bounds of the model and carry the names `MaxPanics`, `MaxRequests`.
In the session the second exchange can fail with its answer still to come and the
third can read it, and watchers of two exchanges can strike in the third
(`MaxExchanges`). Two requests on the loopback are the one that delivers and the
one that must not. A stream of a frame, a chunk, the receipt and [DONE] has a
covered event before and after every kind of frame. Four increments fill a table
of two rows (`MaxWindowKeys`), fold and re-key, and fold into the re-keyed row
(`MaxMerges`). Four deltas (`MaxDeltas`) are a first, a middle and a last piece of
a choice and one of the other, the second collection (`MaxCollects`) sees what the first one wrote,
and the third what the second made of it.

The receipts are checked over all inputs as initial states: a receipt is verified
in one step, and the property compares the outcome with what the enclave of the
instance signed. `Exchanges` sit on the edges: `iat` at now + 60, at the greatest
age and one second beyond it, `verified_at = iat` and `iat + 1` as expiry; the
document expires one second after `Now`, and the wall clock is before, at and far
past that.

### The properties that took thought

* `FetchesInStep`: a fetch may return the answer to an earlier request, if that
  request's exchange failed after it was written; the property says this is the
  only way, and that no answer is returned twice or out of order. So it does not
  forbid what a fetch after a failed one meets: the code keeps the connection of a
  failed later fetch open, no document says that it may be used again, and its
  caller should close it.
* `IdleWithoutDeadline`: a connection at rest has no deadline, unless the context
  of some exchange has ended. The exception is real: `VerifyGatewaySession` ends
  its own derived context when it returns, and the watcher's `select` may prefer
  `ctx.Done` to `done` when it is scheduled only then, so that the connection just
  granted carries a deadline that has passed (`session.go:415`). The property does
  not forbid that, which the code does; it says that no other path leaves a
  deadline, and what is left is the watcher's. The next fetch sets a new deadline,
  which a late watcher may again replace; a caller that uses `Conn` must set its own.
* `AcceptedIsSeen`: the digest's parser refuses what the iterator would read
  differently (several data lines, comments), so that what a verified receipt
  covers is what the iterator yields. It excepts payloads at which the iterator
  stops: errors, and a [DONE] with padding, which the digest takes for data.
* `CollectedIsStreamed`: exact, except for nested lists after the first collection,
  because `mergeCompletionField` (`chat_types.go:573`) keeps the caller's map and merges
  later ones into it. A caller that collects twice from the same chunks sees such
  lists (`logprobs.content`) with entries repeated. `RepeatsPieces` says exactly how far
  this goes: the list that came first, then entries of the choice's later lists,
  then those lists in order; nothing lost, foreign or in another order. It allows the
  repetition, which the code makes and no document excludes.
* `NowOverridesTime` says what the comment on `Now` does; it does not hold (finding 5).
  `AcceptedIsGenuine` and `GenuineIsAccepted` therefore speak of two times: the age of
  a receipt by the caller's `Now`, the validity of the document by the wall clock.
* `RetriesArePermitted`, `NoSilentLoss`, `RepeatsNeedALostReply` and the properties
  of `Call` relate histories of several actors; see the comments in the modules.

### Fairness

`Transport!FairSpec`: the loop's own steps are a running goroutine (weak
fairness); an armed `time.Timer` fires; `Do` and body reads return once their
context has ended, as net/http promises. Nothing makes a gateway answer or a body
end, so termination is shown only through timers and cancellation:
`CancelEndsCall` for every call whose caller ends its context,
`TimedBufferedCallReturns` for buffered calls with a timeout.

`Reporter!FairSpec`: time passes, runnable goroutines run, timers fire, the
5 s HTTP timeout ends each POST in success or failure. A flusher waiting for
`flushMu` is strongly fair, because a Go mutex hands over to a waiter that has
starved for 1 ms. Nothing makes the control plane accept: `BufferDrains` is
conditional on acknowledgements that are possible again and again not being
refused for ever (`SF_vars(Acknowledged)`). `CHECK_DEADLOCK FALSE` in these runs:
a closed and quiet reporter may stop.

`Session!FairSpec`: the call runs, a deadline passes; the peer and the watchers
owe nothing. `CallReturns` rests on the deadline alone.

`BodyStream!FairSpec`: an armed timer fires, and a read returns once its context
has ended. The gateway owes nothing, and neither does the consumer. Calls without
a timeout may block for ever, as documented.

`OAuthLoopback!FairSpec`: handlers that have written their page, `Wait` and
`Close` run and the grace period ends. No browser need call or read its page, and
the context of `Wait` need not end. A session at rest, a finished stream and a
closed listener may stop (`CHECK_DEADLOCK FALSE`).

## 4. Proofs

The theorems hold for every value of the constants that the assumptions in the
modules allow (`BoundsAssumption`, `CallsAssumption`, `ReporterAssumption` and so
on); TLC evaluates these in the runs. The safety properties are seldom inductive,
so each proof has an inductive invariant of its own and a lemma for each action or
group of actions that preserves it.

### Lemmas on data (`DataLemmas`)

The provers cannot instantiate a library theorem that takes a predicate as its
parameter, so induction is done over sets of naturals: `LeastElement` comes from
the well-foundedness of `<`, `SetInduction` from that, and `IndexInduction` carries
it to sequences. On top of these: the recursive function behind `SumFunctionOnSet`
exists and is unique (`SumExists`, `SumUnique`), a sum can be split, re-indexed,
extended, changed in one place, bounded (`SumRemove`, `SumSplit`, `SumChange`,
`UnionBound`); a function defined by iteration exists (`IterationExists`);
`FlattenSeq` and the other sequence operators the models use have the elements one
expects. Every sum and every fold in the models that is proved about is written so
that these lemmas apply.

### The engine (`TransportProofs`)

`EngineInv` adds to the safety properties of the run `engine` what every place in
the loop knows: the length of `wire` and `answers` against `attempt`, that in
`sleep` and `draining` the last answer permitted the retry and the request is replay
safe, and that a move recorded in `baseIndex` was permitted by the answer before
it. That a retry was permitted says nothing about the attempt the loop is about to
make, so none of the properties is inductive alone. `ContractImplemented` proves
the refinement of `ReplayContract`: from `EngineInv`, `Send` is a first request or a
permitted repetition, every return is a `Settle`, and every other step leaves
`wire` and `result` alone.

### The recorder and the body (`CallProofs`)

All four properties of the run `call`, for any budget, candidate list, event cap
and number of panics. `CallInv` is `EngineInv` with:

* `RecOK`, a recorder by itself: the kept records are in the order of their index,
  the last one is kept, folded or still `Loose` (past the cap and not yet folded),
  and `recorded` is the number of attempts in records, overflow rows and the loose
  record together. The last conjunct makes the counters of a report add up; it needs
  `Loose`, because between `storeAttempt` and the next `beginAttempt` a record past
  the cap is in no list;
* `Numbered` and `RecordedEnough`, the recorder against the wire: the index of the
  attempt at hand, and that at most `panics` attempts or moves are missing from it.
  A panic in `onMoved` is why the bound for moves depends on whether the current
  attempt has a record (`draining`);
* `LastIsTrue`: the last record tells the last answer, "aborted" and "exhausted" are
  set only with their causes;
* `FinishedBy`: who finishes the call when; the report is the one made of the
  finished recorder. `done` of the body is what keeps reader and closer from
  finishing twice.

Each callback of the recorder has a lemma on the fields it touches and on what it
does to the two counts; each action of `Call` then follows from the callbacks it
makes.

### The reporter (`ReporterProofs`)

* `OffInv` for `DisabledForGood`: after a refusal nothing is buffered or posted. It
  needs that the two flushes exclude one another (`FlushesExclude`): otherwise a
  second flush in flight when the first is refused could still be posting.
* `LedgerInv` for `NothingIsLostSilently` and `RepeatsFollowALostReply`: the types of
  buffer and batch; `Charge`, what is buffered or in a batch was taken charge of, and
  the ids of items to come are fresh; `SentOnce`, while no reply was lost, what was
  served is neither buffered nor being posted. Every function of `ReportBuffer` is
  shown `Accounted`: what it gives up is in the drop count, what it takes in is new.
  The relation composes (`AccountedTwice`), so a section under `mu` is accounted for
  when its calls are. The batch in flight is compared with the buffer only when the
  reply comes (`LedgerPost`), since calls may have evicted or pruned part of it.
* `ScheduleInv` for `ReporterTypes`: interval, backoff and deadlines stay within their
  bounds whatever `Retry-After` and policies say.

### The session (`SessionProofs`)

`SessionInv` adds to the types what each place of a call knows (`CallPlaced`), who
may have left a deadline (`DeadlinePlaced`), what the stream of the first exchange
can hold (`FirstExchange`: nothing, a head, a head and its body, so that what is
verified is a document this peer sent) and `InStep`. `OnlyTheEnclaveIsGranted` rests
on `RelayAssumption`: a document obtained on another connection does not hold this
call's nonce and this connection's exporter together. That is what an enclave does
when it attests the exporter of its own channel and one caller's nonce; the code
contributes the check of both and that they differ.

`FetchesStayInStep` is `FetchesInStep` for any number of exchanges. `InStep` orders
everything on its way: the answer returned last, then the heads in the stream, then
the requests the peer has not answered, strictly increasing (`OnTheWay`); and as long
as no exchange was abandoned, only the running one is on its way. The second part is
why a fetch on a connection without failures returns its own answer.

### The loopback (`OAuthProofs`)

`LoopbackInv` says that the slot holds at most one admissible result, that
`resultOnce` was used before a result is out, and that a `Close` that is over leaves
neither the listener nor a connection that could still bring a request; for any
number of requests of any kind.

### The stream (`BodyStreamProofs`)

All safety properties of the run `stream`, for scripts of any number of frames of
any lines (`ScriptsAssumption`), any of the line endings, cut anywhere:

* `TimerStaysStopped`: the idle timer of a closed stream never runs again.
* `IteratorsTellWhatWasSent` (`DecodedIsSent`). `Layout` says at which byte each line of
  each frame starts and ends; `RenderedLaid` shows, frame by frame, that `Rendered`
  lays out its script so. The inductive invariant is `At`: an open iterator that has
  taken p bytes stands at the start of a line, has collected the lines of that frame
  before it, and has handed over the events of the frames before that. Each step
  reads a line of text, the blank line of a frame, or what the end of the stream
  left of a line. `DecodedIsSent` itself says nothing of the frame being collected,
  so it is not inductive.
* `CaptureFindsTheReceipt` (`CaptureIsScan`). The recursive function in `EventEnds` has
  a solution (`ScanExists`), so it can be unfolded event by event; an event that is
  complete in n bytes is the next one in more bytes too (`NextInMore`); hence a scan
  that goes on where the last complete event ended finds what one scan finds
  (`ScanTwice`). The invariant is that the capture stands where one scan would stop.
* `VerifiedIsWhatIsRead` (`AcceptedIsSeen`). From `Layout` again: the events the digest
  sees are the frames, and a stream whose blank lines end unlike its other lines has
  none (`EventsAreFrames`); an event that decodes has one data line, which is then the data of its
  frame. So the covered payloads are a filtered prefix of what the chat iterator
  yields.
* `PlainStreamsDigest`: a stream of any number of plain events, the receipt and
  [DONE] digests to exactly the payloads before the receipt, and what is hashed of
  each is its payload and, in the events domain, its name. It shows that the
  digest's side of the property above is met by streams of every length.

### The kernels (`KernelProofs`)

* `EveryDelayKeepsBounds`: the retry delay for every attempt, jitter and pair of
  headers with any integer value, not only those of the run.
* `FoldingKeepsCounts`, for every limit, set of keys and sequence of increments.
  `TableInv` adds that while the merged keys fit, the rows are of merged keys only:
  without it a row of a folded key could take the place of one that still fits.
  Each rung of the ladder keeps the sum when it re-keys a row (`RungFacts`).
* `VerifiedReceiptsAreGenuine`: the soundness of `VerifyReceipt` for any receipt and
  any options. The hypotheses are about the world, not the code: the documents at
  hand attest only enclave keys, and what such a key signed are the claims of an
  exchange that was handled. The theorem concludes that the caller's request and
  body are those of the exchange, that what was hashed of a stream is what the
  enclave hashed, and that the document was valid at the wall clock's time; that the
  digest in turn covers what a reader sees is `VerifiedIsWhatIsRead`.
* `GenuineReceiptsVerify`: the converse, for both readings of the clock. The age of
  the receipt is the caller's affair (`Now`, if it is set), but the document must be
  unexpired at `clock.attest` whatever `Now` says: with `Now` in place of that
  hypothesis the statement is false of the code (finding 5). `SignedFor` is a receipt as an enclave makes
  it for an exchange, `AttestedNow` and `RunsRelease` its document under the key set
  and the release, `HoldsTraffic` and `HoldsDocument` the caller; then all eighteen
  checks pass and the attestation verifies. The windows are those of the code, up to
  and including their last second. That the stream digests to its payloads is a
  hypothesis here, and `PlainStreamsDigest` for streams of plain events.
* `CollectingLosesNothing` (`CollectedIsStreamed`), for any chunks, choices, tools and
  number of collections. The recursive functions in `absorbAll` and `mergeTools` exist
  and are unfolded (`AbsorbSteps`, `MergeSteps`). Seen from one choice they are a series
  of states in which each text grows by the pieces that are its own
  (`PiecesGathered`), each word is replaced by the last one said (`LastSaidLast`) and
  each flag stays up (`ReachedIs`); so one collection of any deltas is what they
  tell (`CollectedIs`). The inductive invariant `CompletionInv` says what earlier
  collections have done to the caller's deltas (`Grown`): they differ from the sent
  ones only in that the first nested list of a choice (`FirstCarrier`) may have got
  entries of the later ones behind it. Without it nothing would be known of the
  deltas that a second collection reads. From it the lists of every choice are its
  first list, repeated entries and its later lists (`GrownLists`), and a collection
  leaves deltas that have grown in the same way (`AfterGrown`).

### Only model-checked

* Everything about liveness: `ENABLED` and fairness are beyond these provers.
* `AcceptedIsGenuine` and `GenuineIsAccepted`. They speak of the concrete receipts,
  documents, options and streams of `MCKernels`, which TLC enumerates completely; a
  proof would evaluate the same cases again. What holds of every receipt, option,
  release and key set is proved: `VerifiedReceiptsAreGenuine` and
  `GenuineReceiptsVerify`. The run in turn shows that the hypotheses of both can be
  met.
* The findings, which are counterexamples.

## 5. Findings

1. `stream_drain`: on a stream open the timer is stopped at the headers
   (`transport.go:188`) and the body of a response to be retried is drained
   (`:255`) with no timer at all: a 503 whose body never ends holds the call until
   the caller cancels. Buffered calls keep their deadline.
2. `open_timer`: the open timer may fire between the return of `Do` and
   `stopTimer`; the stream is returned as open and is already cancelled.
3. `retention`: a window pruned while its batch is in flight is subtracted from
   `retainedWindowBytes` twice (`telemetry_reporter.go:1029`); the count runs low and
   the byte cap no longer holds.
4. `after_close`: `Client.Close` before the first recorded call has no effect on
   later ones, which record telemetry and start the worker.
5. `receipt_clock`: `receipts.go:354` says that `Now` "overrides the current Unix time
   in seconds for verification"; it does so for the receipt's age only.
   `verifyReceiptAttestation` has no clock to pass on (`receipts.go:981`), and the
   document is held against `time.Now()` (`attestation.go:631`). An old receipt checked
   at the time it was made, with the document of that time, fails once the document
   has expired.

## 6. Not modelled

* `errors.go`: a table from status to error type, and message formatting. It has
  no state, and a second copy of the table would be no check of it.
* The API facades, wire types, constants and the command line: sequential request
  building and JSON codecs over `do`; which of them mint keys and fail over is in
  `AllCalls`.
* `collectTrustedRouterMetadata`: it gathers one vendor field of the chunks.
* Of OAuth, the building of the authorize URL; of attestation, `Client.Attestation`
  and `FetchTrustRelease`, single calls of the engine.
* The arithmetic of JWT, RSA, Ed25519, TLS and SHA-256 (library code), and the
  leak of idle connections when a worker posts after `Close` has closed the
  reporter's HTTP client (`telemetry_reporter.go:1251`), of which no document
  promises the opposite.

## 7. Plan

Every safety invariant of the runs is proved or has a proved general form. Work
that would add to this:

1. `collectTrustedRouterMetadata` and the whole-chunk fields in `Completion`, and the
   empty-but-present nested map.
2. The proof that `Reporter` with `CounterTable` in place of its plain rows keeps
   `NoSilentLoss`: now the two are proved apart.
3. Liveness, when the provers reach it.
