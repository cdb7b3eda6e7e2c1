-------------------------- MODULE TransportProofs --------------------------
(***************************************************************************)
(* EngineInv is an inductive invariant of the transport engine, for every  *)
(* retry budget, every number of candidates and every set of calls; the    *)
(* properties the runs check on small instances follow from it.            *)
(***************************************************************************)
EXTENDS Transport, TLAPS

(* What the proofs need of a call: it has the fields of AllCalls.          *)
LEMMA CallFacts ==
    ASSUME call \in Calls
    PROVE  /\ call.key \in Key
           /\ call.candidates \in Nat \ {0}
           /\ call.failover \in BOOLEAN
           /\ call.hasTimeout \in BOOLEAN
           /\ call.plane = "public" => call.key = NoKey
BY CallsAssumption, BoundsAssumption DEF AllCalls, Key

(* An answer is a response or an error, and is not the absent answer.      *)
LEMMA AnswerFacts ==
    ASSUME NEW a \in Answers
    PROVE  /\ a.kind \in {"response", "error"}
           /\ a.status \in Nat
           /\ a.verdict \in Verdicts
BY StatusesAssumption DEF Answers, Responses, Errors, Response, TransportError, Verdicts

(* The engine's retry and move decisions are the permissions the           *)
(* properties state.                                                       *)
LEMMA DecisionsPermitted ==
    ASSUME NEW a \in Answers, a.kind = "response"
    PROVE  /\ retryable(a) <=> PermitsRetry(a)
           /\ regionalFailoverable(a) => PermitsMove(a)
BY AnswerFacts DEF retryable, PermitsRetry, regionalFailoverable, PermitsMove,
                   shouldRetryVerdict, Verdicts

(* The engine's invariant holds initially.                                 *)
LEMMA InitEngine == Init => EngineInv
<1> SUFFICES ASSUME Init PROVE EngineInv
  OBVIOUS
<1> USE DEF Init
<1>1. TypeOK
  <2>1. call.key \in Key /\ call.candidates \in Nat \ {0}
    BY CallFacts
  <2>2. call \in Calls /\ pc \in PCs /\ ctxDone \in BOOLEAN /\ armed \in BOOLEAN
    BY DEF PCs
  <2>3. attempt \in 0..MaxRetries /\ baseIndex \in 0..(call.candidates - 1)
    BY <2>1, BoundsAssumption
  <2>4. key \in Nat
    BY <2>1 DEF Key, NoKey
  <2>5. cause \in Causes /\ answer \in Answers \cup {NoAnswer} /\ result \in Results
    BY DEF Causes, Results
  <2> QED
    BY <2>2, <2>3, <2>4, <2>5 DEF TypeOK
<1>2. WireTyped /\ Counted
  BY DEF WireTyped, Counted
<1>3. KeyHeld
  BY CallFacts DEF KeyHeld, credentialFree
<1>4. LastAnswerKnown /\ HostKnown
  BY DEF LastAnswerKnown, HostKnown, BetweenAttempts
<1>5. RetriesArePermitted /\ MovesArePermitted /\ BudgetExact
  BY BoundsAssumption DEF RetriesArePermitted, MovesArePermitted, BudgetExact
<1> QED
  BY <1>1, <1>2, <1>3, <1>4, <1>5 DEF EngineInv

(* Steps that leave the call's attempts, answers and keys alone.           *)
LEMMA QuietStep ==
    ASSUME EngineInv, CallerCancels \/ TimerFires \/ UNCHANGED vars
    PROVE  EngineInv'
<1>1. /\ UNCHANGED <<call, pc, attempt, baseIndex, key, answer, result, wire, answers>>
      /\ ctxDone' \in BOOLEAN /\ armed' \in BOOLEAN /\ cause' \in Causes
  BY DEF EngineInv, TypeOK, CallerCancels, TimerFires, vars, engine, history, Causes
<1> QED
  BY <1>1 DEF EngineInv, TypeOK, WireTyped, Counted, KeyHeld, LastAnswerKnown, HostKnown,
              BetweenAttempts, RetriesArePermitted, MovesArePermitted, BudgetExact,
              streamOpen, credentialFree, WireKey, replaySafe, canRetry

(* The lines before the loop: the key is fixed before anything is sent.    *)
LEMMA StartStep ==
    ASSUME EngineInv, Start
    PROVE  EngineInv'
<1> USE DEF EngineInv, Start
<1>1. wire = << >> /\ wire' = << >> /\ answers' = answers /\ call' = call
  BY DEF Counted, WireTyped, history
<1>2. TypeOK' /\ WireTyped' /\ Counted'
  <2>1. key' \in Nat
    BY <1>1 DEF TypeOK, newIdempotencyKey
  <2>2. TypeOK'
    BY <1>1, <2>1 DEF TypeOK, PCs
  <2> QED
    BY <1>1, <2>2 DEF WireTyped, Counted, TypeOK
<1>3. KeyHeld'
  BY <1>1 DEF KeyHeld, credentialFree, streamOpen, MintsKey, newIdempotencyKey, NoKey, TypeOK
<1> QED
  BY <1>1, <1>2, <1>3 DEF LastAnswerKnown, HostKnown, BetweenAttempts,
        RetriesArePermitted, MovesArePermitted, BudgetExact, Counted

(* Sending: the new request carries the key, and the host the last answer  *)
(* permitted.                                                              *)
LEMMA SendStep ==
    ASSUME EngineInv, Send
    PROVE  EngineInv'
<1> DEFINE n == Len(wire)
           new == [host |-> baseIndex, key |-> WireKey]
<1> USE CallFacts, BoundsAssumption
<1>1. /\ wire \in Seq([host : Nat, key : Nat]) /\ answers \in Seq(Answers)
      /\ new \in [host : Nat, key : Nat]
      /\ wire' = Append(wire, new)
      /\ pc = "top" /\ pc' = "inflight"
      /\ UNCHANGED <<call, attempt, baseIndex, key, ctxDone, answer, result, answers>>
  BY DEF EngineInv, TypeOK, WireTyped, Send, WireKey, NoKey
<1>2. /\ wire' \in Seq([host : Nat, key : Nat]) /\ Len(wire') = n + 1
      /\ \A i \in 1..n : wire'[i] = wire[i]
      /\ wire'[n + 1] = new
      /\ n \in Nat /\ n = attempt /\ Len(answers) = n
      /\ DOMAIN wire' = 1..(n + 1) /\ DOMAIN wire = 1..n
  BY <1>1 DEF EngineInv, Counted
<1>3. TypeOK' /\ WireTyped' /\ Counted'
  BY <1>1, <1>2 DEF EngineInv, TypeOK, PCs, Causes, WireTyped, Counted, Send
<1>4. KeyHeld'
  <2>1. \A i \in DOMAIN wire' : wire'[i].key = WireKey
    BY <1>1, <1>2 DEF EngineInv, KeyHeld
  <2>2. n > 0 => replaySafe
    BY <1>1, <1>2 DEF EngineInv, LastAnswerKnown, BetweenAttempts
  <2> QED
    BY <1>1, <1>2, <2>1, <2>2
       DEF EngineInv, KeyHeld, streamOpen, credentialFree, WireKey, replaySafe
<1>5. LastAnswerKnown' /\ HostKnown'
  BY <1>1, <1>2 DEF LastAnswerKnown, HostKnown, BetweenAttempts
<1>6. RetriesArePermitted'
  <2>1. ASSUME NEW i \in 1..(Len(wire') - 1) PROVE PermitsRetry(answers[i])
    <3>1. CASE i = n
      BY <1>1, <1>2, <3>1 DEF EngineInv, LastAnswerKnown, BetweenAttempts
    <3>2. CASE i # n
      BY <1>2, <3>2 DEF EngineInv, RetriesArePermitted
    <3> QED
      BY <3>1, <3>2
  <2> QED
    BY <1>1, <2>1 DEF RetriesArePermitted
<1>7. MovesArePermitted'
  <2>1. ASSUME NEW i \in 1..(Len(wire') - 1)
        PROVE  \/ wire'[i + 1].host = wire'[i].host
               \/ /\ wire'[i + 1].host = wire'[i].host + 1
                  /\ wire'[i + 1].host < call.candidates
                  /\ call.failover
                  /\ PermitsMove(answers[i])
    <3>1. CASE i = n
      BY <1>1, <1>2, <3>1 DEF EngineInv, HostKnown, BetweenAttempts, TypeOK
    <3>2. CASE i # n
      <4>1. Len(wire') - 1 = n /\ n \in Nat
        BY <1>2
      <4>2. i \in 1..(n - 1) /\ i + 1 \in 1..n /\ i \in 1..n
        BY <4>1, <3>2
      <4>3. wire'[i + 1] = wire[i + 1] /\ wire'[i] = wire[i]
        BY <1>2, <4>2
      <4> QED
        BY <4>2, <4>3 DEF EngineInv, MovesArePermitted
    <3> QED
      BY <3>1, <3>2
  <2> QED
    BY <1>1, <2>1 DEF MovesArePermitted
<1>8. BudgetExact'
  BY <1>1, <1>2 DEF BudgetExact, EngineInv, TypeOK, Counted
<1> QED
  BY <1>3, <1>4, <1>5, <1>6, <1>7, <1>8 DEF EngineInv

(* Do returns: the answer joins the history.                               *)
LEMMA DoReturnsStep ==
    ASSUME EngineInv, DoReturns
    PROVE  EngineInv'
<1> DEFINE n == Len(wire)
<1>1. PICK a \in Answers : answer' = a /\ answers' = Append(answers, a)
  BY DEF DoReturns, PossibleErrors, Answers
<1>2. /\ wire \in Seq([host : Nat, key : Nat]) /\ answers \in Seq(Answers)
      /\ pc = "inflight" /\ pc' = "answered"
      /\ UNCHANGED <<call, attempt, baseIndex, key, ctxDone, cause, armed, result, wire>>
  BY DEF EngineInv, WireTyped, DoReturns
<1>3. /\ answers' \in Seq(Answers) /\ Len(answers') = n
      /\ \A i \in 1..(n - 1) : answers'[i] = answers[i]
      /\ answers'[n] = a
      /\ n \in Nat /\ n = attempt + 1 /\ Len(answers) = n - 1
  BY <1>1, <1>2 DEF EngineInv, Counted, TypeOK
<1>4. TypeOK' /\ WireTyped' /\ Counted'
  BY <1>1, <1>2, <1>3 DEF EngineInv, TypeOK, PCs, WireTyped, Counted
<1>5. KeyHeld'
  BY <1>2 DEF EngineInv, KeyHeld, streamOpen, credentialFree, WireKey, replaySafe
<1>6. LastAnswerKnown' /\ HostKnown'
  BY <1>1, <1>2, <1>3 DEF EngineInv, LastAnswerKnown, HostKnown, BetweenAttempts
<1>7. RetriesArePermitted' /\ MovesArePermitted'
  BY <1>2, <1>3 DEF EngineInv, RetriesArePermitted, MovesArePermitted
<1>8. BudgetExact'
  BY <1>2 DEF EngineInv, BudgetExact, Counted
<1> QED
  BY <1>4, <1>5, <1>6, <1>7, <1>8 DEF EngineInv

(* Every other step leaves the history alone; what it must show is where   *)
(* it goes and what is known there.                                        *)
LEMMA HistoryKept ==
    ASSUME EngineInv, UNCHANGED <<call, key, wire, answers>>
    PROVE  /\ WireTyped' /\ RetriesArePermitted' /\ MovesArePermitted'
           /\ pc # "start" /\ pc' # "start" => KeyHeld'
BY DEF EngineInv, WireTyped, RetriesArePermitted, MovesArePermitted, KeyHeld, streamOpen,
       credentialFree, WireKey, replaySafe

(* do() returns without an answer to surface.                              *)
LEMMA AbandonStep ==
    ASSUME EngineInv, RequestError \/ Abort \/ ErrorAborts
    PROVE  EngineInv'
<1>1. /\ pc \in {"top", "sleep", "answered"} /\ pc' = "returned"
      /\ result' \in {"requestError", "contextError"}
      /\ UNCHANGED <<call, attempt, baseIndex, key, ctxDone, cause, answer, wire, answers>>
      /\ armed' \in BOOLEAN
  BY DEF RequestError, Abort, ErrorAborts, ErrorAnswer, EngineInv, TypeOK, history
<1>2. TypeOK' /\ Counted'
  BY <1>1 DEF EngineInv, TypeOK, Counted, PCs, Results
<1>3. LastAnswerKnown' /\ HostKnown' /\ BudgetExact'
  BY <1>1 DEF EngineInv, LastAnswerKnown, HostKnown, BetweenAttempts, BudgetExact
<1> QED
  BY <1>1, <1>2, <1>3, HistoryKept DEF EngineInv

(* The last answer of the history is the one do() is looking at.           *)
LEMMA AnsweredFacts ==
    ASSUME EngineInv, pc = "answered"
    PROVE  /\ answer \in Answers
           /\ answer = answers[Len(wire)]
           /\ Len(wire) = attempt + 1
           /\ wire[1].key = WireKey
           /\ wire[Len(wire)].host = baseIndex
           /\ wire # << >>
<1>1. Len(wire) = attempt + 1 /\ Len(answers) = Len(wire) /\ attempt \in Nat
  BY BoundsAssumption DEF EngineInv, Counted, TypeOK
<1>2. answers[Len(answers)] \in Answers
  BY <1>1 DEF EngineInv, WireTyped
<1>3. answer = answers[Len(answers)] /\ wire[Len(wire)].host = baseIndex
  BY DEF EngineInv, LastAnswerKnown, HostKnown
<1>4. 1 \in DOMAIN wire
  BY <1>1 DEF EngineInv, WireTyped
<1>5. wire[1].key = WireKey
  BY <1>4 DEF EngineInv, KeyHeld
<1>6. wire # << >>
  BY <1>1
<1> QED
  BY <1>1, <1>2, <1>3, <1>5, <1>6

(* do() returns an answer: only one it may not retry, or with the budget   *)
(* spent.                                                                  *)
LEMMA SurfaceStep ==
    ASSUME EngineInv, ErrorGivesUp \/ ResponseReturned
    PROVE  EngineInv'
<1>1. /\ pc = "answered" /\ pc' = "returned"
      /\ result' \in {"transportError", "response"}
      /\ UNCHANGED <<call, attempt, baseIndex, key, ctxDone, cause, answer, wire, answers>>
      /\ armed' \in BOOLEAN
  BY DEF ErrorGivesUp, ResponseReturned, TimerOutlivesHeaders, ErrorAnswer, ResponseAnswer, EngineInv, TypeOK, history
<1>2. TypeOK' /\ Counted'
  BY <1>1 DEF EngineInv, TypeOK, Counted, PCs, Results
<1>3. LastAnswerKnown' /\ HostKnown'
  BY <1>1 DEF EngineInv, LastAnswerKnown, HostKnown, BetweenAttempts
<1>4. BudgetExact'
  <2>1. \/ attempt >= MaxRetries
        \/ ~replaySafe
        \/ answer.kind = "response" /\ ~retryable(answer)
    BY DEF ErrorGivesUp, ResponseReturned, BudgetSpent, canRetry, ResponseAnswer
  <2>2. attempt >= MaxRetries => Len(wire) = MaxRetries + 1
    BY <1>1, AnsweredFacts, BoundsAssumption DEF EngineInv, TypeOK
  <2>3. ~replaySafe => call.method \notin SafeMethods /\ wire[1].key = NoKey
    BY <1>1, AnsweredFacts DEF replaySafe, requestReplaySafe, WireKey
  <2>4. answer.kind = "response" /\ ~retryable(answer) => ~PermitsRetry(answers[Len(wire)])
    BY <1>1, AnsweredFacts, DecisionsPermitted
  <2>5. Len(wire) <= MaxRetries + 1
    BY DEF EngineInv, BudgetExact
  <2> QED
    BY <1>1, <2>1, <2>2, <2>3, <2>4, <2>5 DEF BudgetExact
<1> QED
  BY <1>1, <1>2, <1>3, <1>4, HistoryKept DEF EngineInv

(* A retry after a transport error.                                        *)
LEMMA ErrorRetriesStep ==
    ASSUME EngineInv, ErrorRetries
    PROVE  EngineInv'
<1>1. /\ pc = "answered" /\ pc' = "sleep" /\ armed' = FALSE
      /\ answer.kind = "error" /\ replaySafe /\ ~(attempt >= MaxRetries)
      /\ UNCHANGED <<call, attempt, key, ctxDone, cause, answer, result, wire, answers>>
      /\ baseIndex' = IF MovesAfterError THEN baseIndex + 1 ELSE baseIndex
  BY DEF ErrorRetries, ErrorAnswer, BudgetSpent, history
<1>2. /\ baseIndex' \in 0..(call.candidates - 1)
      /\ baseIndex' = baseIndex \/ (baseIndex' = baseIndex + 1 /\ call.failover)
  BY <1>1, CallFacts DEF MovesAfterError, CanMove, EngineInv, TypeOK
<1>3. TypeOK' /\ Counted'
  BY <1>1, <1>2 DEF EngineInv, TypeOK, Counted, PCs
<1>4. LastAnswerKnown'
  <2>1. PermitsRetry(answers[Len(answers)])
    BY <1>1, AnsweredFacts DEF EngineInv, Counted, PermitsRetry
  <2>2. attempt < MaxRetries
    BY <1>1, BoundsAssumption DEF EngineInv, TypeOK
  <2> QED
    BY <1>1, <2>1, <2>2 DEF LastAnswerKnown, BetweenAttempts, replaySafe
<1>5. HostKnown'
  <2>1. PermitsMove(answers[Len(answers)])
    BY <1>1, AnsweredFacts DEF EngineInv, Counted, PermitsMove
  <2> QED
    BY <1>1, <1>2, <2>1, AnsweredFacts DEF HostKnown, BetweenAttempts
<1>6. BudgetExact'
  BY <1>1 DEF EngineInv, BudgetExact, Counted
<1> QED
  BY <1>1, <1>3, <1>4, <1>5, <1>6, HistoryKept DEF EngineInv

(* A response is set aside for a retry.                                    *)
LEMMA ResponseRetriedStep ==
    ASSUME EngineInv, ResponseRetried
    PROVE  EngineInv'
<1>1. /\ pc = "answered" /\ pc' = "draining" /\ armed' \in BOOLEAN
      /\ answer.kind = "response" /\ canRetry /\ ~(attempt >= MaxRetries)
      /\ UNCHANGED <<call, attempt, baseIndex, key, ctxDone, cause, answer, result, wire, answers>>
  BY DEF ResponseRetried, TimerOutlivesHeaders, ResponseAnswer, BudgetSpent, history, EngineInv, TypeOK
<1>2. TypeOK' /\ Counted'
  BY <1>1 DEF EngineInv, TypeOK, Counted, PCs
<1>3. LastAnswerKnown'
  <2>1. attempt < MaxRetries
    BY <1>1, BoundsAssumption DEF EngineInv, TypeOK
  <2> QED
    BY <1>1, <2>1 DEF EngineInv, LastAnswerKnown, BetweenAttempts, canRetry, replaySafe
<1>4. HostKnown' /\ BudgetExact'
  BY <1>1 DEF EngineInv, HostKnown, BetweenAttempts, BudgetExact, Counted
<1> QED
  BY <1>1, <1>2, <1>3, <1>4, HistoryKept DEF EngineInv

(* The discarded body is gone; the call may have moved.                    *)
LEMMA DrainedStep ==
    ASSUME EngineInv, Drained
    PROVE  EngineInv'
<1>1. /\ pc = "draining" /\ pc' = "sleep" /\ armed' = FALSE
      /\ UNCHANGED <<call, attempt, key, ctxDone, cause, answer, result, wire, answers>>
      /\ baseIndex' = IF MovesAfterResponse THEN baseIndex + 1 ELSE baseIndex
  BY DEF Drained, history
<1>2. /\ baseIndex' \in 0..(call.candidates - 1)
      /\ \/ baseIndex' = baseIndex
         \/ baseIndex' = baseIndex + 1 /\ call.failover /\ regionalFailoverable(answer)
  BY <1>1, CallFacts DEF MovesAfterResponse, CanMove, EngineInv, TypeOK
<1>3. /\ answer = answers[Len(answers)] /\ answer.kind = "response"
      /\ retryable(answer) /\ replaySafe
      /\ attempt < MaxRetries /\ wire[Len(wire)].host = baseIndex
  BY <1>1 DEF EngineInv, LastAnswerKnown, HostKnown, canRetry
<1>4. answer \in Answers
  <2>1. Len(answers) \in Nat \ {0}
    BY <1>1, BoundsAssumption DEF EngineInv, Counted, TypeOK
  <2> QED
    BY <1>3, <2>1 DEF EngineInv, WireTyped
<1>5. TypeOK' /\ Counted'
  BY <1>1, <1>2 DEF EngineInv, TypeOK, Counted, PCs
<1>6. wire # << >>
  BY <1>1, BoundsAssumption DEF EngineInv, Counted, TypeOK
<1>7. LastAnswerKnown' /\ HostKnown'
  BY <1>1, <1>2, <1>3, <1>4, <1>6, DecisionsPermitted
     DEF LastAnswerKnown, HostKnown, BetweenAttempts, replaySafe
<1>8. BudgetExact'
  BY <1>1 DEF EngineInv, BudgetExact, Counted
<1> QED
  BY <1>1, <1>5, <1>7, <1>8, HistoryKept DEF EngineInv

(* The sleep is over: one more attempt has been used.                      *)
LEMMA SleepDoneStep ==
    ASSUME EngineInv, SleepDone
    PROVE  EngineInv'
<1>1. /\ pc = "sleep" /\ pc' = "top" /\ attempt' = attempt + 1
      /\ UNCHANGED <<call, baseIndex, key, ctxDone, cause, armed, answer, result, wire, answers>>
  BY DEF SleepDone, history
<1>2. attempt < MaxRetries
  BY <1>1 DEF EngineInv, LastAnswerKnown
<1>3. TypeOK' /\ Counted'
  BY <1>1, <1>2, BoundsAssumption DEF EngineInv, TypeOK, Counted, PCs
<1>4. LastAnswerKnown' /\ HostKnown'
  BY <1>1 DEF EngineInv, LastAnswerKnown, HostKnown, BetweenAttempts, replaySafe
<1>5. BudgetExact'
  BY <1>1 DEF EngineInv, BudgetExact, Counted
<1> QED
  BY <1>1, <1>3, <1>4, <1>5, HistoryKept DEF EngineInv

(* One step of the specification.                                          *)
LEMMA EngineStepInv == EngineInv /\ [Next]_vars => EngineInv'
<1> SUFFICES ASSUME EngineInv, [Next]_vars PROVE EngineInv'
  OBVIOUS
<1>1. CASE Loop
  BY <1>1, StartStep, SendStep, AbandonStep, SurfaceStep, ErrorRetriesStep,
     ResponseRetriedStep, SleepDoneStep DEF Loop
<1>2. CASE Environment
  BY <1>2, QuietStep, DoReturnsStep, DrainedStep DEF Environment
<1>3. CASE Over \/ UNCHANGED vars
  BY <1>3, QuietStep DEF Over
<1> QED
  BY <1>1, <1>2, <1>3 DEF Next

(* The engine's invariant holds of every behaviour, for every budget,      *)
(* candidate list and set of calls.                                        *)
THEOREM EngineCorrect == Spec => []EngineInv
<1>1. Init => EngineInv
  BY InitEngine
<1>2. EngineInv /\ [Next]_vars => EngineInv'
  BY EngineStepInv
<1> QED
  BY <1>1, <1>2, PTL DEF Spec

(* The engine is well typed.                                               *)
THEOREM EngineTyped == Spec => []TypeOK
<1>1. EngineInv => TypeOK
  BY DEF EngineInv
<1> QED
  BY <1>1, EngineCorrect, PTL

(* One key per call, on every attempt and every domain.                    *)
THEOREM KeyNeverChanges == Spec => []OneKey
<1>1. EngineInv => OneKey
  <2> SUFFICES ASSUME EngineInv, NEW i \in DOMAIN wire
               PROVE  wire[i].key = wire[1].key /\ (streamOpen => wire[i].key # NoKey)
    BY DEF OneKey
  <2>1. 1 \in DOMAIN wire /\ Len(wire) \in Nat \ {0}
    BY DEF EngineInv, WireTyped
  <2>2. pc # "start"
    BY <2>1 DEF EngineInv, Counted, TypeOK
  <2>3. wire[i].key = WireKey /\ wire[1].key = WireKey
    BY <2>1 DEF EngineInv, KeyHeld
  <2> QED
    BY <2>2, <2>3 DEF EngineInv, KeyHeld, WireKey, streamOpen, credentialFree
<1> QED
  BY <1>1, EngineCorrect, PTL

(* Nothing is sent twice that the gateway could not recognise.             *)
THEOREM ReplaysAreSafe == Spec => []NoUnsafeReplay
<1>1. EngineInv => NoUnsafeReplay
  <2> SUFFICES ASSUME EngineInv, Len(wire) > 1
               PROVE  call.method \in SafeMethods \/ wire[1].key # NoKey
    BY DEF NoUnsafeReplay
  <2>1. 1 \in DOMAIN wire
    BY DEF EngineInv, WireTyped
  <2>2. wire[1].key = WireKey /\ replaySafe /\ (credentialFree => key = NoKey)
    BY <2>1 DEF EngineInv, KeyHeld
  <2> QED
    BY <2>2 DEF WireKey, replaySafe, requestReplaySafe
<1> QED
  BY <1>1, EngineCorrect, PTL

(* Every retry and every move was permitted by the answer before it, and   *)
(* the budget is neither overrun nor left unused.                          *)
THEOREM RetriesPermitted == Spec => []RetriesArePermitted
<1>1. EngineInv => RetriesArePermitted
  BY DEF EngineInv
<1> QED
  BY <1>1, EngineCorrect, PTL

(* A 500 never moves the call to another domain.                           *)
THEOREM MovesPermitted == Spec => []MovesArePermitted
<1>1. EngineInv => MovesArePermitted
  BY DEF EngineInv
<1> QED
  BY <1>1, EngineCorrect, PTL

(* The retry budget is exact.                                              *)
THEOREM BudgetKept == Spec => []BudgetExact
<1>1. EngineInv => BudgetExact
  BY DEF EngineInv
<1> QED
  BY <1>1, EngineCorrect, PTL

-----------------------------------------------------------------------------
(* The steps that neither send nor settle stutter in the contract.         *)
LEMMA StutteringStep ==
    ASSUME Start \/ ErrorRetries \/ ResponseRetried \/ SleepDone \/ Environment
              \/ Over \/ UNCHANGED vars
    PROVE  UNCHANGED Contract!contractVars
<1>1. UNCHANGED <<call, wire, result>>
  BY DEF Start, ErrorRetries, ResponseRetried, SleepDone, Environment, CallerCancels,
         TimerFires, DoReturns, Drained, Over, vars, engine, history
<1> QED
  BY <1>1 DEF Contract!contractVars, Contract!terms

(* A return settles the contract; an answer surfaces only after a request. *)
LEMMA SettlingStep ==
    ASSUME EngineInv, RequestError \/ Abort \/ ErrorAborts \/ ErrorGivesUp \/ ResponseReturned
    PROVE  Contract!Settle
<1>1. /\ pc \in {"top", "sleep", "answered"} /\ UNCHANGED <<call, wire>>
      /\ \/ result' \in {"requestError", "contextError"}
         \/ pc = "answered" /\ result' \in {"response", "transportError"}
  BY DEF RequestError, Abort, ErrorAborts, ErrorGivesUp, ResponseReturned, ErrorAnswer,
         ResponseAnswer, history
<1>2. result = "none"
  BY <1>1 DEF EngineInv, Counted
<1>3. pc = "answered" => wire # << >>
  BY BoundsAssumption DEF EngineInv, Counted, TypeOK
<1> QED
  BY <1>1, <1>2, <1>3 DEF Contract!Settle, Contract!terms, Contract!Surfaced, Contract!Abandoned

(* A request is the first, or a repeat the contract allows.                *)
LEMMA SendingStep ==
    ASSUME EngineInv, EngineInv', Send
    PROVE  Contract!FirstRequest \/ Contract!Repeat
<1> DEFINE n == Len(wire)
           new == [host |-> baseIndex, key |-> WireKey]
<1>1. /\ wire \in Seq([host : Nat, key : Nat]) /\ new \in [host : Nat, key : Nat]
      /\ wire' = Append(wire, new) /\ pc = "top" /\ pc' = "inflight"
      /\ UNCHANGED <<call, key, attempt, result>>
  BY CallFacts, BoundsAssumption DEF EngineInv, TypeOK, WireTyped, Send, WireKey, NoKey
<1>2. result = "none" /\ n = attempt /\ n \in Nat /\ n <= MaxRetries
  BY <1>1, BoundsAssumption DEF EngineInv, Counted, TypeOK
<1>3. CASE n = 0
  <2>1. wire = << >> /\ wire' = <<new>>
    BY <1>1, <1>3
  <2>2. baseIndex = 0
    BY <2>1 DEF EngineInv, HostKnown
  <2> QED
    BY <1>1, <1>2, <2>1, <2>2 DEF Contract!FirstRequest, Contract!terms
<1>4. CASE n > 0
  <2>1. 1 \in DOMAIN wire /\ wire # << >> /\ n \in 1..((MaxRetries + 1) - 1)
    BY <1>1, <1>2, <1>4, BoundsAssumption
  <2>2. wire[1].key = WireKey /\ replaySafe /\ (credentialFree => key = NoKey)
    BY <1>1, <2>1 DEF EngineInv, KeyHeld, LastAnswerKnown, BetweenAttempts
  <2>3. call.method \in SafeMethods \/ wire[1].key # 0
    BY <2>2 DEF replaySafe, requestReplaySafe, WireKey, NoKey
  <2>4. /\ baseIndex \in {Contract!LastHost, Contract!LastHost + 1}
        /\ baseIndex # Contract!LastHost => call.failover /\ baseIndex < call.candidates
    BY <1>1, <2>1, CallFacts
    DEF EngineInv, HostKnown, BetweenAttempts, TypeOK, Contract!LastHost
  <2>5. wire' = Append(wire, [host |-> baseIndex, key |-> wire[1].key])
    BY <1>1, <2>2
  <2>6. \E host \in {Contract!LastHost, Contract!LastHost + 1} :
           /\ host # Contract!LastHost => call.failover /\ host < call.candidates
           /\ wire' = Append(wire, [host |-> host, key |-> wire[1].key])
    BY <2>4, <2>5, Zenon
  <2>7. UNCHANGED <<Contract!terms, result>>
    BY <1>1 DEF Contract!terms
  <2>8. result = "none" /\ Len(wire) \in 1..((MaxRetries + 1) - 1)
    BY <1>2, <2>1
  <2>9. Contract!Repeat
    BY <2>3, <2>6, <2>7, <2>8 DEF Contract!Repeat
  <2> QED
    BY <2>9
<1> QED
  BY <1>2, <1>3, <1>4

(* The transport engine implements the replay contract, for every retry    *)
(* budget, number of candidates and set of calls: repeats carry the first  *)
(* request's key, are safe, stay within the budget and the host order, and *)
(* nothing is sent once the call has settled.                              *)
THEOREM ContractImplemented == Spec => ImplementsContract
<1>1. Init => Contract!ContractInit
  BY DEF Init, Contract!ContractInit
<1>2. EngineInv /\ EngineInv' /\ [Next]_vars => [Contract!ContractNext]_(Contract!contractVars)
  <2> SUFFICES ASSUME EngineInv, EngineInv', [Next]_vars
               PROVE  Contract!ContractNext \/ UNCHANGED Contract!contractVars
    OBVIOUS
  <2>1. CASE Send
    BY <2>1, SendingStep DEF Contract!ContractNext
  <2>2. CASE RequestError \/ Abort \/ ErrorAborts \/ ErrorGivesUp \/ ResponseReturned
    BY <2>2, SettlingStep DEF Contract!ContractNext
  <2>3. CASE Start \/ ErrorRetries \/ ResponseRetried \/ SleepDone \/ Environment
                \/ Over \/ UNCHANGED vars
    BY <2>3, StutteringStep
  <2> QED
    BY <2>1, <2>2, <2>3 DEF Next, Loop
<1> QED
  BY <1>1, <1>2, EngineCorrect, PTL DEF Spec, ImplementsContract, Contract!ContractSpec
=============================================================================
