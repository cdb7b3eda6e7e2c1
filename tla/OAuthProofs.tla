----------------------------- MODULE OAuthProofs -----------------------------
(***************************************************************************)
(* Proofs about OAuthLoopback, for any set of requests and whatever they   *)
(* ask.  LoopbackInv is inductive: the one result that resultOnce lets     *)
(* through is admissible for this flow wherever it is - in the channel, in *)
(* Wait or behind the key - and a Wait that has returned has closed.       *)
(***************************************************************************)
EXTENDS OAuthLoopback, TLAPS

-----------------------------------------------------------------------------
(* What a callback delivers is a denial or a code this flow may use.       *)
LEMMA OutcomeAdmissible ==
    ASSUME expectedState \in {"", MyState}, NEW q \in Query \cup {NoQuery}
    PROVE  /\ outcome(q) \in {Denied, Accepted("mine"), Accepted("other")}
           /\ Admissible(outcome(q))
<1>1. q.code \in {"none", "mine", "other"} /\ (q.code = "other" => q.state # "state")
  <2>1. CASE q \in Query
    BY <2>1 DEF Query, NoCode, MyState
  <2>2. CASE q = NoQuery
    BY <2>2 DEF NoQuery, NoCode
  <2> QED
    BY <2>1, <2>2
<1>2. CASE outcome(q) = Denied
  BY <1>2 DEF Admissible
<1>3. CASE outcome(q) # Denied
  <2>1. /\ outcome(q) = Accepted(q.code) /\ q.code # "none"
        /\ expectedState = "" \/ q.state = expectedState
    BY <1>3 DEF outcome, NoCode
  <2>2. q.code = "mine" \/ (q.code = "other" /\ expectedState = "")
    BY <1>1, <2>1 DEF MyState
  <2>3. Accepted(q.code).kind = "code" /\ Accepted(q.code).code = q.code
    BY DEF Accepted
  <2> QED
    BY <2>1, <2>2, <2>3 DEF Admissible
<1> QED
  BY <1>2, <1>3

(* What the steps that touch neither the result nor the channel leave.     *)
LEMMA ResultFramed ==
    ASSUME LoopbackInv, UNCHANGED <<expectedState, pkce, slot, delivered, result, key>>,
           closing' # "no" => ~listening',
           wait' = "returned" => closing' = "done",
           wait' \in {"no", "waiting"} => wait \in {"no", "waiting"}
    PROVE  OneResult'
<1>1. \A o : Admissible(o)' <=> Admissible(o)
  BY DEF Admissible
<1>2. \A c : exchanged(c)' = exchanged(c)
  BY DEF exchanged
<1> QED
  BY <1>1, <1>2 DEF LoopbackInv, OneResult

(* deliver leaves the slot admissible, and nothing new after the first.    *)
LEMMA DeliverKeepsOne ==
    ASSUME LoopbackInv, expectedState' = expectedState,
           NEW o \in {Denied, Accepted("mine"), Accepted("other")}, Admissible(o), deliver(o)
    PROVE  /\ slot' = << >> \/ \E p \in {Denied, Accepted("mine"), Accepted("other")} :
                                  slot' = << p >> /\ Admissible(p)'
           /\ slot' # << >> => delivered'
           /\ delivered' \in BOOLEAN
           /\ delivered => delivered' /\ slot' = slot
<1>1. CASE delivered
  BY <1>1 DEF deliver, LoopbackInv, TypeOK, OneResult, Admissible, Denied, Accepted
<1>2. CASE ~delivered
  <2>1. slot = << >>
    BY <1>2 DEF LoopbackInv, OneResult
  <2>2. slot' = << o >> /\ delivered' = TRUE
    BY <1>2, <2>1 DEF deliver
  <2>3. Admissible(o)'
    BY DEF Admissible, Denied
  <2> QED
    BY <1>2, <2>2, <2>3
<1> QED
  BY <1>1, <1>2

(* LoopbackInv is inductive.                                               *)
THEOREM LoopbackCorrect == Spec => []LoopbackInv
<1>1. Init => LoopbackInv
  <2> SUFFICES ASSUME Init PROVE TypeOK /\ OneResult /\ closing # "done"
    BY DEF LoopbackInv
  <2>1. TypeOK
    BY DEF Init, TypeOK
  <2>2. NoResult.kind = "none"
    BY DEF NoResult
  <2>3. OneResult
    BY <2>2 DEF Init, OneResult
  <2> QED
    BY <2>1, <2>3 DEF Init
<1>2. LoopbackInv /\ [Next]_vars => LoopbackInv'
  <2> SUFFICES ASSUME LoopbackInv, [Next]_vars
               PROVE  LoopbackInv'
    OBVIOUS
  <2>0. (closing = "done" => Stopped)'
    <3>1. CASE CloseEnds
      <4>1. ~listening' /\ handler' = [r \in Requests |-> IF handler[r] = "connected" THEN "done"
                                                         ELSE handler[r]]
        BY <3>1 DEF CloseEnds, LoopbackInv, OneResult
      <4> QED
        BY <4>1 DEF Stopped
    <3>2. CASE \E r \in Requests : Connects(r)
      BY <3>2 DEF Connects, server, LoopbackInv, OneResult
    <3>3. CASE \E r \in Requests : Disconnects(r) \/ Arrives(r) \/ WritesPage(r) \/ Delivers(r)
      BY <3>3 DEF Disconnects, Arrives, WritesPage, Delivers, server, LoopbackInv, TypeOK, Stopped
    <3>4. ASSUME UNCHANGED handler, closing' = "done" => closing = "done",
                 ~listening => ~listening'
          PROVE  (closing = "done" => Stopped)'
      BY <3>4 DEF LoopbackInv, Stopped
    <3> QED
      BY <3>1, <3>2, <3>3, <3>4
      DEF Next, Waiter, Closer, ServeFails, WaitStarts, WaitTakesResult, WaitGivesUp, WaitReturns,
          ContextEnds, CloseStarts, GraceEnds, CallerCloses, Exchange, requests, server, vars
  <2>1. CASE UNCHANGED vars
    BY <2>0, <2>1 DEF vars, requests, server, LoopbackInv, TypeOK, OneResult, Admissible, exchanged
  <2>2. ASSUME NEW r \in Requests, Connects(r) \/ Disconnects(r) \/ Arrives(r)
        PROVE  LoopbackInv'
    <3>1. TypeOK'
      BY <2>2, QueriesAssumption DEF Connects, Disconnects, Arrives, server, LoopbackInv, TypeOK
    <3>2. OneResult'
      BY <2>2, ResultFramed
      DEF Connects, Disconnects, Arrives, server, LoopbackInv, OneResult
    <3> QED
      BY <2>0, <3>1, <3>2 DEF LoopbackInv
  <2>3. ASSUME NEW r \in Requests, WritesPage(r)
        PROVE  LoopbackInv'
    <3>1. TypeOK'
      BY <2>3 DEF WritesPage, server, LoopbackInv, TypeOK
    <3>2. OneResult'
      BY <2>3, ResultFramed DEF WritesPage, server, LoopbackInv, OneResult
    <3> QED
      BY <2>0, <3>1, <3>2 DEF LoopbackInv
  <2>4. ASSUME NEW r \in Requests, Delivers(r)
        PROVE  LoopbackInv'
    <3>1. query[r] \in Query \cup {NoQuery} /\ expectedState \in {"", MyState}
      BY <2>4 DEF LoopbackInv, TypeOK
    <3>2. /\ outcome(query[r]) \in {Denied, Accepted("mine"), Accepted("other")}
          /\ Admissible(outcome(query[r]))
      BY <3>1, OutcomeAdmissible
    <3>3. deliver(outcome(query[r])) /\ expectedState' = expectedState
      BY <2>4 DEF Delivers
    <3>4. /\ slot' = << >> \/ \E p \in {Denied, Accepted("mine"), Accepted("other")} :
                                 slot' = << p >> /\ Admissible(p)'
          /\ slot' # << >> => delivered'
          /\ delivered' \in BOOLEAN
          /\ delivered => delivered' /\ slot' = slot
      BY <3>2, <3>3, DeliverKeepsOne
    <3>5. TypeOK'
      BY <2>4, <3>4 DEF Delivers, LoopbackInv, TypeOK
    <3>6. OneResult'
      BY <2>4, <3>4 DEF Delivers, LoopbackInv, OneResult, Admissible, exchanged
    <3> QED
      BY <2>0, <3>5, <3>6 DEF LoopbackInv
  <2>5. CASE ServeFails
    <3>1. /\ Denied \in {Denied, Accepted("mine"), Accepted("other")}
          /\ Admissible(Denied) /\ deliver(Denied) /\ expectedState' = expectedState
      BY <2>5 DEF ServeFails, Admissible
    <3>2. /\ slot' = << >> \/ \E p \in {Denied, Accepted("mine"), Accepted("other")} :
                                 slot' = << p >> /\ Admissible(p)'
          /\ slot' # << >> => delivered'
          /\ delivered' \in BOOLEAN
          /\ delivered => delivered' /\ slot' = slot
      BY <3>1, DeliverKeepsOne
    <3>3. TypeOK'
      BY <2>5, <3>2 DEF ServeFails, requests, LoopbackInv, TypeOK
    <3>4. OneResult'
      BY <2>5, <3>2 DEF ServeFails, requests, LoopbackInv, OneResult, Admissible, exchanged
    <3> QED
      BY <2>0, <3>3, <3>4 DEF LoopbackInv
  <2>6. CASE WaitTakesResult
    <3>1. PICK o \in {Denied, Accepted("mine"), Accepted("other")} : slot = << o >> /\ Admissible(o)
      BY <2>6 DEF WaitTakesResult, LoopbackInv, OneResult
    <3>2. result' = o /\ slot' = << >> /\ delivered
      BY <2>6, <3>1 DEF WaitTakesResult, LoopbackInv, OneResult
    <3>3. Admissible(o)'
      BY <2>6, <3>1 DEF WaitTakesResult, Admissible
    <3>4. key = "none"
      BY <2>6 DEF WaitTakesResult, LoopbackInv, OneResult, NoResult
    <3>5. TypeOK'
      BY <2>6 DEF WaitTakesResult, requests, LoopbackInv, TypeOK
    <3>6. OneResult'
      BY <2>6, <3>1, <3>2, <3>4, <3>3 DEF WaitTakesResult, requests, LoopbackInv, OneResult
    <3> QED
      BY <2>0, <3>5, <3>6 DEF LoopbackInv
  <2>7. CASE WaitGivesUp
    <3>1. TypeOK'
      BY <2>7 DEF WaitGivesUp, requests, server, LoopbackInv, TypeOK
    <3>2. /\ Denied.kind = "error" /\ NoResult.kind = "none"
          /\ Admissible(Denied)
      BY DEF Admissible, Denied, NoResult
    <3>3. key = "none"
      BY <2>7, <3>2 DEF WaitGivesUp, LoopbackInv, OneResult
    <3>4. \A o : Admissible(o)' <=> Admissible(o)
      BY <2>7 DEF WaitGivesUp, Admissible
    <3>5. OneResult'
      BY <2>7, <3>2, <3>4, <3>3 DEF WaitGivesUp, server, LoopbackInv, OneResult
    <3> QED
      BY <2>0, <3>1, <3>5 DEF LoopbackInv
  <2>8. CASE Exchange
    BY <2>0, <2>8 DEF Exchange, requests, server, LoopbackInv, TypeOK, OneResult, Admissible, exchanged
  <2>9. CASE WaitStarts \/ WaitReturns \/ ContextEnds
    <3>1. TypeOK'
      BY <2>9 DEF WaitStarts, WaitReturns, ContextEnds, requests, server, LoopbackInv, TypeOK
    <3>2. OneResult'
      BY <2>9, ResultFramed
      DEF WaitStarts, WaitReturns, ContextEnds, server, LoopbackInv, OneResult
    <3> QED
      BY <2>0, <3>1, <3>2 DEF LoopbackInv
  <2>10. CASE CloseStarts \/ CloseEnds \/ GraceEnds \/ CallerCloses
    <3>1. TypeOK'
      BY <2>10 DEF CloseStarts, CloseEnds, GraceEnds, CallerCloses, requests, LoopbackInv, TypeOK
    <3>2. /\ UNCHANGED <<expectedState, pkce, slot, delivered, result, key, wait>>
          /\ closing' # "no" => ~listening'
          /\ closing = "done" => closing' = "done"
      BY <2>10 DEF CloseStarts, CloseEnds, GraceEnds, CallerCloses, LoopbackInv, OneResult
    <3>3. OneResult'
      BY <3>2, ResultFramed DEF LoopbackInv, OneResult
    <3> QED
      BY <2>0, <3>1, <3>3 DEF LoopbackInv
  <2> QED
    BY <2>1, <2>2, <2>3, <2>4, <2>5, <2>6, <2>7, <2>8, <2>9, <2>10
    DEF Next, Waiter, Closer
<1> QED
  BY <1>1, <1>2, PTL DEF Spec

(* However callbacks race, the key of another authorization is stored only *)
(* by a caller that checks neither a state nor a PKCE challenge.           *)
THEOREM KeyIsOfThisFlow == Spec => []KeyOfThisFlow
<1>1. LoopbackInv => KeyOfThisFlow
  <2> SUFFICES ASSUME LoopbackInv, key = "other" PROVE expectedState = "" /\ ~pkce
    BY DEF KeyOfThisFlow
  <2>1. result.kind = "code" /\ key = exchanged(result.code) /\ pkce \in BOOLEAN
    BY DEF LoopbackInv, TypeOK, OneResult
  <2>2. result # NoResult /\ result # Denied
    BY <2>1 DEF NoResult, Denied
  <2>3. result.code = "other" /\ ~pkce
    BY <2>1 DEF exchanged
  <2> QED
    BY <2>2, <2>3 DEF LoopbackInv, OneResult, Admissible
<1> QED
  BY <1>1, LoopbackCorrect, PTL

(* Once Wait has returned, no request can reach a handler any more.        *)
THEOREM WaitLeavesItClosed == Spec => []ReturnedIsClosed
<1>1. LoopbackInv => ReturnedIsClosed
  BY DEF LoopbackInv, OneResult, ReturnedIsClosed, Stopped
<1> QED
  BY <1>1, LoopbackCorrect, PTL
=============================================================================
