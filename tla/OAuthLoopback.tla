--------------------------- MODULE OAuthLoopback ---------------------------
(***************************************************************************)
(* Signing in through the browser (oauth.go, oauth_loopback.go): the       *)
(* authorization is created with a PKCE pair and a state, a one-shot       *)
(* listener takes the callback, Wait returns its code and the code is      *)
(* exchanged for a key.  Handlers are goroutines of the HTTP server; Wait, *)
(* Close and the server run concurrently with them.                        *)
(*                                                                         *)
(* Codes: "mine" was issued for this flow's challenge, "other" for another *)
(* one.  Only a callback of this flow knows this flow's state.             *)
(***************************************************************************)
EXTENDS Naturals, Sequences

CONSTANTS
    Requests,   \* the HTTP requests that may reach the listener
    Queries     \* what they may ask, a subset of Query

NoCode  == "none"
MyState == "state"

Query ==
    { q \in [method : {"GET", "POST"}, error : BOOLEAN, code : {NoCode, "mine", "other"},
             state : {"", MyState, "unknown"}] :
        (q.code = "other" => q.state # MyState) }

ASSUME QueriesAssumption == Queries \subseteq Query

NoQuery == [method |-> "none", error |-> FALSE, code |-> NoCode, state |-> ""]

VARIABLES
    expectedState,  \* what the loopback checks; "" checks nothing
    pkce,           \* the authorization carried a code challenge
    query,          \* request -> what it asks
    handler,        \* request -> none, connected, handling, written, done
    listening,      \* the listener accepts
    delivered,      \* resultOnce has run
    slot,           \* the channel l.result, capacity 1
    closing,        \* closeOnce: no, draining, done
    closer,         \* a Close of the caller's own: no, called, returned
    graceOver,      \* the 2 s that Shutdown waits for active handlers
    ctxDone,        \* the context of Wait has ended
    wait,           \* Wait: no, waiting, closing, returned
    result,         \* what Wait returns
    key             \* the key of the exchange: none, refused, mine, other

requests == <<query, handler>>
server == <<listening, delivered, slot, closing, closer, graceOver>>
vars == <<expectedState, pkce, requests, server, ctxDone, wait, result, key>>

NoResult == [kind |-> "none", code |-> NoCode]
Denied   == [kind |-> "error", code |-> NoCode]
Accepted(code) == [kind |-> "code", code |-> code]

(* CreateOAuthAuthorization: a PKCE pair always, a state always; a caller  *)
(* that builds its own URL may leave either out.                           *)
Init ==
    /\ expectedState \in {"", MyState}
    /\ pkce \in BOOLEAN
    /\ query = [r \in Requests |-> NoQuery]
    /\ handler = [r \in Requests |-> "none"]
    /\ listening = TRUE /\ delivered = FALSE /\ slot = << >>
    /\ closing = "no" /\ closer = "no" /\ graceOver = FALSE
    /\ ctxDone = FALSE
    /\ wait = "no" /\ result = NoResult
    /\ key = "none"

-----------------------------------------------------------------------------
(* handleCallback.                                                         *)

(* A mutant: the state is compared only when the callback has one.         *)
laxOutcome(q) ==
    IF q.error \/ q.code = NoCode \/ (q.state # "" /\ expectedState # "" /\ q.state # expectedState)
    THEN Denied ELSE Accepted(q.code)

(* What a GET of the callback path delivers.                               *)
outcome(q) ==
    IF q.error \/ q.code = NoCode \/ (expectedState # "" /\ q.state # expectedState)
    THEN Denied ELSE Accepted(q.code)

(* The server accepts the connection a request will come on.  The request  *)
(* may come late, when the listener is closed and Shutdown drains, or not  *)
(* at all: the browser gives up, or Shutdown finds the connection idle.    *)
Connects(r) ==
    /\ listening /\ handler[r] = "none"
    /\ handler' = [handler EXCEPT ![r] = "connected"]
    /\ UNCHANGED <<expectedState, pkce, query, server, ctxDone, wait, result, key>>

Disconnects(r) ==
    /\ handler[r] = "connected"
    /\ handler' = [handler EXCEPT ![r] = "done"]
    /\ UNCHANGED <<expectedState, pkce, query, server, ctxDone, wait, result, key>>

Arrives(r) ==
    /\ handler[r] = "connected"
    /\ \E q \in Queries : query' = [query EXCEPT ![r] = q]
    /\ handler' = [handler EXCEPT ![r] = "handling"]
    /\ UNCHANGED <<expectedState, pkce, server, ctxDone, wait, result, key>>

(* The page is written: to a slow browser this may take for ever.  Only    *)
(* GET goes on to deliver.                                                 *)
WritesPage(r) ==
    /\ handler[r] = "handling"
    /\ handler' = [handler EXCEPT ![r] = IF query[r].method = "GET" THEN "written" ELSE "done"]
    /\ UNCHANGED <<expectedState, pkce, query, server, ctxDone, wait, result, key>>

(* A mutant: every callback sends its result.                              *)
Sends(o) == Len(slot) < 1 /\ slot' = Append(slot, o) /\ delivered' = TRUE

(* deliver: resultOnce lets the first one send; a full channel blocks.     *)
deliver(o) ==
    IF delivered THEN UNCHANGED <<slot, delivered>>
    ELSE Len(slot) < 1 /\ slot' = Append(slot, o) /\ delivered' = TRUE

Delivers(r) ==
    /\ handler[r] = "written"
    /\ deliver(outcome(query[r]))
    /\ handler' = [handler EXCEPT ![r] = "done"]
    /\ UNCHANGED <<expectedState, pkce, query, listening, closing, closer, graceOver,
                   ctxDone, wait, result, key>>

(* Serve fails by itself; after a Close it returns ErrServerClosed, which  *)
(* is not delivered.                                                       *)
ServeFails ==
    /\ listening
    /\ listening' = FALSE
    /\ deliver(Denied)
    /\ UNCHANGED <<expectedState, pkce, requests, closing, closer, graceOver, ctxDone,
                   wait, result, key>>

-----------------------------------------------------------------------------
(* Wait.                                                                   *)

WaitStarts ==
    /\ wait = "no"
    /\ wait' = "waiting"
    /\ UNCHANGED <<expectedState, pkce, requests, server, ctxDone, result, key>>

WaitTakesResult ==
    /\ wait = "waiting" /\ slot # << >>
    /\ wait' = "closing"
    /\ result' = Head(slot)
    /\ slot' = Tail(slot)
    /\ UNCHANGED <<expectedState, pkce, requests, listening, delivered, closing, closer,
                   graceOver, ctxDone, key>>

WaitGivesUp ==
    /\ wait = "waiting" /\ ctxDone
    /\ wait' = "closing"
    /\ result' = Denied
    /\ UNCHANGED <<expectedState, pkce, requests, server, ctxDone, key>>

(* A mutant: the deferred Close is not waited for.                         *)
WaitReturnsEarly ==
    /\ wait = "closing"
    /\ wait' = "returned"
    /\ UNCHANGED <<expectedState, pkce, requests, server, ctxDone, result, key>>

WaitReturns ==
    /\ wait = "closing" /\ closing = "done"
    /\ wait' = "returned"
    /\ UNCHANGED <<expectedState, pkce, requests, server, ctxDone, result, key>>

ContextEnds ==
    /\ ~ctxDone
    /\ ctxDone' = TRUE
    /\ UNCHANGED <<expectedState, pkce, requests, server, wait, result, key>>

-----------------------------------------------------------------------------
(* Close: by the deferred call of Wait, or by the caller at any time.  The *)
(* first runs, others wait for it.                                         *)

CloseStarts ==
    /\ closing = "no"
    /\ wait = "closing" \/ closer = "called"
    /\ closing' = "draining"
    /\ listening' = FALSE
    /\ UNCHANGED <<expectedState, pkce, requests, delivered, slot, closer, graceOver,
                   ctxDone, wait, result, key>>

Quiet == \A r \in Requests : handler[r] \in {"none", "done"}

(* A mutant: Shutdown waits without a limit.                               *)
DrainsForEver == Quiet

(* Shutdown returns when no connection is in use, or its context has       *)
(* ended; server.Close then cuts those that still are, and a handler that  *)
(* runs is left to run.                                                    *)
ShutdownReturns == Quiet \/ graceOver

CloseEnds ==
    /\ closing = "draining" /\ ShutdownReturns
    /\ closing' = "done"
    /\ handler' = [r \in Requests |-> IF handler[r] = "connected" THEN "done" ELSE handler[r]]
    /\ UNCHANGED <<expectedState, pkce, query, listening, delivered, slot, closer,
                   graceOver, ctxDone, wait, result, key>>

GraceEnds ==
    /\ closing = "draining" /\ ~graceOver
    /\ graceOver' = TRUE
    /\ UNCHANGED <<expectedState, pkce, requests, listening, delivered, slot, closing,
                   closer, ctxDone, wait, result, key>>

CallerCloses ==
    /\ \/ closer = "no" /\ closer' = "called"
       \/ closer = "called" /\ closing = "done" /\ closer' = "returned"
    /\ UNCHANGED <<expectedState, pkce, requests, listening, delivered, slot, closing,
                   graceOver, ctxDone, wait, result, key>>

-----------------------------------------------------------------------------
(* ExchangeOAuthKey: the control plane gives the key of a code only to the *)
(* verifier of the code's challenge, when there was one.                   *)
exchanged(code) == IF code = "other" /\ pkce THEN "refused" ELSE code

Exchange ==
    /\ wait = "returned" /\ result.kind = "code" /\ key = "none"
    /\ key' = exchanged(result.code)
    /\ UNCHANGED <<expectedState, pkce, requests, server, ctxDone, wait, result>>

-----------------------------------------------------------------------------
Handlers == \E r \in Requests : Delivers(r)
Waiter == WaitTakesResult \/ WaitGivesUp \/ WaitReturns
Closer == CloseStarts \/ CloseEnds \/ GraceEnds

Next ==
    \/ \E r \in Requests : Connects(r) \/ Disconnects(r) \/ Arrives(r)
    \/ \E r \in Requests : WritesPage(r) \/ Delivers(r)
    \/ ServeFails \/ WaitStarts \/ Waiter \/ ContextEnds \/ Closer \/ CallerCloses \/ Exchange

Spec == Init /\ [][Next]_vars

(* Goroutines run and the 2 s pass; nothing makes a browser call, read its *)
(* page, or the context of Wait end.                                       *)
FairSpec ==
    /\ Spec
    /\ \A r \in Requests : WF_vars(Delivers(r))
    /\ WF_vars(Waiter) /\ WF_vars(Closer)

-----------------------------------------------------------------------------
(* The loopback's variables have their types, and the channel never holds  *)
(* more than the one result of resultOnce, which no other replaces.        *)
TypeOK ==
    /\ expectedState \in {"", MyState} /\ pkce \in BOOLEAN
    /\ query \in [Requests -> Query \cup {NoQuery}]
    /\ handler \in [Requests -> {"none", "connected", "handling", "written", "done"}]
    /\ listening \in BOOLEAN /\ delivered \in BOOLEAN
    /\ closing \in {"no", "draining", "done"}
    /\ wait \in {"no", "waiting", "closing", "returned"}

(* A result in the slot, or returned by Wait, is one this flow may use.    *)
Admissible(o) ==
    \/ o = Denied
    \/ /\ o.kind = "code" /\ o.code \in {"mine", "other"}
       /\ o.code = "other" => expectedState = ""

OneResult ==
    /\ slot = << >> \/ \E o \in {Denied, Accepted("mine"), Accepted("other")} :
                          slot = << o >> /\ Admissible(o)
    /\ slot # << >> => delivered
    /\ result # NoResult => Admissible(result)
    /\ wait \in {"no", "waiting"} => result = NoResult
    /\ result.kind = "code" => delivered /\ slot = << >>
    /\ closing # "no" => ~listening
    /\ wait = "returned" => closing = "done"
    /\ key # "none" => result.kind = "code" /\ key = exchanged(result.code)

(* A server that has stopped has no connection that a request may come on. *)
Stopped == ~listening /\ \A r \in Requests : handler[r] # "connected"

LoopbackInv == TypeOK /\ OneResult /\ (closing = "done" => Stopped)

(* Anti-CSRF: however stray, late and repeated callbacks race the real     *)
(* one, a key is of another authorization only if the caller checks        *)
(* neither a state nor a PKCE challenge.                                   *)
KeyOfThisFlow == key = "other" => expectedState = "" /\ ~pkce

(* Once Wait has returned, no request can reach a handler any more: the    *)
(* listener is closed, and so is every connection it had accepted on which *)
(* no request has come.                                                    *)
ReturnedIsClosed == wait = "returned" => Stopped

(* A handler never blocks in deliver, whether Wait is there to receive, is *)
(* gone, or was never called.                                              *)
HandlersFinish == \A r \in Requests : handler[r] = "written" ~> handler[r] = "done"

(* Wait returns once it has a result or its context has ended, however     *)
(* long a browser takes to read its page.                                  *)
WaitEnds == (wait = "waiting" /\ (ctxDone \/ slot # << >>)) ~> (wait = "returned")
=============================================================================
