------------------------------ MODULE Session ------------------------------
(***************************************************************************)
(* A pinned gateway session (session.go): VerifyGatewaySession dials,      *)
(* fetches the attestation on that connection and verifies it against the  *)
(* connection's own exporter; FetchAttestationAgain repeats the fetch.     *)
(*                                                                         *)
(* Each fetch is an exchange: one request, one response read in two parts  *)
(* (head, then body) through the retained reader, under a deadline of the  *)
(* connection that a watcher goroutine per exchange moves to "past" when   *)
(* the exchange's context ends.  A watcher outlives its exchange: until it *)
(* is scheduled it may find its context ended and `done` closed, and its   *)
(* select takes either.                                                    *)
(*                                                                         *)
(* pc: idle, dial, write, head, body, verify - where the call is blocked.  *)
(***************************************************************************)
EXTENDS Attestation

CONSTANTS
    MaxExchanges,   \* bound: attestation fetches on one connection
    Documents(_)    \* the attestation documents a peer can present for a nonce

ASSUME ExchangesAssumption == MaxExchanges \in Nat \ {0}

VARIABLES
    base,       \* BaseURL: scheme, userinfo, host
    peer,       \* what terminates the TLS connection: the enclave or a relay
    derived,    \* the caller's context has no deadline: requestCtx is our own
    pc,
    n,          \* exchanges begun; the first belongs to VerifyGatewaySession
    ended,      \* exchange -> its context has ended
    done,       \* exchange -> its done channel is closed
    watch,      \* exchange -> its watcher goroutine: none, waiting, gone
    conn,       \* none, open, closed
    deadline,   \* of the connection: none, future, past
    writable,   \* no TLS write has timed out
    peerClosed, \* the peer has closed the connection
    requests,   \* requests the peer has not answered
    owed,       \* the body that follows a head already sent
    stream,     \* parts on their way to the retained reader
    headRead,   \* the head the running exchange has read
    session,    \* none, granted, refused
    evidence,   \* the document of exchange 1
    fetched,    \* history: documents returned, with the request they answer
    abandoned   \* history: exchanges that failed with their request sent

channel == <<conn, deadline, writable, peerClosed, requests, owed, stream>>
watchers == <<ended, done, watch>>
vars == <<base, peer, derived, pc, n, watchers, channel, headRead, session, evidence,
          fetched, abandoned>>

Exchanges == 1..MaxExchanges
NoPart == [kind |-> "none"]
NoDocument == [kind |-> "none"]

(* This connection's values; a relay's own connection to the enclave has   *)
(* another exporter.  Nonces are random: the one of this call is "nonce".  *)
MyExporter == Hex("exporter")
MyCert     == Hex("cert")
MyNonce    == Hex("nonce")

CONSTANTS Policy, JWKS
Now == 1

(* The enclave attests the nonce it is asked for and the exporter of the   *)
(* connection it is asked on, so what it issues on a relay's connection    *)
(* never holds this call's nonce and this connection's exporter together.  *)
ASSUME RelayAssumption ==
    \A d \in Documents("relay") :
        verifiedAttestationJWTClaims(d, JWKS) =>
            ~(MyNonce \in nonceList(d.claims) /\ MyExporter \in nonceList(d.claims))

-----------------------------------------------------------------------------
Bases == [scheme : {"https", "http"}, userinfo : BOOLEAN, host : {"", "gateway"}]

(* parseGatewaySessionTarget.                                              *)
validTarget(b) == b.scheme = "https" /\ ~b.userinfo /\ b.host # ""

Init ==
    /\ base \in Bases
    /\ peer \in {"enclave", "relay"}
    /\ derived \in BOOLEAN
    /\ pc = "idle" /\ n = 0
    /\ ended = [i \in Exchanges |-> FALSE]
    /\ done = [i \in Exchanges |-> FALSE]
    /\ watch = [i \in Exchanges |-> "none"]
    /\ conn = "none" /\ deadline = "none"
    /\ writable = TRUE /\ peerClosed = FALSE
    /\ requests = << >> /\ owed = NoPart /\ stream = << >>
    /\ headRead = NoPart
    /\ session = "none" /\ evidence = NoDocument
    /\ fetched = << >> /\ abandoned = {}

(* contextWithDefaultTimeout: the deferred cancel ends requestCtx only if  *)
(* it was derived.                                                         *)
VerifyReturns(outcome) ==
    /\ pc' = "idle"
    /\ session' = outcome
    /\ ended' = IF derived THEN [ended EXCEPT ![1] = TRUE] ELSE ended

(* VerifyGatewaySession is called.                                         *)
VerifyStarts ==
    /\ session = "none" /\ pc = "idle"
    /\ IF validTarget(base)
       THEN pc' = "dial" /\ UNCHANGED <<session, ended>>
       ELSE VerifyReturns("refused")
    /\ UNCHANGED <<base, peer, derived, n, done, watch, channel, headRead, evidence,
                   fetched, abandoned>>

(* A mutant: only the watcher guards the exchange.                         *)
NoDeadline(i) ==
    /\ pc' = "write"
    /\ n' = i
    /\ deadline' = deadline
    /\ watch' = [watch EXCEPT ![i] = "waiting"]

(* setConnContextDeadline, after the check that the context is alive.      *)
ExchangeStarts(i) ==
    /\ pc' = "write"
    /\ n' = i
    /\ deadline' = "future"
    /\ watch' = [watch EXCEPT ![i] = "waiting"]

(* The dial fails, or its context has ended.                               *)
DialFails ==
    /\ pc = "dial"
    /\ VerifyReturns("refused")
    /\ UNCHANGED <<base, peer, derived, n, done, watch, channel, headRead, evidence,
                   fetched, abandoned>>

(* The connection is there but of no use: no certificate, no exporter, no  *)
(* nonce, or a context that has ended meanwhile.                           *)
DialUnusable ==
    /\ pc = "dial"
    /\ conn' = "closed"
    /\ VerifyReturns("refused")
    /\ UNCHANGED <<base, peer, derived, n, done, watch, deadline, writable, peerClosed,
                   requests, owed, stream, headRead, evidence, fetched, abandoned>>

Connected ==
    /\ pc = "dial" /\ ~ended[1]
    /\ conn' = "open"
    /\ ExchangeStarts(1)
    /\ UNCHANGED <<base, peer, derived, ended, done, writable, peerClosed, requests, owed,
                   stream, headRead, session, evidence, fetched, abandoned>>

(* FetchAttestationAgain on a granted session; on a context that has ended *)
(* it returns at once and leaves no trace.                                 *)
FetchAttestationAgain ==
    /\ session = "granted" /\ pc = "idle" /\ n < MaxExchanges
    /\ ~ended[n + 1]
    /\ ExchangeStarts(n + 1)
    /\ UNCHANGED <<base, peer, derived, ended, done, conn, writable, peerClosed, requests,
                   owed, stream, headRead, session, evidence, fetched, abandoned>>

-----------------------------------------------------------------------------
(* The end of fetchAttestationOnConn: clearDeadline runs in every case.    *)

(* A mutant: the deadline stays on the connection.                         *)
DeadlineLeft ==
    /\ done' = [done EXCEPT ![n] = TRUE]
    /\ deadline' = deadline

clearDeadline ==
    /\ done' = [done EXCEPT ![n] = TRUE]
    /\ deadline' = "none"

(* A mutant: a failed verification leaves the connection open.             *)
ConnAfterFailure(closes) == IF closes THEN "closed" ELSE conn

(* VerifyGatewaySession closes its connection on every failure; a later    *)
(* fetch only when the peer will not keep the connection alive.            *)
ConnAfter(closes) == IF closes \/ n = 1 THEN "closed" ELSE conn

FetchFails(closes) ==
    /\ clearDeadline
    /\ headRead' = NoPart
    /\ conn' = ConnAfter(closes)
    /\ IF n = 1 THEN VerifyReturns("refused") ELSE pc' = "idle" /\ UNCHANGED <<session, ended>>
    /\ UNCHANGED <<base, peer, derived, n, watch, peerClosed, requests, owed, evidence,
                   fetched>>

WriteFails ==
    /\ pc = "write"
    /\ deadline = "past" \/ conn = "closed" \/ ~writable \/ peerClosed
    /\ FetchFails(FALSE)
    /\ writable' = (writable /\ deadline # "past")
    /\ UNCHANGED <<stream, abandoned>>

(* A mutant: the request is written again after a short write.             *)
WriteTwice ==
    /\ pc = "write"
    /\ deadline # "past" /\ conn = "open" /\ writable
    /\ pc' = "head"
    /\ requests' = requests \o <<n, n>>
    /\ UNCHANGED <<base, peer, derived, n, watchers, conn, deadline, writable, peerClosed,
                   owed, stream, headRead, session, evidence, fetched, abandoned>>

Write ==
    /\ pc = "write"
    /\ deadline # "past" /\ conn = "open" /\ writable
    /\ pc' = "head"
    /\ requests' = Append(requests, n)
    /\ UNCHANGED <<base, peer, derived, n, watchers, conn, deadline, writable, peerClosed,
                   owed, stream, headRead, session, evidence, fetched, abandoned>>

(* A head that parses, with a usable length.                               *)
usable(part) == part.kind = "head" /\ part.framed

(* A head that has lost its first bytes is none.                           *)
Damaged(parts) ==
    IF parts # << >> /\ usable(Head(parts))
    THEN <<[Head(parts) EXCEPT !.framed = FALSE]>> \o Tail(parts) ELSE parts

(* What a read that fails leaves of the stream: all of it; a head without  *)
(* its first bytes; or not the partial line that was read for a head.      *)
Remains ==
    IF pc = "body" \/ stream = << >> THEN {stream}
    ELSE IF usable(Head(stream)) THEN {stream, Damaged(stream)} ELSE {stream, Tail(stream)}

(* readGatewaySessionHTTPResponse fails: deadline, closed connection.      *)
ReadFails ==
    /\ pc \in {"head", "body"}
    /\ deadline = "past" \/ conn = "closed" \/ (peerClosed /\ stream = << >>)
    /\ abandoned' = abandoned \cup {n}
    /\ stream' \in Remains
    /\ FetchFails(FALSE)
    /\ UNCHANGED writable

(* The next part is no head with a usable length: a malformed response, or *)
(* the rest of one an earlier exchange left.  The connection stays open,   *)
(* and what has not been read stays on the reader: after a bad status line *)
(* the lines that follow it, after a bad header what comes behind it.  A   *)
(* body that ends without a newline takes the next status line with it.    *)
HeadRefused ==
    /\ pc = "head" /\ stream # << >> /\ conn = "open"
    /\ ~usable(Head(stream))
    /\ \/ stream' \in {stream, Tail(stream)}
       \/ Head(stream).kind = "body" /\ stream' = Damaged(Tail(stream))
    /\ abandoned' = abandoned \cup {n}
    /\ FetchFails(FALSE)
    /\ UNCHANGED writable

HeadAccepted ==
    /\ pc = "head" /\ stream # << >> /\ conn = "open"
    /\ usable(Head(stream))
    /\ stream' = Tail(stream)
    /\ headRead' = Head(stream)
    /\ pc' = "body"
    /\ UNCHANGED <<base, peer, derived, n, watchers, conn, deadline, writable, peerClosed,
                   requests, owed, session, evidence, fetched, abandoned>>

BodyArrived == pc = "body" /\ stream # << >> /\ conn = "open"

(* requireGatewaySessionKeepAlive, then the status.                        *)
BodyRefused ==
    /\ BodyArrived
    /\ ~headRead.keepAlive \/ headRead.status # 200
    /\ stream' = Tail(stream)
    /\ FetchFails(~headRead.keepAlive)
    /\ UNCHANGED <<writable, abandoned>>

BodyAccepted ==
    /\ BodyArrived
    /\ headRead.keepAlive /\ headRead.status = 200
    /\ stream' = Tail(stream)
    /\ clearDeadline
    /\ headRead' = NoPart
    /\ fetched' = Append(fetched, [exchange |-> n, request |-> headRead.request])
    /\ pc' = IF n = 1 THEN "verify" ELSE "idle"
    /\ evidence' = IF n = 1 THEN Head(stream).document ELSE evidence
    /\ UNCHANGED <<base, peer, derived, n, ended, watch, conn, writable, peerClosed,
                   requests, owed, session, abandoned>>

-----------------------------------------------------------------------------
(* VerifyGatewayAttestation with this connection's nonce, certificate and  *)
(* exporter; it also fails if the JWKS cannot be fetched in time.          *)
Verified ==
    VerifyGatewayAttestation(evidence, Policy, JWKS, MyNonce, MyCert, MyExporter, Now)

VerifyAccepts ==
    /\ pc = "verify" /\ Verified
    /\ VerifyReturns("granted")
    /\ UNCHANGED <<base, peer, derived, n, done, watch, channel, headRead, evidence,
                   fetched, abandoned>>

(* A mutant: the deferred close misses the verification's failure.         *)
VerifyRefusesOpen ==
    /\ pc = "verify"
    /\ VerifyReturns("refused")
    /\ UNCHANGED <<base, peer, derived, n, done, watch, channel, headRead, evidence,
                   fetched, abandoned>>

VerifyRefuses ==
    /\ pc = "verify"
    /\ conn' = "closed"
    /\ VerifyReturns("refused")
    /\ UNCHANGED <<base, peer, derived, n, done, watch, deadline, writable, peerClosed,
                   requests, owed, stream, headRead, evidence, fetched, abandoned>>

-----------------------------------------------------------------------------
(* The environment.                                                        *)

(* The context of an exchange ends; a caller's later than its call too.    *)
ContextEnds(i) ==
    /\ ~ended[i]
    /\ ended' = [ended EXCEPT ![i] = TRUE]
    /\ UNCHANGED <<base, peer, derived, pc, n, done, watch, channel, headRead, session,
                   evidence, fetched, abandoned>>

DeadlinePasses ==
    /\ deadline = "future"
    /\ deadline' = "past"
    /\ UNCHANGED <<base, peer, derived, pc, n, watchers, conn, writable, peerClosed,
                   requests, owed, stream, headRead, session, evidence, fetched, abandoned>>

(* A watcher takes ctx.Done, or done, when it is ready and it is scheduled.*)
WatcherExpires(i) ==
    /\ watch[i] = "waiting" /\ ended[i]
    /\ watch' = [watch EXCEPT ![i] = "gone"]
    /\ deadline' = "past"
    /\ UNCHANGED <<base, peer, derived, pc, n, ended, done, conn, writable, peerClosed,
                   requests, owed, stream, headRead, session, evidence, fetched, abandoned>>

WatcherStops(i) ==
    /\ watch[i] = "waiting" /\ done[i]
    /\ watch' = [watch EXCEPT ![i] = "gone"]
    /\ UNCHANGED <<base, peer, derived, pc, n, ended, done, channel, headRead, session,
                   evidence, fetched, abandoned>>

(* The peer answers in order, a response in two parts.                     *)
PeerSendsHead ==
    /\ ~peerClosed /\ requests # << >> /\ owed = NoPart
    /\ \E status \in {200, 500}, keepAlive, framed \in BOOLEAN,
          d \in IF Head(requests) = 1 THEN Documents(peer) ELSE {NoDocument} :
          /\ stream' = Append(stream, [kind |-> "head", request |-> Head(requests),
                                       status |-> status, keepAlive |-> keepAlive,
                                       framed |-> framed])
          /\ owed' = [kind |-> "body", document |-> d]
    /\ requests' = Tail(requests)
    /\ UNCHANGED <<base, peer, derived, pc, n, watchers, conn, deadline, writable,
                   peerClosed, headRead, session, evidence, fetched, abandoned>>

PeerSendsBody ==
    /\ ~peerClosed /\ owed # NoPart
    /\ stream' = Append(stream, owed)
    /\ owed' = NoPart
    /\ UNCHANGED <<base, peer, derived, pc, n, watchers, conn, deadline, writable,
                   peerClosed, requests, headRead, session, evidence, fetched, abandoned>>

PeerCloses ==
    /\ conn = "open" /\ ~peerClosed
    /\ peerClosed' = TRUE
    /\ UNCHANGED <<base, peer, derived, pc, n, watchers, conn, deadline, writable, requests,
                   owed, stream, headRead, session, evidence, fetched, abandoned>>

(* The caller owns the connection of a granted session.                    *)
CallerCloses ==
    /\ session = "granted" /\ pc = "idle" /\ conn = "open"
    /\ conn' = "closed"
    /\ UNCHANGED <<base, peer, derived, pc, n, watchers, deadline, writable, peerClosed,
                   requests, owed, stream, headRead, session, evidence, fetched, abandoned>>

-----------------------------------------------------------------------------
Steps ==
    \/ DialFails \/ DialUnusable \/ Connected
    \/ Write \/ WriteFails \/ ReadFails \/ HeadRefused \/ HeadAccepted
    \/ BodyRefused \/ BodyAccepted \/ VerifyAccepts \/ VerifyRefuses

Next ==
    \/ VerifyStarts \/ FetchAttestationAgain \/ Steps
    \/ DeadlinePasses \/ PeerSendsHead \/ PeerSendsBody \/ PeerCloses \/ CallerCloses
    \/ \E i \in Exchanges : ContextEnds(i) \/ WatcherExpires(i) \/ WatcherStops(i)

Spec == Init /\ [][Next]_vars

(* A running call runs, a deadline passes; nothing makes the peer answer.  *)
FairSpec == Spec /\ WF_vars(Steps) /\ WF_vars(DeadlinePasses)

-----------------------------------------------------------------------------
(* The session's variables have their types.                               *)
TypeOK ==
    /\ peer \in {"enclave", "relay"} /\ derived \in BOOLEAN
    /\ pc \in {"idle", "dial", "write", "head", "body", "verify"}
    /\ n \in 0..MaxExchanges
    /\ ended \in [Exchanges -> BOOLEAN] /\ done \in [Exchanges -> BOOLEAN]
    /\ watch \in [Exchanges -> {"none", "waiting", "gone"}]
    /\ conn \in {"none", "open", "closed"}
    /\ deadline \in {"none", "future", "past"}
    /\ session \in {"none", "granted", "refused"}

(* VerifyGatewaySession leaves no connection behind: whatever fails - the  *)
(* dial, the fetch, the verification - a refusal has closed it, whenever   *)
(* contexts, deadlines and watchers strike.                                *)
RefusedLeavesNothingOpen == session = "refused" => conn # "open"

(* The relay closure of attestation.go: a session is granted only on a     *)
(* connection the enclave itself terminates, with a document issued for    *)
(* this call's nonce; replayed and relayed genuine documents are refused.  *)
GrantedByEnclave ==
    session = "granted" =>
        /\ peer = "enclave"
        /\ MyNonce \in nonceList(evidence.claims)
        /\ Policy.digests # {} => evidence.claims.digest \in Policy.digests

(* The pinned connection is handed over without a deadline: between calls  *)
(* it has none, unless the context of an exchange has ended (requestCtx of *)
(* VerifyGatewaySession included, which its own return may end).           *)
IdleWithoutDeadline ==
    session = "granted" /\ pc = "idle" /\ deadline # "none" =>
        deadline = "past" /\ \E i \in 1..n : ended[i] /\ watch[i] = "gone"

(* The retained reader keeps the stream in step: no response is returned   *)
(* twice or before its request, and a fetch returns the answer to its own  *)
(* request unless an earlier exchange failed with its request sent.        *)
FetchesInStep ==
    \A i \in DOMAIN fetched :
        /\ fetched[i].request <= fetched[i].exchange
        /\ i > 1 => fetched[i - 1].request < fetched[i].request
        /\ fetched[i].request = fetched[i].exchange
              \/ \E a \in abandoned : a < fetched[i].exchange

(* What each place of a call knows: who is calling, that the connection is *)
(* there, and that only an exchange, or a watcher of one that is over, has *)
(* put a deadline on it.                                                   *)
Exchanging == pc \in {"write", "head", "body"}

CallPlaced ==
    /\ pc = "dial" => n = 0 /\ session = "none" /\ conn = "none"
    /\ Exchanging => n > 0 /\ session = IF n = 1 THEN "none" ELSE "granted"
    /\ pc = "verify" => n = 1 /\ session = "none"
    /\ pc = "idle" /\ session = "none" => n = 0 /\ conn = "none"
    /\ session = "granted" => n > 0
    /\ session = "refused" => pc = "idle" /\ conn # "open"

DeadlinePlaced ==
    /\ \A i \in Exchanges : watch[i] # "none" => i <= n
    /\ ~Exchanging /\ deadline # "none" =>
          deadline = "past" /\ \E i \in 1..n : ended[i] /\ watch[i] = "gone"

(* The first exchange is alone on its connection: what it can read is one  *)
(* response to its own request, and what VerifyGatewaySession verifies is  *)
(* a document that the peer has sent.                                      *)
IsBody(part) == part.kind = "body" /\ part.document \in Documents(peer)
OneHead == Len(stream) = 1 /\ stream = <<stream[1]>> /\ stream[1].kind = "head"
OneBody == Len(stream) = 1 /\ stream = <<stream[1]>> /\ IsBody(stream[1])
WholeResponse ==
    /\ Len(stream) = 2 /\ stream = <<stream[1], stream[2]>>
    /\ stream[1].kind = "head" /\ IsBody(stream[2])

FirstExchange ==
    /\ n = 0 \/ (n = 1 /\ pc = "write") =>
          requests = << >> /\ owed = NoPart /\ stream = << >>
    /\ n = 1 /\ pc = "head" =>
          \/ requests = <<1>> /\ owed = NoPart /\ stream = << >>
          \/ requests = << >> /\ IsBody(owed) /\ OneHead
          \/ requests = << >> /\ owed = NoPart /\ WholeResponse
    /\ n = 1 /\ pc = "body" =>
          \/ requests = << >> /\ IsBody(owed) /\ stream = << >>
          \/ requests = << >> /\ owed = NoPart /\ OneBody
    /\ pc = "verify" => evidence \in Documents(peer)
    /\ session = "granted" => evidence \in Documents(peer) /\ Verified

(* The requests on their way, answered or not, are in order: those of the  *)
(* heads in the stream before those the peer has not answered, all of them *)
(* above `low` and none above `high`.                                      *)
Heads ==
    [kind : {"head"}, request : Nat, status : {200, 500}, keepAlive : BOOLEAN, framed : BOOLEAN]
Bodies == [kind : {"body"}, document : Documents(peer) \cup {NoDocument}]

OnTheWay(asked, parts, low, high) ==
    /\ low <= high
    /\ \A i \in DOMAIN asked : low < asked[i] /\ asked[i] <= high
    /\ \A i \in DOMAIN parts : parts[i].kind = "head" =>
          low < parts[i].request /\ parts[i].request <= high
    /\ \A i, j \in DOMAIN asked : i < j => asked[i] < asked[j]
    /\ \A i, j \in DOMAIN parts :
          i < j /\ parts[i].kind = "head" /\ parts[j].kind = "head" =>
             parts[i].request < parts[j].request
    /\ \A i \in DOMAIN parts, j \in DOMAIN asked :
          parts[i].kind = "head" => parts[i].request < asked[j]

(* The request whose answer was returned last.                             *)
Returned == IF fetched = << >> THEN 0 ELSE fetched[Len(fetched)].request

(* What was returned, or is being read, is below what is on its way; and   *)
(* as long as no exchange has failed with its request sent, nothing but    *)
(* the request of the running exchange is.                                 *)
InStep ==
    /\ requests \in Seq(Nat) /\ stream \in Seq(Heads \cup Bodies)
    /\ owed \in Bodies \cup {NoPart}
    /\ fetched \in Seq([exchange : Nat, request : Nat])
    /\ abandoned \subseteq 1..n
    /\ Exchanging => n \notin abandoned
    /\ pc = "body" => headRead \in Heads /\ Returned < headRead.request
    /\ OnTheWay(requests, stream, IF pc = "body" THEN headRead.request ELSE Returned,
                IF pc = "write" THEN n - 1 ELSE n)
    /\ abandoned = {} =>
          /\ OnTheWay(requests, stream, IF pc = "head" THEN n - 1 ELSE n, n)
          /\ pc = "body" => headRead.request = n

(* The session's inductive invariant: its types and these four parts.      *)
SessionInv == TypeOK /\ CallPlaced /\ DeadlinePlaced /\ FirstExchange /\ InStep

(* Every call returns, whatever the peer does: the deadline covers all of  *)
(* it.                                                                     *)
CallReturns == (pc # "idle") ~> (pc = "idle")
=============================================================================
