------------------------------- MODULE Policy -------------------------------
(***************************************************************************)
(* The policy kernel of the SDK (retry_policy.go) and the replay-safety    *)
(* test of the transport engine (transport.go): pure decisions about what  *)
(* one attempt's answer permits.  Nothing here holds state.                *)
(*                                                                         *)
(* An answer is what one physical attempt ends with: an HTTP response      *)
(* (status code and the x-should-retry verdict) or a transport error.      *)
(***************************************************************************)
EXTENDS Integers, Sequences

CONSTANTS
    Statuses,      \* the HTTP status codes a gateway may answer with
    ErrorKinds     \* the transport errors http.Client.Do may return

(* Shapes of a transport error that classifyTransportError tells apart.    *)
AllErrorKinds == {"connect_timeout", "read_timeout", "dial", "other"}

ASSUME StatusesAssumption == Statuses \subseteq 100..599
ASSUME ErrorKindsAssumption == ErrorKinds \subseteq AllErrorKinds

(* x-should-retry as parsed: an explicit verdict, or nothing usable.       *)
Verdicts == {"true", "false", "absent"}

Response(status, verdict) ==
    [kind |-> "response", status |-> status, verdict |-> verdict, err |-> "none"]

TransportError(err) ==
    [kind |-> "error", status |-> 0, verdict |-> "absent", err |-> err]

Responses == {Response(s, v) : s \in Statuses, v \in Verdicts}
Errors    == {TransportError(e) : e \in ErrorKinds}
Answers   == Responses \cup Errors

(* shouldRetryVerdict: the gateway's explicit instruction.                 *)
shouldRetryVerdict(resp) == resp.verdict

(* A mutant: the status heuristic, deaf to the gateway's verdict.          *)
retryableHeuristicOnly(resp) == resp.status = 429 \/ resp.status >= 500

(* retryable: "may we send this again", independent of where.              *)
retryable(resp) ==
    \/ shouldRetryVerdict(resp) = "true"
    \/ /\ shouldRetryVerdict(resp) = "absent"
       /\ resp.status = 429 \/ resp.status >= 500

(* A mutant: every 5xx moves, a plain 500 included.                        *)
failoverEveryServerError(resp) ==
    shouldRetryVerdict(resp) # "false" /\ resp.status >= 500

(* regionalFailoverable: "may this move to a different domain".            *)
regionalFailoverable(resp) ==
    /\ shouldRetryVerdict(resp) # "false"
    /\ resp.status \in {502, 503, 504}

(* An absent idempotency key.                                              *)
NoKey == 0

SafeMethods == {"GET", "HEAD", "OPTIONS", "TRACE"}

(* A mutant: every request may be replayed.                                *)
replaySafeAlways(method, key) == TRUE

(* requestReplaySafe: the method is idempotent, or a key makes it so.      *)
requestReplaySafe(method, key) == method \in SafeMethods \/ key # NoKey
=============================================================================
