--------------------------- MODULE ReplayContract ---------------------------
(***************************************************************************)
(* What one call of the SDK promises the gateways and its caller, however  *)
(* the engine comes to its decisions: requests go out one after another    *)
(* until the call settles, once and for good.  It may repeat a request     *)
(* only under the key of the first, only when the method or the key makes  *)
(* that safe, on the same host or, with failover, on the next one, and     *)
(* never beyond its budget.                                                *)
(***************************************************************************)
EXTENDS Integers, Sequences

CONSTANT Budget     \* the most requests one call may make

VARIABLES
    idempotent, \* the call's method may be repeated as it is
    failover,   \* the call may move to its next host
    hosts,      \* the number of its hosts
    requests,   \* the requests made: host and key (0 for none)
    outcome     \* "none" until the call settles

terms == <<idempotent, failover, hosts>>
contractVars == <<terms, requests, outcome>>

Surfaced  == {"response", "transportError"}
Abandoned == {"contextError", "requestError"}

ContractInit == requests = << >> /\ outcome = "none"

FirstRequest ==
    /\ outcome = "none" /\ requests = << >>
    /\ Len(requests') = 1 /\ requests'[1].key \in Nat
    /\ requests' = <<[host |-> 0, key |-> requests'[1].key]>>
    /\ UNCHANGED <<terms, outcome>>

LastHost == requests[Len(requests)].host

Repeat ==
    /\ outcome = "none" /\ Len(requests) \in 1..(Budget - 1)
    /\ idempotent \/ requests[1].key # 0
    /\ \E host \in {LastHost, LastHost + 1} :
          /\ host # LastHost => failover /\ host < hosts
          /\ requests' = Append(requests, [host |-> host, key |-> requests[1].key])
    /\ UNCHANGED <<terms, outcome>>

Settle ==
    /\ outcome = "none"
    /\ outcome' \in Abandoned \cup (IF requests = << >> THEN {} ELSE Surfaced)
    /\ UNCHANGED <<terms, requests>>

ContractNext == FirstRequest \/ Repeat \/ Settle

ContractSpec == ContractInit /\ [][ContractNext]_contractVars
=============================================================================
