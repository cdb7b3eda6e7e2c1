----------------------------- MODULE MCReporter -----------------------------
(***************************************************************************)
(* Small instances of Reporter.                                            *)
(***************************************************************************)
EXTENDS Reporter

(* Nothing, or less of everything.                                         *)
MCPolicies == {NoPolicy, [rate |-> 0, flush |-> 2, pause |-> 1]}

(* Calls by what becomes of their event; a call counts every attempt, so   *)
(* keys repeat, and one of its keys may be rejected.                       *)
MCCalls == {[kind |-> "failure", keys |-> <<1, 1>>], [kind |-> "plain", keys |-> <<1>>],
            [kind |-> "retried", keys |-> <<2, RejectedKey>>], [kind |-> "invalid", keys |-> << >>]}

(* Calls that bring counter rows only.                                     *)
MCRows == {[kind |-> "unsampled", keys |-> <<1, 2>>]}

MCNoPolicy == {NoPolicy}
=============================================================================
