------------------------------- MODULE MCCall -------------------------------
(***************************************************************************)
(* Small instances of Call: calls whose recorder is active, with an event  *)
(* cap below the number of attempts so that records overflow.              *)
(***************************************************************************)
EXTENDS Call

MCRecorded ==
    {c \in AllCalls : /\ c.telemetry /\ c.plane \in {"stream", "buffered"}
                      /\ c.hasTimeout /\ c.failover
                      /\ c.method # "PATCH"
                      /\ c.method = "GET" => c.key = NoKey
                      /\ c.plane = "stream" => c.key = NoKey}
=============================================================================
