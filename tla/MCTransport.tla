---------------------------- MODULE MCTransport ----------------------------
(***************************************************************************)
(* Small instances of Transport.                                           *)
(***************************************************************************)
EXTENDS Transport

(* Every call the SDK can make, without telemetry.                         *)
MCCalls == {c \in AllCalls : ~c.telemetry /\ ~c.custom}

(* Stream opens with a timeout.                                            *)
MCStreams == {c \in MCCalls : c.plane = "stream" /\ c.hasTimeout /\ c.valid}
=============================================================================
