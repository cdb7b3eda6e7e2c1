------------------------------ MODULE MCStream ------------------------------
(* Streams of up to two frames, and longer ones that end with a receipt or *)
(* [DONE], in pieces of any size; a timeout for the iterators.             *)
EXTENDS BodyStream

MCModes ==
    { [consumer |-> "chunks", timed |-> TRUE], [consumer |-> "events", timed |-> TRUE],
      [consumer |-> "capture", timed |-> FALSE] }

Frames ==
    { <<"chunk">>, <<"receipt">>, <<"done">>, <<"paddedDone">>, <<"errorChunk">>, <<"terminal">>,
      <<"terminalName", "chunk">>, <<"chunk", "chunk">>, <<"comment">>, <<"empty">>,
      <<"garbage">>, <<"otherReceipt">>, <<"terminalName", "typed">>, <<"nonObject">> }

MCScripts ==
    { << >> } \cup { <<f>> : f \in Frames }
    \cup { <<f, g>> : f \in Frames, g \in { <<"chunk">>, <<"done">>, <<"terminal">>, <<"comment">> } }
    \cup { <<f, <<"chunk">>, <<"done">> >> : f \in Frames }
    \cup { <<f, <<"receipt">>, <<"done">> >> : f \in Frames }
    \cup { <<f, <<"chunk">>, <<"receipt">>, <<"done">> >> : f \in Frames }
=============================================================================
