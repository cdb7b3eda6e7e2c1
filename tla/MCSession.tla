----------------------------- MODULE MCSession -----------------------------
(* The session on a small instance: genuine documents of the enclave for   *)
(* this nonce, another, or the exporter of the client's connection sent as *)
(* a nonce; another image; another signer; an expired one.                 *)
EXTENDS Session

MCPolicy ==
    PolicyFromTrustRelease([digest |-> "image", digests |-> {}, reference |-> "",
                            references |-> {}], "", NoHex)

MCJWKS == << [kid |-> "k", kty |-> "RSA", wellFormed |-> TRUE, key |-> "google"] >>

Issued(nonce, exporter) ==
    [kind |-> "document", threeSegments |-> TRUE, alg |-> "RS256", kid |-> "k",
     signedBy |-> "google",
     claims |-> [exp |-> Now + 1, iss |-> GCPIssuer, dbgstat |-> Upper(Hex("disabled-since-boot")),
                 swname |-> "CONFIDENTIAL_SPACE", secboot |-> TRUE,
                 hwmodel |-> "GCP_INTEL_TDX", aud |-> {"quill-cloud"},
                 digest |-> "image", reference |-> "tag",
                 eatNonce |-> {nonce, exporter, MyCert}, nonces |-> {},
                 tlsCert |-> NoHex, workloadCert |-> NoHex]]

MCDocuments(p) ==
    LET exporter == IF p = "enclave" THEN MyExporter ELSE Hex("upstream")
        good     == Issued(MyNonce, exporter)
    IN  { Issued(nonce, exporter) : nonce \in {MyNonce, Hex("stale"), MyExporter} }
        \cup { [good EXCEPT !.claims.digest = "other"],
               [good EXCEPT !.claims.exp = Now],
               [good EXCEPT !.signedBy = "someone"] }
=============================================================================
