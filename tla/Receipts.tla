------------------------------ MODULE Receipts ------------------------------
(***************************************************************************)
(* VerifyReceipt and ReceiptCapture.Verify (receipts.go): the checks that  *)
(* a compact or flattened inference receipt goes through, in their order,  *)
(* and the error class each one fails with.                                *)
(*                                                                         *)
(* Cryptography is symbolic: a digest is its domain and what was hashed,   *)
(* and << >> stands for a hash that is no SHA-256 digest; a key and its    *)
(* commitment are the key's name; a signature is its key and what it       *)
(* covers.  "" is an absent text, "bad" one of the wrong type or not       *)
(* accepted; BadInt is no integer.  A receipt with an encoding that does   *)
(* not parse has the form "broken".                                        *)
(*                                                                         *)
(* The wall clock is read twice: clock.verify by VerifyReceipt, unless the *)
(* caller gives a Now, and clock.attest by the attestation check, whatever *)
(* the caller gives.                                                       *)
(***************************************************************************)
EXTENDS Attestation, SSE

CONSTANTS
    Release,     \* the trust release receiptPolicyFromTrustRelease fetches
    ReceiptJWKS  \* the keys that fetchJWKS returns

BadInt == -1
NoDoc == [kind |-> "none"]
MaxFutureSkew == 60

(* A nil slice; << >> is a body that is present and empty.                 *)
Absent == <<"absent">>

(* Now and MaxAgeSeconds: pointers to floats, nil, finite, or NaN or Inf.  *)
Unset     == [kind |-> "unset"]
Finite(v) == [kind |-> "finite", value |-> v]
NotFinite == [kind |-> "notFinite"]

(* The digests VerifyReceipt computes.                                     *)
BodyDigest(body) == <<"body", body>>
StreamDigest(domain, hashed) == <<domain, hashed>>

Domains == {"sse-data-v1", "sse-events-v1"}

(* A check: what must hold, and the error when it does not.                *)
Check(error, holds) == [error |-> error, holds |-> holds]

(* The error of the first check that fails.                                *)
FirstError(checks) ==
    LET failed == {i \in DOMAIN checks : ~checks[i].holds}
    IN  IF failed = {} THEN "none" ELSE checks[Min(failed)].error

Present(text)  == text \notin {"", "bad"}
Optional(text) == text # "bad"

-----------------------------------------------------------------------------
(* Before anything is parsed: the caller's options.                        *)

requireReceiptTrafficBindings(opts) ==
    opts.requireBindings =>
        /\ opts.request # Absent
        /\ opts.body # Absent \/ opts.stream # Absent

(* An origin is its canonical form and how it is spelled: case, one slash  *)
(* and :443 may differ, nothing else.                                      *)
canonicalReceiptHTTPSOrigin(origin) ==
    IF origin.spelling \in {"exact", "case", "slash", "port443"} THEN origin.of ELSE ""

parseReceiptEnvelope(receipt) == receipt.form \in {"compact", "flattened"}

parseReceiptHeader(header) ==
    /\ header.alg = "EdDSA" /\ header.typ = "inference-receipt+jws"
    /\ header.jwk.kind = "public"
    /\ header.kid = header.jwk.key

(* The signature covers the protected header and the payload as sent.      *)
verifyReceiptSignature(receipt) ==
    receipt.signature = [key |-> receipt.header.jwk.key, header |-> receipt.header,
                         payload |-> receipt.payload]

-----------------------------------------------------------------------------
(* The claims.                                                             *)

issuerAccepted(payload, expectedIssuer) ==
    /\ canonicalReceiptHTTPSOrigin(payload.iss) # ""
    /\ canonicalReceiptHTTPSOrigin(payload.iss) = canonicalReceiptHTTPSOrigin(expectedIssuer)

(* The time that the receipt's age is measured at.                         *)
nowOf(opts, clock) == IF opts.now = Unset THEN clock.verify ELSE opts.now.value

iatAccepted(payload, opts, clock) ==
    LET now == nowOf(opts, clock)
    IN  /\ payload.iat # BadInt
        /\ opts.now # NotFinite
        /\ payload.iat <= now + MaxFutureSkew
        /\ opts.maxAge # Unset =>
              /\ opts.maxAge # NotFinite /\ opts.maxAge.value >= 0
              /\ now - payload.iat <= opts.maxAge.value

nonceAccepted(payload, opts) ==
    /\ Optional(payload.nonce)
    /\ opts.nonce # "" => payload.nonce = opts.nonce

(* A mutant: the first second of the window is outside it.                 *)
windowExcludesStart(payload) ==
    \/ payload.tier = "tls-webpki"
    \/ payload.tier = "tee-verified" /\ payload.verifiedAt < payload.iat
                                     /\ payload.iat < payload.expiresAt

upstreamAccepted(payload) ==
    \/ payload.tier = "tls-webpki"
    \/ /\ payload.tier = "tee-verified"
       /\ payload.verifiedAt # BadInt /\ payload.expiresAt # BadInt
       /\ payload.verifiedAt <= payload.iat /\ payload.iat < payload.expiresAt

parseReceiptDigestClaim(claim, response) ==
    /\ claim.alg = "sha256" /\ claim.hash # << >>
    /\ claim.of \in {"body"} \cup (IF response THEN Domains ELSE {})
    /\ IF claim.of = "body" THEN claim.events = BadInt ELSE claim.events >= 0

requestBound(payload, opts) ==
    /\ parseReceiptDigestClaim(payload.req, FALSE)
    /\ opts.request # Absent => payload.req.hash = BodyDigest(opts.request)

(* The embedded receipt of a stream must be this one; only a flattened     *)
(* receipt can be.                                                         *)
responseBound(receipt, opts) ==
    LET claim    == receipt.payload.resp
        expected == IF receipt.form = "flattened" THEN receipt.json ELSE "none"
        digest   == receiptStreamDigest(opts.stream, Len(opts.stream), claim.of, expected)
    IN  /\ parseReceiptDigestClaim(claim, TRUE)
        /\ opts.body = Absent \/ opts.stream = Absent
        /\ opts.body # Absent => claim.of = "body" /\ claim.hash = BodyDigest(opts.body)
        /\ opts.stream # Absent =>
              /\ claim.of \in Domains /\ digest.ok
              /\ claim.hash = StreamDigest(claim.of, digest.hashed)
              /\ claim.events = Len(digest.hashed)

namesAccepted(payload) ==
    /\ Present(payload.jti) /\ Optional(payload.gen)
    /\ payload.route \in {"chat.completions", "responses"}
    /\ Present(payload.model)

(* att_sha256: the document it pins, NoDoc when it is absent.              *)
pinAccepted(receipt) ==
    /\ receipt.payload.att # [kind |-> "bad"]
    /\ receipt.form = "compact" => receipt.payload.att # NoDoc

-----------------------------------------------------------------------------
(* The attestation of the signing key.                                     *)

(* The document to verify, and the error when there is none.               *)
attestationFound(receipt, opts) ==
    LET header == receipt.header
    IN  IF receipt.form = "compact"
        THEN << Check("MissingAttestation", opts.document # NoDoc),
                Check("Attestation", opts.document = receipt.payload.att) >>
        ELSE << Check("UnsupportedAttestation", header.attKind \in {"gcp-cs-jwt", ""}),
                Check("MissingAttestation", header.attKind # "" /\ header.att # NoDoc),
                Check("Attestation", opts.document \in {NoDoc, header.att}) >>

(* A mutant: the document need not commit to the key that signed.          *)
keyAttestedAny(document, key, now) ==
    LET policy == PolicyFromTrustRelease(Release, "", NoHex)
    IN  /\ PinsImageIdentity(policy) /\ document.kind = "document"
        /\ verifiedAttestationJWTClaims(document, ReceiptJWKS)
        /\ workloadAccepted(document.claims, policy, now)
        /\ imageAccepted(document.claims, policy)

(* The policy is the current trust release's; a release that pins nothing  *)
(* is an error.  The commitment is the digest of the key.  `now` is the    *)
(* wall clock.                                                             *)
keyAttested(document, key, now) ==
    LET policy == PolicyFromTrustRelease(Release, "", NoHex)
    IN  /\ PinsImageIdentity(policy) /\ document.kind = "document"
        /\ VerifyReceiptKeyAttestation(document, policy, ReceiptJWKS, Hex(key), now)

(* A document that is there is checked at the wall clock's time: no time   *)
(* is passed on.                                                           *)
verifyReceiptAttestation(receipt, opts, clock) ==
    LET document == IF receipt.form = "compact" THEN opts.document ELSE receipt.header.att
        error    == FirstError(attestationFound(receipt, opts))
    IN  CASE receipt.form = "compact" /\ opts.document = NoDoc /\ ~opts.requireAttestation
               -> "unverified_by_this_sdk"
          [] error # "none" -> error
          [] OTHER -> IF keyAttested(document, receipt.header.jwk.key, clock.attest)
                      THEN "verified" ELSE "Attestation"

-----------------------------------------------------------------------------
ReceiptChecks(receipt, expectedIssuer, opts, clock) ==
    LET payload == receipt.payload
    IN  << Check("MissingBinding", requireReceiptTrafficBindings(opts)),
           Check("Issuer", canonicalReceiptHTTPSOrigin(expectedIssuer) # ""),
           Check("Structure", parseReceiptEnvelope(receipt)),
           Check("Header", parseReceiptHeader(receipt.header)),
           Check("Signature", verifyReceiptSignature(receipt)),
           Check("Claims", payload.rv = 1),
           Check("Claims", payload.iss.of # ""),
           Check("Issuer", issuerAccepted(payload, expectedIssuer)),
           Check("Time", iatAccepted(payload, opts, clock)),
           Check("Nonce", nonceAccepted(payload, opts)),
           Check("Upstream", upstreamAccepted(payload)),
           Check("Hash", requestBound(payload, opts)),
           Check("Hash", responseBound(receipt, opts)),
           Check("Claims", namesAccepted(payload)),
           Check("Claims", Optional(payload.policy)),
           Check("Upstream", payload.tier = "tee-verified" => payload.policy # ""),
           Check("Claims", Optional(payload.cert)),
           Check("Claims", pinAccepted(receipt)) >>

(* What VerifyReceipt returns: the attestation status of the claims, or    *)
(* the class of its error.                                                 *)
VerifyReceipt(receipt, expectedIssuer, opts, clock) ==
    LET error == FirstError(ReceiptChecks(receipt, expectedIssuer, opts, clock))
    IN  IF error # "none" THEN error ELSE verifyReceiptAttestation(receipt, opts, clock)

(* ReceiptCapture.Verify: the receipt that was found, NoReceipt if none    *)
(* was, against the captured bytes.                                        *)
NoReceipt == [form |-> "none"]

CaptureVerify(found, captured, expectedIssuer, opts, clock) ==
    CASE found = NoReceipt -> "Structure"
      [] found # NoReceipt /\ opts.stream # Absent -> "Hash"
      [] OTHER -> VerifyReceipt(found, expectedIssuer, [opts EXCEPT !.stream = captured], clock)
=============================================================================
