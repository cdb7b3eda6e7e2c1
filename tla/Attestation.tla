---------------------------- MODULE Attestation ----------------------------
(***************************************************************************)
(* The gateway attestation (attestation.go): policies built from a trust   *)
(* release, the JWT and its signature, and the claim checks in the two     *)
(* binding modes: a live TLS channel, or a durable receipt key.            *)
(*                                                                         *)
(* A text whose letter case may vary (hexadecimal ones, the debug status)  *)
(* is what it says and whether it is written in upper case; other texts    *)
(* are their own values.  A claim that is absent or of the wrong JSON type *)
(* reads as the empty text.  Lists that are only searched are sets.        *)
(***************************************************************************)
EXTENDS Integers, Sequences, FiniteSets

GCPIssuer == "confidentialcomputing"
defaultAttestationAudience == "quill-cloud"

Hex(value) == [of |-> value, upper |-> FALSE]
Upper(hex) == [hex EXCEPT !.upper = TRUE]
ToLower(hex) == [hex EXCEPT !.upper = FALSE]
NoHex == Hex("")

(* An exp claim that is no integer of 64 bits.                             *)
BadExp == -1

-----------------------------------------------------------------------------
(* Policies.                                                               *)

PinsImageIdentity(policy) ==
    \/ policy.digests # {} \/ policy.digest # ""
    \/ policy.references # {} \/ policy.reference # ""

(* The published set, or the single published value.                       *)
accepted(set, single) == IF set = {} /\ single # "" THEN {single} ELSE set

NoPolicy == [audience |-> "", cert |-> NoHex, digest |-> "", digests |-> {},
             reference |-> "", references |-> {}, allowDebug |-> FALSE]

(* A release that pins no image is refused: no policy.                     *)
PolicyFromTrustRelease(release, audience, cert) ==
    LET policy ==
          [audience   |-> IF audience = "" THEN defaultAttestationAudience ELSE audience,
           cert       |-> cert,
           digest     |-> release.digest,
           digests    |-> accepted(release.digests, release.digest),
           reference  |-> release.reference,
           references |-> accepted(release.references, release.reference),
           allowDebug |-> FALSE]
    IN  IF PinsImageIdentity(policy) THEN policy ELSE NoPolicy

-----------------------------------------------------------------------------
(* The signature: the first JWK with the token's kid decides.              *)

verifyRS256(jwks, document) ==
    /\ document.alg = "RS256" /\ document.kid # ""
    /\ \E i \in DOMAIN jwks :
          /\ jwks[i].kid = document.kid
          /\ \A j \in 1..(i - 1) : jwks[j].kid # document.kid
          /\ jwks[i].kty = "RSA" /\ jwks[i].wellFormed
          /\ jwks[i].key = document.signedBy

(* What the JWT library checks add up to; a nil JWKS is fetched first.     *)
verifiedAttestationJWTClaims(document, jwks) ==
    document.threeSegments /\ verifyRS256(jwks, document)

-----------------------------------------------------------------------------
(* The claims.                                                             *)

workloadAccepted(claims, policy, now) ==
    /\ claims.exp # BadExp /\ claims.exp > now
    /\ claims.iss = GCPIssuer
    /\ policy.allowDebug \/ ToLower(claims.dbgstat) = Hex("disabled-since-boot")
    /\ claims.swname = "CONFIDENTIAL_SPACE"
    /\ claims.secboot
    /\ claims.hwmodel \in {"GCP_AMD_SEV", "GCP_AMD_SEV_ES", "GCP_INTEL_TDX"}
    /\ (IF policy.audience = "" THEN defaultAttestationAudience ELSE policy.audience)
          \in claims.aud

containsSafeString(values, target) == target # "" /\ target \in values

imageAccepted(claims, policy) ==
    LET digests    == accepted(policy.digests, policy.digest)
        references == accepted(policy.references, policy.reference)
    IN  /\ PinsImageIdentity(policy)
        /\ digests # {} => containsSafeString(digests, claims.digest)
        /\ references # {} => containsSafeString(references, claims.reference)

(* eat_nonce, or the older nonces when it is absent or empty.              *)
nonceList(claims) == IF claims.eatNonce # {} THEN claims.eatNonce ELSE claims.nonces

(* A mutant: the exporter alone binds the channel.                         *)
exporterBound(claims, nonce, exporter) ==
    exporter # NoHex => exporter \in nonceList(claims)

(* The caller's nonce and the exporter of its connection, each in a slot   *)
(* of its own.                                                             *)
channelBound(claims, nonce, exporter) ==
    /\ exporter # NoHex => nonce # NoHex
    /\ nonce # NoHex => nonce \in nonceList(claims)
    /\ exporter # NoHex => exporter \in nonceList(claims) /\ nonce # exporter

(* The first certificate digest the token commits to.                      *)
committedCert(claims, cert) ==
    CASE claims.tlsCert # NoHex -> claims.tlsCert
      [] claims.tlsCert = NoHex /\ claims.workloadCert # NoHex -> claims.workloadCert
      [] OTHER -> IF \E n \in nonceList(claims) : ToLower(n) = cert THEN cert ELSE NoHex

(* Digests are texts of 64 hexadecimal digits; "short" stands for others.  *)
certBound(claims, policy, cert) ==
    LET committed == ToLower(committedCert(claims, cert))
    IN  /\ committed # NoHex /\ committed.of # "short"
        /\ cert # NoHex => committed = cert
        /\ policy.cert # NoHex => committed = ToLower(policy.cert)

(* checkAttestationClaimsForBinding in live-channel mode: NoHex stands for *)
(* a certificate, an exporter or a nonce the caller did not give.          *)
liveChannelAccepted(claims, policy, nonce, cert, exporter, now) ==
    /\ workloadAccepted(claims, policy, now)
    /\ imageAccepted(claims, policy)
    /\ channelBound(claims, nonce, exporter)
    /\ certBound(claims, policy, cert)

(* The same in receipt-key mode: only eat_nonce counts, in either case.    *)
receiptKeyAccepted(claims, policy, commitment, now) ==
    /\ workloadAccepted(claims, policy, now)
    /\ imageAccepted(claims, policy)
    /\ \E n \in claims.eatNonce : ToLower(n) = ToLower(commitment)

VerifyGatewayAttestation(document, policy, jwks, nonce, cert, exporter, now) ==
    /\ verifiedAttestationJWTClaims(document, jwks)
    /\ liveChannelAccepted(document.claims, policy, nonce, cert, exporter, now)

VerifyReceiptKeyAttestation(document, policy, jwks, commitment, now) ==
    /\ verifiedAttestationJWTClaims(document, jwks)
    /\ receiptKeyAccepted(document.claims, policy, commitment, now)
=============================================================================
