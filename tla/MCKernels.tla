----------------------------- MODULE MCKernels -----------------------------
(***************************************************************************)
(* Four kernels on bounded inputs.  An initial state picks a receipt and   *)
(* the caller's options, or the inputs of a retry delay, or the empty      *)
(* counter table, which then takes increments one by one, or a stream that *)
(* a caller collects as its chunks arrive.                                 *)
(***************************************************************************)
EXTENDS Receipts, RetryDelay, CounterTable, Completion

VARIABLES kernel, input

kernelVars == <<kernel, input, tableVars, completionVars>>

-----------------------------------------------------------------------------
(* What Google attests: for the released image the enclave's receipt key,  *)
(* or nonces of live channels only; for another image the other key.       *)
Attested(image, nonces, exp) ==
    [kind |-> "document", threeSegments |-> TRUE, alg |-> "RS256", kid |-> "k",
     signedBy |-> "google",
     claims |-> [exp |-> exp, iss |-> GCPIssuer, dbgstat |-> Hex("disabled-since-boot"),
                 swname |-> "CONFIDENTIAL_SPACE", secboot |-> TRUE,
                 hwmodel |-> "GCP_INTEL_TDX", aud |-> {"quill-cloud"},
                 digest |-> image, reference |-> "tag",
                 eatNonce |-> nonces, nonces |-> {}, tlsCert |-> NoHex, workloadCert |-> NoHex]]

Now == 100
KeyDoc     == Attested("image", {Upper(Hex("enclave"))}, Now + 1)
ChannelDoc == Attested("image", {Hex("nonce")}, Now + 1)
OtherDoc   == Attested("other", {Hex("other")}, Now + 1)
ExpiredDoc == Attested("image", {Hex("enclave")}, Now)
Docs == {KeyDoc, ChannelDoc, OtherDoc, ExpiredDoc}

MCRelease == [digest |-> "image", digests |-> {}, reference |-> "", references |-> {}]
MCJWKS == << [kid |-> "k", kty |-> "RSA", wellFormed |-> TRUE, key |-> "google"] >>

-----------------------------------------------------------------------------
(* What the enclave handled, and the receipts that it signed.              *)

(* The second has an empty request and an empty response; the events of    *)
(* the last have names.                                                    *)
Exchange(form, request, response, of, iat) ==
    [form |-> form, request |-> request, response |-> response, of |-> of, iat |-> iat]

Exchanges ==
    { Exchange("compact", <<"q1">>, <<"r1">>, "body", 100),
      Exchange("flattened", << >>, << >>, "body", 160),
      Exchange("flattened", <<"q1">>, <<"r1">>, "body", 89),
      Exchange("flattened", <<"q1">>, << <<"chunk">> >>, "sse-data-v1", 90),
      Exchange("flattened", <<"q1">>, << <<"name", "chunk">> >>, "sse-events-v1", 90) }

Claim(of, hash, events) == [alg |-> "sha256", of |-> of, hash |-> hash, events |-> events]
Gateway == [of |-> "gateway", spelling |-> "port443"]

ClaimsOf(e) ==
    [rv |-> 1, iss |-> Gateway, iat |-> e.iat, nonce |-> "n", tier |-> "tee-verified",
     verifiedAt |-> e.iat, expiresAt |-> e.iat + 1, policy |-> "p", cert |-> "",
     req |-> Claim("body", BodyDigest(e.request), BadInt),
     resp |-> IF e.of = "body" THEN Claim("body", BodyDigest(e.response), BadInt)
              ELSE Claim(e.of, StreamDigest(e.of, e.response), Len(e.response)),
     jti |-> "id", gen |-> "", route |-> "responses", model |-> "m",
     att |-> IF e.form = "compact" THEN KeyDoc ELSE NoDoc]

Header(key, attKind, att) ==
    [alg |-> "EdDSA", typ |-> "inference-receipt+jws", jwk |-> [kind |-> "public", key |-> key],
     kid |-> key, attKind |-> attKind, att |-> att]

HeaderOf(e) ==
    IF e.form = "compact" THEN Header("enclave", "", NoDoc)
    ELSE Header("enclave", "gcp-cs-jwt", KeyDoc)

Signed(key, header, claims) == [key |-> key, header |-> header, payload |-> claims]

ReceiptOf(e) ==
    [form |-> e.form, json |-> "receipt", header |-> HeaderOf(e), payload |-> ClaimsOf(e),
     signature |-> Signed("enclave", HeaderOf(e), ClaimsOf(e))]

(* Its parts combined anew: claims changed, another header, another form;  *)
(* signed by the enclave for what it signed, or by the other key.          *)
Altered(c) ==
    { c, [c EXCEPT !.iat = 100], [c EXCEPT !.nonce = "m"], [c EXCEPT !.iss.of = "elsewhere"],
      [c EXCEPT !.req = Claim("body", BodyDigest(<<"q1">>), BadInt)],
      [c EXCEPT !.resp = Claim("body", BodyDigest(<<"r1">>), BadInt)],
      [c EXCEPT !.resp.hash = << >>], [c EXCEPT !.att = OtherDoc], [c EXCEPT !.expiresAt = c.iat] }

Headers ==
    { Header(key, "gcp-cs-jwt", doc) : key \in {"enclave", "other"}, doc \in Docs \cup {NoDoc} }
    \cup { Header(key, "", NoDoc) : key \in {"enclave", "other"} }
    \cup { Header("enclave", "aws-nitro-cose", KeyDoc) }

Offered ==
    UNION { { [form |-> form, json |-> "receipt", header |-> h, payload |-> p,
               signature |-> IF genuine THEN ReceiptOf(e).signature ELSE Signed("other", h, p)] :
                 form \in {"compact", "flattened"}, h \in Headers, p \in Altered(ClaimsOf(e)),
                 genuine \in BOOLEAN } : e \in Exchanges }
    \cup { [ReceiptOf(e) EXCEPT !.form = "broken"] : e \in Exchanges }

Event(data) == <<data, LF, LF>>
Named(name, data) == <<name, LF, data, LF, LF>>
Ending(receipt) == Event(receipt) \o Event("done")

StreamOf(e) ==
    (IF e.of = "sse-data-v1" THEN Event("chunk") ELSE Named("name", "chunk")) \o Ending("receipt")

Streams ==
    { Absent, Event("chunk") \o Ending("receipt"), Event("chunk") \o Ending("otherReceipt"),
      Event("chunk") \o Event("chunk") \o Ending("receipt"),
      Named("name", "chunk") \o Ending("receipt"),
      Named("terminalName", "chunk") \o Ending("receipt") }

Options ==
    [request : {<<"q1">>, << >>}, body : {Absent, <<"r1">>}, stream : Streams,
     document : {NoDoc, KeyDoc, OtherDoc}, nonce : {"n"}, maxAge : {Finite(10)}, now : {Unset},
     requireAttestation : {TRUE}, requireBindings : {TRUE}]
    \cup [request : {Absent, <<"q1">>, << >>}, body : {Absent, << >>}, stream : {Absent},
          document : {KeyDoc}, nonce : {"", "n"}, maxAge : {Unset}, now : {Finite(Now)},
          requireAttestation : {FALSE}, requireBindings : BOOLEAN]

(* The caller's time and the wall clock: the same, a second apart at the   *)
(* end of the document's validity, or far apart.                           *)
Clock(verify, attest) == [verify |-> verify, attest |-> attest]

TimedOptions(e) ==
    [request : {e.request}, body : {IF e.of = "body" THEN e.response ELSE Absent},
     stream : {IF e.of = "body" THEN Absent ELSE StreamOf(e)}, document : {KeyDoc}, nonce : {"n"},
     maxAge : {Unset, Finite(10), Finite(0), Finite(-1), NotFinite},
     now : {Unset, Finite(Now), Finite(200), NotFinite},
     requireAttestation : {TRUE}, requireBindings : {TRUE}]

Clocks == {Clock(Now, Now), Clock(Now, Now + 1), Clock(200, 200)}

-----------------------------------------------------------------------------
(* Chunks: words of either choice, its end, a piece of one of its tool     *)
(* calls, or a delta for both choices.                                     *)
Deltas(x, piece) ==
    { [Delta(x) EXCEPT !.role = "assistant", !.text = <<piece>>, !.reasoning = <<piece>>],
      [Delta(x) EXCEPT !.role = "blank", !.logprobs = <<piece>>, !.finish = "length"] }
    \cup { [Delta(x) EXCEPT !.tools = << [index |-> t, id |-> "id", args |-> <<piece>>] >>] :
              t \in ToolIndexes }
    \cup { [Delta(x) EXCEPT !.tools = << [index |-> 0, id |-> "", args |-> <<piece>>] >>] }

Chunks(piece) ==
    { <<d>> : d \in UNION {Deltas(x, piece) : x \in ChoiceIndexes} }
    \cup { << [Delta(0) EXCEPT !.logprobs = <<piece>>],
              [Delta(1) EXCEPT !.text = <<piece>>, !.logprobs = <<piece>>] >> }

-----------------------------------------------------------------------------
KernelInit ==
    /\ TableInit /\ CompletionInit
    /\ \/ /\ kernel = "receipt"
          /\ \/ input \in [receipt : Offered, opts : Options, clock : {Clock(Now, Now)}]
             \/ \E e \in Exchanges :
                   input \in [receipt : {ReceiptOf(e)}, opts : TimedOptions(e), clock : Clocks]
       \/ /\ kernel = "delay"
          /\ input \in [attempt : 0..9, draw : 0..4,
                        ms : [kind : HeaderKinds, value : {-5, 0, 250, 90000}],
                        seconds : [kind : HeaderKinds, value : {-1000, 2000, 100000}]]
       \/ /\ kernel \in {"table", "completion"}
          /\ input = [none |-> TRUE]

KernelNext ==
    \/ kernel = "table" /\ TableNext /\ UNCHANGED <<kernel, input, completionVars>>
    \/ /\ kernel = "completion"
       /\ Collect \/ \E chunk \in Chunks(Len(deltas) + 1) : Receive(chunk)
       /\ UNCHANGED <<kernel, input, tableVars>>

KernelSpec == KernelInit /\ [][KernelNext]_kernelVars

-----------------------------------------------------------------------------
(* What the caller gets: a stream is verified by its capture.              *)
OutcomeAt(clock) ==
    LET r == input.receipt
        o == input.opts
    IN  IF o.stream = Absent THEN VerifyReceipt(r, Gateway, o, clock)
        ELSE CaptureVerify(r, o.stream, Gateway, [o EXCEPT !.stream = Absent], clock)

Outcome == OutcomeAt(input.clock)

(* The caller holds the traffic of exchange e.                             *)
Holds(opts, e) ==
    /\ opts.request = e.request
    /\ IF e.of = "body" THEN opts.body = e.response /\ opts.stream = Absent
       ELSE opts.body = Absent /\ opts.stream = StreamOf(e)

(* The exchange is as recent as the caller asks, by its clock or by its    *)
(* Now, and the document is valid by the wall clock.                       *)
Fresh(opts, e, clock) ==
    LET now == IF opts.now = Unset THEN clock.verify ELSE opts.now.value
    IN  /\ opts.now # NotFinite /\ e.iat <= now + MaxFutureSkew
        /\ opts.maxAge \in {Unset} \cup {Finite(age) : age \in {a \in {0, 10} : now - e.iat <= a}}
        /\ clock.attest < KeyDoc.claims.exp

(* A receipt that verifies with the bindings required vouches for what the *)
(* caller holds: the attested enclave signed these claims for exactly this *)
(* request and this response, event names included, not longer ago than    *)
(* the caller allows, under a document valid when it was checked.          *)
AcceptedIsGenuine ==
    kernel = "receipt" /\ Outcome = "verified" /\ input.opts.requireBindings =>
        \E e \in Exchanges :
            /\ input.receipt.payload = ClaimsOf(e)
            /\ Holds(input.opts, e) /\ Fresh(input.opts, e, input.clock)

(* A receipt as the enclave signed it verifies for the caller that holds   *)
(* its traffic, be it empty, and its document, up to the last second of    *)
(* its age, of the future skew and of the upstream's window, as long as    *)
(* the document is valid by the wall clock.                                *)
GenuineIsAccepted ==
    kernel = "receipt" =>
        \A e \in Exchanges :
            /\ input.receipt = ReceiptOf(e)
            /\ Holds(input.opts, e) /\ Fresh(input.opts, e, input.clock)
            /\ input.opts.document \in (IF e.form = "compact" THEN {KeyDoc} ELSE {NoDoc, KeyDoc})
            => Outcome = "verified"

(* What the comment on VerifyReceiptOptions.Now says (receipts.go:354):    *)
(* with a Now, verification does as it would if the time were that.        *)
NowOverridesTime ==
    kernel = "receipt" /\ input.opts.now \notin {Unset, NotFinite} =>
        Outcome = OutcomeAt(Clock(input.opts.now.value, input.opts.now.value))

(* Every retry waits at most a minute; at least as long as a usable hint   *)
(* says, up to that minute; and with no usable hint no longer than the     *)
(* backoff of its attempt.                                                 *)
DelayIsBounded ==
    kernel = "delay" =>
        DelayKeepsBounds(input.attempt, (Base(input.attempt) * input.draw) \div 4,
                         input.ms, input.seconds)
=============================================================================
