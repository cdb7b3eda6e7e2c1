----------------------------- MODULE RetryDelay -----------------------------
(***************************************************************************)
(* How long the engine sleeps before it sends again: the Retry-After hints *)
(* (retry_policy.go) and the jittered backoff (transport.go), in           *)
(* milliseconds.  A header is absent, unparsable, or a float: a number,    *)
(* possibly negative, NaN or an infinity.  An absent hint is NoHint.       *)
(***************************************************************************)
EXTENDS Integers, FiniteSetsExt

MaxRetryAfter == 60000
MaxBackoff    == 30000
BackoffUnit   == 500
MaxShift      == 6
NoHint        == -1

HeaderKinds == {"absent", "unparsable", "nan", "inf", "number"}

LesserOf(a, b)  == IF a <= b THEN a ELSE b
GreaterOf(a, b) == IF a >= b THEN a ELSE b

(* boundedRetryAfter of what ParseFloat returned, if it returned.          *)
boundedRetryAfter(header) ==
    IF header.kind = "number" /\ header.value >= 0
    THEN LesserOf(header.value, MaxRetryAfter) ELSE NoHint

(* A mutant: an unusable Retry-After-Ms hides Retry-After.                 *)
msDecides(ms, seconds) ==
    boundedRetryAfter(IF ms.kind = "absent" THEN seconds ELSE ms)

(* Retry-After-Ms when it is usable, else Retry-After.                     *)
retryAfterSeconds(ms, seconds) ==
    IF boundedRetryAfter(ms) # NoHint THEN boundedRetryAfter(ms) ELSE boundedRetryAfter(seconds)

(* 1 << attempt, for the attempts that are not clamped.                    *)
Shifted == [n \in 0..MaxShift |-> <<1, 2, 4, 8, 16, 32, 64>>[n + 1]]

Base(attempt) == LesserOf(BackoffUnit * Shifted[LesserOf(attempt, MaxShift)], MaxBackoff)

(* The delay for a draw `jitter` in 0..Base(attempt); the hint is bounded  *)
(* again, and the result too.                                              *)
retrySleepDuration(attempt, hint, jitter) ==
    LET floor == boundedRetryAfter([kind |-> "number", value |-> hint])
    IN  LesserOf(GreaterOf(jitter, floor), MaxRetryAfter)

-----------------------------------------------------------------------------
(* The waits, in milliseconds, that the hints ask for.                     *)
Asked(ms, seconds) ==
    {h.value : h \in {x \in {ms, seconds} : x.kind = "number" /\ x.value >= 0}}

(* A delay is at most a minute; at least as long as a usable hint says, up *)
(* to that minute; and with no usable hint the jitter, within the backoff  *)
(* of its attempt.                                                         *)
DelayKeepsBounds(attempt, jitter, ms, seconds) ==
    LET delay == retrySleepDuration(attempt, retryAfterSeconds(ms, seconds), jitter)
        asked == Asked(ms, seconds)
    IN  /\ 0 <= delay /\ delay <= MaxRetryAfter
        /\ delay <= Base(attempt) \/ delay <= Max(asked \cup {0})
        /\ asked # {} => delay >= LesserOf(Min(asked), MaxRetryAfter)
        /\ asked = {} => delay = jitter /\ Base(attempt) <= MaxBackoff
=============================================================================
