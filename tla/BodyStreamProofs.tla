-------------------------- MODULE BodyStreamProofs --------------------------
(***************************************************************************)
(* Proofs about an open stream and its reader, for any frames a gateway    *)
(* may send, any of the line endings and any way the stream is cut into    *)
(* pieces.                                                                 *)
(*                                                                         *)
(* The timer: the invariant is inductive as it stands; the only step that  *)
(* starts the timer looks at `closed` in the same critical section.        *)
(*                                                                         *)
(* The iterators: Layout says where in the stream each line of each frame  *)
(* is.  The inductive invariant is that an open iterator stands at the     *)
(* start of a line, with the lines before it of the same frame collected   *)
(* and the events of the frames before that handed over (At); each step    *)
(* reads the next line, or what there is of it.                            *)
(*                                                                         *)
(* The capture: its invariant is that it holds what one scan from the      *)
(* start finds; a scan that goes on where the last complete event ended    *)
(* finds the same (ScanTwice).                                             *)
(*                                                                         *)
(* The digest: from Layout again, its events are the frames (lines that    *)
(* end unlike their blank line give none), and an event that decodes has   *)
(* the payload of its frame; and a stream of plain events digests to its   *)
(* payloads.                                                               *)
(***************************************************************************)
EXTENDS BodyStream, DataLemmas

-----------------------------------------------------------------------------
(* After Close, or after an error, the idle timer never runs again,        *)
(* wherever a concurrent Read is.                                          *)
THEOREM TimerStaysStopped == Spec => []WrapperInv
<1>1. Init => WrapperInv
  BY ModesAssumption DEF Init, WrapperInv, TypeOK, ClosedIsQuiet, timed
<1>2. WrapperInv /\ [Next]_vars => WrapperInv'
  <2> SUFFICES ASSUME WrapperInv, [Next]_vars
               PROVE  WrapperInv'
    OBVIOUS
  <2>1. CASE ReadStarts \/ BodyReturns
    BY <2>1 DEF ReadStarts, BodyReturns, body, wrapper, WrapperInv, TypeOK, ClosedIsQuiet, timed
  <2>2. CASE NextLine \/ StreamEnds \/ StreamFails
    BY <2>2
    DEF NextLine, StreamEnds, StreamFails, body, wrapper, WrapperInv, TypeOK, ClosedIsQuiet, timed
  <2>3. CASE ReadReturns
    <3>1. /\ closed' = (closed \/ (timed /\ err # "none"))
          /\ armed' = (err = "none" /\ reset(NewData))
          /\ reading' = "no" /\ UNCHANGED <<mode, cause>>
      BY <2>3 DEF ReadReturns, body
    <3>2. armed' => err = "none" /\ (armed \/ (timed /\ ~closed))
      BY <3>1 DEF reset
    <3>3. TypeOK'
      BY <3>1 DEF WrapperInv, TypeOK
    <3>4. ClosedIsQuiet'
      BY <3>1, <3>2, Zenon DEF WrapperInv, ClosedIsQuiet, timed
    <3> QED
      BY <3>3, <3>4 DEF WrapperInv
  <2>4. CASE TimerFires \/ CallerCancels \/ Close
    <3>1. /\ UNCHANGED <<mode, reading>>
          /\ armed' = FALSE \/ UNCHANGED <<armed, closed>>
          /\ closed' \in {closed, TRUE} /\ cause' \in {cause, "idle", "caller", "closed"}
      BY <2>4 DEF TimerFires, CallerCancels, Close, body
    <3>2. TypeOK'
      BY <3>1 DEF WrapperInv, TypeOK
    <3>3. ClosedIsQuiet'
      BY <3>1 DEF WrapperInv, ClosedIsQuiet, timed
    <3> QED
      BY <3>2, <3>3 DEF WrapperInv
  <2>5. CASE UNCHANGED vars
    BY <2>5 DEF vars, body, wrapper, WrapperInv, TypeOK, ClosedIsQuiet, timed
  <2> QED
    BY <2>1, <2>2, <2>3, <2>4, <2>5 DEF Next
<1> QED
  BY <1>1, <1>2, PTL DEF Spec

-----------------------------------------------------------------------------
(* The framing of receipts.                                                *)

(* Where the scan goes on after `o`.                                       *)
End(d, o, n) == CHOOSE e \in nextReceiptSSEEvent(d, o, n) : TRUE

(* There is at most one such place.                                        *)
LEMMA NextIsOne ==
    ASSUME NEW d, NEW o \in Nat, NEW n \in Nat,
           NEW e, e \in nextReceiptSSEEvent(d, o, n)
    PROVE  e \in (o + 1)..n /\ nextReceiptSSEEvent(d, o, n) = {e} /\ End(d, o, n) = e
<1> DEFINE E(x) == EndsEvent(d, o, x)
<1>1. nextReceiptSSEEvent(d, o, n)
        = {x \in (o + 1)..n : E(x) /\ \A f \in (o + 1)..(x - 1) : ~E(f)}
  BY DEF nextReceiptSSEEvent
<1> HIDE DEF E
<1>2. e \in (o + 1)..n /\ E(e) /\ \A f \in (o + 1)..(e - 1) : ~E(f)
  BY <1>1
<1>3. ASSUME NEW x \in nextReceiptSSEEvent(d, o, n) PROVE x = e
  <2>1. x \in (o + 1)..n /\ E(x) /\ \A f \in (o + 1)..(x - 1) : ~E(f)
    BY <1>1
  <2>2. ~(x < e)
    BY <1>2, <2>1
  <2>3. ~(e < x)
    BY <1>2, <2>1
  <2> QED
    BY <1>2, <2>1, <2>2, <2>3
<1>4. nextReceiptSSEEvent(d, o, n) = {e}
  BY <1>3
<1>5. End(d, o, n) = e
  BY <1>4 DEF End
<1> QED
  BY <1>2, <1>4, <1>5

(* An event that is complete in n bytes is the next one in more bytes too. *)
LEMMA NextInMore ==
    ASSUME NEW d, NEW o \in Nat, NEW n \in Nat, NEW m \in Nat, n <= m,
           NEW e, e \in nextReceiptSSEEvent(d, o, n)
    PROVE  e \in nextReceiptSSEEvent(d, o, m)
<1> DEFINE E(x) == EndsEvent(d, o, x)
<1>1. e \in (o + 1)..n /\ E(e) /\ \A f \in (o + 1)..(e - 1) : ~E(f)
  BY DEF nextReceiptSSEEvent
<1>2. e \in (o + 1)..m
  BY <1>1
<1> QED
  BY <1>1, <1>2 DEF nextReceiptSSEEvent

(* The equation of the recursive function in EventEnds, from k on.         *)
Scans(d, n, k, f) ==
    /\ f \in [k..n -> Seq(Nat)]
    /\ \A o \in k..n :
          f[o] = IF nextReceiptSSEEvent(d, o, n) = {} THEN << >>
                 ELSE <<End(d, o, n)>> \o f[End(d, o, n)]

(* It has a solution: each offset needs only later ones.                   *)
LEMMA ScanExists ==
    ASSUME NEW d, NEW n \in Nat
    PROVE  \E f : Scans(d, n, 0, f)
<1> DEFINE T == {i \in Nat : i <= n => \E f : Scans(d, n, n - i, f)}
           Nx(o) == nextReceiptSSEEvent(d, o, n)
<1>1. 0 \in T
  <2>1. Nx(n) = {}
    <3>1. (n + 1)..n = {}
      OBVIOUS
    <3> QED
      BY <3>1 DEF nextReceiptSSEEvent
  <2> DEFINE f == [o \in n..n |-> << >>]
  <2>2. f \in [n..n -> Seq(Nat)]
    <3>1. << >> \in Seq(Nat)
      OBVIOUS
    <3> QED
      BY <3>1
  <2>3. \A o \in n..n : o = n /\ f[o] = << >>
    OBVIOUS
  <2> HIDE DEF f
  <2>4. n - 0 = n
    OBVIOUS
  <2>5. Scans(d, n, n, f)
    BY <2>1, <2>2, <2>3 DEF Scans
  <2> QED
    BY <2>4, <2>5
<1>2. ASSUME NEW i \in T PROVE i + 1 \in T
  <2> SUFFICES ASSUME i + 1 <= n PROVE \E f : Scans(d, n, n - (i + 1), f)
    OBVIOUS
  <2> DEFINE k == n - i
             h == k - 1
  <2>1. PICK f : Scans(d, n, k, f)
    OBVIOUS
  <2>2. k \in Nat /\ h \in Nat /\ k <= n /\ h = n - (i + 1) /\ k = h + 1
    OBVIOUS
  <2> HIDE DEF k, h
  <2> DEFINE val == IF Nx(h) = {} THEN << >> ELSE <<End(d, h, n)>> \o f[End(d, h, n)]
             g == [o \in h..n |-> IF o = h THEN val ELSE f[o]]
  <2>3. f \in [k..n -> Seq(Nat)]
    BY <2>1 DEF Scans
  <2>4. ASSUME NEW o \in h..n, Nx(o) # {}
        PROVE  End(d, o, n) \in k..n /\ o \in Nat
    <3>1. o \in Nat
      BY <2>2
    <3>2. PICK e : e \in Nx(o)
      BY <2>4
    <3>3. e \in (o + 1)..n /\ End(d, o, n) = e
      BY <3>1, <3>2, NextIsOne
    <3> QED
      BY <2>2, <3>3
  <2>5. val \in Seq(Nat)
    <3>1. CASE Nx(h) = {}
      BY <3>1
    <3>2. CASE Nx(h) # {}
      <4>1. h \in h..n
        BY <2>2
      <4>2. End(d, h, n) \in k..n
        BY <2>4, <3>2, <4>1
      <4>3. f[End(d, h, n)] \in Seq(Nat) /\ <<End(d, h, n)>> \in Seq(Nat)
        BY <4>2, <2>2, <2>3
      <4> QED
        BY <3>2, <4>3
    <3> QED
      BY <3>1, <3>2
  <2>6. h..n = {h} \cup (k..n) /\ h \notin k..n
    BY <2>2
  <2>7. g \in [h..n -> Seq(Nat)] /\ g[h] = val /\ \A o \in k..n : g[o] = f[o]
    <3> HIDE DEF val
    <3> QED
      BY <2>3, <2>5, <2>6
  <2> HIDE DEF g
  <2>8. ASSUME NEW o \in h..n
        PROVE  g[o] = IF Nx(o) = {} THEN << >> ELSE <<End(d, o, n)>> \o g[End(d, o, n)]
    <3>1. Nx(o) # {} => g[End(d, o, n)] = f[End(d, o, n)]
      BY <2>4, <2>7
    <3>2. CASE o = h
      BY <3>1, <3>2, <2>7
    <3>3. CASE o # h
      <4>1. o \in k..n
        BY <3>3, <2>6
      <4>2. f[o] = IF Nx(o) = {} THEN << >> ELSE <<End(d, o, n)>> \o f[End(d, o, n)]
        BY <2>1, <4>1 DEF Scans
      <4> QED
        BY <3>1, <4>1, <4>2, <2>7
    <3> QED
      BY <3>2, <3>3
  <2>9. Scans(d, n, h, g)
    BY <2>7, <2>8 DEF Scans
  <2> QED
    BY <2>2, <2>9
<1> HIDE DEF T
<1>3. T \subseteq Nat
  BY DEF T
<1>4. T = Nat
  BY <1>1, <1>2, <1>3, SetInduction
<1>5. n \in T /\ n - n = 0
  BY <1>4
<1> QED
  BY <1>5 DEF T

(* What EventEnds computes: no end when no event is complete, or the end   *)
(* of the next one and the ends after it.                                  *)
LEMMA EventEndsUnfold ==
    ASSUME NEW d, NEW n \in Nat, NEW o \in 0..n
    PROVE  /\ EventEnds(d, o, n) \in Seq(Nat)
           /\ nextReceiptSSEEvent(d, o, n) = {} => EventEnds(d, o, n) = << >>
           /\ \A e \in nextReceiptSSEEvent(d, o, n) :
                 /\ e \in (o + 1)..n
                 /\ EventEnds(d, o, n) = <<e>> \o EventEnds(d, e, n)
<1> DEFINE Nx(x) == nextReceiptSSEEvent(d, x, n)
           Eq(f) == f = [x \in 0..n |-> IF Nx(x) = {} THEN << >>
                                         ELSE <<End(d, x, n)>> \o f[End(d, x, n)]]
           from == CHOOSE f : Eq(f)
<1>1. PICK f : Scans(d, n, 0, f)
  BY ScanExists
<1>2. Eq(f)
  BY <1>1 DEF Scans
<1>3. Eq(from)
  <2> HIDE DEF Eq
  <2> QED
    BY <1>2
<1>4. \A x : EventEnds(d, x, n) = from[x]
  BY DEF EventEnds, End
<1>5. \A x \in 0..n : from[x] = IF Nx(x) = {} THEN << >>
                               ELSE <<End(d, x, n)>> \o from[End(d, x, n)]
  <2> HIDE DEF from
  <2> QED
    BY <1>3
<1> HIDE DEF from
<1>6. ASSUME NEW x \in 0..n, NEW e \in Nx(x)
      PROVE  e \in (x + 1)..n /\ from[x] = <<e>> \o from[e]
  <2>1. x \in Nat
    OBVIOUS
  <2>2. e \in (x + 1)..n /\ End(d, x, n) = e /\ Nx(x) # {}
    BY <2>1, NextIsOne
  <2> QED
    BY <2>2, <1>5
<1>7. from[o] \in Seq(Nat)
  <2>1. ASSUME NEW i \in 0..n, \A x \in (i + 1)..n : from[x] \in Seq(Nat)
        PROVE  from[i] \in Seq(Nat)
    <3>1. CASE Nx(i) = {}
      <4> HIDE DEF Nx
      <4>1. from[i] = << >>
        BY <1>5, <3>1, Zenon
      <4>2. << >> \in Seq(Nat)
        OBVIOUS
      <4> QED
        BY <4>1, <4>2, Zenon
    <3>2. CASE Nx(i) # {}
      <4>1. PICK e : e \in Nx(i)
        BY <3>2
      <4>2. e \in (i + 1)..n /\ from[i] = <<e>> \o from[e]
        BY <1>6, <4>1
      <4>3. from[e] \in Seq(Nat) /\ <<e>> \in Seq(Nat)
        BY <2>1, <4>2
      <4> QED
        BY <4>2, <4>3
    <3> QED
      BY <3>1, <3>2
  <2> DEFINE W == {i \in Nat : i <= n => \A x \in (n - i)..n : from[x] \in Seq(Nat)}
  <2>2. 0 \in W
    <3>1. \A x \in (n - 0)..n : x = n
      OBVIOUS
    <3>2. n \in 0..n /\ (n + 1)..n = {}
      OBVIOUS
    <3>3. from[n] \in Seq(Nat)
      BY <2>1, <3>2
    <3> QED
      BY <3>1, <3>3
  <2>3. ASSUME NEW i \in W PROVE i + 1 \in W
    <3> SUFFICES ASSUME i + 1 <= n, NEW x \in (n - (i + 1))..n PROVE from[x] \in Seq(Nat)
      OBVIOUS
    <3>1. \A y \in (n - i)..n : from[y] \in Seq(Nat)
      OBVIOUS
    <3>2. CASE x \in (n - i)..n
      BY <3>1, <3>2
    <3>3. CASE x \notin (n - i)..n
      <4>1. x = n - (i + 1) /\ x \in 0..n /\ x + 1 = n - i
        BY <3>3
      <4> QED
        BY <2>1, <3>1, <4>1
    <3> QED
      BY <3>2, <3>3
  <2> HIDE DEF W
  <2>4. W \subseteq Nat
    BY DEF W
  <2>5. W = Nat
    BY <2>2, <2>3, <2>4, SetInduction
  <2>6. n \in W /\ o \in (n - n)..n
    BY <2>5
  <2> QED
    BY <2>6 DEF W
<1> QED
  BY <1>4, <1>5, <1>6, <1>7
-----------------------------------------------------------------------------
(* What a scan of the bytes from o to n leaves: where the next one starts, *)
(* and the last receipt, r if it found none.                               *)
ScanStop(d, o, n) == resumeAt([size |-> n, scanned |-> o, receipt |-> "none"], EventEnds(d, o, n))
Hits(events) == {i \in DOMAIN events : embedded(events[i].payload) \notin {"none", "invalid"}}
ScanReceipt(d, o, n, r) ==
    LET events == Decoded(d, o, EventEnds(d, o, n))
    IN  IF Hits(events) = {} THEN r ELSE events[Max(Hits(events))].payload
(* The same of one event.                                                  *)
EventReceipt(raw, r) ==
    LET p == decodeReceiptSSEEvent(raw).payload
    IN  IF embedded(p) \in {"none", "invalid"} THEN r ELSE p

(* A scan that finds no complete event leaves all as it was; one that does *)
(* takes the event and goes on behind it.                                  *)
LEMMA ScanUnfold ==
    ASSUME NEW d, NEW n \in Nat, NEW o \in 0..n, NEW r
    PROVE  /\ nextReceiptSSEEvent(d, o, n) = {} =>
                 ScanStop(d, o, n) = o /\ ScanReceipt(d, o, n, r) = r
           /\ \A e \in nextReceiptSSEEvent(d, o, n) :
                 /\ e \in (o + 1)..n
                 /\ ScanStop(d, o, n) = ScanStop(d, e, n)
                 /\ ScanReceipt(d, o, n, r)
                      = ScanReceipt(d, e, n, EventReceipt(SubSeq(d, o + 1, e), r))
<1>1. CASE nextReceiptSSEEvent(d, o, n) = {}
  <2>1. EventEnds(d, o, n) = << >>
    BY <1>1, EventEndsUnfold
  <2>2. ScanStop(d, o, n) = o
    BY <2>1 DEF ScanStop, resumeAt
  <2> DEFINE ev == Decoded(d, o, << >>)
  <2>3. DOMAIN ev = {}
    BY DEF Decoded
  <2> HIDE DEF ev
  <2>4. Hits(ev) = {}
    BY <2>3 DEF Hits
  <2>5. ScanReceipt(d, o, n, r) = r
    BY <2>1, <2>4 DEF ScanReceipt, ev
  <2> QED
    BY <1>1, <2>2, <2>5
<1>2. ASSUME NEW e \in nextReceiptSSEEvent(d, o, n)
      PROVE  /\ e \in (o + 1)..n
             /\ ScanStop(d, o, n) = ScanStop(d, e, n)
             /\ ScanReceipt(d, o, n, r)
                  = ScanReceipt(d, e, n, EventReceipt(SubSeq(d, o + 1, e), r))
  <2> DEFINE S == EventEnds(d, o, n)
             R == EventEnds(d, e, n)
             m == Len(R)
  <2>1. e \in (o + 1)..n /\ S = <<e>> \o R
    BY EventEndsUnfold
  <2>2. e \in Nat /\ e \in 0..n
    BY <2>1
  <2>3. R \in Seq(Nat) /\ m \in Nat
    <3>1. R \in Seq(Nat)
      BY <2>2, EventEndsUnfold
    <3> HIDE DEF R
    <3> QED
      BY <3>1
  <2> HIDE DEF S, R
  <2>4. <<e>> \in Seq(Nat) /\ Len(<<e>>) = 1 /\ <<e>>[1] = e
    BY <2>2
  <2>5. S \in Seq(Nat) /\ Joins(S, <<e>>, R)
    BY <2>1, <2>3, <2>4, ConcatJoins
  <2>6. /\ Len(S) = m + 1 /\ DOMAIN S = 1..(m + 1) /\ DOMAIN R = 1..m
        /\ S[1] = e /\ \A i \in 1..m : S[i + 1] = R[i]
    <3>1. \A i \in 1..m : 1 + i = i + 1
      OBVIOUS
    <3> QED
      BY <2>3, <2>4, <2>5, <3>1 DEF Joins
  <2> HIDE DEF m
  <2>7. ScanStop(d, o, n) = ScanStop(d, e, n)
    <3>1. S # << >>
      BY <2>3, <2>6
    <3>2. ScanStop(d, o, n) = S[m + 1]
      BY <3>1, <2>6 DEF ScanStop, resumeAt, Last, S
    <3>3. CASE m = 0
      <4>1. R = << >>
        BY <2>3, <3>3 DEF m
      <4>2. ScanStop(d, e, n) = e
        BY <4>1 DEF ScanStop, resumeAt, R
      <4> QED
        BY <3>2, <3>3, <2>6, <4>2
    <3>4. CASE m # 0
      <4>1. R # << >>
        BY <2>3, <3>4 DEF m
      <4>2. ScanStop(d, e, n) = R[m]
        BY <4>1 DEF ScanStop, resumeAt, Last, R, m
      <4>3. m \in 1..m
        BY <2>3, <3>4
      <4> QED
        BY <3>2, <2>6, <4>2, <4>3
    <3> QED
      BY <3>3, <3>4
  <2> DEFINE raw == SubSeq(d, o + 1, e)
             ev == Decoded(d, o, S)
             fv == Decoded(d, e, R)
             H == Hits(ev)
             G == Hits(fv)
             Is(x) == embedded(x.payload) \notin {"none", "invalid"}
  <2>8. DOMAIN ev = 1..(m + 1) /\ DOMAIN fv = 1..m
    BY <2>6 DEF Decoded
  <2>9. ev[1] = decodeReceiptSSEEvent(raw)
    <3>1. 1 \in 1..(m + 1)
      BY <2>3
    <3> QED
      BY <2>6, <3>1 DEF Decoded
  <2>10. ASSUME NEW i \in 1..m PROVE ev[i + 1] = fv[i]
    <3>1. i + 1 \in 1..(m + 1) /\ i + 1 # 1 /\ (i + 1) - 1 = i
      BY <2>3
    <3>2. ev[i + 1] = decodeReceiptSSEEvent(SubSeq(d, S[i] + 1, S[i + 1]))
      BY <3>1, <2>6 DEF Decoded
    <3>3. fv[i] = decodeReceiptSSEEvent(SubSeq(d, (IF i = 1 THEN e ELSE R[i - 1]) + 1, R[i]))
      BY <2>6 DEF Decoded
    <3>4. S[i] = IF i = 1 THEN e ELSE R[i - 1]
      <4>1. CASE i = 1
        BY <4>1, <2>6
      <4>2. CASE i # 1
        <5>1. i - 1 \in 1..m /\ (i - 1) + 1 = i
          BY <4>2, <2>3
        <5>2. S[(i - 1) + 1] = R[i - 1]
          BY <5>1, <2>6
        <5> QED
          BY <4>2, <5>1, <5>2
      <4> QED
        BY <4>1, <4>2
    <3> QED
      BY <3>2, <3>3, <3>4, <2>6
  <2> HIDE DEF ev, fv, raw
  <2>11. H = {i \in 1..(m + 1) : Is(ev[i])} /\ G = {i \in 1..m : Is(fv[i])}
    BY <2>8 DEF Hits
  <2> HIDE DEF H, G, Is
  <2>12. ScanReceipt(d, o, n, r) = IF H = {} THEN r ELSE ev[Max(H)].payload
    BY DEF ScanReceipt, H, ev, S
  <2> DEFINE q == EventReceipt(raw, r)
  <2>13. ScanReceipt(d, e, n, q) = IF G = {} THEN q ELSE fv[Max(G)].payload
    BY DEF ScanReceipt, G, fv, R
  <2>14. q = IF Is(ev[1]) THEN ev[1].payload ELSE r
    BY <2>9 DEF EventReceipt, Is
  <2> HIDE DEF q
  <2>15. CASE G = {}
    <3>1. \A i \in H : i = 1
      <4> SUFFICES ASSUME NEW i \in H, i # 1 PROVE FALSE
        OBVIOUS
      <4>1. i \in 1..(m + 1) /\ Is(ev[i])
        BY <2>11
      <4>2. i - 1 \in 1..m /\ (i - 1) + 1 = i
        BY <4>1, <2>3
      <4>3. ev[i] = fv[i - 1]
        BY <4>2, <2>10
      <4> QED
        BY <4>1, <4>2, <4>3, <2>11, <2>15
    <3>2. CASE Is(ev[1])
      <4>1. 1 \in 1..(m + 1)
        BY <2>3
      <4>2. H = {1}
        BY <3>1, <3>2, <4>1, <2>11
      <4>3. Max(H) = 1
        BY <4>2, MaxIs
      <4> QED
        BY <2>1, <2>7, <2>12, <2>13, <2>14, <2>15, <3>2, <4>2, <4>3 DEF q, raw
    <3>3. CASE ~Is(ev[1])
      <4>1. H = {}
        BY <3>1, <3>3, <2>11
      <4> QED
        BY <2>1, <2>7, <2>12, <2>13, <2>14, <2>15, <3>3, <4>1 DEF q, raw
    <3> QED
      BY <3>2, <3>3
  <2>16. CASE G # {}
    <3>1. G \subseteq 0..m
      BY <2>11
    <3>2. Max(G) \in G /\ \A y \in G : Max(G) >= y
      BY <2>3, <2>16, <3>1, MaxIsGreatest
    <3> DEFINE g == Max(G)
    <3>3. g \in 1..m /\ Is(fv[g])
      BY <3>2, <2>11
    <3> HIDE DEF g
    <3>4. g + 1 \in 1..(m + 1) /\ ev[g + 1] = fv[g]
      BY <3>3, <2>3, <2>10
    <3>5. g + 1 \in H
      BY <3>3, <3>4, <2>11
    <3>6. ASSUME NEW y \in H PROVE g + 1 >= y
      <4>1. y \in 1..(m + 1) /\ Is(ev[y])
        BY <2>11
      <4>2. CASE y = 1
        BY <4>2, <3>3
      <4>3. CASE y # 1
        <5>1. y - 1 \in 1..m /\ (y - 1) + 1 = y
          BY <4>1, <4>3, <2>3
        <5>2. y - 1 \in G
          BY <5>1, <4>1, <2>10, <2>11
        <5>3. g >= y - 1
          BY <5>2, <3>2 DEF g
        <5> QED
          BY <5>1, <5>3, <3>3
      <4> QED
        BY <4>2, <4>3
    <3>7. H \subseteq Int
      BY <2>11
    <3>8. Max(H) = g + 1
      BY <3>5, <3>6, <3>7, MaxIs
    <3>9. ScanReceipt(d, o, n, r) = ScanReceipt(d, e, n, q)
      BY <3>4, <3>5, <3>8, <2>12, <2>13, <2>16 DEF g
    <3> QED
      BY <3>9, <2>1, <2>7 DEF q, raw
  <2> QED
    BY <2>15, <2>16
<1> QED
  BY <1>1, <1>2

(* Two scans, the second from where the first stopped, are one.            *)
LEMMA ScanTwice ==
    ASSUME NEW d, NEW n \in Nat, NEW m \in Nat, n <= m, NEW o \in 0..n, NEW r
    PROVE  LET s == ScanStop(d, o, n)
           IN  /\ s \in o..n
               /\ ScanStop(d, o, m) = ScanStop(d, s, m)
               /\ ScanReceipt(d, o, m, r) = ScanReceipt(d, s, m, ScanReceipt(d, o, n, r))
<1> DEFINE P(x, q) ==
               /\ ScanStop(d, x, n) \in x..n
               /\ ScanStop(d, x, m) = ScanStop(d, ScanStop(d, x, n), m)
               /\ ScanReceipt(d, x, m, q)
                    = ScanReceipt(d, ScanStop(d, x, n), m, ScanReceipt(d, x, n, q))
           W == {i \in Nat : i <= n => \A x \in (n - i)..n : \A q : P(x, q)}
<1>1. ASSUME NEW x \in 0..n, \A y \in (x + 1)..n : \A q : P(y, q), NEW q
      PROVE  P(x, q)
  <2>1. x \in 0..m /\ x \in Nat /\ x \in x..n
    OBVIOUS
  <2>2. CASE nextReceiptSSEEvent(d, x, n) = {}
    <3>1. ScanStop(d, x, n) = x /\ ScanReceipt(d, x, n, q) = q
      BY <2>2, ScanUnfold
    <3> QED
      BY <2>1, <3>1
  <2>3. CASE nextReceiptSSEEvent(d, x, n) # {}
    <3>1. PICK e : e \in nextReceiptSSEEvent(d, x, n)
      BY <2>3
    <3>2. e \in nextReceiptSSEEvent(d, x, m)
      BY <2>1, <3>1, NextInMore
    <3> DEFINE p == EventReceipt(SubSeq(d, x + 1, e), q)
    <3>3. /\ e \in (x + 1)..n /\ ScanStop(d, x, n) = ScanStop(d, e, n)
          /\ ScanReceipt(d, x, n, q) = ScanReceipt(d, e, n, p)
      BY <3>1, ScanUnfold
    <3>4. /\ ScanStop(d, x, m) = ScanStop(d, e, m)
          /\ ScanReceipt(d, x, m, q) = ScanReceipt(d, e, m, p)
      BY <2>1, <3>2, ScanUnfold
    <3> HIDE DEF p
    <3>5. P(e, p)
      BY <1>1, <3>3
    <3>6. ScanStop(d, e, n) \in x..n
      BY <3>3, <3>5
    <3> QED
      BY <3>3, <3>4, <3>5, <3>6
  <2> QED
    BY <2>2, <2>3
<1> HIDE DEF P
<1>2. 0 \in W
  <2>1. \A x \in (n - 0)..n : x = n
    OBVIOUS
  <2>2. n \in 0..n /\ (n + 1)..n = {}
    OBVIOUS
  <2>3. \A q : P(n, q)
    BY <1>1, <2>2
  <2> QED
    BY <2>1, <2>3
<1>3. ASSUME NEW i \in W PROVE i + 1 \in W
  <2> SUFFICES ASSUME i + 1 <= n, NEW x \in (n - (i + 1))..n PROVE \A q : P(x, q)
    OBVIOUS
  <2>1. \A y \in (n - i)..n : \A q : P(y, q)
    OBVIOUS
  <2>2. CASE x \in (n - i)..n
    BY <2>1, <2>2
  <2>3. CASE x \notin (n - i)..n
    <3>1. x = n - (i + 1) /\ x \in 0..n /\ x + 1 = n - i
      BY <2>3
    <3> QED
      BY <1>1, <2>1, <3>1
  <2> QED
    BY <2>2, <2>3
<1> HIDE DEF W
<1>4. W \subseteq Nat
  BY DEF W
<1>5. W = Nat
  BY <1>2, <1>3, <1>4, SetInduction
<1>6. n \in W /\ o \in (n - n)..n
  BY <1>5
<1>7. P(o, r)
  BY <1>6 DEF W
<1> QED
  BY <1>7 DEF P

(* What reading up to n leaves in a capture that is up to date.            *)
LEMMA CaptureReadIs ==
    ASSUME NEW d, NEW c, NEW n,
           c = [size |-> c.size, scanned |-> c.scanned, receipt |-> c.receipt], n # c.size
    PROVE  CaptureRead(d, c, n)
             = [size |-> n, scanned |-> ScanStop(d, c.scanned, n),
                receipt |-> ScanReceipt(d, c.scanned, n, c.receipt)]
<1> DEFINE b == [c EXCEPT !.size = n]
<1>1. b.size = n /\ b.scanned = c.scanned /\ b.receipt = c.receipt
  OBVIOUS
<1> HIDE DEF b
<1>2. resumeAt(b, EventEnds(d, c.scanned, n)) = ScanStop(d, c.scanned, n)
  BY <1>1 DEF ScanStop, resumeAt
<1>3. CaptureRead(d, c, n) = refreshReceipt(d, b)
  BY DEF CaptureRead, b
<1> QED
  BY <1>1, <1>2, <1>3 DEF refreshReceipt, ScanReceipt, Hits

-----------------------------------------------------------------------------
(* Without, of a sequence and of all its prefixes: y[i] is what is left of *)
(* the first i entries of ev.                                              *)
Filters(S, ev, n, x, y) ==
    /\ y \in [0..n -> Seq(S)] /\ y[0] = << >>
    /\ \A i \in 1..n : y[i] = IF ev[i] = x THEN y[i - 1] ELSE Append(y[i - 1], ev[i])

(* The first k entries.                                                    *)
Firsts(ev, k) == [i \in 1..k |-> ev[i]]

(* So y is what is left of each prefix.                                    *)
LeftOf(ev, n, x, y) == \A k \in 0..n : Without(Firsts(ev, k), x) = y[k]

(* There is such a y.                                                      *)
LEMMA WithoutPrefixes ==
    ASSUME NEW S, NEW n \in Nat, NEW ev \in [1..n -> S], NEW x
    PROVE  \E y : Filters(S, ev, n, x, y) /\ LeftOf(ev, n, x, y)
<1> DEFINE step == [p \in (1..n) \X Seq(S) |->
                       IF ev[p[1]] = x THEN p[2] ELSE Append(p[2], ev[p[1]])]
<1>1. ASSUME NEW i \in 1..n, NEW v \in Seq(S)
      PROVE  step[<<i, v>>] = (IF ev[i] = x THEN v ELSE Append(v, ev[i])) /\ step[<<i, v>>] \in Seq(S)
  <2>1. <<i, v>> \in (1..n) \X Seq(S) /\ ev[i] \in S
    OBVIOUS
  <2>2. step[<<i, v>>] = IF ev[i] = x THEN v ELSE Append(v, ev[i])
    BY <2>1
  <2>3. Append(v, ev[i]) \in Seq(S)
    BY <2>1
  <2> QED
    BY <2>2, <2>3
<1> HIDE DEF step
<1>2. << >> \in Seq(S) /\ StepsWithin(n, Seq(S), step)
  BY <1>1 DEF StepsWithin
<1>3. PICK y : Iterates(n, Seq(S), << >>, step, y)
  BY <1>2, IterationExists
<1>4. Filters(S, ev, n, x, y)
  <2>1. y \in [0..n -> Seq(S)] /\ y[0] = << >> /\ \A i \in 1..n : y[i] = step[<<i, y[i - 1]>>]
    BY <1>3 DEF Iterates
  <2>2. ASSUME NEW i \in 1..n
        PROVE  y[i] = IF ev[i] = x THEN y[i - 1] ELSE Append(y[i - 1], ev[i])
    <3>1. i - 1 \in 0..n
      OBVIOUS
    <3>2. y[i - 1] \in Seq(S)
      BY <2>1, <3>1
    <3> QED
      BY <1>1, <2>1, <3>2
  <2> QED
    BY <2>1, <2>2 DEF Filters
<1>5. ASSUME NEW k \in 0..n PROVE Without(Firsts(ev, k), x) = y[k]
  <2> DEFINE t == [i \in 1..k |-> ev[i]]
             Eq(h) == h = [i \in 0..k |->
                              IF i = 0 THEN << >>
                              ELSE IF t[i] = x THEN h[i - 1] ELSE Append(h[i - 1], t[i])]
             g == [i \in 0..k |-> y[i]]
  <2>1. k \in Nat /\ \A i \in 1..k : t[i] = ev[i] /\ i \in 1..n
    OBVIOUS
  <2>2. Len(t) = k
    <3>1. t \in [1..k -> S] /\ k \in Nat
      OBVIOUS
    <3> HIDE DEF t
    <3>2. t \in Seq(S)
      BY <3>1, IsASeq
    <3> QED
      BY <3>1, <3>2
  <2> HIDE DEF t
  <2>3. Eq(g)
    <3>1. ASSUME NEW i \in 0..k
          PROVE  y[i] = IF i = 0 THEN << >>
                        ELSE IF t[i] = x THEN g[i - 1] ELSE Append(g[i - 1], t[i])
      <4>1. CASE i = 0
        BY <4>1, <1>4 DEF Filters
      <4>2. CASE i # 0
        <5>1. i \in 1..k /\ i \in 1..n /\ i - 1 \in 0..k
          BY <4>2
        <5>2. g[i - 1] = y[i - 1] /\ t[i] = ev[i]
          BY <5>1, <2>1
        <5>3. y[i] = IF ev[i] = x THEN y[i - 1] ELSE Append(y[i - 1], ev[i])
          BY <5>1, <1>4 DEF Filters
        <5> HIDE DEF g
        <5> QED
          BY <4>2, <5>2, <5>3
      <4> QED
        BY <4>1, <4>2
    <3> QED
      BY <3>1
  <2> DEFINE h == CHOOSE f : Eq(f)
  <2>4. Eq(h)
    <3> HIDE DEF Eq
    <3> QED
      BY <2>3
  <2>5. Without(t, x) = h[k]
    BY <2>2 DEF Without
  <2> HIDE DEF h, g
  <2>6. \A i \in 0..k : h[i] = IF i = 0 THEN << >>
                               ELSE IF t[i] = x THEN h[i - 1] ELSE Append(h[i - 1], t[i])
    BY <2>4
  <2> DEFINE T == {i \in 0..k : h[i] = y[i]}
  <2>7. 0 \in T
    BY <2>1, <2>6, <1>4 DEF Filters
  <2>8. ASSUME NEW i \in 1..k, i - 1 \in T PROVE i \in T
    <3>1. i \in 0..k /\ i # 0 /\ i \in 1..n /\ t[i] = ev[i] /\ h[i - 1] = y[i - 1]
      BY <2>1, <2>8
    <3>2. h[i] = IF t[i] = x THEN h[i - 1] ELSE Append(h[i - 1], t[i])
      BY <2>6, <3>1
    <3>3. y[i] = IF ev[i] = x THEN y[i - 1] ELSE Append(y[i - 1], ev[i])
      BY <3>1, <1>4 DEF Filters
    <3> QED
      BY <3>1, <3>2, <3>3
  <2> HIDE DEF T
  <2>9. 0..k \subseteq T
    BY <2>1, <2>7, <2>8, IndexInduction
  <2>10. k \in T
    BY <2>1, <2>9
  <2> QED
    BY <2>5, <2>10 DEF T, t, Firsts
<1> QED
  BY <1>4, <1>5 DEF LeftOf

(* What is left of a prefix is a prefix of what is left.                   *)
LEMMA FiltersPrefix ==
    ASSUME NEW S, NEW n \in Nat, NEW ev, NEW x, NEW y, Filters(S, ev, n, x, y),
           \A i \in 1..n : ev[i] \in S, NEW k \in 0..n
    PROVE  \A l \in k..n : IsPrefix(y[k], y[l])
<1> DEFINE Pre(a, b) == Len(a) <= Len(b) /\ \A i \in 1..Len(a) : a[i] = b[i]
           T == {l \in 0..n : l >= k => Pre(y[k], y[l])}
<1>1. \A i \in 0..n : y[i] \in Seq(S)
  BY DEF Filters
<1>2. 0 \in T
  <2>1. 0 >= k => k = 0
    OBVIOUS
  <2>2. y[0] \in Seq(S) /\ 0 \in 0..n
    BY <1>1
  <2>3. Pre(y[0], y[0])
    BY <2>2
  <2> QED
    BY <2>1, <2>2, <2>3
<1>3. ASSUME NEW l \in 1..n, l - 1 \in T PROVE l \in T
  <2> SUFFICES ASSUME l >= k PROVE Pre(y[k], y[l])
    BY <1>3
  <2>1. y[k] \in Seq(S) /\ y[l] \in Seq(S) /\ y[l - 1] \in Seq(S)
    <3>1. l \in 0..n /\ l - 1 \in 0..n
      OBVIOUS
    <3> QED
      BY <1>1, <3>1
  <2>2. CASE l = k
    BY <2>1, <2>2
  <2>3. CASE l # k
    <3>1. Pre(y[k], y[l - 1])
      <4>1. l - 1 >= k
        BY <2>3
      <4> QED
        BY <1>3, <4>1
    <3>2. y[l] = IF ev[l] = x THEN y[l - 1] ELSE Append(y[l - 1], ev[l])
      BY DEF Filters
    <3>3. CASE ev[l] = x
      BY <3>1, <3>2, <3>3
    <3>4. CASE ev[l] # x
      <4> DEFINE a == y[k]
                 b == y[l - 1]
                 e == ev[l]
      <4>1. y[l] = Append(b, e) /\ e \in S /\ a \in Seq(S) /\ b \in Seq(S)
        BY <3>2, <3>4, <2>1
      <4>2. Pre(a, b)
        BY <3>1
      <4> HIDE DEF a, b, e
      <4>3. Pre(a, Append(b, e))
        BY <4>1, <4>2
      <4> QED
        BY <4>1, <4>3 DEF a
    <3> QED
      BY <3>3, <3>4
  <2> QED
    BY <2>2, <2>3
<1> HIDE DEF T
<1>4. 0..n \subseteq T
  BY <1>2, <1>3, IndexInduction
<1> SUFFICES ASSUME NEW l \in k..n PROVE IsPrefix(y[k], y[l])
  OBVIOUS
<1>5. l \in T /\ l >= k /\ l \in 0..n
  BY <1>4
<1> DEFINE a == y[k]
           b == y[l]
<1>6. Pre(a, b) /\ a \in Seq(S) /\ b \in Seq(S)
  BY <1>1, <1>5 DEF T
<1> HIDE DEF a, b
<1>7. Len(a) <= Len(b) /\ SubSeq(a, 1, Len(a)) = SubSeq(b, 1, Len(a))
  <2> DEFINE c == SubSeq(a, 1, Len(a))
             d == SubSeq(b, 1, Len(a))
  <2>1. c \in Seq(S) /\ d \in Seq(S) /\ Len(c) = Len(a) /\ Len(d) = Len(a)
    BY <1>6
  <2>2. \A i \in 1..Len(a) : c[i] = a[i] /\ d[i] = b[i]
    BY <1>6
  <2> HIDE DEF c, d
  <2>3. c = d
    BY <1>6, <2>1, <2>2, SeqEqual
  <2> QED
    BY <1>6, <2>3 DEF c, d
<1> QED
  BY <1>7 DEF IsPrefix, a, b

-----------------------------------------------------------------------------
(* Frames on the wire.                                                     *)

Tokens == Lines \cup {CR, LF}
EndingNames == {"lf", "crlf", "mixed"}

(* Where line j + 1 of a frame that starts after p starts, and where a     *)
(* blank line after q ends.                                                *)
LineStart(ending, p, j) == p + (IF ending = "crlf" THEN 3 * j ELSE 2 * j)
BlankEnd(ending, q) == q + (IF ending = "lf" THEN 1 ELSE 2)

(* Between q and e there is a line with text t, a blank line.              *)
TextLine(d, q, e, t) ==
    e >= q + 2 /\ d[q + 1] = t /\ d[e] = LF /\ \A x \in (q + 2)..(e - 1) : d[x] = CR
BlankLine(d, q, e) ==
    e >= q + 1 /\ d[e] = LF /\ \A x \in (q + 1)..(e - 1) : d[x] = CR

(* After p there is this frame.                                            *)
Framed(d, p, f, ending) ==
    /\ \A j \in 1..Len(f) : TextLine(d, LineStart(ending, p, j - 1), LineStart(ending, p, j), f[j])
    /\ BlankLine(d, LineStart(ending, p, Len(f)), BlankEnd(ending, LineStart(ending, p, Len(f))))

(* The first n frames of a script, frame k from b[k - 1] to b[k].          *)
Layout(d, sc, n, ending, b) ==
    /\ d \in Seq(Tokens) /\ b \in [0..n -> Nat] /\ b[0] = 0 /\ b[n] = Len(d)
    /\ \A k \in 1..n : /\ sc[k] \in Seq(Lines) /\ sc[k] # << >>
                       /\ b[k] = BlankEnd(ending, LineStart(ending, b[k - 1], Len(sc[k])))
                       /\ Framed(d, b[k - 1], sc[k], ending)

(* A line's text is neither CR nor LF.                                     *)
LEMMA LinesAreTexts == CR \notin Lines /\ LF \notin Lines /\ CR # LF
BY DEF Lines, DataLines, NameLines, OtherLines, CR, LF

(* Lines follow each other.                                                *)
LEMMA StartFacts ==
    ASSUME NEW ending \in EndingNames, NEW p \in Nat, NEW j \in Nat
    PROVE  /\ LineStart(ending, p, j) \in Nat /\ LineStart(ending, p, j) = p + LineStart(ending, 0, j)
           /\ LineStart(ending, p, 0) = p /\ LineStart(ending, p, j) >= p
           /\ LineStart(ending, p, j + 1) = LineStart(ending, p, j) + 1 + Len(Eol(ending))
           /\ BlankEnd(ending, p) \in Nat /\ BlankEnd(ending, p) = p + Len(Blank(ending))
           /\ Eol(ending) \in {<<LF>>, <<CR, LF>>} /\ Blank(ending) \in {<<LF>>, <<CR, LF>>}
BY DEF LineStart, BlankEnd, Eol, Blank, EndingNames

(* The last line of m starts where those before it end.                    *)
LEMMA LineFollows ==
    ASSUME NEW ending \in EndingNames, NEW p \in Nat, NEW m \in Nat, m >= 1
    PROVE  /\ LineStart(ending, p, m - 1) \in Nat
           /\ LineStart(ending, p, m) = LineStart(ending, p, m - 1) + 1 + Len(Eol(ending))
BY DEF LineStart, Eol, EndingNames

(* Their starts are ordered.                                               *)
LEMMA StartOrder ==
    ASSUME NEW ending \in EndingNames, NEW p \in Nat, NEW i \in Nat, NEW j \in Nat, i < j
    PROVE  LineStart(ending, p, i) + 2 <= LineStart(ending, p, j)
BY DEF LineStart, EndingNames

(* What an end of line is.                                                 *)
EndsLine(u) == u \in {<<LF>>, <<CR, LF>>}

(* CRs and an LF.                                                          *)
LEMMA EolFacts ==
    ASSUME NEW u, EndsLine(u)
    PROVE  /\ u \in Seq(Tokens) /\ Len(u) \in 1..2 /\ u[Len(u)] = LF
           /\ \A x \in 1..(Len(u) - 1) : u[x] = CR
<1>1. CASE u = <<LF>>
  <2>1. LF \in Tokens /\ Len(<<LF>>) = 1 /\ <<LF>>[1] = LF /\ 1..(1 - 1) = {}
    BY DEF Tokens
  <2> QED
    BY <1>1, <2>1
<1>2. CASE u = <<CR, LF>>
  <2>1. LF \in Tokens /\ CR \in Tokens
    BY DEF Tokens
  <2>2. Len(u) = 2 /\ u[1] = CR /\ u[2] = LF /\ \A x \in 1..(2 - 1) : x = 1
    BY <1>2
  <2>3. u \in Seq(Tokens)
    BY <1>2, <2>1
  <2> QED
    BY <2>2, <2>3
<1> QED
  BY <1>1, <1>2 DEF EndsLine

(* From p on, d holds u.                                                   *)
Holds(d, p, u) == \A x \in 1..Len(u) : d[p + x] = u[x]

(* A line of u is a line of what holds u.                                  *)
LEMMA TextLineMoves ==
    ASSUME NEW d, NEW p \in Nat, NEW u \in Seq(Tokens), Holds(d, p, u),
           NEW q \in Nat, NEW e \in Nat, e <= Len(u), NEW t, TextLine(u, q, e, t)
    PROVE  TextLine(d, p + q, p + e, t)
<1>1. Len(u) \in Nat /\ e >= q + 2 /\ u[q + 1] = t /\ u[e] = LF
  BY DEF TextLine
<1>2. q + 1 \in 1..Len(u) /\ e \in 1..Len(u) /\ p + e >= p + q + 2
  BY <1>1
<1>3. d[p + (q + 1)] = t /\ d[p + e] = LF
  BY <1>1, <1>2 DEF Holds
<1>4. p + (q + 1) = p + q + 1
  OBVIOUS
<1>5. ASSUME NEW x \in (p + q + 2)..(p + e - 1) PROVE d[x] = CR
  <2> DEFINE z == x - p
  <2>1. z \in (q + 2)..(e - 1) /\ z \in 1..Len(u) /\ p + z = x
    BY <1>1
  <2> HIDE DEF z
  <2>2. u[z] = CR
    BY <2>1 DEF TextLine
  <2> QED
    BY <2>1, <2>2 DEF Holds
<1> QED
  BY <1>2, <1>3, <1>4, <1>5 DEF TextLine

(* The same of a blank line.                                               *)
LEMMA BlankLineMoves ==
    ASSUME NEW d, NEW p \in Nat, NEW u \in Seq(Tokens), Holds(d, p, u),
           NEW q \in Nat, NEW e \in Nat, e <= Len(u), BlankLine(u, q, e)
    PROVE  BlankLine(d, p + q, p + e)
<1>1. Len(u) \in Nat /\ e >= q + 1 /\ u[e] = LF
  BY DEF BlankLine
<1>2. e \in 1..Len(u) /\ p + e >= p + q + 1
  BY <1>1
<1>3. d[p + e] = LF
  BY <1>1, <1>2 DEF Holds
<1>4. ASSUME NEW x \in (p + q + 1)..(p + e - 1) PROVE d[x] = CR
  <2> DEFINE z == x - p
  <2>1. z \in (q + 1)..(e - 1) /\ z \in 1..Len(u) /\ p + z = x
    BY <1>1
  <2> HIDE DEF z
  <2>2. u[z] = CR
    BY <2>1 DEF BlankLine
  <2> QED
    BY <2>1, <2>2 DEF Holds
<1> QED
  BY <1>2, <1>3, <1>4 DEF BlankLine

(* An ended line: its text, then its end.                                  *)
LEMMA TextLineIs ==
    ASSUME NEW d, NEW q \in Nat, NEW t, NEW u, EndsLine(u), d[q + 1] = t, Holds(d, q + 1, u)
    PROVE  TextLine(d, q, q + 1 + Len(u), t)
<1> DEFINE e == q + 1 + Len(u)
<1>1. Len(u) \in 1..2 /\ u[Len(u)] = LF /\ \A x \in 1..(Len(u) - 1) : u[x] = CR
  BY EolFacts
<1>2. e >= q + 2 /\ d[e] = LF
  <2> DEFINE l == Len(u)
  <2>1. Len(u) \in 1..Len(u) /\ e >= q + 2 /\ e = (q + 1) + Len(u)
    <3>1. l \in 1..2
      BY <1>1
    <3> HIDE DEF l
    <3>2. l \in 1..l /\ q + l >= q + 1 /\ q + 1 + l >= q + 2
      BY <3>1
    <3> QED
      BY <3>2 DEF l
  <2> QED
    BY <1>1, <2>1 DEF Holds
<1>3. ASSUME NEW x \in (q + 2)..(e - 1) PROVE d[x] = CR
  <2> DEFINE z == x - (q + 1)
  <2>1. z \in 1..(Len(u) - 1) /\ z \in 1..Len(u) /\ (q + 1) + z = x
    BY <1>1
  <2> HIDE DEF z
  <2> QED
    BY <1>1, <2>1 DEF Holds
<1> QED
  BY <1>2, <1>3 DEF TextLine

(* A blank line is an end of line.                                         *)
LEMMA BlankLineIs ==
    ASSUME NEW d, NEW q \in Nat, NEW u, EndsLine(u), Holds(d, q, u)
    PROVE  BlankLine(d, q, q + Len(u))
<1> DEFINE e == q + Len(u)
<1>1. Len(u) \in 1..2 /\ u[Len(u)] = LF /\ \A x \in 1..(Len(u) - 1) : u[x] = CR
  BY EolFacts
<1>2. e >= q + 1 /\ d[e] = LF
  <2> DEFINE l == Len(u)
  <2>1. Len(u) \in 1..Len(u) /\ e >= q + 1
    <3>1. l \in 1..2
      BY <1>1
    <3> HIDE DEF l
    <3>2. l \in 1..l /\ q + l >= q + 1 /\ q + 1 + l >= q + 2
      BY <3>1
    <3> QED
      BY <3>2 DEF l
  <2> QED
    BY <1>1, <2>1 DEF Holds
<1>3. ASSUME NEW x \in (q + 1)..(e - 1) PROVE d[x] = CR
  <2> DEFINE z == x - q
  <2>1. z \in 1..(Len(u) - 1) /\ z \in 1..Len(u) /\ q + z = x
    BY <1>1
  <2> HIDE DEF z
  <2> QED
    BY <1>1, <2>1 DEF Holds
<1> QED
  BY <1>2, <1>3 DEF BlankLine

(* The first i lines of a frame, the last without its end.                 *)
LinesUpTo(u, f, i, ending) ==
    /\ u \in Seq(Tokens) /\ Len(u) = LineStart(ending, 0, i - 1) + 1 /\ u[Len(u)] = f[i]
    /\ \A j \in 1..(i - 1) : TextLine(u, LineStart(ending, 0, j - 1), LineStart(ending, 0, j), f[j])

(* One more line.                                                          *)
LEMMA LineJoins ==
    ASSUME NEW ending \in EndingNames, NEW f \in Seq(Lines), NEW i \in 1..Len(f), i # 1,
           NEW u, LinesUpTo(u, f, i - 1, ending)
    PROVE  LinesUpTo((u \o Eol(ending)) \o <<f[i]>>, f, i, ending)
<1> DEFINE E == Eol(ending)
           v == u \o E
           w == v \o <<f[i]>>
           s == LineStart(ending, 0, i - 2)
<1>1. /\ u \in Seq(Tokens) /\ Len(u) = LineStart(ending, 0, (i - 1) - 1) + 1
      /\ u[Len(u)] = f[i - 1]
      /\ \A j \in 1..((i - 1) - 1) : TextLine(u, LineStart(ending, 0, j - 1), LineStart(ending, 0, j), f[j])
  BY DEF LinesUpTo
<1>2. (i - 1) - 1 = i - 2 /\ i - 2 \in Nat /\ i - 1 = (i - 2) + 1 /\ i \in Nat
  OBVIOUS
<1>3. EndsLine(E) /\ s \in Nat /\ LineStart(ending, 0, i - 1) = s + 1 + Len(E)
  <2> DEFINE a == i - 2
  <2>1. 0 \in Nat /\ a \in Nat /\ i - 1 = a + 1
    BY <1>2
  <2> HIDE DEF a
  <2>2. /\ LineStart(ending, 0, a) \in Nat
        /\ LineStart(ending, 0, a + 1) = LineStart(ending, 0, a) + 1 + Len(Eol(ending))
        /\ Eol(ending) \in {<<LF>>, <<CR, LF>>}
    BY <2>1, StartFacts
  <2> QED
    BY <2>1, <2>2 DEF EndsLine, a
<1>4. E \in Seq(Tokens) /\ Len(E) \in 1..2
  BY <1>3, EolFacts
<1>5. <<f[i]>> \in Seq(Tokens) /\ Len(<<f[i]>>) = 1 /\ <<f[i]>>[1] = f[i]
  BY DEF Tokens
<1> HIDE DEF E, s
<1>6. v \in Seq(Tokens) /\ Joins(v, u, E)
  BY <1>1, <1>4, ConcatJoins
<1> HIDE DEF v
<1>7. w \in Seq(Tokens) /\ Joins(w, v, <<f[i]>>)
  BY <1>5, <1>6, ConcatJoins
<1> HIDE DEF w
<1>8. Len(u) = s + 1 /\ Len(v) = s + 1 + Len(E) /\ Len(w) = s + 1 + Len(E) + 1
  BY <1>1, <1>2, <1>3, <1>4, <1>5, <1>6, <1>7 DEF Joins, s
<1>9. w[Len(w)] = f[i]
  <2>1. 1 \in 1..Len(<<f[i]>>)
    BY <1>5
  <2>2. w[Len(v) + 1] = <<f[i]>>[1]
    BY <2>1, <1>7 DEF Joins
  <2> QED
    BY <2>2, <1>5, <1>8
<1>10. Holds(w, 0, u)
  <2> SUFFICES ASSUME NEW x \in 1..Len(u) PROVE w[0 + x] = u[x]
    BY DEF Holds
  <2>1. x \in 1..Len(v) /\ 0 + x = x
    BY <1>3, <1>4, <1>8
  <2> QED
    BY <2>1, <1>6, <1>7 DEF Joins
<1>11. Holds(w, s + 1, E)
  <2> SUFFICES ASSUME NEW x \in 1..Len(E) PROVE w[(s + 1) + x] = E[x]
    BY DEF Holds
  <2>1. (s + 1) + x \in 1..Len(v) /\ (s + 1) + x = Len(u) + x
    BY <1>3, <1>4, <1>8
  <2>2. v[Len(u) + x] = E[x]
    BY <1>6 DEF Joins
  <2> QED
    BY <2>1, <2>2, <1>7 DEF Joins
<1>12. ASSUME NEW j \in 1..(i - 1)
       PROVE  TextLine(w, LineStart(ending, 0, j - 1), LineStart(ending, 0, j), f[j])
  <2>1. CASE j = i - 1
    <3>1. w[s + 1] = f[i - 1]
      <4>1. Len(u) \in 1..Len(u)
        BY <1>3, <1>8
      <4>2. w[0 + Len(u)] = u[Len(u)] /\ 0 + Len(u) = s + 1
        BY <4>1, <1>3, <1>8, <1>10 DEF Holds
      <4> QED
        BY <4>2, <1>1
    <3>2. TextLine(w, s, s + 1 + Len(E), f[i - 1])
      BY <3>1, <1>3, <1>11, TextLineIs
    <3>3. LineStart(ending, 0, j - 1) = s
      BY <2>1, <1>2 DEF s
    <3> QED
      BY <2>1, <3>2, <3>3, <1>3
  <2>2. CASE j # i - 1
    <3> DEFINE q == LineStart(ending, 0, j - 1)
               e == LineStart(ending, 0, j)
    <3>1. j \in 1..((i - 1) - 1) /\ j \in Nat /\ j - 1 \in Nat
      BY <2>2
    <3>2. TextLine(u, q, e, f[j])
      BY <1>1, <3>1
    <3>3. q \in Nat /\ e \in Nat
      BY <3>1, StartFacts
    <3>4. e <= Len(u)
      <4>1. CASE j = i - 2
        BY <4>1, <1>3, <1>8 DEF s
      <4>2. CASE j # i - 2
        <5>1. j < i - 2
          BY <3>1, <4>2
        <5>2. e + 2 <= s
          BY <5>1, <3>1, <1>2, StartOrder DEF s
        <5> QED
          BY <5>2, <1>3, <1>8, <3>3
      <4> QED
        BY <4>1, <4>2
    <3> HIDE DEF q, e
    <3>5. TextLine(w, 0 + q, 0 + e, f[j])
      <4>1. 0 \in Nat
        OBVIOUS
      <4> QED
        BY <4>1, <3>2, <3>3, <3>4, <1>1, <1>10, TextLineMoves
    <3>6. 0 + q = q /\ 0 + e = e
      BY <3>3
    <3> QED
      BY <3>5, <3>6 DEF q, e
  <2> QED
    BY <2>1, <2>2
<1>13. LinesUpTo(w, f, i, ending)
  BY <1>3, <1>7, <1>8, <1>9, <1>12 DEF LinesUpTo
<1> QED
  BY <1>13 DEF w, v, E

(* Joined is all the lines of a frame.                                     *)
LEMMA JoinedFacts ==
    ASSUME NEW ending \in EndingNames, NEW f \in Seq(Lines), f # << >>
    PROVE  LinesUpTo(Joined(f, ending), f, Len(f), ending)
<1> DEFINE n == Len(f)
           V == Seq(Tokens)
           E == Eol(ending)
           Eq(h) == h = [i \in 1..n |-> IF i = 1 THEN <<f[1]>> ELSE (h[i - 1] \o E) \o <<f[i]>>]
           step == [p \in (1..n) \X V |->
                       IF p[1] = 1 THEN <<f[1]>> ELSE (p[2] \o E) \o <<f[p[1]]>>]
<1>1. n \in Nat /\ n >= 1
  OBVIOUS
<1>2. E \in V
  <2>1. EndsLine(E)
    BY StartFacts DEF EndsLine
  <2> QED
    BY <2>1, EolFacts
<1>3. \A i \in 1..n : <<f[i]>> \in V /\ f[i] \in Lines
  <2> SUFFICES ASSUME NEW i \in 1..n PROVE <<f[i]>> \in V /\ f[i] \in Lines
    OBVIOUS
  <2>1. f[i] \in Lines /\ f[i] \in Tokens
    BY DEF Tokens
  <2> QED
    BY <2>1
<1> HIDE DEF n, E, V
<1>4. ASSUME NEW i \in 1..n, NEW v \in V
      PROVE  /\ step[<<i, v>>] = IF i = 1 THEN <<f[1]>> ELSE (v \o E) \o <<f[i]>>
             /\ step[<<i, v>>] \in V
  <2>1. <<i, v>> \in (1..n) \X V
    OBVIOUS
  <2>2. step[<<i, v>>] = IF i = 1 THEN <<f[1]>> ELSE (v \o E) \o <<f[i]>>
    BY <2>1
  <2>3. v \o E \in V
    BY <1>2 DEF V
  <2>4. (v \o E) \o <<f[i]>> \in V
    BY <1>3, <2>3 DEF V
  <2> HIDE DEF step
  <2> QED
    BY <1>1, <1>3, <2>2, <2>4
<1> HIDE DEF step
<1>5. << >> \in V /\ StepsWithin(n, V, step)
  <2>1. << >> \in V
    BY DEF V
  <2> QED
    BY <1>4, <2>1 DEF StepsWithin
<1>6. PICK g : Iterates(n, V, << >>, step, g)
  BY <1>1, <1>5, IterationExists
<1> DEFINE h0 == [i \in 1..n |-> g[i]]
<1>7. Eq(h0)
  <2>1. ASSUME NEW i \in 1..n
        PROVE  g[i] = IF i = 1 THEN <<f[1]>> ELSE (h0[i - 1] \o E) \o <<f[i]>>
    <3>1. i - 1 \in 0..n
      BY <1>1
    <3>2. g[i - 1] \in V /\ g[i] = step[<<i, g[i - 1]>>]
      BY <1>6, <3>1 DEF Iterates
    <3>3. g[i] = IF i = 1 THEN <<f[1]>> ELSE (g[i - 1] \o E) \o <<f[i]>>
      BY <1>4, <3>2
    <3>4. i # 1 => h0[i - 1] = g[i - 1]
      <4>1. i # 1 => i - 1 \in 1..n
        BY <1>1
      <4> QED
        BY <4>1
    <3> HIDE DEF h0
    <3> QED
      BY <3>3, <3>4
  <2> QED
    BY <2>1
<1> DEFINE h == CHOOSE k : Eq(k)
<1>8. Eq(h)
  <2> HIDE DEF Eq
  <2> QED
    BY <1>7
<1>9. Joined(f, ending) = h[n]
  BY DEF Joined, n, E
<1> HIDE DEF h, h0
<1>10. \A i \in 1..n : h[i] = IF i = 1 THEN <<f[1]>> ELSE (h[i - 1] \o E) \o <<f[i]>>
  BY <1>8
<1> HIDE DEF Eq
<1> DEFINE T == {i \in 0..n : i # 0 => LinesUpTo(h[i], f, i, ending)}
<1>11. 0 \in T
  BY <1>1
<1>12. ASSUME NEW i \in 1..n, i - 1 \in T PROVE i \in T
  <2>1. CASE i = 1
    <3>1. h[1] = <<f[1]>> /\ 1 \in 1..n
      BY <1>1, <1>10
    <3>2. LineStart(ending, 0, 1 - 1) = 0
      BY StartFacts
    <3>3. <<f[1]>> \in Seq(Tokens) /\ Len(<<f[1]>>) = 1 /\ <<f[1]>>[1] = f[1] /\ 1..(1 - 1) = {}
      BY <1>3, <3>1 DEF V
    <3>4. LinesUpTo(h[1], f, 1, ending)
      BY <3>1, <3>2, <3>3 DEF LinesUpTo
    <3> QED
      BY <2>1, <3>4
  <2>2. CASE i # 1
    <3>1. LinesUpTo(h[i - 1], f, i - 1, ending)
      BY <1>12, <2>2
    <3>2. i \in 1..Len(f)
      BY DEF n
    <3>3. LinesUpTo((h[i - 1] \o E) \o <<f[i]>>, f, i, ending)
      BY <2>2, <3>1, <3>2, LineJoins DEF E
    <3>4. h[i] = (h[i - 1] \o E) \o <<f[i]>>
      BY <2>2, <1>10, Zenon
    <3>5. i \in 0..n
      BY <1>1
    <3> QED
      BY <3>3, <3>4, <3>5
  <2> QED
    BY <2>1, <2>2
<1> HIDE DEF T
<1>13. 0..n \subseteq T
  BY <1>1, <1>11, <1>12, IndexInduction
<1>14. n \in T
  BY <1>1, <1>13
<1> QED
  BY <1>1, <1>9, <1>14 DEF T, n
(* A frame that lies within d starts before it ends.                       *)
LEMMA FrameWithin ==
    ASSUME NEW ending \in EndingNames, NEW sc, NEW n \in Nat, NEW d, NEW b,
           Layout(d, sc, n, ending, b), NEW k \in 1..n
    PROVE  /\ b[k - 1] \in Nat /\ b[k] \in Nat /\ b[k - 1] < b[k]
           /\ sc[k] \in Seq(Lines) /\ Len(sc[k]) \in Nat /\ Len(sc[k]) >= 1
           /\ \A j \in 0..Len(sc[k]) :
                 /\ LineStart(ending, b[k - 1], j) \in Nat /\ b[k - 1] <= LineStart(ending, b[k - 1], j)
                 /\ LineStart(ending, b[k - 1], j) < b[k]
<1> DEFINE p == b[k - 1]
           f == sc[k]
           S(j) == LineStart(ending, p, j)
<1>1. b \in [0..n -> Nat] /\ k \in 0..n /\ k - 1 \in 0..n
  BY DEF Layout
<1>2. f \in Seq(Lines) /\ f # << >> /\ b[k] = BlankEnd(ending, S(Len(f)))
  BY DEF Layout
<1>3. p \in Nat /\ b[k] \in Nat
  BY <1>1
<1> HIDE DEF p, f
<1>4. Len(f) \in Nat /\ Len(f) >= 1
  BY <1>2
<1>5. ASSUME NEW j \in 0..Len(f) PROVE S(j) \in Nat /\ p <= S(j) /\ S(j) < b[k]
  <2>1. S(j) \in Nat /\ S(Len(f)) \in Nat /\ S(j) >= p
    <3>1. j \in Nat
      OBVIOUS
    <3>2. S(j) \in Nat /\ S(j) >= p
      BY <1>3, <3>1, StartFacts
    <3>3. S(Len(f)) \in Nat
      BY <1>3, <1>4, StartFacts
    <3> QED
      BY <3>2, <3>3
  <2>2. S(j) <= S(Len(f))
    <3>1. CASE j = Len(f)
      BY <2>1, <3>1
    <3>2. CASE j # Len(f)
      <4>1. j < Len(f) /\ j \in Nat
        BY <1>4, <3>2
      <4>2. S(j) + 2 <= S(Len(f))
        BY <4>1, <1>3, <1>4, StartOrder
      <4> HIDE DEF S
      <4> QED
        BY <2>1, <4>2
    <3> QED
      BY <3>1, <3>2
  <2> HIDE DEF S
  <2>3. b[k] >= S(Len(f)) + 1
    BY <1>2, <2>1 DEF BlankEnd
  <2> QED
    BY <1>3, <2>1, <2>2, <2>3
<1>6. 0 \in 0..Len(f)
  BY <1>4
<1>7. p < b[k]
  <2> HIDE DEF S
  <2>1. S(0) \in Nat /\ p <= S(0) /\ S(0) < b[k]
    BY <1>5, <1>6
  <2> QED
    BY <1>3, <2>1
<1> QED
  BY <1>2, <1>3, <1>4, <1>5, <1>7 DEF p, f

(* The frames are laid out in order.                                       *)
LEMMA LayoutOrder ==
    ASSUME NEW ending \in EndingNames, NEW sc, NEW n \in Nat, NEW d, NEW b,
           Layout(d, sc, n, ending, b), NEW k \in 0..n
    PROVE  /\ b[k] \in Nat /\ b[k] <= Len(d)
           /\ \A l \in 0..n : k < l => b[k] < b[l]
<1> DEFINE T == {l \in 0..n : k < l => b[k] < b[l]}
<1>1. b \in [0..n -> Nat]
  BY DEF Layout
<1>2. 0 \in T
  OBVIOUS
<1>3. ASSUME NEW l \in 1..n, l - 1 \in T PROVE l \in T
  <2> SUFFICES ASSUME k < l PROVE b[k] < b[l]
    OBVIOUS
  <2>1. b[l - 1] < b[l] /\ b[l - 1] \in Nat /\ b[l] \in Nat /\ b[k] \in Nat
    BY <1>1, FrameWithin
  <2>2. CASE k = l - 1
    BY <2>1, <2>2
  <2>3. CASE k # l - 1
    <3>1. k < l - 1
      BY <2>3
    <3>2. b[k] < b[l - 1]
      BY <3>1, <1>3
    <3> QED
      BY <2>1, <3>2
  <2> QED
    BY <2>2, <2>3
<1> HIDE DEF T
<1>4. 0..n \subseteq T
  BY <1>2, <1>3, IndexInduction
<1>5. \A l \in 0..n : k < l => b[k] < b[l]
  BY <1>4 DEF T
<1>6. n \in 0..n /\ b[n] = Len(d) /\ b[n] \in Nat /\ b[k] \in Nat
  BY <1>1 DEF Layout
<1>7. k = n \/ k < n
  OBVIOUS
<1> QED
  BY <1>5, <1>6, <1>7

(* A longer stream has the same frames.                                    *)
LEMMA FrameStays ==
    ASSUME NEW ending \in EndingNames, NEW sc, NEW n \in Nat, NEW d, NEW b,
           Layout(d, sc, n, ending, b), NEW k \in 1..n, NEW v, Holds(v, 0, d)
    PROVE  Framed(v, b[k - 1], sc[k], ending)
<1> DEFINE p == b[k - 1]
           f == sc[k]
           S(j) == LineStart(ending, p, j)
           m == Len(f)
<1>1. d \in Seq(Tokens) /\ Framed(d, p, f, ending) /\ b[k] = BlankEnd(ending, S(m))
  BY DEF Layout
<1>2. k \in 0..n /\ 0 \in Nat
  OBVIOUS
<1>3. b[k] \in Nat /\ b[k] <= Len(d) /\ Len(d) \in Nat
  <2>1. Len(d) \in Nat
    BY <1>1
  <2>2. b[k] \in Nat /\ b[k] <= Len(d)
    BY <1>2, LayoutOrder
  <2> QED
    BY <2>1, <2>2
<1>4. m \in Nat /\ \A j \in 0..m : S(j) \in Nat /\ S(j) < b[k]
  BY FrameWithin
<1> HIDE DEF S, p, f, m
<1>5. ASSUME NEW j \in 1..m PROVE TextLine(v, S(j - 1), S(j), f[j])
  <2> DEFINE q == S(j - 1)
             e == S(j)
  <2>1. j - 1 \in 0..m /\ j \in 0..m
    BY <1>4
  <2>2. q \in Nat /\ e \in Nat /\ e <= Len(d)
    BY <2>1, <1>3, <1>4
  <2>3. TextLine(d, q, e, f[j])
    BY <1>1 DEF Framed, S, m
  <2> HIDE DEF q, e
  <2>4. TextLine(v, 0 + q, 0 + e, f[j])
    BY <1>1, <1>2, <2>2, <2>3, TextLineMoves
  <2>5. 0 + q = q /\ 0 + e = e
    BY <2>2
  <2> QED
    BY <2>4, <2>5 DEF q, e
<1>6. BlankLine(v, S(m), b[k])
  <2> DEFINE q == S(m)
             e == b[k]
  <2>1. q \in Nat /\ e \in Nat /\ e <= Len(d)
    BY <1>3, <1>4
  <2>2. BlankLine(d, q, e)
    BY <1>1 DEF Framed, S, m
  <2> HIDE DEF q, e
  <2>3. BlankLine(v, 0 + q, 0 + e)
    BY <1>1, <1>2, <2>1, <2>2, BlankLineMoves
  <2>4. 0 + q = q /\ 0 + e = e
    BY <2>1
  <2> QED
    BY <2>3, <2>4 DEF q, e
<1> QED
  BY <1>1, <1>5, <1>6 DEF Framed, S, m, p, f

(* A layout of n frames and the next frame make a layout of n + 1.         *)
LEMMA LayoutGrows ==
    ASSUME NEW ending \in EndingNames, NEW sc, NEW n \in Nat, NEW d, NEW b,
           Layout(d, sc, n, ending, b), sc[n + 1] \in Seq(Lines), sc[n + 1] # << >>
    PROVE  \E c : /\ Layout(((d \o Joined(sc[n + 1], ending)) \o Eol(ending)) \o Blank(ending),
                            sc, n + 1, ending, c)
                  /\ \A k \in 0..n : c[k] = b[k]
<1> DEFINE f == sc[n + 1]
           m == Len(f)
           J == Joined(f, ending)
           E == Eol(ending)
           B == Blank(ending)
           t == d \o J
           u == t \o E
           v == u \o B
           p == Len(d)
           s == LineStart(ending, 0, m - 1)
           last == p + s + 1 + Len(E)
           c == [k \in 0..(n + 1) |-> IF k <= n THEN b[k] ELSE last + Len(B)]
<1>1. m \in Nat /\ m >= 1 /\ m - 1 \in Nat /\ m = (m - 1) + 1
  OBVIOUS
<1>2. LinesUpTo(J, f, m, ending)
  BY JoinedFacts
<1>3. EndsLine(E) /\ EndsLine(B)
  BY StartFacts DEF EndsLine
<1>4. E \in Seq(Tokens) /\ Len(E) \in 1..2 /\ B \in Seq(Tokens) /\ Len(B) \in 1..2
  BY <1>3, EolFacts
<1> HIDE DEF m
<1>5. s \in Nat /\ LineStart(ending, 0, m) = s + 1 + Len(E)
  BY <1>1, LineFollows
<1>6. d \in Seq(Tokens) /\ p \in Nat
  <2>1. d \in Seq(Tokens)
    BY DEF Layout
  <2> QED
    BY <2>1
<1>7. J \in Seq(Tokens) /\ Len(J) = s + 1 /\ J[Len(J)] = f[m]
  BY <1>2 DEF LinesUpTo
<1> HIDE DEF f, J, E, B, p, s
<1>8. t \in Seq(Tokens) /\ Joins(t, d, J)
  BY <1>6, <1>7, ConcatJoins
<1> HIDE DEF t
<1>9. u \in Seq(Tokens) /\ Joins(u, t, E)
  BY <1>4, <1>8, ConcatJoins
<1> HIDE DEF u
<1>10. v \in Seq(Tokens) /\ Joins(v, u, B)
  BY <1>4, <1>9, ConcatJoins
<1> HIDE DEF v
<1>11. Len(t) = p + s + 1 /\ Len(u) = last /\ Len(v) = last + Len(B) /\ last \in Nat
  BY <1>4, <1>5, <1>6, <1>7, <1>8, <1>9, <1>10 DEF Joins, p
<1> HIDE DEF last
<1>12. ASSUME NEW x \in 1..(p + s + 1) PROVE v[x] = t[x]
  <2>1. x \in 1..Len(t) /\ x \in 1..Len(u)
    BY <1>4, <1>5, <1>6, <1>11 DEF last
  <2> QED
    BY <2>1, <1>9, <1>10 DEF Joins
<1>13. Holds(v, 0, d)
  <2> SUFFICES ASSUME NEW x \in 1..Len(d) PROVE v[0 + x] = d[x]
    BY DEF Holds
  <2>1. x \in 1..(p + s + 1) /\ 0 + x = x
    BY <1>5, <1>6 DEF p
  <2>2. t[x] = d[x]
    BY <1>8 DEF Joins
  <2> QED
    BY <2>1, <2>2, <1>12
<1>14. Holds(v, p, J)
  <2> SUFFICES ASSUME NEW x \in 1..Len(J) PROVE v[p + x] = J[x]
    BY DEF Holds
  <2>1. p + x \in 1..(p + s + 1)
    BY <1>5, <1>6, <1>7
  <2>2. t[p + x] = J[x]
    BY <1>8 DEF Joins, p
  <2> QED
    BY <2>1, <2>2, <1>12
<1>15. Holds(v, p + s + 1, E)
  <2> SUFFICES ASSUME NEW x \in 1..Len(E) PROVE v[(p + s + 1) + x] = E[x]
    BY DEF Holds
  <2>1. (p + s + 1) + x \in 1..Len(u)
    BY <1>4, <1>5, <1>6, <1>11 DEF last
  <2>2. u[(p + s + 1) + x] = E[x]
    BY <1>9, <1>11 DEF Joins
  <2> QED
    BY <2>1, <2>2, <1>10 DEF Joins
<1>16. Holds(v, last, B)
  BY <1>10, <1>11 DEF Joins, Holds
<1>17. LineStart(ending, p, m) = last /\ BlankEnd(ending, last) = last + Len(B)
  <2>1. LineStart(ending, p, m) = p + LineStart(ending, 0, m)
    BY <1>1, <1>6, StartFacts
  <2>2. BlankEnd(ending, last) = last + Len(B)
    BY <1>11, StartFacts DEF B
  <2> QED
    BY <2>1, <2>2, <1>4, <1>5, <1>6 DEF last
<1>18. ASSUME NEW j \in 1..m
       PROVE  TextLine(v, LineStart(ending, p, j - 1), LineStart(ending, p, j), f[j])
  <2>1. CASE j = m
    <3> DEFINE q == p + s
    <3>1. v[q + 1] = f[m]
      <4>1. Len(J) \in 1..Len(J)
        BY <1>5, <1>7
      <4>2. v[p + Len(J)] = J[Len(J)] /\ p + Len(J) = q + 1
        BY <4>1, <1>5, <1>6, <1>7, <1>14 DEF Holds
      <4> QED
        BY <4>2, <1>7
    <3>2. q \in Nat /\ q + 1 = p + s + 1 /\ LineStart(ending, p, m - 1) = q
      <4>1. LineStart(ending, p, m - 1) = p + LineStart(ending, 0, m - 1)
        BY <1>1, <1>6, StartFacts
      <4> QED
        BY <4>1, <1>5, <1>6 DEF s
    <3> HIDE DEF q
    <3>3. TextLine(v, q, q + 1 + Len(E), f[m])
      BY <3>1, <3>2, <1>3, <1>15, TextLineIs
    <3>4. q + 1 + Len(E) = last
      BY <3>2 DEF last
    <3> QED
      BY <2>1, <3>2, <3>3, <3>4, <1>17
  <2>2. CASE j # m
    <3> DEFINE q == LineStart(ending, 0, j - 1)
               e == LineStart(ending, 0, j)
    <3>1. j \in 1..(m - 1) /\ j \in Nat /\ j - 1 \in Nat
      BY <1>1, <2>2
    <3>2. TextLine(J, q, e, f[j])
      BY <1>2, <3>1 DEF LinesUpTo
    <3>3. q \in Nat /\ e \in Nat
      BY <3>1, StartFacts
    <3>4. LineStart(ending, p, j - 1) = p + q /\ LineStart(ending, p, j) = p + e
      <4>1. LineStart(ending, p, j - 1) = p + q
        BY <1>6, <3>1, StartFacts
      <4>2. LineStart(ending, p, j) = p + e
        BY <1>6, <3>1, StartFacts
      <4> QED
        BY <4>1, <4>2
    <3>5. e <= Len(J)
      <4>1. CASE j = m - 1
        BY <4>1, <1>5, <1>7 DEF s
      <4>2. CASE j # m - 1
        <5>1. j < m - 1
          BY <3>1, <4>2, <1>1
        <5>2. e + 2 <= s
          BY <5>1, <3>1, <1>1, StartOrder DEF s
        <5> QED
          BY <5>2, <1>5, <1>7, <3>3
      <4> QED
        BY <4>1, <4>2
    <3> HIDE DEF q, e
    <3>6. TextLine(v, p + q, p + e, f[j])
      BY <3>2, <3>3, <3>5, <1>6, <1>7, <1>14, TextLineMoves
    <3> QED
      BY <3>4, <3>6
  <2> QED
    BY <2>1, <2>2
<1>19. Framed(v, p, f, ending)
  <2>1. BlankLine(v, last, last + Len(B))
    BY <1>3, <1>11, <1>16, BlankLineIs
  <2> QED
    BY <2>1, <1>17, <1>18 DEF Framed, m
<1>20. b \in [0..n -> Nat] /\ b[0] = 0 /\ b[n] = p
  BY DEF Layout, p
<1>21. /\ c \in [0..(n + 1) -> Nat] /\ c[n + 1] = last + Len(B)
       /\ \A k \in 0..n : c[k] = b[k]
  <2>1. last + Len(B) \in Nat
    BY <1>4, <1>11
  <2>2. \A k \in 0..(n + 1) : k <= n => k \in 0..n
    OBVIOUS
  <2> QED
    BY <1>20, <2>1, <2>2
<1> HIDE DEF c
<1>22. ASSUME NEW k \in 1..(n + 1)
       PROVE  /\ sc[k] \in Seq(Lines) /\ sc[k] # << >>
              /\ c[k] = BlankEnd(ending, LineStart(ending, c[k - 1], Len(sc[k])))
              /\ Framed(v, c[k - 1], sc[k], ending)
  <2>1. CASE k = n + 1
    <3>1. n \in 0..n /\ (n + 1) - 1 = n
      OBVIOUS
    <3>2. c[k - 1] = p /\ sc[k] = f
      BY <2>1, <3>1, <1>20, <1>21 DEF f
    <3> QED
      BY <2>1, <3>2, <1>17, <1>19, <1>21 DEF m
  <2>2. CASE k # n + 1
    <3>1. k \in 1..n /\ k \in 0..n /\ k - 1 \in 0..n
      BY <2>2
    <3> DEFINE q == b[k - 1]
               g == sc[k]
               S(j) == LineStart(ending, q, j)
               z == BlankEnd(ending, S(Len(g)))
    <3>2. c[k] = b[k] /\ c[k - 1] = q /\ q \in Nat
      BY <3>1, <1>20, <1>21
    <3>3. b[k] = z /\ Framed(d, q, g, ending)
      BY <3>1 DEF Layout
    <3>4. g \in Seq(Lines) /\ g # << >>
      BY <3>1 DEF Layout
    <3>5. Framed(v, q, g, ending)
      BY <3>1, <1>13, FrameStays
    <3> QED
      BY <3>2, <3>3, <3>4, <3>5
  <2> QED
    BY <2>1, <2>2
<1>23. c[0] = 0
  BY <1>20, <1>21
<1>24. Layout(v, sc, n + 1, ending, c)
  BY <1>10, <1>11, <1>21, <1>22, <1>23 DEF Layout
<1> QED
  BY <1>21, <1>24 DEF v, u, t, J, E, B, f

(* A script: frames of at least one line.                                  *)
IsScript(sc) == sc \in Seq(Seq(Lines)) /\ \A i \in DOMAIN sc : sc[i] # << >>

(* Rendered lays out all the frames.                                       *)
LEMMA RenderedLaid ==
    ASSUME NEW ending \in EndingNames, NEW sc, IsScript(sc)
    PROVE  \E b : Layout(Rendered(sc, ending), sc, Len(sc), ending, b)
<1> DEFINE n == Len(sc)
           V == Seq(Tokens)
           E == Eol(ending)
           B == Blank(ending)
           J(i) == Joined(sc[i], ending)
           Eq(h) == h = [i \in 0..n |-> IF i = 0 THEN << >> ELSE ((h[i - 1] \o J(i)) \o E) \o B]
           step == [p \in (1..n) \X V |-> ((p[2] \o J(p[1])) \o E) \o B]
<1>1. /\ n \in Nat /\ DOMAIN sc = 1..n
      /\ \A i \in 1..n : sc[i] \in Seq(Lines) /\ sc[i] # << >>
  BY DEF IsScript
<1>2. E \in V /\ B \in V
  <2>1. EndsLine(E) /\ EndsLine(B)
    BY StartFacts DEF EndsLine
  <2> QED
    BY <2>1, EolFacts
<1>3. \A i \in 1..n : J(i) \in V
  BY <1>1, JoinedFacts DEF LinesUpTo
<1> HIDE DEF n, E, B, V, J
<1>4. ASSUME NEW i \in 1..n, NEW v \in V
      PROVE  step[<<i, v>>] = ((v \o J(i)) \o E) \o B /\ step[<<i, v>>] \in V
  <2>1. <<i, v>> \in (1..n) \X V
    OBVIOUS
  <2>2. step[<<i, v>>] = ((v \o J(i)) \o E) \o B
    BY <2>1
  <2>3. v \o J(i) \in V
    BY <1>3 DEF V
  <2>4. (v \o J(i)) \o E \in V
    BY <1>2, <2>3 DEF V
  <2>5. ((v \o J(i)) \o E) \o B \in V
    BY <1>2, <2>4 DEF V
  <2> HIDE DEF step
  <2> QED
    BY <2>2, <2>5
<1> HIDE DEF step
<1>5. << >> \in V /\ StepsWithin(n, V, step)
  <2>1. << >> \in V
    BY DEF V
  <2> QED
    BY <1>4, <2>1 DEF StepsWithin
<1>6. PICK g : Iterates(n, V, << >>, step, g)
  BY <1>1, <1>5, IterationExists
<1> DEFINE h0 == [i \in 0..n |-> g[i]]
<1>7. Eq(h0)
  <2>1. ASSUME NEW i \in 0..n
        PROVE  g[i] = IF i = 0 THEN << >> ELSE ((h0[i - 1] \o J(i)) \o E) \o B
    <3>1. CASE i = 0
      BY <3>1, <1>6 DEF Iterates
    <3>2. CASE i # 0
      <4>1. i - 1 \in 0..n /\ i \in 1..n
        BY <1>1, <3>2
      <4>2. g[i - 1] \in V /\ g[i] = step[<<i, g[i - 1]>>] /\ h0[i - 1] = g[i - 1]
        BY <1>6, <4>1 DEF Iterates
      <4>3. g[i] = ((g[i - 1] \o J(i)) \o E) \o B
        BY <1>4, <4>1, <4>2
      <4> HIDE DEF h0
      <4> QED
        BY <3>2, <4>2, <4>3
    <3> QED
      BY <3>1, <3>2
  <2> QED
    BY <2>1
<1> DEFINE h == CHOOSE k : Eq(k)
<1>8. Eq(h)
  <2> HIDE DEF Eq
  <2> QED
    BY <1>7
<1>9. Rendered(sc, ending) = h[n]
  BY DEF Rendered, n, E, B, J
<1> HIDE DEF h, h0
<1>10. \A i \in 0..n : h[i] = IF i = 0 THEN << >> ELSE ((h[i - 1] \o J(i)) \o E) \o B
  BY <1>8
<1> HIDE DEF Eq
<1> DEFINE T == {i \in 0..n : \E b : Layout(h[i], sc, i, ending, b)}
<1>11. 0 \in T
  <2> DEFINE b == [i \in 0..0 |-> 0]
  <2>1. b \in [0..0 -> Nat] /\ b[0] = 0
    OBVIOUS
  <2> HIDE DEF b
  <2>2. 0 \in 0..n
    BY <1>1
  <2>3. h[0] = << >>
    BY <2>2, <1>10
  <2>4. << >> \in Seq(Tokens) /\ Len(<< >>) = 0 /\ 1..0 = {}
    OBVIOUS
  <2>5. Layout(h[0], sc, 0, ending, b)
    BY <2>1, <2>3, <2>4 DEF Layout
  <2> QED
    BY <2>2, <2>5
<1>12. ASSUME NEW i \in 1..n, i - 1 \in T PROVE i \in T
  <2> DEFINE a == i - 1
  <2>1. a \in Nat /\ a + 1 = i /\ i \in 0..n /\ i # 0
    BY <1>1
  <2>2. PICK b : Layout(h[a], sc, a, ending, b)
    BY <1>12
  <2> HIDE DEF a
  <2>3. sc[a + 1] \in Seq(Lines) /\ sc[a + 1] # << >>
    BY <1>1, <2>1
  <2>4. PICK c : Layout(((h[a] \o Joined(sc[a + 1], ending)) \o Eol(ending)) \o Blank(ending),
                        sc, a + 1, ending, c)
    BY <2>1, <2>2, <2>3, LayoutGrows
  <2>5. h[i] = ((h[i - 1] \o J(i)) \o E) \o B
    BY <2>1, <1>10, Zenon
  <2>6. h[i] = ((h[a] \o Joined(sc[a + 1], ending)) \o Eol(ending)) \o Blank(ending)
    BY <2>1, <2>5 DEF a, J, E, B
  <2>7. Layout(h[i], sc, i, ending, c)
    BY <2>1, <2>4, <2>6
  <2> QED
    BY <2>1, <2>7
<1> HIDE DEF T
<1>13. 0..n \subseteq T
  BY <1>1, <1>11, <1>12, IndexInduction
<1>14. n \in T
  BY <1>1, <1>13
<1> QED
  BY <1>9, <1>14 DEF T, n

(* A stream: the layout of its script, or all of it up to the text of the  *)
(* last line.                                                              *)
Wire(st, sc, en, d, ending, b) ==
    /\ IsScript(sc) /\ ending \in EndingNames /\ Layout(d, sc, Len(sc), ending, b)
    /\ st \in Seq(Tokens) /\ Len(st) <= Len(d) /\ \A x \in 1..Len(st) : st[x] = d[x]
    /\ \/ Len(st) = Len(d)
       \/ /\ Len(sc) >= 1 /\ en = "eof"
          /\ Len(st) = LineStart(ending, b[Len(sc) - 1], Len(sc[Len(sc)]) - 1) + 1

(* Streams start as such.                                                  *)
LEMMA InitIsWired ==
    ASSUME Init
    PROVE  \E d, ending, b : Wire(stream, script, ended, d, ending, b)
<1>1. IsScript(script)
  BY ScriptsAssumption DEF Init, IsScript
<1>2. PICK ending \in Endings :
          \/ /\ stream = Rendered(script, ending)
             /\ ended \in {"eof", "reset"}
          \/ /\ script # << >>
             /\ stream = Rendered(Front(script), ending) \o Joined(Last(script), ending)
             /\ ended = "eof"
  BY DEF Init
<1>3. ending \in EndingNames
  BY ScriptsAssumption DEF EndingNames
<1>4. CASE stream = Rendered(script, ending)
  <2>1. PICK b : Layout(stream, script, Len(script), ending, b)
    BY <1>1, <1>3, <1>4, RenderedLaid
  <2>2. stream \in Seq(Tokens)
    BY <2>1 DEF Layout
  <2>3. Len(stream) <= Len(stream)
    BY <2>2
  <2> QED
    BY <1>1, <1>3, <2>1, <2>2, <2>3 DEF Wire
<1>5. CASE /\ script # << >>
           /\ stream = Rendered(Front(script), ending) \o Joined(Last(script), ending)
           /\ ended = "eof"
  <2> DEFINE F == Front(script)
             n == Len(script) - 1
             d0 == Rendered(F, ending)
             f == script[n + 1]
             J == Joined(f, ending)
             E == Eol(ending)
             B == Blank(ending)
  <2>1. /\ script \in Seq(Seq(Lines)) /\ Len(script) \in Nat /\ Len(script) >= 1 /\ n \in Nat
        /\ n + 1 = Len(script) /\ DOMAIN script = 1..(n + 1)
    BY <1>1, <1>5 DEF IsScript
  <2>2. F \in Seq(Seq(Lines)) /\ Len(F) = n /\ \A i \in 1..n : F[i] = script[i]
    BY <2>1 DEF Front
  <2> HIDE DEF F
  <2>3. IsScript(F)
    <3> HIDE DEF n
    <3>1. DOMAIN F = 1..n
      BY <2>2
    <3>2. ASSUME NEW i \in 1..n PROVE F[i] # << >>
      <4>1. i \in DOMAIN script
        BY <2>1
      <4> QED
        BY <4>1, <1>1, <2>2 DEF IsScript
    <3> QED
      BY <2>2, <3>1, <3>2 DEF IsScript
  <2>4. PICK b0 : Layout(d0, F, n, ending, b0)
    BY <1>3, <2>2, <2>3, RenderedLaid
  <2> HIDE DEF d0, n
  <2>5. Layout(d0, script, n, ending, b0)
    BY <2>2, <2>4 DEF Layout
  <2>6. f \in Seq(Lines) /\ f # << >>
    BY <1>1, <2>1 DEF IsScript
  <2>7. PICK b : /\ Layout(((d0 \o J) \o E) \o B, script, n + 1, ending, b)
                 /\ \A k \in 0..n : b[k] = b0[k]
    BY <1>3, <2>1, <2>5, <2>6, LayoutGrows
  <2>8. stream = d0 \o J
    BY <1>5, <2>1 DEF Last, d0, F
  <2>9. d0 \in Seq(Tokens) /\ b0[n] = Len(d0)
    BY <2>4 DEF Layout
  <2>10. J \in Seq(Tokens) /\ Len(J) = LineStart(ending, 0, Len(f) - 1) + 1
    BY <1>3, <2>6, JoinedFacts DEF LinesUpTo
  <2>11. E \in Seq(Tokens) /\ B \in Seq(Tokens)
    <3>1. EndsLine(E) /\ EndsLine(B)
      BY <1>3, StartFacts DEF EndsLine
    <3> QED
      BY <3>1, EolFacts
  <2>12. Len(f) \in Nat /\ Len(f) - 1 \in Nat
    BY <2>6
  <2> HIDE DEF f, J, E, B
  <2> DEFINE u == stream \o E
             d == u \o B
  <2>13. stream \in Seq(Tokens) /\ Joins(stream, d0, J)
    BY <2>8, <2>9, <2>10, ConcatJoins
  <2>14. u \in Seq(Tokens) /\ Joins(u, stream, E)
    BY <2>11, <2>13, ConcatJoins
  <2> HIDE DEF u
  <2>15. d \in Seq(Tokens) /\ Joins(d, u, B)
    BY <2>11, <2>14, ConcatJoins
  <2>16. Layout(d, script, n + 1, ending, b)
    BY <2>7, <2>8 DEF u
  <2> HIDE DEF d
  <2>17. /\ Len(stream) \in Nat /\ Len(E) \in Nat /\ Len(B) \in Nat /\ Len(u) \in Nat
         /\ Len(u) = Len(stream) + Len(E) /\ Len(d) = Len(u) + Len(B)
    BY <2>11, <2>13, <2>14, <2>15 DEF Joins
  <2>18. ASSUME NEW x \in 1..Len(stream) PROVE stream[x] = d[x]
    <3>1. x \in 1..Len(u)
      BY <2>17
    <3> QED
      BY <3>1, <2>14, <2>15 DEF Joins
  <2>19. Len(stream) = LineStart(ending, b[n], Len(f) - 1) + 1
    <3>1. n \in 0..n
      BY <2>1
    <3>2. b[n] = Len(d0) /\ Len(d0) \in Nat
      BY <3>1, <2>7, <2>9
    <3>3. LineStart(ending, Len(d0), Len(f) - 1) = Len(d0) + LineStart(ending, 0, Len(f) - 1)
      BY <1>3, <3>2, <2>12, StartFacts
    <3>4. LineStart(ending, 0, Len(f) - 1) \in Nat
      BY <1>3, <2>12, StartFacts
    <3>5. Len(stream) = Len(d0) + Len(J)
      BY <2>13 DEF Joins
    <3> QED
      BY <3>2, <3>3, <3>4, <3>5, <2>10
  <2>20. Len(stream) <= Len(d)
    BY <2>17
  <2>21. Len(script) - 1 = n /\ script[Len(script)] = f
    BY <2>1 DEF n, f
  <2>22. Wire(stream, script, ended, d, ending, b)
    BY <1>1, <1>3, <1>5, <2>1, <2>13, <2>16, <2>18, <2>19, <2>20, <2>21 DEF Wire
  <2> QED
    BY <2>22
<1> QED
  BY <1>2, <1>4, <1>5

-----------------------------------------------------------------------------
(* The iterators.                                                          *)

(* A frame is a chunk, terminal, an error, or neither; the empty frame is  *)
(* nothing.                                                                *)
LEMMA ParseFacts ==
    ASSUME NEW c, NEW f
    PROVE  LET p == parseFrame(c, f)
           IN  /\ p.terminal \in BOOLEAN /\ p.failed \in BOOLEAN
               /\ ~(p.terminal /\ p.failed)
<1>1. /\ Nothing.terminal = FALSE /\ Nothing.failed = FALSE
      /\ Terminates.terminal = TRUE /\ Terminates.failed = FALSE
      /\ Fails.terminal = FALSE /\ Fails.failed = TRUE
  BY DEF Nothing, Terminates, Fails
<1>2. \A e : Yields(e).terminal = FALSE /\ Yields(e).failed = FALSE
  BY DEF Yields
<1>3. \A e, t : /\ [Yields(e) EXCEPT !.terminal = t].terminal = t
                /\ [Yields(e) EXCEPT !.terminal = t].failed = FALSE
  BY DEF Yields
<1>4. ASSUME NEW p, p \in {Nothing, Terminates, Fails}
      PROVE  p.terminal \in BOOLEAN /\ p.failed \in BOOLEAN /\ ~(p.terminal /\ p.failed)
  BY <1>1, <1>4
<1> DEFINE data == dataOf(f)
           t == isTerminalResponseEvent(f, data)
<1>5. t \in BOOLEAN
  BY DEF isTerminalResponseEvent
<1> HIDE DEF data, t
<1>6. parseChatSSEFrame(f) \in {Nothing, Terminates, Fails, Yields(data)}
  BY DEF parseChatSSEFrame, data
<1>7. parseSSEFrame(f) \in {Nothing, Terminates, Fails, [Yields(data) EXCEPT !.terminal = t]}
  BY DEF parseSSEFrame, data, t
<1>8. parseFrame(c, f) \in {Nothing, Terminates, Fails, Yields(data), [Yields(data) EXCEPT !.terminal = t]}
  BY <1>6, <1>7 DEF parseFrame
<1>9. CASE parseFrame(c, f) \in {Nothing, Terminates, Fails}
  BY <1>4, <1>9
<1>10. CASE parseFrame(c, f) = Yields(data)
  BY <1>2, <1>10, Zenon
<1>11. CASE parseFrame(c, f) = [Yields(data) EXCEPT !.terminal = t]
  <2>1. parseFrame(c, f).terminal = t /\ parseFrame(c, f).failed = FALSE
    <3> DEFINE r == [Yields(data) EXCEPT !.terminal = t]
    <3>1. r.terminal = t /\ r.failed = FALSE
      BY <1>3
    <3> HIDE DEF r
    <3>2. parseFrame(c, f) = r
      BY <1>11 DEF r
    <3> QED
      BY <3>1, <3>2, Zenon
  <2> QED
    BY <2>1, <1>5, Zenon
<1> QED
  BY <1>8, <1>9, <1>10, <1>11, Zenon

(* A frame without lines has no event.                                     *)
LEMMA EmptyFrame ==
    ASSUME NEW c
    PROVE  parseFrame(c, << >>) = Nothing
<1>1. dataOf(<< >>) = "empty"
  <2>1. {i \in DOMAIN << >> : << >>[i] \in DataLines \ {"empty"}} = {}
    OBVIOUS
  <2>2. Cardinality({}) = 0
    BY FS_EmptySet
  <2> QED
    BY <2>1, <2>2 DEF dataOf
<1> QED
  BY <1>1 DEF parseFrame, parseChatSSEFrame, parseSSEFrame

(* What a parsed frame makes of the iterator.                              *)
LEMMA FrameEndsIs ==
    ASSUME NEW c, NEW dd, NEW eof \in BOOLEAN
    PROVE  LET p == parseFrame(c, dd.frame)
               r == frameEnds(c, dd, eof)
           IN  /\ r = [frame |-> r.frame, yielded |-> r.yielded, state |-> r.state]
               /\ r.frame = << >>
               /\ r.yielded = IF p.event = "none" THEN dd.yielded ELSE Append(dd.yielded, p.event)
               /\ p.failed => r.state = "error"
               /\ p.terminal => r.state = "complete"
               /\ ~p.failed /\ ~p.terminal => r.state = IF eof THEN "unexpectedEOF" ELSE "open"
<1> DEFINE p == parseFrame(c, dd.frame)
           ye == IF p.event = "none" THEN dd.yielded ELSE Append(dd.yielded, p.event)
           s == CASE p.failed -> "error"
                  [] p.terminal -> "complete"
                  [] eof /\ ~p.failed /\ ~p.terminal -> "unexpectedEOF"
                  [] OTHER -> "open"
<1>1. frameEnds(c, dd, eof) = [frame |-> << >>, yielded |-> ye, state |-> s]
  BY DEF frameEnds
<1>2. ~(p.terminal /\ p.failed)
  BY ParseFacts
<1> HIDE DEF p
<1>3. p.failed => s = "error"
  BY <1>2
<1>4. p.terminal => s = "complete"
  BY <1>2
<1>5. ~p.failed /\ ~p.terminal => s = IF eof THEN "unexpectedEOF" ELSE "open"
  BY <1>2
<1> HIDE DEF ye, s
<1>6. LET r == frameEnds(c, dd, eof)
      IN  /\ r = [frame |-> r.frame, yielded |-> r.yielded, state |-> r.state]
          /\ r.frame = << >> /\ r.yielded = ye /\ r.state = s
  BY <1>1
<1> QED
  BY <1>3, <1>4, <1>5, <1>6 DEF p, ye

(* A line with a text is trimmed to it, any other to nothing.              *)
LEMMA TrimText ==
    ASSUME NEW line \in Seq(Tokens), Len(line) >= 1, line[1] \in Lines,
           \A x \in 2..Len(line) : line[x] \in {CR, LF}
    PROVE  TrimRight(line) # << >> /\ TrimRight(line)[1] = line[1]
<1> DEFINE text == {i \in DOMAIN line : line[i] \notin {CR, LF}}
<1>1. DOMAIN line = 1..Len(line) /\ Len(line) \in Nat
  OBVIOUS
<1>2. \A i \in 1..Len(line) : i = 1 \/ i \in 2..Len(line)
  BY <1>1
<1>3. text = {1}
  BY <1>1, <1>2, LinesAreTexts
<1>4. Max(text) = 1
  <2>1. \A y \in {1} : 1 >= y
    OBVIOUS
  <2> QED
    BY <1>3, <2>1 DEF Max
<1>5. TrimRight(line) = SubSeq(line, 1, 1)
  BY <1>3, <1>4 DEF TrimRight
<1>6. Len(SubSeq(line, 1, 1)) = 1 /\ SubSeq(line, 1, 1)[1] = line[1]
  BY <1>1
<1> QED
  BY <1>5, <1>6

(* The other case.                                                         *)
LEMMA TrimBlank ==
    ASSUME NEW line \in Seq(Tokens), \A x \in 1..Len(line) : line[x] \in {CR, LF}
    PROVE  TrimRight(line) = << >>
<1>1. {i \in DOMAIN line : line[i] \notin {CR, LF}} = {}
  OBVIOUS
<1>2. TrimRight(line) = SubSeq(line, 1, 0)
  BY <1>1 DEF TrimRight
<1> QED
  BY <1>2

(* line is a piece of d after q.                                           *)
Piece(d, q, line) == line \in Seq(Tokens) /\ \A x \in 1..Len(line) : line[x] = d[q + x]

(* The iterator with one more line in its frame.                           *)
WithLine(dd, t) == [dd EXCEPT !.frame = Append(@, t)]

(* Reading a line with a text, or a part of it, adds the text to the frame.*)
LEMMA TextRead ==
    ASSUME NEW c, NEW dd, NEW d, NEW q \in Nat, NEW e \in Nat, NEW t \in Lines,
           TextLine(d, q, e, t), NEW line, Piece(d, q, line), Len(line) >= 1, Len(line) <= e - q
    PROVE  lineRead(c, dd, line) = WithLine(dd, t)
<1>1. line \in Seq(Tokens) /\ Len(line) \in Nat /\ 1 \in 1..Len(line)
  BY DEF Piece
<1>2. line[1] = t
  BY <1>1 DEF Piece, TextLine
<1>3. ASSUME NEW x \in 2..Len(line) PROVE line[x] \in {CR, LF}
  <2>1. x \in 1..Len(line) /\ q + x \in (q + 2)..e
    BY <1>1
  <2>2. line[x] = d[q + x]
    BY <2>1 DEF Piece
  <2>3. q + x = e \/ q + x \in (q + 2)..(e - 1)
    BY <2>1
  <2> QED
    BY <2>2, <2>3 DEF TextLine
<1>4. TrimRight(line) # << >> /\ TrimRight(line)[1] = t
  BY <1>1, <1>2, <1>3, TrimText
<1> QED
  BY <1>4 DEF lineRead, WithLine

(* Reading a blank line, or a part of it, ends the frame.                  *)
LEMMA BlankRead ==
    ASSUME NEW c, NEW dd, NEW d, NEW q \in Nat, NEW e \in Nat,
           BlankLine(d, q, e), NEW line, Piece(d, q, line), Len(line) <= e - q
    PROVE  lineRead(c, dd, line) = frameEnds(c, dd, FALSE)
<1>1. line \in Seq(Tokens) /\ Len(line) \in Nat
  BY DEF Piece
<1>2. ASSUME NEW x \in 1..Len(line) PROVE line[x] \in {CR, LF}
  <2>1. line[x] = d[q + x]
    BY DEF Piece
  <2>2. q + x = e \/ q + x \in (q + 1)..(e - 1)
    BY <1>1
  <2> QED
    BY <2>1, <2>2 DEF BlankLine
<1>3. TrimRight(line) = << >>
  BY <1>1, <1>2, TrimBlank
<1> QED
  BY <1>3 DEF lineRead

(* The first LF after q is at e.                                           *)
FirstEnd(d, q, e) == e > q /\ d[e] = LF /\ \A x \in (q + 1)..(e - 1) : d[x] # LF

(* A line ends with its first LF.                                          *)
LEMMA FirstLF ==
    ASSUME NEW d, NEW q \in Nat, NEW e \in Nat,
           \/ BlankLine(d, q, e)
           \/ \E t \in Lines : TextLine(d, q, e, t)
    PROVE  FirstEnd(d, q, e)
<1>1. CASE BlankLine(d, q, e)
  BY <1>1, LinesAreTexts DEF BlankLine, FirstEnd
<1>2. CASE \E t \in Lines : TextLine(d, q, e, t)
  <2>1. PICK t \in Lines : TextLine(d, q, e, t)
    BY <1>2
  <2>2. e >= q + 2 /\ d[e] = LF /\ d[q + 1] # LF
    BY <2>1, LinesAreTexts DEF TextLine
  <2>3. ASSUME NEW x \in (q + 1)..(e - 1) PROVE d[x] # LF
    <3>1. x = q + 1 \/ x \in (q + 2)..(e - 1)
      OBVIOUS
    <3>2. \A z \in (q + 2)..(e - 1) : d[z] = CR
      BY <2>1 DEF TextLine
    <3> QED
      BY <3>1, <3>2, <2>2, LinesAreTexts
  <2> QED
    BY <2>2, <2>3 DEF FirstEnd
<1> QED
  BY <1>1, <1>2

(* The events of a script, and those of its first k frames.                *)
Events(c, sc) == [i \in DOMAIN sc |-> parseFrame(c, sc[i]).event]
Handed(c, sc, k) == Without([i \in 1..k |-> parseFrame(c, sc[i]).event], "none")
Stops(c, sc, i) == parseFrame(c, sc[i]).terminal \/ parseFrame(c, sc[i]).failed
Quiet(c, sc, k) == \A i \in 1..k : ~Stops(c, sc, i)

(* Sent, of any reader and script.                                         *)
SentBy(c, sc) ==
    LET parsed == [i \in DOMAIN sc |-> parseFrame(c, sc[i])]
        stops  == {i \in DOMAIN parsed : parsed[i].terminal \/ parsed[i].failed}
        last   == IF stops = {} THEN Len(parsed) ELSE Min(stops)
    IN  [events |-> Without([i \in 1..last |-> parsed[i].event], "none"),
         complete |-> stops # {} /\ parsed[last].terminal]

(* What an iterator has handed over after k frames.                        *)
LEMMA HandedFacts ==
    ASSUME NEW c, NEW sc, IsScript(sc)
    PROVE  /\ Handed(c, sc, 0) = << >>
           /\ \A k \in 1..Len(sc) :
                 LET e == parseFrame(c, sc[k]).event
                 IN  Handed(c, sc, k) = IF e = "none" THEN Handed(c, sc, k - 1)
                                        ELSE Append(Handed(c, sc, k - 1), e)
           /\ \A k \in 0..Len(sc) : \A l \in k..Len(sc) :
                 IsPrefix(Handed(c, sc, k), Handed(c, sc, l))
<1> DEFINE n == Len(sc)
           ev == Events(c, sc)
           S == {ev[i] : i \in 1..n}
<1>1. n \in Nat /\ DOMAIN sc = 1..n
  BY DEF IsScript
<1>2. ev \in [1..n -> S] /\ \A i \in 1..n : ev[i] = parseFrame(c, sc[i]).event /\ ev[i] \in S
  BY <1>1 DEF Events
<1> HIDE DEF n, ev, S
<1>3. PICK y : Filters(S, ev, n, "none", y) /\ LeftOf(ev, n, "none", y)
  <2>1. n \in Nat
    BY <1>1
  <2>2. ev \in [1..n -> S]
    BY <1>2
  <2> QED
    BY <2>1, <2>2, WithoutPrefixes
<1>4. ASSUME NEW k \in 0..n PROVE Handed(c, sc, k) = y[k]
  <2>1. \A i \in 1..k : i \in 1..n
    BY <1>1
  <2>2. [i \in 1..k |-> parseFrame(c, sc[i]).event] = [i \in 1..k |-> ev[i]]
    BY <1>2, <2>1
  <2> QED
    BY <2>2, <1>3 DEF Handed, Firsts, LeftOf
<1>5. 0 \in 0..n /\ y[0] = << >>
  BY <1>1, <1>3 DEF Filters
<1>6. ASSUME NEW k \in 1..n
      PROVE  LET e == parseFrame(c, sc[k]).event
             IN  Handed(c, sc, k) = IF e = "none" THEN Handed(c, sc, k - 1)
                                    ELSE Append(Handed(c, sc, k - 1), e)
  <2>1. k \in 0..n /\ k - 1 \in 0..n
    BY <1>1
  <2>2. y[k] = IF ev[k] = "none" THEN y[k - 1] ELSE Append(y[k - 1], ev[k])
    BY <1>3 DEF Filters
  <2> QED
    BY <2>1, <2>2, <1>2, <1>4
<1>7. ASSUME NEW k \in 0..n, NEW l \in k..n PROVE IsPrefix(Handed(c, sc, k), Handed(c, sc, l))
  <2>1. l \in 0..n
    BY <1>1
  <2>2. IsPrefix(y[k], y[l])
    BY <1>1, <1>2, <1>3, FiltersPrefix
  <2> QED
    BY <2>1, <2>2, <1>4
<1> QED
  BY <1>4, <1>5, <1>6, <1>7 DEF n

(* Where the events that were sent end.                                    *)
LEMMA SentFacts ==
    ASSUME NEW c, NEW sc, IsScript(sc), NEW k \in 0..Len(sc), Quiet(c, sc, k)
    PROVE  /\ IsPrefix(Handed(c, sc, k), SentBy(c, sc).events)
           /\ k = Len(sc) => SentBy(c, sc).events = Handed(c, sc, k) /\ ~SentBy(c, sc).complete
           /\ k < Len(sc) /\ Stops(c, sc, k + 1) =>
                 /\ SentBy(c, sc).events = Handed(c, sc, k + 1)
                 /\ SentBy(c, sc).complete = parseFrame(c, sc[k + 1]).terminal
<1> DEFINE n == Len(sc)
           parsed == [i \in DOMAIN sc |-> parseFrame(c, sc[i])]
           stops == {i \in 1..n : Stops(c, sc, i)}
           last == IF stops = {} THEN n ELSE Min(stops)
<1>1. n \in Nat /\ DOMAIN sc = 1..n
  BY DEF IsScript
<1>2. DOMAIN parsed = 1..n /\ \A i \in 1..n : parsed[i] = parseFrame(c, sc[i])
  BY <1>1
<1>3. Len(parsed) = n
  <2>1. parsed \in [1..n -> {parsed[i] : i \in 1..n}]
    BY <1>2
  <2> HIDE DEF parsed, n
  <2>2. parsed \in Seq({parsed[i] : i \in 1..n})
    BY <1>1, <2>1, IsASeq
  <2> QED
    BY <1>1, <1>2, <2>2
<1>4. stops = {i \in DOMAIN parsed : parsed[i].terminal \/ parsed[i].failed}
  BY <1>2 DEF Stops
<1>5. SentBy(c, sc) = [events |-> Without([i \in 1..last |-> parsed[i].event], "none"),
                       complete |-> stops # {} /\ parsed[last].terminal]
  BY <1>3, <1>4 DEF SentBy
<1>6. last \in 0..n /\ (stops # {} => last \in stops /\ \A i \in stops : last <= i)
  <2>1. CASE stops = {}
    BY <1>1, <2>1
  <2>2. CASE stops # {}
    <3>1. stops \subseteq Nat
      BY <1>1
    <3> HIDE DEF stops
    <3>2. Min(stops) \in stops /\ \A i \in stops : Min(stops) <= i
      BY <2>2, <3>1, MinIsLeast
    <3>3. stops \subseteq 0..n
      BY <1>1 DEF stops
    <3> QED
      BY <2>2, <3>2, <3>3
  <2> QED
    BY <2>1, <2>2
<1> HIDE DEF n, parsed, last
<1>7. SentBy(c, sc).events = Handed(c, sc, last)
  <2>1. \A i \in 1..last : i \in 1..n
    BY <1>1, <1>6
  <2>2. [i \in 1..last |-> parsed[i].event] = [i \in 1..last |-> parseFrame(c, sc[i]).event]
    BY <1>2, <2>1
  <2>3. SentBy(c, sc).events = Without([i \in 1..last |-> parsed[i].event], "none")
    BY <1>5
  <2> QED
    BY <2>2, <2>3 DEF Handed
<1>8. SentBy(c, sc).complete = (stops # {} /\ parsed[last].terminal)
  BY <1>5
<1>9. \A i \in stops : i > k
  <2> SUFFICES ASSUME NEW i \in stops, ~(i > k) PROVE FALSE
    OBVIOUS
  <2>1. i \in 1..k /\ Stops(c, sc, i)
    BY <1>1
  <2> QED
    BY <2>1 DEF Quiet
<1>10. k <= n /\ k \in Nat
  BY <1>1 DEF n
<1> HIDE DEF stops
<1>11. last \in k..n
  <2>1. CASE stops = {}
    BY <2>1, <1>1, <1>10 DEF last
  <2>2. CASE stops # {}
    BY <2>2, <1>1, <1>6, <1>9, <1>10
  <2> QED
    BY <2>1, <2>2
<1>12. IsPrefix(Handed(c, sc, k), SentBy(c, sc).events)
  <2>1. \A l \in k..n : IsPrefix(Handed(c, sc, k), Handed(c, sc, l))
    BY HandedFacts DEF n
  <2> QED
    BY <2>1, <1>7, <1>11
<1>13. ASSUME k = n
       PROVE  SentBy(c, sc).events = Handed(c, sc, k) /\ ~SentBy(c, sc).complete
  <2>1. last = k
    BY <1>1, <1>11, <1>13
  <2>2. stops = {}
    <3> SUFFICES ASSUME NEW i \in stops PROVE FALSE
      OBVIOUS
    <3>1. i \in 1..n /\ i > k
      BY <1>9 DEF stops
    <3> QED
      BY <3>1, <1>13, <1>1
  <2> QED
    BY <2>1, <2>2, <1>7, <1>8
<1>14. ASSUME k < n, Stops(c, sc, k + 1)
       PROVE  /\ SentBy(c, sc).events = Handed(c, sc, k + 1)
              /\ SentBy(c, sc).complete = parseFrame(c, sc[k + 1]).terminal
  <2>1. k + 1 \in 1..n /\ k + 1 \in stops
    BY <1>1, <1>10, <1>14 DEF stops
  <2>2. last \in stops /\ last <= k + 1 /\ last > k
    BY <2>1, <1>6, <1>9
  <2>3. last = k + 1
    BY <1>1, <1>6, <1>10, <2>2
  <2>4. parsed[last] = parseFrame(c, sc[k + 1]) /\ stops # {}
    BY <2>1, <2>3, <1>2
  <2>5. parseFrame(c, sc[k + 1]).terminal \in BOOLEAN
    BY ParseFacts
  <2>6. SentBy(c, sc).complete = parseFrame(c, sc[k + 1]).terminal
    BY <2>4, <2>5, <1>8, Zenon
  <2> QED
    BY <2>3, <2>6, <1>7
<1> QED
  BY <1>12, <1>13, <1>14 DEF n

-----------------------------------------------------------------------------
(* Where an open iterator is: k frames are parsed, j lines of the next are *)
(* collected.                                                              *)
Reading(sc, ending, b, k, j, tk, frame) ==
    /\ k \in 0..Len(sc) /\ j \in Nat
    /\ k = Len(sc) => j = 0
    /\ k < Len(sc) => j <= Len(sc[k + 1])
    /\ tk = LineStart(ending, b[k], j)
    /\ frame \in Seq(Lines) /\ Len(frame) = j
    /\ \A i \in 1..j : frame[i] = sc[k + 1][i]

(* It has handed over the events of those frames, none of which ends it.   *)
At(c, sc, ending, b, k, j, dd, tk) ==
    /\ Reading(sc, ending, b, k, j, tk, dd.frame)
    /\ Quiet(c, sc, k) /\ dd.yielded = Handed(c, sc, k)

IsDec(dd) == dd = [frame |-> dd.frame, yielded |-> dd.yielded, state |-> dd.state]

(* What DecodedIsSent asks of an iterator.                                 *)
Truthful(c, sc, dd) ==
    /\ IsPrefix(dd.yielded, SentBy(c, sc).events)
    /\ dd.state = "complete" => SentBy(c, sc).complete /\ dd.yielded = SentBy(c, sc).events
    /\ dd.state = "unexpectedEOF" => ~SentBy(c, sc).complete /\ dd.yielded = SentBy(c, sc).events

(* An open iterator, or one that failed, is truthful.                      *)
LEMMA AtIsTruthful ==
    ASSUME NEW c, NEW sc, IsScript(sc), NEW ending, NEW b, NEW k, NEW j, NEW dd, NEW tk,
           At(c, sc, ending, b, k, j, dd, tk), dd.state \in {"open", "error"}
    PROVE  Truthful(c, sc, dd)
<1>1. k \in 0..Len(sc) /\ Quiet(c, sc, k) /\ dd.yielded = Handed(c, sc, k)
  BY DEF At, Reading
<1>2. IsPrefix(dd.yielded, SentBy(c, sc).events)
  BY <1>1, SentFacts
<1> QED
  BY <1>2 DEF Truthful

(* What is ahead of it in the stream.                                      *)
LEMMA LineAhead ==
    ASSUME NEW st, NEW sc, NEW en, NEW d, NEW ending, NEW b, Wire(st, sc, en, d, ending, b),
           NEW k, NEW j, NEW tk, NEW frame, Reading(sc, ending, b, k, j, tk, frame),
           tk <= Len(st)
    PROVE  /\ tk \in Nat
           /\ k = Len(sc) => tk = Len(st)
           /\ k < Len(sc) /\ j = Len(sc[k + 1]) =>
                 b[k + 1] \in Nat /\ BlankLine(d, tk, b[k + 1]) /\ b[k + 1] <= Len(st)
           /\ k < Len(sc) /\ j # Len(sc[k + 1]) =>
                 LET e == LineStart(ending, b[k], j + 1)
                 IN  /\ e \in Nat /\ j + 1 \in 1..Len(sc[k + 1]) /\ sc[k + 1][j + 1] \in Lines
                     /\ TextLine(d, tk, e, sc[k + 1][j + 1])
                     /\ \/ e <= Len(st)
                        \/ /\ Len(st) = tk + 1 /\ e > Len(st) /\ k + 1 = Len(sc)
                           /\ j + 1 = Len(sc[k + 1]) /\ en = "eof"
<1> DEFINE n == Len(sc)
           l == Len(st)
<1>1. /\ sc \in Seq(Seq(Lines)) /\ n \in Nat /\ ending \in EndingNames
      /\ Layout(d, sc, n, ending, b) /\ st \in Seq(Tokens) /\ l \in Nat /\ l <= Len(d)
      /\ \/ l = Len(d)
         \/ n >= 1 /\ en = "eof" /\ l = LineStart(ending, b[n - 1], Len(sc[n]) - 1) + 1
  BY DEF Wire, IsScript
<1>2. k \in 0..n /\ j \in Nat /\ tk = LineStart(ending, b[k], j) /\ (k = n => j = 0)
  BY DEF Reading
<1>3. b[k] \in Nat /\ b[k] <= Len(d) /\ \A x \in 0..n : k < x => b[k] < b[x]
  BY <1>1, <1>2, LayoutOrder
<1>4. tk \in Nat
  BY <1>1, <1>2, <1>3, StartFacts
<1>5. Len(d) \in Nat /\ b[n] = Len(d) /\ d \in Seq(Tokens)
  <2>1. d \in Seq(Tokens) /\ b[n] = Len(d)
    BY <1>1 DEF Layout
  <2> QED
    BY <2>1
<1> HIDE DEF n, l
<1>6. ASSUME k = n PROVE tk = l
  <2>1. tk = b[n]
    <3>1. j = 0 /\ 0 \in Nat
      BY <1>2, <1>6
    <3>2. LineStart(ending, b[k], 0) = b[k]
      BY <1>1, <1>3, <3>1, StartFacts
    <3> QED
      BY <3>1, <3>2, <1>2, <1>6
  <2> QED
    BY <2>1, <1>1, <1>4, <1>5 DEF l
<1> DEFINE f == sc[k + 1]
           m == Len(f)
           p == b[k]
           S(i) == LineStart(ending, p, i)
<1>7. ASSUME k < n
      PROVE  /\ m \in Nat /\ m >= 1 /\ f \in Seq(Lines) /\ b[k + 1] \in Nat /\ j <= m
             /\ b[k + 1] = BlankEnd(ending, S(m)) /\ Framed(d, p, f, ending)
             /\ \A i \in 0..m : S(i) \in Nat /\ S(i) < b[k + 1]
             /\ b[k + 1] <= Len(d) /\ (k + 1 < n => b[k + 1] <= b[n - 1])
             /\ k + 1 \in 1..n
  <2> DEFINE x == k + 1
  <2>1. x \in 1..n /\ x - 1 = k /\ x \in 0..n
    BY <1>1, <1>2, <1>7
  <2>2. j <= m
    BY <1>7 DEF Reading, n
  <2> HIDE DEF x
  <2>3. /\ b[x] \in Nat /\ sc[x] \in Seq(Lines) /\ Len(sc[x]) \in Nat /\ Len(sc[x]) >= 1
        /\ \A i \in 0..Len(sc[x]) : LineStart(ending, b[x - 1], i) \in Nat
                                    /\ LineStart(ending, b[x - 1], i) < b[x]
    BY <2>1, <1>1, FrameWithin
  <2>4. b[x] = BlankEnd(ending, LineStart(ending, b[x - 1], Len(sc[x]))) /\ Framed(d, b[x - 1], sc[x], ending)
    BY <2>1, <1>1 DEF Layout
  <2>5. b[x] <= Len(d) /\ \A z \in 0..n : x < z => b[x] < b[z]
    BY <2>1, <1>1, LayoutOrder
  <2>6. x < n => b[x] <= b[n - 1]
    <3>1. CASE x = n - 1
      BY <3>1, <2>3
    <3>2. CASE x < n - 1
      <4>1. n - 1 \in 0..n
        BY <1>1, <2>1, <3>2
      <4>2. b[n - 1] \in Nat
        BY <4>1, <1>1, LayoutOrder
      <4> QED
        BY <4>1, <4>2, <3>2, <2>3, <2>5
    <3> QED
      BY <1>1, <2>1, <3>1, <3>2
  <2> QED
    BY <2>1, <2>2, <2>3, <2>4, <2>5, <2>6 DEF x
<1> HIDE DEF S, m, f, p
<1>8. ASSUME k < n, k + 1 < n PROVE b[k + 1] <= l
  <2>1. CASE l = Len(d)
    BY <2>1, <1>7, <1>8
  <2>2. CASE l # Len(d)
    <3>1. n - 1 \in 0..n /\ n \in 1..n
      BY <1>1, <1>2, <1>8
    <3>2. b[n - 1] \in Nat
      BY <3>1, <1>1, LayoutOrder
    <3>3. Len(sc[n]) \in Nat /\ Len(sc[n]) >= 1
      BY <3>1, <1>1, FrameWithin
    <3>4. LineStart(ending, b[n - 1], Len(sc[n]) - 1) >= b[n - 1]
          /\ LineStart(ending, b[n - 1], Len(sc[n]) - 1) \in Nat
      <4>1. Len(sc[n]) - 1 \in Nat
        BY <3>3
      <4> QED
        BY <4>1, <3>2, <1>1, StartFacts
    <3> DEFINE z == LineStart(ending, b[n - 1], Len(sc[n]) - 1)
               e == b[k + 1]
               q == b[n - 1]
    <3>5. l = z + 1
      BY <1>1, <2>2
    <3>6. e \in Nat /\ e <= q
      BY <1>7, <1>8
    <3>7. z \in Nat /\ z >= q /\ q \in Nat
      BY <3>2, <3>4
    <3> HIDE DEF z, e, q
    <3>8. e <= l
      BY <3>5, <3>6, <3>7
    <3> QED
      BY <3>8 DEF e
  <2> QED
    BY <2>1, <2>2
<1>9. ASSUME k < n, j = m
      PROVE  b[k + 1] \in Nat /\ BlankLine(d, tk, b[k + 1]) /\ b[k + 1] <= l
  <2>1. b[k + 1] \in Nat /\ BlankLine(d, tk, b[k + 1])
    BY <1>2, <1>7, <1>9 DEF Framed, S, m, p
  <2>2. CASE k + 1 < n
    BY <2>1, <2>2, <1>8, <1>9
  <2>3. CASE ~(k + 1 < n)
    <3>1. k + 1 = n /\ n - 1 = k /\ m - 1 \in Nat /\ m - 1 < m /\ m \in Nat
      BY <2>3, <1>1, <1>2, <1>7, <1>9
    <3>2. sc[n] = f /\ b[n - 1] = p /\ p \in Nat
      BY <3>1, <1>3 DEF f, p
    <3>3. S(m - 1) + 2 <= S(m) /\ S(m - 1) \in Nat
      <4>1. S(m - 1) \in Nat
        <5>1. m - 1 \in 0..m
          BY <3>1
        <5> QED
          BY <5>1, <1>7, <1>9
      <4> QED
        BY <4>1, <3>1, <3>2, <1>1, StartOrder DEF S
    <3>4. tk = S(m)
      BY <1>2, <1>9 DEF S, p
    <3>5. l # S(m - 1) + 1
      BY <3>3, <3>4, <1>1, <1>4 DEF l
    <3>6. l = Len(d)
      BY <3>2, <3>5, <1>1 DEF S, m
    <3> QED
      BY <2>1, <3>6, <1>7, <1>9
  <2> QED
    BY <2>2, <2>3
<1>10. ASSUME k < n, j # m
       PROVE  LET e == LineStart(ending, p, j + 1)
              IN  /\ e \in Nat /\ j + 1 \in 1..m /\ f[j + 1] \in Lines
                  /\ TextLine(d, tk, e, f[j + 1])
                  /\ \/ e <= l
                     \/ l = tk + 1 /\ e > l /\ k + 1 = n /\ j + 1 = m /\ en = "eof"
  <2>1. j + 1 \in 1..m /\ j + 1 \in 0..m /\ (j + 1) - 1 = j /\ m \in Nat
    BY <1>2, <1>7, <1>10
  <2>2. S(j + 1) \in Nat /\ S(j + 1) < b[k + 1] /\ f[j + 1] \in Lines
    <3>1. S(j + 1) \in Nat /\ S(j + 1) < b[k + 1]
      BY <2>1, <1>7, <1>10
    <3>2. f \in Seq(Lines) /\ j + 1 \in 1..Len(f)
      BY <2>1, <1>7, <1>10 DEF m
    <3>3. f[j + 1] \in Lines
      BY <3>2
    <3> QED
      BY <3>1, <3>3
  <2>3. TextLine(d, tk, S(j + 1), f[j + 1])
    <3>1. \A i \in 1..m : TextLine(d, S(i - 1), S(i), f[i])
      BY <1>7, <1>10 DEF Framed, S, m
    <3>2. TextLine(d, S((j + 1) - 1), S(j + 1), f[j + 1])
      BY <3>1, <2>1
    <3> QED
      BY <3>2, <2>1, <1>2 DEF S, p
  <2>4. CASE k + 1 < n
    <3>1. S(j + 1) <= l
      BY <2>2, <2>4, <1>1, <1>7, <1>8, <1>10
    <3> QED
      BY <2>1, <2>2, <2>3, <3>1 DEF S
  <2>5. CASE ~(k + 1 < n) /\ l = Len(d)
    <3>1. S(j + 1) <= l
      BY <2>2, <2>5, <1>5, <1>7, <1>10
    <3> QED
      BY <2>1, <2>2, <2>3, <3>1 DEF S
  <2>6. CASE ~(k + 1 < n) /\ l # Len(d)
    <3>1. k + 1 = n /\ n - 1 = k /\ m - 1 \in Nat
      BY <2>6, <1>1, <1>2, <1>7, <1>10
    <3>2. sc[n] = f /\ b[n - 1] = p /\ p \in Nat
      BY <3>1, <1>3 DEF f, p
    <3>3. l = S(m - 1) + 1 /\ en = "eof"
      BY <3>2, <2>6, <1>1 DEF S, m
    <3>4. CASE j + 1 = m
      <4>1. S(m - 1) = tk
        BY <3>4, <2>1, <1>2 DEF S, p
      <4>2. S(j + 1) >= tk + 2
        BY <2>3 DEF TextLine
      <4>3. l = tk + 1 /\ S(j + 1) > l
        BY <4>1, <4>2, <3>3, <1>4, <2>2
      <4> QED
        BY <2>1, <2>2, <2>3, <3>1, <3>3, <3>4, <4>3 DEF S
    <3>5. CASE j + 1 # m
      <4>1. S(j + 1) <= S(m - 1) /\ S(m - 1) \in Nat
        <5>1. S(m - 1) \in Nat
          <6>1. m - 1 \in 0..m
            BY <2>1, <3>1
          <6> QED
            BY <6>1, <1>7, <1>10
        <5>2. CASE j + 1 = m - 1
          BY <5>1, <5>2, <2>2
        <5>3. CASE j + 1 # m - 1
          <6>1. j + 1 < m - 1 /\ j + 1 \in Nat
            BY <5>3, <3>5, <2>1
          <6>2. S(j + 1) + 2 <= S(m - 1)
            BY <6>1, <3>1, <3>2, <1>1, StartOrder DEF S
          <6> QED
            BY <6>2, <5>1, <2>2
        <5> QED
          BY <5>2, <5>3
      <4>2. S(j + 1) <= l
        BY <4>1, <3>3, <2>2
      <4> QED
        BY <2>1, <2>2, <2>3, <4>2 DEF S
    <3> QED
      BY <3>4, <3>5
  <2> QED
    BY <2>4, <2>5, <2>6
<1> QED
  BY <1>4, <1>6, <1>9, <1>10 DEF n, l, f, m, p

(* A line with a text is read.                                             *)
LEMMA TextStep ==
    ASSUME NEW st, NEW sc, NEW en, NEW d, NEW ending, NEW b, Wire(st, sc, en, d, ending, b),
           NEW c, NEW k, NEW j, NEW dd, NEW tk, At(c, sc, ending, b, k, j, dd, tk), IsDec(dd),
           tk <= Len(st), k < Len(sc), j # Len(sc[k + 1])
    PROVE  LET r == WithLine(dd, sc[k + 1][j + 1])
           IN  /\ At(c, sc, ending, b, k, j + 1, r, LineStart(ending, b[k], j + 1))
               /\ IsDec(r) /\ r.state = dd.state
<1> DEFINE f == sc[k + 1]
           t == f[j + 1]
           r == WithLine(dd, t)
           e == LineStart(ending, b[k], j + 1)
<1>1. Reading(sc, ending, b, k, j, tk, dd.frame)
  BY DEF At
<1>2. j + 1 \in 1..Len(f) /\ t \in Lines /\ j \in Nat
  <2>1. j + 1 \in 1..Len(f) /\ t \in Lines
    BY <1>1, LineAhead
  <2>2. j \in Nat
    BY <1>1 DEF Reading
  <2> QED
    BY <2>1, <2>2
<1>3. /\ r.frame = Append(dd.frame, t) /\ r.yielded = dd.yielded /\ r.state = dd.state
      /\ IsDec(r)
  BY DEF IsDec, WithLine
<1> HIDE DEF r, t, f
<1>4. dd.frame \in Seq(Lines) /\ Len(dd.frame) = j /\ \A i \in 1..j : dd.frame[i] = f[i]
  BY <1>1 DEF Reading, f
<1> DEFINE g == Append(dd.frame, t)
<1>5. g \in Seq(Lines) /\ Len(g) = j + 1 /\ g[j + 1] = t /\ \A i \in 1..j : g[i] = dd.frame[i]
  BY <1>2, <1>4
<1> HIDE DEF g
<1>6. ASSUME NEW i \in 1..(j + 1) PROVE g[i] = f[i]
  <2>1. i \in 1..j \/ i = j + 1
    BY <1>2
  <2> QED
    BY <2>1, <1>4, <1>5 DEF t
<1>7. j + 1 \in Nat /\ j + 1 <= Len(f) /\ k \in 0..Len(sc) /\ k # Len(sc)
  BY <1>1, <1>2 DEF Reading
<1>8. Reading(sc, ending, b, k, j + 1, e, r.frame)
  BY <1>3, <1>5, <1>6, <1>7 DEF Reading, f, g
<1>9. At(c, sc, ending, b, k, j + 1, r, e)
  BY <1>3, <1>8 DEF At
<1> QED
  BY <1>3, <1>9 DEF r, t, f

(* A frame is parsed.                                                      *)
LEMMA FrameStep ==
    ASSUME NEW st, NEW sc, NEW en, NEW d, NEW ending, NEW b, Wire(st, sc, en, d, ending, b),
           NEW c, NEW k, NEW j, NEW dd, NEW tk, At(c, sc, ending, b, k, j, dd, tk),
           k < Len(sc), j = Len(sc[k + 1]), NEW eof \in BOOLEAN, eof => k + 1 = Len(sc)
    PROVE  LET r == frameEnds(c, dd, eof)
           IN  /\ IsDec(r) /\ Truthful(c, sc, r)
               /\ r.state = "open" => At(c, sc, ending, b, k + 1, 0, r, b[k + 1])
               /\ r.state \in {"open", "error", "complete", "unexpectedEOF"}
               /\ eof => r.state # "open"
<1> DEFINE n == Len(sc)
           p == parseFrame(c, sc[k + 1])
           r == frameEnds(c, dd, eof)
<1>1. /\ IsScript(sc) /\ n \in Nat /\ sc \in Seq(Seq(Lines)) /\ ending \in EndingNames
      /\ Layout(d, sc, n, ending, b)
  BY DEF Wire, IsScript
<1>2. k \in 0..n /\ dd.frame \in Seq(Lines) /\ Len(dd.frame) = j
      /\ \A i \in 1..j : dd.frame[i] = sc[k + 1][i]
  BY DEF At, Reading
<1>3. k + 1 \in 1..n /\ k + 1 \in 0..n /\ (k + 1) - 1 = k /\ k \in Nat
  BY <1>1, <1>2
<1>4. sc[k + 1] \in Seq(Lines)
  BY <1>1, <1>3
<1>5. dd.frame = sc[k + 1]
  BY <1>2, <1>4, SeqEqual
<1>6. Quiet(c, sc, k) /\ dd.yielded = Handed(c, sc, k)
  BY DEF At
<1>7. /\ IsDec(r) /\ r.frame = << >>
      /\ r.yielded = IF p.event = "none" THEN dd.yielded ELSE Append(dd.yielded, p.event)
      /\ p.failed => r.state = "error"
      /\ p.terminal => r.state = "complete"
      /\ ~p.failed /\ ~p.terminal => r.state = IF eof THEN "unexpectedEOF" ELSE "open"
  BY <1>5, FrameEndsIs DEF IsDec
<1>8. p.terminal \in BOOLEAN /\ p.failed \in BOOLEAN /\ ~(p.terminal /\ p.failed)
  BY ParseFacts
<1>9. r.yielded = Handed(c, sc, k + 1)
  <2>1. Handed(c, sc, k + 1) = IF p.event = "none" THEN Handed(c, sc, (k + 1) - 1)
                               ELSE Append(Handed(c, sc, (k + 1) - 1), p.event)
    BY <1>1, <1>3, HandedFacts
  <2> QED
    BY <2>1, <1>3, <1>6, <1>7
<1>10. Stops(c, sc, k + 1) <=> p.terminal \/ p.failed
  BY DEF Stops
<1> HIDE DEF p, r
<1>11. CASE p.terminal \/ p.failed
  <2>1. Stops(c, sc, k + 1)
    BY <1>10, <1>11, Zenon
  <2>2. k \in 0..Len(sc) /\ k < Len(sc)
    BY <1>2
  <2>3. SentBy(c, sc).events = Handed(c, sc, k + 1) /\ SentBy(c, sc).complete = p.terminal
    BY <2>1, <2>2, <1>1, <1>6, SentFacts DEF p
  <2>4. IsPrefix(r.yielded, SentBy(c, sc).events)
    <3>1. k + 1 \in (k + 1)..n
      BY <1>1, <1>3
    <3>2. IsPrefix(Handed(c, sc, k + 1), Handed(c, sc, k + 1))
      BY <3>1, <1>1, <1>3, HandedFacts
    <3> QED
      BY <3>2, <2>3, <1>9
  <2>5. r.state \in {"error", "complete"} /\ (r.state = "complete" => p.terminal)
    <3>1. CASE p.terminal
      BY <3>1, <1>7
    <3>2. CASE p.failed
      BY <3>2, <1>7
    <3> QED
      BY <3>1, <3>2, <1>11
  <2>6. r.state = "complete" => SentBy(c, sc).complete
    BY <2>3, <2>5, Zenon
  <2>7. Truthful(c, sc, r)
    BY <2>3, <2>4, <2>5, <2>6, <1>9 DEF Truthful
  <2> QED
    BY <2>5, <2>7, <1>7 DEF r
<1>12. CASE ~p.terminal /\ ~p.failed
  <2>1. ~Stops(c, sc, k + 1)
    BY <1>10, <1>12, Zenon
  <2>2. Quiet(c, sc, k + 1)
    <3> SUFFICES ASSUME NEW i \in 1..(k + 1) PROVE ~Stops(c, sc, i)
      BY DEF Quiet
    <3>1. i \in 1..k \/ i = k + 1
      BY <1>3
    <3> QED
      BY <3>1, <2>1, <1>6 DEF Quiet
  <2>3. r.state = IF eof THEN "unexpectedEOF" ELSE "open"
    BY <1>7, <1>12, Zenon
  <2>4. IsPrefix(r.yielded, SentBy(c, sc).events)
        /\ (k + 1 = n => SentBy(c, sc).events = r.yielded /\ ~SentBy(c, sc).complete)
    BY <2>2, <1>1, <1>3, <1>9, SentFacts
  <2>5. Truthful(c, sc, r)
    <3>1. CASE eof
      <4>1. r.state = "unexpectedEOF" /\ k + 1 = n
        BY <3>1, <2>3
      <4> QED
        BY <4>1, <2>4 DEF Truthful
    <3>2. CASE ~eof
      <4>1. r.state = "open"
        BY <3>2, <2>3
      <4> QED
        BY <4>1, <2>4 DEF Truthful
    <3> QED
      BY <3>1, <3>2
  <2>6. Reading(sc, ending, b, k + 1, 0, b[k + 1], r.frame)
    <3>1. b[k + 1] \in Nat /\ 0 \in Nat
      BY <1>1, <1>3, LayoutOrder
    <3>2. LineStart(ending, b[k + 1], 0) = b[k + 1]
      BY <3>1, <1>1, StartFacts
    <3>3. << >> \in Seq(Lines) /\ Len(<< >>) = 0 /\ 1..0 = {}
      OBVIOUS
    <3>4. k + 1 < n => 0 <= Len(sc[(k + 1) + 1])
      <4> SUFFICES ASSUME k + 1 < n PROVE 0 <= Len(sc[(k + 1) + 1])
        OBVIOUS
      <4>1. (k + 1) + 1 \in 1..n
        BY <1>1, <1>3
      <4>2. sc[(k + 1) + 1] \in Seq(Lines)
        BY <4>1, <1>1
      <4> QED
        BY <4>2
    <3> QED
      BY <3>1, <3>2, <3>3, <3>4, <1>3, <1>7 DEF Reading
  <2>7. At(c, sc, ending, b, k + 1, 0, r, b[k + 1])
    BY <2>2, <2>6, <1>9 DEF At
  <2> QED
    BY <2>3, <2>5, <2>7, <1>7 DEF r
<1> QED
  BY <1>11, <1>12

(* The stream ends between frames.                                         *)
LEMMA LastStep ==
    ASSUME NEW c, NEW sc, IsScript(sc), NEW ending, NEW b, NEW k, NEW j, NEW dd, NEW tk,
           At(c, sc, ending, b, k, j, dd, tk), k = Len(sc)
    PROVE  LET r == frameEnds(c, dd, TRUE)
           IN  IsDec(r) /\ Truthful(c, sc, r) /\ r.state = "unexpectedEOF"
<1> DEFINE r == frameEnds(c, dd, TRUE)
           p == parseFrame(c, dd.frame)
<1>1. /\ k \in 0..Len(sc) /\ dd.frame \in Seq(Lines) /\ Len(dd.frame) = 0
      /\ Quiet(c, sc, k) /\ dd.yielded = Handed(c, sc, k)
  BY DEF At, Reading
<1>2. dd.frame = << >>
  BY <1>1
<1>3. p = Nothing
  BY <1>2, EmptyFrame
<1>4. p.event = "none" /\ p.failed = FALSE /\ p.terminal = FALSE
  BY <1>3 DEF Nothing
<1>5. TRUE \in BOOLEAN
  OBVIOUS
<1>6. /\ IsDec(r) /\ r.yielded = (IF p.event = "none" THEN dd.yielded ELSE Append(dd.yielded, p.event))
      /\ ~p.failed /\ ~p.terminal => r.state = "unexpectedEOF"
  BY <1>5, FrameEndsIs DEF IsDec
<1> HIDE DEF p, r
<1>7. r.state = "unexpectedEOF" /\ r.yielded = dd.yielded
  BY <1>4, <1>6
<1>8. /\ IsPrefix(Handed(c, sc, k), SentBy(c, sc).events)
      /\ SentBy(c, sc).events = Handed(c, sc, k) /\ ~SentBy(c, sc).complete
  BY <1>1, SentFacts
<1>9. Truthful(c, sc, r)
  BY <1>1, <1>7, <1>8 DEF Truthful
<1> QED
  BY <1>6, <1>7, <1>9 DEF r

(* The tokens that are buffered.                                           *)
LEMMA BufferedFacts ==
    ASSUME NEW st, NEW sc, NEW en, NEW d, NEW ending, NEW b, Wire(st, sc, en, d, ending, b),
           NEW tk \in Nat, NEW p \in Nat, tk <= p, p <= Len(st), NEW u, u = SubSeq(st, tk + 1, p)
    PROVE  Piece(d, tk, u) /\ Len(u) = p - tk
<1>1. st \in Seq(Tokens) /\ Len(st) \in Nat /\ \A x \in 1..Len(st) : st[x] = d[x]
  BY DEF Wire
<1>2. tk + 1 \in 1..(Len(st) + 1) /\ p \in 0..Len(st)
  BY <1>1
<1>3. u \in Seq(Tokens) /\ Len(u) = p - tk
  BY <1>1, <1>2
<1>4. ASSUME NEW x \in 1..(p - tk) PROVE u[x] = d[tk + x]
  <2>1. u[x] = st[tk + x]
    BY <1>1, <1>2
  <2>2. tk + x \in 1..Len(st)
    BY <1>1
  <2> QED
    BY <2>1, <2>2, <1>1
<1> QED
  BY <1>3, <1>4 DEF Piece

(* Where the lines end that are buffered.                                  *)
Ends(u) == {i \in DOMAIN u : u[i] = LF}

(* The first of them.                                                      *)
LEMMA FirstLine ==
    ASSUME NEW d, NEW tk \in Nat, NEW p \in Nat, NEW u, Piece(d, tk, u), Len(u) = p - tk,
           NEW e \in Nat, FirstEnd(d, tk, e)
    PROVE  /\ Ends(u) # {} <=> e <= p
           /\ Ends(u) # {} => Min(Ends(u)) = e - tk
<1> DEFINE L == Ends(u)
<1>1. u \in Seq(Tokens) /\ \A x \in 1..(p - tk) : u[x] = d[tk + x]
  BY DEF Piece
<1>2. L = {i \in 1..(p - tk) : d[tk + i] = LF}
  BY <1>1 DEF Ends
<1>3. e > tk /\ d[e] = LF /\ \A x \in (tk + 1)..(e - 1) : d[x] # LF
  BY DEF FirstEnd
<1> HIDE DEF L
<1>4. ASSUME NEW i \in L PROVE e - tk <= i /\ e <= p
  <2>1. i \in 1..(p - tk) /\ d[tk + i] = LF
    BY <1>2
  <2>2. ~(tk + i \in (tk + 1)..(e - 1))
    BY <2>1, <1>3
  <2> QED
    BY <2>1, <2>2, <1>3
<1>5. CASE e <= p
  <2> DEFINE z == e - tk
  <2>1. z \in 1..(p - tk) /\ tk + z = e /\ z \in Nat
    BY <1>3, <1>5
  <2> HIDE DEF z
  <2>2. z \in L
    BY <2>1, <1>2, <1>3
  <2>3. L \subseteq Nat
    BY <1>2
  <2>4. Min(L) \in L /\ \A y \in L : Min(L) <= y
    BY <2>2, <2>3, MinIsLeast
  <2>5. Min(L) \in Nat /\ Min(L) <= z /\ z <= Min(L)
    BY <2>2, <2>3, <2>4, <1>4 DEF z
  <2>6. Min(L) = z
    BY <2>1, <2>5
  <2> QED
    BY <2>2, <2>6, <1>5 DEF L, z
<1>6. CASE ~(e <= p)
  BY <1>4, <1>6 DEF L
<1> QED
  BY <1>5, <1>6

(* Its tokens.                                                             *)
LEMMA FrontPiece ==
    ASSUME NEW d, NEW tk \in Nat, NEW u, Piece(d, tk, u), NEW z \in Nat, z <= Len(u)
    PROVE  Piece(d, tk, SubSeq(u, 1, z)) /\ Len(SubSeq(u, 1, z)) = z
<1> DEFINE w == SubSeq(u, 1, z)
<1>1. u \in Seq(Tokens) /\ \A x \in 1..Len(u) : u[x] = d[tk + x]
  BY DEF Piece
<1>2. w \in Seq(Tokens) /\ Len(w) = z /\ \A x \in 1..z : w[x] = u[x]
  BY <1>1
<1> HIDE DEF w
<1>3. ASSUME NEW x \in 1..z PROVE w[x] = d[tk + x]
  <2>1. x \in 1..Len(u)
    BY <1>1
  <2> QED
    BY <2>1, <1>1, <1>2
<1>4. Piece(d, tk, w) /\ Len(w) = z
  BY <1>2, <1>3 DEF Piece
<1> QED
  BY <1>4 DEF w

(* The situation in which an open iterator looks at its buffer.            *)
Looks(st, sc, en, d, ending, b, c, k, j, dd, tk, p, u) ==
    /\ Wire(st, sc, en, d, ending, b) /\ At(c, sc, ending, b, k, j, dd, tk)
    /\ IsDec(dd) /\ dd.state = "open"
    /\ tk \in Nat /\ p \in Nat /\ tk <= p /\ p <= Len(st) /\ u = SubSeq(st, tk + 1, p)

(* The iterator after a step that has consumed q tokens.                   *)
Keeps(c, sc, ending, b, r, q) ==
    /\ IsDec(r) /\ Truthful(c, sc, r)
    /\ r.state = "open" => \E k, j : At(c, sc, ending, b, k, j, r, q)

(* What that situation says.                                               *)
LEMMA LooksFacts ==
    ASSUME NEW st, NEW sc, NEW en, NEW d, NEW ending, NEW b, NEW c, NEW k, NEW j, NEW dd, NEW tk,
           NEW p, NEW u, Looks(st, sc, en, d, ending, b, c, k, j, dd, tk, p, u)
    PROVE  /\ Wire(st, sc, en, d, ending, b) /\ At(c, sc, ending, b, k, j, dd, tk)
           /\ IsDec(dd) /\ dd.state = "open"
           /\ tk \in Nat /\ p \in Nat /\ tk <= p /\ p <= Len(st) /\ tk <= Len(st)
           /\ Reading(sc, ending, b, k, j, tk, dd.frame) /\ IsScript(sc)
           /\ Len(st) \in Nat /\ Len(sc) \in Nat /\ k \in 0..Len(sc)
           /\ Piece(d, tk, u) /\ Len(u) = p - tk /\ u \in Seq(Tokens)
<1>1. /\ Wire(st, sc, en, d, ending, b) /\ At(c, sc, ending, b, k, j, dd, tk)
      /\ IsDec(dd) /\ dd.state = "open"
      /\ tk \in Nat /\ p \in Nat /\ tk <= p /\ p <= Len(st) /\ u = SubSeq(st, tk + 1, p)
  BY DEF Looks
<1>2. /\ Reading(sc, ending, b, k, j, tk, dd.frame) /\ IsScript(sc)
      /\ Len(st) \in Nat /\ Len(sc) \in Nat /\ k \in 0..Len(sc)
  BY <1>1 DEF At, Wire, IsScript, Reading
<1>3. Piece(d, tk, u) /\ Len(u) = p - tk
  BY <1>1, BufferedFacts
<1>4. tk <= Len(st)
  BY <1>1, <1>2
<1>5. u \in Seq(Tokens)
  BY <1>3 DEF Piece
<1> QED
  BY <1>1, <1>2, <1>3, <1>4, <1>5

(* ReadString returns a line.                                              *)
LEMMA LineStep ==
    ASSUME NEW st, NEW sc, NEW en, NEW d, NEW ending, NEW b, NEW c, NEW k, NEW j, NEW dd, NEW tk,
           NEW p, NEW u, Looks(st, sc, en, d, ending, b, c, k, j, dd, tk, p, u), Ends(u) # {}
    PROVE  /\ Keeps(c, sc, ending, b, lineRead(c, dd, SubSeq(u, 1, Min(Ends(u)))), tk + Min(Ends(u)))
           /\ tk + Min(Ends(u)) \in Nat /\ tk + Min(Ends(u)) <= p
<1> DEFINE n == Len(sc)
           z == Min(Ends(u))
           line == SubSeq(u, 1, z)
           q == tk + z
           r == lineRead(c, dd, line)
<1>1. /\ Wire(st, sc, en, d, ending, b) /\ At(c, sc, ending, b, k, j, dd, tk)
      /\ IsDec(dd) /\ dd.state = "open"
      /\ tk \in Nat /\ p \in Nat /\ tk <= p /\ tk <= Len(st)
      /\ Reading(sc, ending, b, k, j, tk, dd.frame) /\ IsScript(sc)
      /\ Len(st) \in Nat /\ n \in Nat /\ k \in 0..n
      /\ Piece(d, tk, u) /\ Len(u) = p - tk /\ u \in Seq(Tokens)
  BY LooksFacts
<1>2. p <= Len(st)
  BY LooksFacts
<1>3. k < n
  <2>1. k # n
    <3> SUFFICES ASSUME k = n PROVE FALSE
      OBVIOUS
    <3>1. tk = Len(st)
      BY <1>1, LineAhead
    <3>2. Len(u) = 0
      BY <3>1, <1>1, <1>2
    <3>3. DOMAIN u = {}
      BY <3>2, <1>1
    <3> QED
      BY <3>3 DEF Ends
  <2> QED
    BY <2>1, <1>1
<1> HIDE DEF n, z
<1>4. ASSUME NEW e \in Nat, FirstEnd(d, tk, e)
      PROVE  Piece(d, tk, line) /\ Len(line) = e - tk /\ q = e /\ e <= p /\ e > tk
  <2>1. e <= p /\ z = e - tk
    BY <1>1, <1>4, FirstLine DEF z
  <2>2. e > tk
    BY <1>4 DEF FirstEnd
  <2>3. z \in Nat /\ z <= Len(u) /\ q = e
    BY <2>1, <2>2, <1>1
  <2>4. Piece(d, tk, line) /\ Len(line) = z
    BY <2>3, <1>1, FrontPiece
  <2> QED
    BY <2>1, <2>2, <2>3, <2>4
<1> HIDE DEF line, q, r
<1>5. CASE j = Len(sc[k + 1])
  <2> DEFINE e == b[k + 1]
  <2>1. e \in Nat /\ BlankLine(d, tk, e)
    BY <1>1, <1>3, <1>5, LineAhead DEF n
  <2> HIDE DEF e
  <2>2. FirstEnd(d, tk, e)
    BY <2>1, <1>1, FirstLF
  <2>3. Piece(d, tk, line) /\ Len(line) = e - tk /\ q = e /\ e <= p
    BY <2>1, <2>2, <1>4
  <2>4. Len(line) <= e - tk
    BY <2>1, <2>3, <1>1
  <2>5. r = frameEnds(c, dd, FALSE)
    BY <2>1, <2>3, <2>4, <1>1, BlankRead DEF r
  <2>6. /\ IsDec(r) /\ Truthful(c, sc, r)
        /\ r.state = "open" => At(c, sc, ending, b, k + 1, 0, r, e)
    BY <2>5, <1>1, <1>3, <1>5, FrameStep DEF e, n
  <2>7. Keeps(c, sc, ending, b, r, q)
    BY <2>3, <2>6 DEF Keeps
  <2> QED
    BY <2>1, <2>3, <2>7 DEF r, q, line, z
<1>6. CASE j # Len(sc[k + 1])
  <2> DEFINE e == LineStart(ending, b[k], j + 1)
             t == sc[k + 1][j + 1]
  <2>1. e \in Nat /\ t \in Lines /\ TextLine(d, tk, e, t)
    BY <1>1, <1>3, <1>6, LineAhead DEF n
  <2> HIDE DEF e, t
  <2>2. FirstEnd(d, tk, e)
    BY <2>1, <1>1, FirstLF
  <2>3. Piece(d, tk, line) /\ Len(line) = e - tk /\ q = e /\ e <= p /\ e > tk
    BY <2>1, <2>2, <1>4
  <2>4. Len(line) <= e - tk /\ Len(line) >= 1
    BY <2>1, <2>3, <1>1
  <2>5. r = WithLine(dd, t)
    BY <2>1, <2>3, <2>4, <1>1, TextRead DEF r
  <2>6. At(c, sc, ending, b, k, j + 1, r, e) /\ IsDec(r) /\ r.state = dd.state
    BY <2>5, <1>1, <1>3, <1>6, TextStep DEF e, t, n
  <2>7. r.state \in {"open", "error"}
    BY <2>6, <1>1
  <2>8. Truthful(c, sc, r)
    BY <2>6, <2>7, <1>1, AtIsTruthful
  <2>9. Keeps(c, sc, ending, b, r, q)
    BY <2>3, <2>6, <2>8 DEF Keeps
  <2> QED
    BY <2>1, <2>3, <2>9 DEF r, q, line, z
<1> QED
  BY <1>5, <1>6

(* The next line, of which the buffer holds no end: no line at all, a      *)
(* blank one or one with a text.                                           *)
NoneLeft(sc, k, u) == k = Len(sc) /\ u = << >>
BlankCut(st, sc, c, k, j, dd, p, u) ==
    /\ k < Len(sc) /\ j = Len(sc[k + 1]) /\ p < Len(st)
    /\ lineRead(c, dd, u) = frameEnds(c, dd, FALSE)
TextCut(st, sc, c, k, j, dd, p, u) ==
    /\ k < Len(sc) /\ j # Len(sc[k + 1])
    /\ u # << >> => lineRead(c, dd, u) = WithLine(dd, sc[k + 1][j + 1])
    /\ p = Len(st) => u # << >> /\ k + 1 = Len(sc) /\ j + 1 = Len(sc[k + 1])

(* There is no other case.                                                 *)
LEMMA CutLine ==
    ASSUME NEW st, NEW sc, NEW en, NEW d, NEW ending, NEW b, NEW c, NEW k, NEW j, NEW dd, NEW tk,
           NEW p, NEW u, Looks(st, sc, en, d, ending, b, c, k, j, dd, tk, p, u), Ends(u) = {}
    PROVE  \/ NoneLeft(sc, k, u)
           \/ BlankCut(st, sc, c, k, j, dd, p, u)
           \/ TextCut(st, sc, c, k, j, dd, p, u)
<1> DEFINE n == Len(sc)
<1>1. /\ Wire(st, sc, en, d, ending, b) /\ At(c, sc, ending, b, k, j, dd, tk)
      /\ tk \in Nat /\ p \in Nat /\ tk <= p /\ p <= Len(st) /\ tk <= Len(st)
      /\ Reading(sc, ending, b, k, j, tk, dd.frame) /\ IsScript(sc)
      /\ Len(st) \in Nat /\ n \in Nat /\ k \in 0..n
  BY LooksFacts
<1>2. Piece(d, tk, u) /\ Len(u) = p - tk /\ u \in Seq(Tokens)
  BY LooksFacts
<1>3. u = << >> <=> Len(u) = 0
  BY <1>2
<1>4. ASSUME NEW e \in Nat, FirstEnd(d, tk, e)
      PROVE  ~(e <= p)
  BY <1>1, <1>2, <1>4, FirstLine
<1>5. CASE k = n
  <2>1. tk = Len(st)
    BY <1>1, <1>5, LineAhead
  <2>2. Len(u) = 0
    BY <2>1, <1>1, <1>2
  <2> QED
    BY <2>2, <1>3, <1>5 DEF NoneLeft
<1>6. CASE k # n /\ j = Len(sc[k + 1])
  <2> DEFINE e == b[k + 1]
  <2>1. k < n
    BY <1>1, <1>6
  <2>2. e \in Nat /\ BlankLine(d, tk, e) /\ e <= Len(st)
    BY <2>1, <1>1, <1>6, LineAhead
  <2> HIDE DEF e
  <2>3. FirstEnd(d, tk, e)
    BY <2>2, <1>1, FirstLF
  <2>4. ~(e <= p)
    BY <2>2, <2>3, <1>4
  <2>5. p < Len(st) /\ Len(u) <= e - tk
    BY <2>2, <2>4, <1>1, <1>2
  <2>6. lineRead(c, dd, u) = frameEnds(c, dd, FALSE)
    BY <2>2, <2>5, <1>1, <1>2, BlankRead
  <2> QED
    BY <2>1, <2>5, <2>6, <1>6 DEF BlankCut
<1>7. CASE k # n /\ j # Len(sc[k + 1])
  <2> DEFINE e == LineStart(ending, b[k], j + 1)
             t == sc[k + 1][j + 1]
  <2>1. k < n
    BY <1>1, <1>7
  <2>2. /\ e \in Nat /\ t \in Lines /\ TextLine(d, tk, e, t)
        /\ \/ e <= Len(st)
           \/ Len(st) = tk + 1 /\ k + 1 = n /\ j + 1 = Len(sc[k + 1])
    BY <2>1, <1>1, <1>7, LineAhead
  <2> HIDE DEF e, t
  <2>3. FirstEnd(d, tk, e)
    BY <2>2, <1>1, FirstLF
  <2>4. ~(e <= p)
    BY <2>2, <2>3, <1>4
  <2>5. Len(u) <= e - tk
    BY <2>2, <2>4, <1>1, <1>2
  <2>6. ASSUME u # << >> PROVE lineRead(c, dd, u) = WithLine(dd, t)
    <3>1. Len(u) >= 1
      BY <2>6, <1>2
    <3> QED
      BY <3>1, <2>2, <2>5, <1>1, <1>2, TextRead
  <2>7. ASSUME p = Len(st) PROVE u # << >> /\ k + 1 = n /\ j + 1 = Len(sc[k + 1])
    <3>1. Len(st) = tk + 1 /\ k + 1 = n /\ j + 1 = Len(sc[k + 1])
      BY <2>2, <2>4, <2>7
    <3>2. Len(u) = 1
      BY <3>1, <2>7, <1>1, <1>2
    <3> QED
      BY <3>1, <3>2, <1>3
  <2> QED
    BY <2>1, <2>6, <2>7, <1>7 DEF TextCut, t
<1> QED
  BY <1>5, <1>6, <1>7

(* A line with a text was cut short, or is the last: the iterator has it   *)
(* in its frame.                                                           *)
LEMMA CutText ==
    ASSUME NEW st, NEW sc, NEW en, NEW d, NEW ending, NEW b, NEW c, NEW k, NEW j, NEW dd, NEW tk,
           NEW p, NEW u, Looks(st, sc, en, d, ending, b, c, k, j, dd, tk, p, u), u # << >>,
           TextCut(st, sc, c, k, j, dd, p, u)
    PROVE  /\ At(c, sc, ending, b, k, j + 1, lineRead(c, dd, u), LineStart(ending, b[k], j + 1))
           /\ IsDec(lineRead(c, dd, u)) /\ lineRead(c, dd, u).state = "open"
<1>1. /\ Wire(st, sc, en, d, ending, b) /\ At(c, sc, ending, b, k, j, dd, tk)
      /\ IsDec(dd) /\ dd.state = "open" /\ tk <= Len(st)
  BY LooksFacts
<1>2. k < Len(sc) /\ j # Len(sc[k + 1]) /\ lineRead(c, dd, u) = WithLine(dd, sc[k + 1][j + 1])
  BY DEF TextCut
<1> DEFINE r == WithLine(dd, sc[k + 1][j + 1])
<1>3. /\ At(c, sc, ending, b, k, j + 1, r, LineStart(ending, b[k], j + 1))
      /\ IsDec(r) /\ r.state = dd.state
  BY <1>1, <1>2, TextStep
<1> HIDE DEF r
<1>4. lineRead(c, dd, u) = r
  BY <1>2 DEF r
<1> QED
  BY <1>1, <1>3, <1>4

(* ReadString returns io.EOF with what is left.                            *)
LEMMA EofStep ==
    ASSUME NEW st, NEW sc, NEW en, NEW d, NEW ending, NEW b, NEW c, NEW k, NEW j, NEW dd, NEW tk,
           NEW p, NEW u, Looks(st, sc, en, d, ending, b, c, k, j, dd, tk, p, u), Ends(u) = {},
           p = Len(st)
    PROVE  IsDec(eofRead(c, dd, u)) /\ Truthful(c, sc, eofRead(c, dd, u)) /\ eofRead(c, dd, u).state # "open"
<1> DEFINE R == eofRead(c, dd, u)
<1>1. /\ Wire(st, sc, en, d, ending, b) /\ At(c, sc, ending, b, k, j, dd, tk)
      /\ dd.state = "open" /\ IsScript(sc) /\ Len(st) \in Nat
  BY LooksFacts
<1>2. CASE NoneLeft(sc, k, u)
  <2>1. k = Len(sc) /\ u = << >>
    BY <1>2 DEF NoneLeft
  <2>2. R = frameEnds(c, dd, TRUE)
    BY <1>1, <2>1 DEF eofRead
  <2> HIDE DEF R
  <2>3. IsDec(R) /\ Truthful(c, sc, R) /\ R.state = "unexpectedEOF"
    BY <2>1, <2>2, <1>1, LastStep
  <2> QED
    BY <2>3 DEF R
<1>3. CASE TextCut(st, sc, c, k, j, dd, p, u)
  <2> DEFINE r == lineRead(c, dd, u)
             e == LineStart(ending, b[k], j + 1)
  <2>1. k < Len(sc) /\ u # << >> /\ k + 1 = Len(sc) /\ j + 1 = Len(sc[k + 1])
    BY <1>3 DEF TextCut
  <2>2. At(c, sc, ending, b, k, j + 1, r, e) /\ r.state = "open"
    BY <2>1, <1>3, CutText
  <2>3. R = frameEnds(c, r, TRUE)
    BY <2>1, <2>2 DEF eofRead
  <2> DEFINE i == j + 1
             eof == TRUE
  <2>4. At(c, sc, ending, b, k, i, r, e) /\ i = Len(sc[k + 1]) /\ eof \in BOOLEAN /\ eof
    BY <2>1, <2>2
  <2>5. R = frameEnds(c, r, eof)
    BY <2>3
  <2> HIDE DEF r, e, R, i, eof
  <2>6. IsDec(R) /\ Truthful(c, sc, R) /\ (eof => R.state # "open")
    <3>1. eof \in BOOLEAN /\ (eof => k + 1 = Len(sc)) /\ k < Len(sc)
      BY <2>1, <2>4
    <3>2. At(c, sc, ending, b, k, i, r, e) /\ i = Len(sc[k + 1]) /\ Wire(st, sc, en, d, ending, b)
      BY <2>4, <1>1
    <3> QED
      BY ONLY <3>1, <3>2, <2>5, FrameStep
  <2> QED
    BY <2>4, <2>6 DEF R
<1>4. CASE BlankCut(st, sc, c, k, j, dd, p, u)
  BY <1>1, <1>4 DEF BlankCut
<1> QED
  BY <1>2, <1>3, <1>4, CutLine

(* The iterator after another error than io.EOF.                           *)
Stopped(x) == IF x.state = "open" THEN [x EXCEPT !.state = "error"] ELSE x

(* It stays truthful.                                                      *)
LEMMA StoppedKeeps ==
    ASSUME NEW c, NEW sc, IsScript(sc), NEW ending, NEW b, NEW q, NEW x,
           Keeps(c, sc, ending, b, x, q)
    PROVE  IsDec(Stopped(x)) /\ Truthful(c, sc, Stopped(x)) /\ Stopped(x).state # "open"
<1>1. IsDec(x) /\ Truthful(c, sc, x)
  BY DEF Keeps
<1>2. CASE x.state # "open"
  BY <1>1, <1>2 DEF Stopped
<1>3. CASE x.state = "open"
  <2> DEFINE y == [x EXCEPT !.state = "error"]
  <2>1. IsDec(y) /\ y.frame = x.frame /\ y.yielded = x.yielded /\ y.state = "error"
    BY <1>1 DEF IsDec
  <2>2. Stopped(x) = y
    BY <1>3 DEF Stopped
  <2> HIDE DEF y
  <2>3. Truthful(c, sc, y)
    BY <2>1, <1>1 DEF Truthful
  <2> QED
    BY <2>1, <2>2, <2>3
<1> QED
  BY <1>2, <1>3

(* ReadString returns another error with what is left.                     *)
LEMMA ErrorStep ==
    ASSUME NEW st, NEW sc, NEW en, NEW d, NEW ending, NEW b, NEW c, NEW k, NEW j, NEW dd, NEW tk,
           NEW p, NEW u, Looks(st, sc, en, d, ending, b, c, k, j, dd, tk, p, u), Ends(u) = {},
           NEW x, x = IF u = << >> THEN dd ELSE lineRead(c, dd, u)
    PROVE  IsDec(Stopped(x)) /\ Truthful(c, sc, Stopped(x)) /\ Stopped(x).state # "open"
<1>1. /\ Wire(st, sc, en, d, ending, b) /\ At(c, sc, ending, b, k, j, dd, tk)
      /\ IsDec(dd) /\ dd.state = "open" /\ IsScript(sc)
  BY LooksFacts
<1>2. \E q : Keeps(c, sc, ending, b, x, q)
  <2>1. CASE u = << >>
    <3>1. Truthful(c, sc, dd)
      <4>1. dd.state \in {"open", "error"}
        BY <1>1
      <4> QED
        BY <4>1, <1>1, AtIsTruthful
    <3> QED
      BY <3>1, <2>1, <1>1 DEF Keeps
  <2>2. CASE u # << >> /\ BlankCut(st, sc, c, k, j, dd, p, u)
    <3>1. k < Len(sc) /\ j = Len(sc[k + 1]) /\ x = frameEnds(c, dd, FALSE)
      BY <2>2 DEF BlankCut
    <3>2. /\ IsDec(x) /\ Truthful(c, sc, x)
          /\ x.state = "open" => At(c, sc, ending, b, k + 1, 0, x, b[k + 1])
      BY <3>1, <1>1, FrameStep
    <3> QED
      BY <3>2 DEF Keeps
  <2>3. CASE u # << >> /\ TextCut(st, sc, c, k, j, dd, p, u)
    <3>1. x = lineRead(c, dd, u)
      BY <2>3
    <3>2. /\ At(c, sc, ending, b, k, j + 1, x, LineStart(ending, b[k], j + 1))
          /\ IsDec(x) /\ x.state = "open"
      BY <3>1, <2>3, CutText
    <3>3. x.state \in {"open", "error"}
      BY <3>2
    <3>4. Truthful(c, sc, x)
      BY <3>2, <3>3, <1>1, AtIsTruthful
    <3> QED
      BY <3>2, <3>4 DEF Keeps
  <2>4. CASE NoneLeft(sc, k, u)
    BY <2>1, <2>4 DEF NoneLeft
  <2> QED
    BY <2>1, <2>2, <2>3, <2>4, CutLine
<1> QED
  BY <1>1, <1>2, StoppedKeeps

(* Where the body and the reader are.                                      *)
ReadInv ==
    /\ pos \in Nat /\ taken \in Nat /\ taken <= pos
    /\ stream \in Seq(Tokens) /\ pos <= Len(stream)
    /\ err = "eof" => pos = Len(stream)

(* Nothing outside the body moves it.                                      *)
LEMMA ReadStep ==
    ASSUME ReadInv, [Next]_vars
    PROVE  ReadInv'
<1>1. /\ pos \in Nat /\ taken \in Nat /\ taken <= pos /\ Len(stream) \in Nat
      /\ stream \in Seq(Tokens) /\ pos <= Len(stream) /\ (err = "eof" => pos = Len(stream))
  BY DEF ReadInv
<1>2. CASE BodyReturns
  <2>1. PICK p \in PieceEnds : \E e \in BodyErrors(p) : pos' = p /\ err' = e
    BY <1>2 DEF BodyReturns
  <2>2. PICK e \in BodyErrors(p) : pos' = p /\ err' = e
    BY <2>1
  <2>3. UNCHANGED <<stream, taken>>
    BY <1>2 DEF BodyReturns, body
  <2>4. p \in pos..Len(stream)
    <3> DEFINE lines == {i \in (pos + 1)..Len(stream) : stream[i] = LF}
               top == IF consumer = "capture" \/ lines = {} THEN Len(stream) ELSE Min(lines)
    <3>1. top \in 0..Len(stream)
      <4>1. CASE consumer = "capture" \/ lines = {}
        BY <4>1, <1>1
      <4>2. CASE ~(consumer = "capture" \/ lines = {})
        <5>1. lines \subseteq Nat /\ lines # {} /\ \A i \in lines : i \in 0..Len(stream)
          BY <4>2, <1>1
        <5> HIDE DEF lines
        <5>2. Min(lines) \in lines
          BY <5>1, MinIsLeast
        <5> QED
          BY <5>1, <5>2, <4>2
      <4> QED
        BY <4>1, <4>2
    <3>2. PieceEnds = pos..top
      BY DEF PieceEnds
    <3> HIDE DEF top
    <3>3. p \in pos..top
      BY <2>1, <3>2
    <3> QED
      BY <3>1, <3>3, <1>1
  <2>5. e = "eof" => p = Len(stream)
    BY DEF BodyErrors
  <2> QED
    BY <1>1, <2>2, <2>3, <2>4, <2>5 DEF ReadInv
<1>3. CASE ReadReturns
  <2>1. /\ UNCHANGED <<stream, pos, taken>>
        /\ err' = IF timed /\ cause = "idle" /\ err # "none" THEN "idle" ELSE err
    BY <1>3 DEF ReadReturns, body
  <2>2. err' = "eof" => err = "eof"
    BY <2>1
  <2> QED
    BY <1>1, <2>1, <2>2 DEF ReadInv
<1>4. CASE NextLine
  <2> DEFINE u == Buffered
             z == Min({i \in DOMAIN u : u[i] = LF})
  <2>1. UNCHANGED <<stream, pos, err>> /\ taken' = taken + z /\ \E i \in DOMAIN u : u[i] = LF
    BY <1>4 DEF NextLine, HasLine, body
  <2>2. u \in Seq(Tokens) /\ Len(u) = pos - taken
    BY <1>1 DEF Buffered
  <2> HIDE DEF u
  <2>3. {i \in DOMAIN u : u[i] = LF} \subseteq Nat /\ DOMAIN u = 1..(pos - taken)
    BY <2>2
  <2>4. z \in {i \in DOMAIN u : u[i] = LF}
    BY <2>1, <2>3, MinIsLeast
  <2>5. z \in 1..(pos - taken)
    BY <2>3, <2>4
  <2> HIDE DEF z
  <2> QED
    BY <1>1, <2>1, <2>5 DEF ReadInv
<1>5. CASE StreamEnds \/ StreamFails
  <2>1. UNCHANGED <<stream, pos, err>> /\ taken' = pos
    BY <1>5 DEF StreamEnds, StreamFails, body
  <2> QED
    BY <1>1, <2>1 DEF ReadInv
<1>6. CASE ReadStarts \/ TimerFires \/ CallerCancels \/ Close \/ UNCHANGED vars
  <2>1. UNCHANGED <<stream, pos, err, taken>>
    BY <1>6 DEF ReadStarts, TimerFires, CallerCancels, Close, vars, body
  <2> QED
    BY <1>1, <2>1 DEF ReadInv
<1> QED
  BY <1>2, <1>3, <1>4, <1>5, <1>6 DEF Next

-----------------------------------------------------------------------------
(* The iterator is somewhere in the layout of the script, or it has ended  *)
(* and what it handed over is what was sent.                               *)
DecodeInv ==
    /\ ReadInv
    /\ \E d, ending, b :
          /\ Wire(stream, script, ended, d, ending, b)
          /\ consumer # "capture" => Keeps(consumer, script, ending, b, dec, taken)

(* It starts before the first frame.                                       *)
LEMMA DecodeStarts ==
    ASSUME Init
    PROVE  DecodeInv
<1>1. PICK d, ending, b : Wire(stream, script, ended, d, ending, b)
  BY InitIsWired
<1>2. pos = 0 /\ taken = 0 /\ dec = Start /\ err = "none"
  BY DEF Init
<1>3. stream \in Seq(Tokens) /\ Len(stream) \in Nat
  BY <1>1 DEF Wire
<1>4. ReadInv
  BY <1>2, <1>3 DEF ReadInv
<1>5. /\ IsScript(script) /\ Len(script) \in Nat /\ ending \in EndingNames
      /\ Layout(d, script, Len(script), ending, b)
  BY <1>1 DEF Wire, IsScript
<1>6. dec.frame = << >> /\ dec.yielded = << >> /\ dec.state = "open" /\ IsDec(dec)
  BY <1>2 DEF Start, IsDec
<1>7. Handed(consumer, script, 0) = << >>
  BY <1>5, HandedFacts
<1>8. 0 \in 0..Len(script) /\ 0 \in Nat
  BY <1>5
<1>9. b[0] = 0
  BY <1>5 DEF Layout
<1>10. LineStart(ending, b[0], 0) = 0
  BY <1>5, <1>8, <1>9, StartFacts
<1>11. << >> \in Seq(Lines) /\ Len(<< >>) = 0 /\ 1..0 = {}
  OBVIOUS
<1>12. 0 < Len(script) => 0 <= Len(script[0 + 1])
  <2> SUFFICES ASSUME 0 < Len(script) PROVE 0 <= Len(script[0 + 1])
    OBVIOUS
  <2>1. 0 + 1 \in DOMAIN script
    BY <1>5 DEF IsScript
  <2>2. script[0 + 1] \in Seq(Lines)
    BY <2>1, <1>5 DEF IsScript
  <2> QED
    BY <2>2
<1>13. Reading(script, ending, b, 0, 0, taken, dec.frame)
  BY <1>2, <1>6, <1>8, <1>10, <1>11, <1>12 DEF Reading
<1>14. Quiet(consumer, script, 0)
  BY <1>11 DEF Quiet
<1>15. At(consumer, script, ending, b, 0, 0, dec, taken)
  BY <1>6, <1>7, <1>13, <1>14 DEF At
<1>16. dec.state \in {"open", "error"}
  BY <1>6
<1>17. Truthful(consumer, script, dec)
  BY <1>5, <1>15, <1>16, AtIsTruthful
<1>18. Keeps(consumer, script, ending, b, dec, taken)
  BY <1>6, <1>15, <1>17 DEF Keeps
<1> QED
  BY <1>1, <1>4, <1>18 DEF DecodeInv

(* Every step of the iterator keeps it there.                              *)
LEMMA DecodeStep ==
    ASSUME DecodeInv, [Next]_vars
    PROVE  DecodeInv'
<1>1. PICK d, ending, b :
          /\ Wire(stream, script, ended, d, ending, b)
          /\ consumer # "capture" => Keeps(consumer, script, ending, b, dec, taken)
  BY DEF DecodeInv
<1>2. ReadInv /\ ReadInv'
  BY ReadStep DEF DecodeInv
<1>3. UNCHANGED <<mode, script, stream, ended>>
  BY DEF Next, ReadStarts, BodyReturns, ReadReturns, NextLine, StreamEnds, StreamFails, TimerFires,
         CallerCancels, Close, vars, body
<1>4. Wire(stream', script', ended', d, ending, b) /\ consumer' = consumer
  BY <1>1, <1>3 DEF consumer
<1>5. IsScript(script)
  BY <1>1 DEF Wire
<1> DEFINE u == Buffered
<1>6. ASSUME consumer # "capture", dec.state = "open"
      PROVE  \E k, j : Looks(stream, script, ended, d, ending, b, consumer, k, j, dec, taken, pos, u)
  <2>1. IsDec(dec) /\ \E k, j : At(consumer, script, ending, b, k, j, dec, taken)
    BY <1>1, <1>6 DEF Keeps
  <2>2. PICK k, j : At(consumer, script, ending, b, k, j, dec, taken)
    BY <2>1
  <2>3. taken \in Nat /\ pos \in Nat /\ taken <= pos /\ pos <= Len(stream)
    BY <1>2 DEF ReadInv
  <2>4. Looks(stream, script, ended, d, ending, b, consumer, k, j, dec, taken, pos, u)
    BY <1>1, <1>6, <2>1, <2>2, <2>3 DEF Looks, Buffered
  <2> QED
    BY <2>4
<1>7. HasLine <=> consumer # "capture" /\ Ends(u) # {}
  BY DEF HasLine, Ends
<1>8. ASSUME consumer # "capture" PROVE Keeps(consumer, script, ending, b, dec', taken')
  <2>1. CASE NextLine
    <3>1. dec.state = "open" /\ Ends(u) # {}
      BY <2>1, <1>7 DEF NextLine
    <3>2. dec' = lineRead(consumer, dec, SubSeq(u, 1, Min(Ends(u)))) /\ taken' = taken + Min(Ends(u))
      BY <2>1 DEF NextLine, Ends
    <3>3. PICK k, j : Looks(stream, script, ended, d, ending, b, consumer, k, j, dec, taken, pos, u)
      BY <3>1, <1>6, <1>8
    <3> HIDE DEF u
    <3>4. Keeps(consumer, script, ending, b, lineRead(consumer, dec, SubSeq(u, 1, Min(Ends(u)))),
                taken + Min(Ends(u)))
      BY <3>1, <3>3, LineStep
    <3> QED
      BY <3>2, <3>4
  <2>2. CASE StreamEnds
    <3>1. dec.state = "open" /\ Ends(u) = {} /\ err = "eof"
      BY <2>2, <1>7, <1>8 DEF StreamEnds, Failed
    <3>2. dec' = eofRead(consumer, dec, u)
      BY <2>2 DEF StreamEnds
    <3>3. PICK k, j : Looks(stream, script, ended, d, ending, b, consumer, k, j, dec, taken, pos, u)
      BY <3>1, <1>6, <1>8
    <3>4. pos = Len(stream)
      BY <3>1, <1>2 DEF ReadInv
    <3> HIDE DEF u
    <3>5. /\ IsDec(eofRead(consumer, dec, u)) /\ Truthful(consumer, script, eofRead(consumer, dec, u))
          /\ eofRead(consumer, dec, u).state # "open"
      BY <3>1, <3>3, <3>4, EofStep
    <3>6. IsDec(dec') /\ Truthful(consumer, script, dec') /\ dec'.state # "open"
      BY <3>2, <3>5
    <3> QED
      BY <3>6 DEF Keeps
  <2>3. CASE StreamFails
    <3> DEFINE x == IF u = << >> THEN dec ELSE lineRead(consumer, dec, u)
    <3>1. dec.state = "open" /\ Ends(u) = {}
      BY <2>3, <1>7, <1>8 DEF StreamFails, Failed
    <3>2. dec' = Stopped(x)
      BY <2>3 DEF StreamFails, Stopped
    <3>3. PICK k, j : Looks(stream, script, ended, d, ending, b, consumer, k, j, dec, taken, pos, u)
      BY <3>1, <1>6, <1>8
    <3> HIDE DEF u
    <3>4. IsDec(Stopped(x)) /\ Truthful(consumer, script, Stopped(x)) /\ Stopped(x).state # "open"
      BY <3>1, <3>3, ErrorStep
    <3>5. IsDec(dec') /\ Truthful(consumer, script, dec') /\ dec'.state # "open"
      BY <3>2, <3>4
    <3> QED
      BY <3>5 DEF Keeps
  <2>4. CASE ~NextLine /\ ~StreamEnds /\ ~StreamFails
    <3>1. UNCHANGED <<dec, taken>>
      BY <2>4 DEF Next, ReadStarts, BodyReturns, ReadReturns, TimerFires, CallerCancels, Close, vars
    <3> QED
      BY <3>1, <1>1, <1>8
  <2> QED
    BY <2>1, <2>2, <2>3, <2>4
<1> QED
  BY <1>2, <1>3, <1>4, <1>8 DEF DecodeInv

(* Each iterator, however its stream is cut in pieces and however it ends, *)
(* hands over the events that were sent, in order, and ends without an     *)
(* error only if all up to a terminal event were.                          *)
THEOREM IteratorsTellWhatWasSent == Spec => []DecodedIsSent
<1>1. DecodeInv => DecodedIsSent
  <2> SUFFICES ASSUME DecodeInv, consumer # "capture" PROVE Truthful(consumer, script, dec)
    <3>1. Sent = SentBy(consumer, script)
      BY DEF Sent, SentBy
    <3> QED
      BY <3>1 DEF DecodedIsSent, Truthful
  <2> QED
    BY DEF DecodeInv, Keeps
<1>2. Init => DecodeInv
  BY DecodeStarts
<1>3. DecodeInv /\ [Next]_vars => DecodeInv'
  BY DecodeStep
<1> QED
  BY <1>1, <1>2, <1>3, PTL DEF Spec

-----------------------------------------------------------------------------
(* A capture of d holds what one scan of what it has copied finds.         *)
Captured(d, c) ==
    /\ c.size \in Nat
    /\ c = [size |-> c.size, scanned |-> ScanStop(d, 0, c.size),
            receipt |-> ScanReceipt(d, 0, c.size, "none")]

(* Nothing is found in nothing.                                            *)
LEMMA CaptureStarts ==
    ASSUME NEW d
    PROVE  Captured(d, CaptureStart)
<1>1. 0 \in Nat /\ 0 \in 0..0
  OBVIOUS
<1>2. nextReceiptSSEEvent(d, 0, 0) = {}
  <2>1. (0 + 1)..0 = {}
    OBVIOUS
  <2> QED
    BY <2>1 DEF nextReceiptSSEEvent
<1>3. ScanStop(d, 0, 0) = 0 /\ ScanReceipt(d, 0, 0, "none") = "none"
  BY <1>1, <1>2, ScanUnfold
<1>4. CaptureStart.size = 0
  BY DEF CaptureStart
<1> QED
  BY <1>1, <1>3, <1>4 DEF Captured, CaptureStart

(* A scan that goes on where the last one stopped finds what one scan      *)
(* would.                                                                  *)
LEMMA CaptureGoesOn ==
    ASSUME NEW d, NEW c, Captured(d, c), NEW n \in Nat, c.size <= n
    PROVE  Captured(d, CaptureRead(d, c, n)) /\ CaptureRead(d, c, n).size = n
<1>1. CASE n = c.size
  <2>1. CaptureRead(d, c, n) = c
    BY <1>1 DEF CaptureRead
  <2> QED
    BY <2>1, <1>1
<1>2. CASE n # c.size
  <2> DEFINE m == c.size
             s == ScanStop(d, 0, m)
             r == ScanReceipt(d, 0, m, "none")
             e == CaptureRead(d, c, n)
  <2>1. m \in Nat /\ m <= n
    BY DEF Captured
  <2>2. c = [size |-> m, scanned |-> s, receipt |-> r]
    BY DEF Captured
  <2> HIDE DEF m, s, r
  <2>3. c.scanned = s /\ c.receipt = r /\ c.size = m
    BY <2>2
  <2>4. c = [size |-> c.size, scanned |-> c.scanned, receipt |-> c.receipt]
    BY <2>2, <2>3
  <2>5. e = [size |-> n, scanned |-> ScanStop(d, c.scanned, n),
             receipt |-> ScanReceipt(d, c.scanned, n, c.receipt)]
    BY <2>4, <1>2, CaptureReadIs
  <2>6. 0 \in 0..m
    BY <2>1
  <2>7. /\ ScanStop(d, 0, n) = ScanStop(d, s, n)
        /\ ScanReceipt(d, 0, n, "none") = ScanReceipt(d, s, n, r)
    BY <2>1, <2>6, ScanTwice DEF s, r
  <2> HIDE DEF e
  <2>8. e = [size |-> n, scanned |-> ScanStop(d, 0, n), receipt |-> ScanReceipt(d, 0, n, "none")]
    BY <2>3, <2>5, <2>7
  <2>9. e.size = n
    BY <2>8
  <2>10. Captured(d, e)
    BY <2>8, <2>9 DEF Captured
  <2> QED
    BY <2>9, <2>10 DEF e
<1> QED
  BY <1>1, <1>2

(* The capture is never ahead of the body.                                 *)
CaptureInv == ReadInv /\ Captured(stream, capture) /\ capture.size <= pos

(* Nothing is read and nothing captured.                                   *)
LEMMA CaptureBegins ==
    ASSUME Init
    PROVE  CaptureInv
<1>1. ReadInv
  BY DecodeStarts DEF DecodeInv
<1>2. capture = CaptureStart /\ pos = 0 /\ CaptureStart.size = 0
  BY DEF Init, CaptureStart
<1> QED
  BY <1>1, <1>2, CaptureStarts DEF CaptureInv

(* Only the end of a read changes it.                                      *)
LEMMA CaptureStep ==
    ASSUME CaptureInv, [Next]_vars
    PROVE  CaptureInv'
<1>1. ReadInv /\ Captured(stream, capture) /\ capture.size <= pos
  BY DEF CaptureInv
<1>2. ReadInv'
  BY <1>1, ReadStep
<1>3. stream' = stream
  BY DEF Next, ReadStarts, BodyReturns, ReadReturns, NextLine, StreamEnds, StreamFails, TimerFires,
         CallerCancels, Close, vars, body
<1>4. pos \in Nat /\ pos' \in Nat /\ capture.size \in Nat
  BY <1>1, <1>2 DEF ReadInv, Captured
<1>5. pos <= pos'
  <2>1. CASE BodyReturns
    <3>1. PICK p \in PieceEnds : pos' = p
      BY <2>1 DEF BodyReturns
    <3> DEFINE lines == {i \in (pos + 1)..Len(stream) : stream[i] = LF}
               top == IF consumer = "capture" \/ lines = {} THEN Len(stream) ELSE Min(lines)
    <3>2. PieceEnds = pos..top
      BY DEF PieceEnds
    <3> HIDE DEF top
    <3>3. pos' \in pos..top
      BY <3>1, <3>2
    <3> QED
      BY <3>3, <1>4
  <2>2. CASE ~BodyReturns
    <3>1. pos' = pos
      BY <2>2 DEF Next, ReadStarts, ReadReturns, NextLine, StreamEnds, StreamFails, TimerFires,
                  CallerCancels, Close, vars
    <3> QED
      BY <3>1, <1>4
  <2> QED
    BY <2>1, <2>2
<1>6. CASE ReadReturns /\ consumer = "capture"
  <2>1. capture' = CaptureRead(stream, capture, pos) /\ pos' = pos
    BY <1>6 DEF ReadReturns
  <2>2. Captured(stream, CaptureRead(stream, capture, pos)) /\ CaptureRead(stream, capture, pos).size = pos
    BY <1>1, <1>4, CaptureGoesOn
  <2> QED
    BY <1>2, <1>3, <1>4, <2>1, <2>2 DEF CaptureInv
<1>7. CASE ~(ReadReturns /\ consumer = "capture")
  <2>1. capture' = capture
    BY <1>7 DEF Next, ReadStarts, BodyReturns, ReadReturns, NextLine, StreamEnds, StreamFails,
                TimerFires, CallerCancels, Close, vars
  <2>2. capture.size <= pos'
    BY <1>1, <1>4, <1>5
  <2> QED
    BY <1>1, <1>2, <1>3, <2>1, <2>2 DEF CaptureInv
<1> QED
  BY <1>6, <1>7

(* The receipt a capture holds does not depend on the pieces in which the  *)
(* stream came, though each read scans only from where the last complete   *)
(* event ended.                                                            *)
THEOREM CaptureFindsTheReceipt == Spec => []CaptureIsScan
<1>1. CaptureInv => CaptureIsScan
  <2> SUFFICES ASSUME CaptureInv PROVE CaptureIsScan
    OBVIOUS
  <2> DEFINE n == capture.size
             e == CaptureRead(stream, CaptureStart, n)
  <2>1. n \in Nat /\ Captured(stream, capture)
    BY DEF CaptureInv, Captured
  <2>2. CaptureStart.size <= n
    BY <2>1 DEF CaptureStart
  <2>3. Captured(stream, e) /\ e.size = n
    BY <2>1, <2>2, CaptureStarts, CaptureGoesOn
  <2> HIDE DEF e
  <2>4. /\ e.receipt = ScanReceipt(stream, 0, n, "none")
        /\ capture.receipt = ScanReceipt(stream, 0, n, "none")
    BY <2>1, <2>3 DEF Captured
  <2> QED
    BY <2>4 DEF CaptureIsScan, e
<1>2. Init => CaptureInv
  BY CaptureBegins
<1>3. CaptureInv /\ [Next]_vars => CaptureInv'
  BY CaptureStep
<1> QED
  BY <1>1, <1>2, <1>3, PTL DEF Spec

-----------------------------------------------------------------------------
(* Receipts and the reader of the same stream.                             *)

(* Each event ends where the one before it is followed.                    *)
Follows(d, o, n, E, i) == E[i] \in nextReceiptSSEEvent(d, IF i = 1 THEN o ELSE E[i - 1], n)
Chained(d, o, n) ==
    \A i \in 1..Len(EventEnds(d, o, n)) : Follows(d, o, n, EventEnds(d, o, n), i)

(* So it is from any offset: by induction from the end of the data.        *)
LEMMA EventsFollow ==
    ASSUME NEW d, NEW n \in Nat, NEW o \in 0..n
    PROVE  Chained(d, o, n)
<1> DEFINE P(x) == Chained(d, x, n)
           W == {i \in Nat : i <= n => \A x \in (n - i)..n : P(x)}
<1>1. ASSUME NEW x \in 0..n, \A y \in (x + 1)..n : P(y)
      PROVE  P(x)
  <2> DEFINE E == EventEnds(d, x, n)
  <2>1. CASE nextReceiptSSEEvent(d, x, n) = {}
    <3>1. E = << >>
      BY <2>1, EventEndsUnfold
    <3>2. 1..Len(E) = {}
      BY <3>1
    <3> QED
      BY <3>2 DEF Chained
  <2>2. CASE nextReceiptSSEEvent(d, x, n) # {}
    <3>1. PICK e : e \in nextReceiptSSEEvent(d, x, n)
      BY <2>2
    <3> DEFINE F == EventEnds(d, e, n)
    <3>2. e \in (x + 1)..n /\ E = <<e>> \o F
      BY <3>1, EventEndsUnfold
    <3>3. e \in Nat /\ e \in 0..n
      BY <3>2
    <3>4. F \in Seq(Nat)
      BY <3>3, EventEndsUnfold
    <3>5. \A i \in 1..Len(F) : Follows(d, e, n, F, i)
      BY <1>1, <3>2 DEF Chained
    <3> HIDE DEF E, F
    <3>6. Len(E) = Len(F) + 1 /\ E[1] = e /\ Len(F) \in Nat
      BY <3>2, <3>3, <3>4
    <3>7. \A i \in 1..Len(F) : E[i + 1] = F[i]
      BY <3>2, <3>3, <3>4
    <3> SUFFICES ASSUME NEW i \in 1..Len(E) PROVE Follows(d, x, n, E, i)
      BY DEF Chained, E
    <3>8. CASE i = 1
      BY <3>1, <3>6, <3>8 DEF Follows
    <3>9. CASE i # 1
      <4> DEFINE h == i - 1
      <4>1. h \in 1..Len(F) /\ h + 1 = i
        BY <3>6, <3>9
      <4> HIDE DEF h
      <4>2. E[i] = F[h] /\ Follows(d, e, n, F, h)
        BY <4>1, <3>5, <3>7
      <4>3. CASE h = 1
        <5>1. E[i - 1] = e
          BY <4>3, <3>6 DEF h
        <5> QED
          BY <5>1, <4>2, <4>3, <3>9 DEF Follows
      <4>4. CASE h # 1
        <5>1. h - 1 \in 1..Len(F) /\ (h - 1) + 1 = i - 1
          BY <4>1, <4>4, <3>6
        <5>2. E[i - 1] = F[h - 1]
          BY <5>1, <3>7
        <5> QED
          BY <5>2, <4>2, <4>4, <3>9 DEF Follows
      <4> QED
        BY <4>3, <4>4
    <3> QED
      BY <3>8, <3>9
  <2> QED
    BY <2>1, <2>2
<1> HIDE DEF P
<1>2. 0 \in W
  <2>1. \A x \in (n - 0)..n : x = n
    OBVIOUS
  <2>2. n \in 0..n /\ (n + 1)..n = {}
    OBVIOUS
  <2>3. P(n)
    BY <1>1, <2>2
  <2> QED
    BY <2>1, <2>3
<1>3. ASSUME NEW i \in W PROVE i + 1 \in W
  <2> SUFFICES ASSUME i + 1 <= n, NEW x \in (n - (i + 1))..n PROVE P(x)
    OBVIOUS
  <2>1. \A y \in (n - i)..n : P(y)
    OBVIOUS
  <2>2. CASE x \in (n - i)..n
    BY <2>1, <2>2
  <2>3. CASE x \notin (n - i)..n
    <3>1. x = n - (i + 1) /\ x \in 0..n /\ x + 1 = n - i
      BY <2>3
    <3> QED
      BY <1>1, <2>1, <3>1
  <2> QED
    BY <2>2, <2>3
<1> HIDE DEF W
<1>4. W \subseteq Nat
  BY DEF W
<1>5. W = Nat
  BY <1>2, <1>3, <1>4, SetInduction
<1>6. n \in W /\ o \in (n - n)..n
  BY <1>5
<1> QED
  BY <1>6 DEF W, P

(* The end of an event, token by token.                                    *)
LEMMA EndsEventIs ==
    ASSUME NEW d, NEW o \in Nat, NEW x \in Nat
    PROVE  EndsEvent(d, o, x) <=>
              \/ x - o >= 2 /\ d[x - 1] = LF /\ d[x] = LF
              \/ x - o >= 4 /\ d[x - 3] = CR /\ d[x - 2] = LF /\ d[x - 1] = CR /\ d[x] = LF
<1>1. EndsWith(d, o, x, <<LF, LF>>) <=> x - o >= 2 /\ d[x - 1] = LF /\ d[x] = LF
  <2> DEFINE s == <<LF, LF>>
  <2>1. Len(s) = 2 /\ DOMAIN s = {1, 2} /\ s[1] = LF /\ s[2] = LF
    OBVIOUS
  <2>2. (x - 2) + 1 = x - 1 /\ (x - 2) + 2 = x
    OBVIOUS
  <2> HIDE DEF s
  <2>3. EndsWith(d, o, x, s) <=> x - o >= 2 /\ d[(x - 2) + 1] = LF /\ d[(x - 2) + 2] = LF
    BY <2>1 DEF EndsWith
  <2> QED
    BY <2>2, <2>3 DEF s
<1>2. EndsWith(d, o, x, <<CR, LF, CR, LF>>) <=>
         x - o >= 4 /\ d[x - 3] = CR /\ d[x - 2] = LF /\ d[x - 1] = CR /\ d[x] = LF
  <2> DEFINE s == <<CR, LF, CR, LF>>
  <2>1. Len(s) = 4 /\ DOMAIN s = {1, 2, 3, 4} /\ s[1] = CR /\ s[2] = LF /\ s[3] = CR /\ s[4] = LF
    OBVIOUS
  <2>2. (x - 4) + 1 = x - 3 /\ (x - 4) + 2 = x - 2 /\ (x - 4) + 3 = x - 1 /\ (x - 4) + 4 = x
    OBVIOUS
  <2> HIDE DEF s
  <2>3. EndsWith(d, o, x, s) <=> /\ x - o >= 4 /\ d[(x - 4) + 1] = CR /\ d[(x - 4) + 2] = LF
                                 /\ d[(x - 4) + 3] = CR /\ d[(x - 4) + 4] = LF
    BY <2>1 DEF EndsWith
  <2> QED
    BY <2>2, <2>3 DEF s
<1> QED
  BY <1>1, <1>2 DEF EndsEvent

(* It depends on the tokens after the offset only, and a text among them   *)
(* moves it.                                                               *)
LEMMA EndsEventLocal ==
    ASSUME NEW d, NEW o \in Nat, NEW x \in Nat, x > o, EndsEvent(d, o, x)
    PROVE  /\ \A e : (\A y \in (o + 1)..x : e[y] = d[y]) => EndsEvent(e, o, x)
           /\ \A p \in o..(x - 1) : d[p + 1] \in Lines => EndsEvent(d, p, x)
<1>1. \/ x - o >= 2 /\ d[x - 1] = LF /\ d[x] = LF
      \/ x - o >= 4 /\ d[x - 3] = CR /\ d[x - 2] = LF /\ d[x - 1] = CR /\ d[x] = LF
  BY EndsEventIs
<1>2. ASSUME NEW e, \A y \in (o + 1)..x : e[y] = d[y] PROVE EndsEvent(e, o, x)
  <2>1. x \in (o + 1)..x
    OBVIOUS
  <2>2. x - o >= 2 => x - 1 \in (o + 1)..x
    OBVIOUS
  <2>3. x - o >= 4 => x - 3 \in (o + 1)..x /\ x - 2 \in (o + 1)..x /\ x - 1 \in (o + 1)..x
    OBVIOUS
  <2> QED
    BY <1>1, <1>2, <2>1, <2>2, <2>3, EndsEventIs
<1>3. ASSUME NEW p \in o..(x - 1), d[p + 1] \in Lines PROVE EndsEvent(d, p, x)
  <2>1. d[p + 1] # CR /\ d[p + 1] # LF /\ p \in Nat
    BY <1>3, LinesAreTexts
  <2>2. CASE x - o >= 2 /\ d[x - 1] = LF /\ d[x] = LF
    <3>1. p + 1 # x
      BY <2>1, <2>2
    <3>2. x - p >= 2
      BY <2>1, <3>1
    <3> QED
      BY <2>1, <2>2, <3>2, EndsEventIs
  <2>3. CASE x - o >= 4 /\ d[x - 3] = CR /\ d[x - 2] = LF /\ d[x - 1] = CR /\ d[x] = LF
    <3>1. p + 1 # x /\ p + 1 # x - 1 /\ p + 1 # x - 2
      BY <2>1, <2>3
    <3>2. x - p >= 4
      BY <2>1, <3>1
    <3> QED
      BY <2>1, <2>3, <3>2, EndsEventIs
  <2> QED
    BY <1>1, <2>2, <2>3
<1> QED
  BY <1>2, <1>3

(* A place between the first and the last of some borders is between two   *)
(* neighbours.                                                             *)
LEMMA Locate ==
    ASSUME NEW m \in Nat, NEW g, \A j \in 0..m : g[j] \in Nat,
           NEW x \in Nat, x > g[0], x <= g[m]
    PROVE  \E j \in 1..m : g[j - 1] < x /\ x <= g[j]
<1> DEFINE T == {j \in 0..m : x <= g[j]}
<1>1. T \subseteq Nat /\ m \in T /\ 0 \in 0..m
  OBVIOUS
<1>2. PICK j \in T : \A y \in T : j <= y
  BY <1>1, LeastElement
<1>3. j # 0
  BY <1>1, <1>2
<1>4. j \in 1..m /\ j - 1 \in 0..m
  BY <1>2, <1>3
<1>5. ~(x <= g[j - 1])
  <2>1. j - 1 \notin T
    BY <1>2, <1>4
  <2> QED
    BY <2>1, <1>4
<1>6. g[j - 1] < x
  BY <1>4, <1>5
<1> QED
  BY <1>2, <1>4, <1>6

-----------------------------------------------------------------------------
(* No event ends in a line with a text.                                    *)
LEMMA LineHasNoEnd ==
    ASSUME NEW d, NEW o \in Nat, NEW q \in Nat, NEW e \in Nat, e \in {q + 2, q + 3},
           NEW t \in Lines, TextLine(d, q, e, t), NEW x \in (q + 1)..e
    PROVE  ~EndsEvent(d, o, x)
<1>1. d[q + 1] = t /\ d[e] = LF /\ \A y \in (q + 2)..(e - 1) : d[y] = CR
  BY DEF TextLine
<1>2. t # CR /\ t # LF /\ CR # LF
  BY LinesAreTexts
<1>3. x \in Nat /\ (EndsEvent(d, o, x) => d[x] = LF /\ (d[x - 1] = LF \/ (d[x - 1] = CR /\ d[x - 2] = LF)))
  <2>1. x \in Nat
    OBVIOUS
  <2> QED
    BY <2>1, EndsEventIs
<1>4. CASE x = q + 1
  BY <1>1, <1>2, <1>3, <1>4
<1>5. CASE e = q + 2 /\ x = e
  <2>1. x - 1 = q + 1
    BY <1>5
  <2> QED
    BY <1>1, <1>2, <1>3, <2>1
<1>6. CASE e = q + 3 /\ x = q + 2
  <2>1. x \in (q + 2)..(e - 1)
    BY <1>6
  <2> QED
    BY <1>1, <1>2, <1>3, <2>1
<1>7. CASE e = q + 3 /\ x = e
  <2>1. x - 1 \in (q + 2)..(e - 1) /\ x - 2 = q + 1
    BY <1>7
  <2> QED
    BY <1>1, <1>2, <1>3, <2>1
<1> QED
  BY <1>4, <1>5, <1>6, <1>7

(* A frame ends an event when its lines and its blank line end alike, and  *)
(* there only.                                                             *)
LEMMA FrameEnd ==
    ASSUME NEW d, NEW ending \in EndingNames, NEW p \in Nat, NEW f \in Seq(Lines), f # << >>,
           Framed(d, p, f, ending), NEW e, e = BlankEnd(ending, LineStart(ending, p, Len(f))),
           NEW x \in (p + 1)..e
    PROVE  EndsEvent(d, p, x) <=> ending # "mixed" /\ x = e
<1> DEFINE m == Len(f)
           S(j) == LineStart(ending, p, j)
           q == S(m)
<1>1. m \in Nat /\ m >= 1 /\ \A j \in 1..m : f[j] \in Lines
  OBVIOUS
<1>2. \A j \in 0..m : S(j) \in Nat
  BY <1>1, StartFacts
<1>3. S(0) = p /\ q \in Nat
  BY <1>1, <1>2, StartFacts
<1>4. \A j \in 1..m : S(j) = S(j - 1) + (IF ending = "crlf" THEN 3 ELSE 2)
  BY <1>1 DEF LineStart
<1>5. e = q + (IF ending = "lf" THEN 1 ELSE 2)
  BY DEF BlankEnd
<1>6. /\ \A j \in 1..m : TextLine(d, S(j - 1), S(j), f[j])
      /\ BlankLine(d, q, e)
  BY DEF Framed
<1> HIDE DEF S, m, q
<1>7. CASE x <= q
  <2> DEFINE g == [j \in 0..m |-> S(j)]
  <2>1. \A j \in 0..m : g[j] = S(j) /\ g[j] \in Nat
    BY <1>2
  <2>2. 0 \in 0..m /\ m \in 0..m /\ x \in Nat
    BY <1>1
  <2>3. x > g[0] /\ x <= g[m]
    BY <2>1, <2>2, <1>3, <1>7 DEF q
  <2> HIDE DEF g
  <2>4. PICK j \in 1..m : g[j - 1] < x /\ x <= g[j]
    BY <2>1, <2>2, <2>3, <1>1, Locate
  <2>5. j - 1 \in 0..m /\ j \in 0..m
    BY <1>1
  <2> DEFINE a == S(j - 1)
             z == S(j)
  <2>6. a \in Nat /\ z \in Nat /\ a < x /\ x <= z
    BY <2>1, <2>4, <2>5
  <2>7. z \in {a + 2, a + 3} /\ TextLine(d, a, z, f[j]) /\ f[j] \in Lines
    BY <1>1, <1>4, <1>6
  <2> HIDE DEF a, z
  <2>8. x \in (a + 1)..z
    BY <2>2, <2>6
  <2>9. ~EndsEvent(d, p, x)
    BY <2>6, <2>7, <2>8, LineHasNoEnd
  <2>10. x # e
    BY <1>3, <1>5, <1>7, <2>2
  <2> QED
    BY <2>9, <2>10
<1>8. CASE x > q
  <2> DEFINE a == S(m - 1)
  <2>1. m \in 1..m /\ m - 1 \in 0..m
    BY <1>1
  <2>2. a \in Nat /\ q = a + (IF ending = "crlf" THEN 3 ELSE 2) /\ TextLine(d, a, q, f[m]) /\ f[m] \in Lines
    BY <2>1, <1>1, <1>2, <1>4, <1>6 DEF q
  <2>3. a >= p
    BY <1>1, StartFacts DEF S
  <2> HIDE DEF a
  <2>4. /\ d[a + 1] = f[m] /\ d[q] = LF /\ \A y \in (a + 2)..(q - 1) : d[y] = CR
        /\ d[e] = LF /\ \A y \in (q + 1)..(e - 1) : d[y] = CR
    BY <2>2, <1>6 DEF TextLine, BlankLine
  <2>5. f[m] # CR /\ f[m] # LF /\ CR # LF
    BY <2>2, LinesAreTexts
  <2>6. x \in Nat
    OBVIOUS
  <2>7. EndsEvent(d, p, x) <=>
              \/ x - p >= 2 /\ d[x - 1] = LF /\ d[x] = LF
              \/ x - p >= 4 /\ d[x - 3] = CR /\ d[x - 2] = LF /\ d[x - 1] = CR /\ d[x] = LF
    BY <2>6, EndsEventIs
  <2>8. CASE ending = "lf"
    <3>1. x = e /\ x - 1 = q /\ x - p >= 2
      BY <2>2, <2>3, <2>6, <2>8, <1>3, <1>5, <1>8
    <3> QED
      BY <3>1, <2>4, <2>7, <2>8
  <2>9. CASE x = q + 1 /\ ending # "lf"
    <3>1. x \in (q + 1)..(e - 1) /\ x # e
      BY <2>9, <1>3, <1>5
    <3> QED
      BY <3>1, <2>4, <2>5, <2>7
  <2>10. CASE x # q + 1 /\ ending # "lf"
    <3>1. x = e /\ x - 1 = q + 1 /\ x - 2 = q /\ x - 1 \in (q + 1)..(e - 1) /\ x - 3 = q - 1
      BY <2>6, <2>10, <1>3, <1>5, <1>8
    <3>2. CASE ending = "crlf"
      <4>1. x - 3 \in (a + 2)..(q - 1) /\ x - p >= 4
        BY <3>1, <3>2, <2>2, <2>3, <1>3
      <4> QED
        BY <3>1, <3>2, <4>1, <2>4, <2>7
    <3>3. CASE ending = "mixed"
      <4>1. x - 3 = a + 1
        BY <3>1, <3>3, <2>2
      <4> QED
        BY <3>1, <3>3, <4>1, <2>4, <2>5, <2>7
    <3> QED
      BY <3>2, <3>3, <2>10 DEF EndingNames
  <2> QED
    BY <2>8, <2>9, <2>10
<1> QED
  BY <1>3, <1>7, <1>8

(* The events of a stream are its frames, and a stream whose blank lines   *)
(* end unlike the others has none.                                         *)
LEMMA EventsAreFrames ==
    ASSUME NEW st, NEW sc, NEW en, NEW d, NEW ending, NEW b, Wire(st, sc, en, d, ending, b),
           NEW n \in Nat, n <= Len(st), NEW E, E = EventEnds(st, 0, n)
    PROVE  /\ E \in Seq(Nat)
           /\ \A i \in 1..Len(E) : i \in 1..Len(sc) /\ E[i] = b[i] /\ E[i] <= n /\ ending # "mixed"
<1> DEFINE N == Len(sc)
<1>1. /\ N \in Nat /\ ending \in EndingNames /\ Layout(d, sc, N, ending, b) /\ st \in Seq(Tokens)
      /\ Len(st) \in Nat /\ Len(st) <= Len(d) /\ \A x \in 1..Len(st) : st[x] = d[x]
  BY DEF Wire, IsScript
<1>2. d \in Seq(Tokens) /\ b[0] = 0 /\ b[N] = Len(d) /\ Len(d) \in Nat
  <2>1. d \in Seq(Tokens) /\ b[0] = 0 /\ b[N] = Len(d)
    BY <1>1 DEF Layout
  <2> QED
    BY <2>1
<1> HIDE DEF N
<1>3. \A k \in 0..N : b[k] \in Nat /\ b[k] <= Len(d) /\ \A l \in 0..N : k < l => b[k] < b[l]
  BY <1>1, LayoutOrder
<1>4. 0 \in 0..n
  OBVIOUS
<1>5. E \in Seq(Nat) /\ Len(E) \in Nat
  <2>1. E \in Seq(Nat)
    BY <1>4, EventEndsUnfold
  <2> QED
    BY <2>1
<1>6. \A i \in 1..Len(E) : Follows(st, 0, n, E, i)
  BY <1>4, EventsFollow DEF Chained
<1>7. ASSUME NEW k \in 1..N, NEW x \in (b[k - 1] + 1)..b[k], x <= n
      PROVE  /\ b[k - 1] \in Nat /\ b[k] \in Nat /\ b[k - 1] < b[k] /\ st[b[k - 1] + 1] \in Lines
             /\ EndsEvent(st, b[k - 1], x) <=> ending # "mixed" /\ x = b[k]
  <2> DEFINE p == b[k - 1]
             f == sc[k]
  <2>1. p \in Nat /\ b[k] \in Nat /\ p < b[k] /\ f \in Seq(Lines) /\ Len(f) \in Nat /\ Len(f) >= 1
    BY <1>1, FrameWithin
  <2>2. /\ f # << >> /\ b[k] = BlankEnd(ending, LineStart(ending, p, Len(f)))
        /\ Framed(d, p, f, ending)
    BY <1>1 DEF Layout
  <2>3. d[p + 1] \in Lines
    <3>1. 1 \in 1..Len(f) /\ f[1] \in Lines
      BY <2>1
    <3>2. TextLine(d, LineStart(ending, p, 1 - 1), LineStart(ending, p, 1), f[1])
      BY <2>2, <3>1 DEF Framed
    <3>3. 1 - 1 = 0 /\ 0 \in Nat
      OBVIOUS
    <3>4. LineStart(ending, p, 0) = p
      BY <1>1, <2>1, <3>3, StartFacts
    <3>5. LineStart(ending, p, 1 - 1) = p
      BY <3>3, <3>4
    <3> QED
      BY <3>1, <3>2, <3>5 DEF TextLine
  <2> HIDE DEF p, f
  <2>4. x \in (p + 1)..b[k] /\ x \in Nat /\ x > p
    BY <2>1 DEF p
  <2>5. EndsEvent(d, p, x) <=> ending # "mixed" /\ x = b[k]
    BY <1>1, <2>1, <2>2, <2>4, FrameEnd
  <2>6. \A y \in (p + 1)..x : st[y] = d[y] /\ d[y] = st[y]
    BY <1>1, <1>7, <2>1, <2>4
  <2>7. EndsEvent(d, p, x) => EndsEvent(st, p, x)
    BY <2>1, <2>4, <2>6, EndsEventLocal
  <2>8. EndsEvent(st, p, x) => EndsEvent(d, p, x)
    BY <2>1, <2>4, <2>6, EndsEventLocal
  <2>9. st[p + 1] \in Lines
    <3>1. p + 1 \in (p + 1)..x
      BY <2>1, <2>4
    <3> QED
      BY <3>1, <2>3, <2>6
  <2> QED
    BY <2>1, <2>5, <2>7, <2>8, <2>9 DEF p
<1>8. ASSUME NEW o \in Nat, NEW e, e \in nextReceiptSSEEvent(st, o, n)
      PROVE  /\ e \in (o + 1)..n /\ e \in Nat /\ EndsEvent(st, o, e)
             /\ \A y \in (o + 1)..(e - 1) : ~EndsEvent(st, o, y)
  BY <1>8 DEF nextReceiptSSEEvent
<1>9. CASE ending = "mixed"
  <2> SUFFICES ASSUME NEW i \in 1..Len(E) PROVE FALSE
    BY <1>5
  <2>1. 1 \in 1..Len(E)
    BY <1>5
  <2> DEFINE e == E[1]
  <2>2. e \in nextReceiptSSEEvent(st, 0, n)
    BY <2>1, <1>6 DEF Follows
  <2>3. e \in (0 + 1)..n /\ e \in Nat /\ EndsEvent(st, 0, e)
    BY <2>2, <1>8
  <2> HIDE DEF e
  <2>4. e > b[0] /\ e <= b[N]
    BY <2>3, <1>1, <1>2
  <2>5. \A j \in 0..N : b[j] \in Nat
    BY <1>3
  <2>6. PICK k \in 1..N : b[k - 1] < e /\ e <= b[k]
    BY <1>1, <2>3, <2>4, <2>5, Locate
  <2>7. k - 1 \in 0..N /\ k \in 0..N
    BY <1>1
  <2>8. b[k - 1] \in Nat /\ e \in (b[k - 1] + 1)..b[k] /\ e <= n
    BY <2>3, <2>5, <2>6, <2>7
  <2>9. st[b[k - 1] + 1] \in Lines /\ ~EndsEvent(st, b[k - 1], e)
    BY <2>8, <1>7, <1>9
  <2>10. b[k - 1] \in 0..(e - 1) /\ e > 0
    BY <2>3, <2>6, <2>8
  <2>11. EndsEvent(st, b[k - 1], e)
    BY <2>3, <2>9, <2>10, EndsEventLocal
  <2> QED
    BY <2>9, <2>11
<1>10. CASE ending # "mixed"
  <2> DEFINE F(i) == i \in 1..N /\ E[i] = b[i] /\ E[i] <= n
             T == {i \in 0..Len(E) : i = 0 \/ F(i)}
  <2>1. 0 \in T
    BY <1>5
  <2>2. ASSUME NEW i \in 1..Len(E), i - 1 \in T PROVE i \in T
    <3> DEFINE h == i - 1
               o == b[h]
               e == E[i]
    <3>1. h \in 0..N /\ h + 1 = i /\ (h # 0 => E[h] = b[h])
      BY <2>2, <1>1, <1>5
    <3>2. o \in Nat /\ o <= Len(d)
      BY <3>1, <1>3
    <3>3. e \in nextReceiptSSEEvent(st, o, n)
      <4>1. Follows(st, 0, n, E, i)
        BY <1>6
      <4>2. CASE i = 1
        <5>1. o = 0
          BY <4>2, <1>2
        <5> QED
          BY <5>1, <4>1, <4>2 DEF Follows
      <4>3. CASE i # 1
        <5>1. E[i - 1] = o
          BY <4>3, <3>1
        <5> QED
          BY <5>1, <4>1, <4>3 DEF Follows
      <4> QED
        BY <4>2, <4>3
    <3> HIDE DEF e, o
    <3>4. /\ e \in (o + 1)..n /\ e \in Nat /\ EndsEvent(st, o, e)
          /\ \A y \in (o + 1)..(e - 1) : ~EndsEvent(st, o, y)
      BY <3>2, <3>3, <1>8
    <3>5. h # N
      <4> SUFFICES ASSUME h = N PROVE FALSE
        OBVIOUS
      <4>1. o = Len(d)
        BY <1>2 DEF o
      <4> QED
        BY <4>1, <3>4, <1>1, <1>2
    <3>6. i \in 1..N /\ i - 1 = h
      BY <3>1, <3>5, <1>1
    <3> HIDE DEF h
    <3>7. i \in 0..N /\ b[i] \in Nat /\ b[i - 1] = o
      BY <3>6, <1>1, <1>3 DEF o
    <3>8. o < b[i]
      BY <3>1, <3>2, <3>6, <3>7, <1>1, <1>3 DEF o
    <3>9. ~(e < b[i])
      <4> SUFFICES ASSUME e < b[i] PROVE FALSE
        OBVIOUS
      <4>1. e \in (o + 1)..b[i] /\ e <= n /\ e # b[i]
        BY <3>2, <3>4, <3>7
      <4> QED
        BY <4>1, <3>4, <3>6, <3>7, <1>7
    <3>10. ~(b[i] < e)
      <4> SUFFICES ASSUME b[i] < e PROVE FALSE
        OBVIOUS
      <4>1. b[i] \in (o + 1)..b[i] /\ b[i] <= n /\ b[i] \in (o + 1)..(e - 1)
        BY <3>2, <3>4, <3>7, <3>8
      <4>2. EndsEvent(st, o, b[i])
        BY <4>1, <3>6, <3>7, <1>7, <1>10
      <4> QED
        BY <4>1, <4>2, <3>4
    <3>11. E[i] = b[i] /\ E[i] <= n
      BY <3>2, <3>4, <3>7, <3>9, <3>10 DEF e
    <3> QED
      BY <3>6, <3>11, <1>5
  <2> HIDE DEF T
  <2>3. 0..Len(E) \subseteq T
    BY <1>5, <2>1, <2>2, IndexInduction
  <2>4. ASSUME NEW i \in 1..Len(E) PROVE F(i)
    <3>1. i \in T /\ i # 0
      BY <2>3, <1>5
    <3> QED
      BY <3>1 DEF T
  <2> QED
    BY <2>4, <1>5, <1>10 DEF N
<1> QED
  BY <1>9, <1>10

(* The parts of an event: what ends it, what is before, the data lines.    *)
CutOf(raw) ==
    IF Len(raw) >= 4 /\ SubSeq(raw, Len(raw) - 3, Len(raw)) = <<CR, LF, CR, LF>> THEN 4 ELSE 2
BodyOf(raw) == SubSeq(raw, 1, Len(raw) - CutOf(raw))
DataAt(u) == {i \in DOMAIN u : u[i] \in DataLines}

(* An event that decodes has one data line.                                *)
LEMMA DecodeOk ==
    ASSUME NEW raw, decodeReceiptSSEEvent(raw).ok
    PROVE  /\ Cardinality(DataAt(BodyOf(raw))) = 1
           /\ decodeReceiptSSEEvent(raw).payload = BodyOf(raw)[Min(DataAt(BodyOf(raw)))]
<1> DEFINE u == BodyOf(raw)
           data == DataAt(u)
           names == {i \in DOMAIN u : u[i] \in NameLines}
           lines == Cardinality({i \in DOMAIN u : u[i] = LF}) + 1
           good == oneData(data) /\ Cardinality(names) <= 1
                   /\ Cardinality(data) + Cardinality(names) = lines
           nm == IF names = {} THEN "none" ELSE u[Min(names)]
<1>1. decodeReceiptSSEEvent(raw)
        = IF good THEN [ok |-> TRUE, name |-> nm, payload |-> u[Min(data)]] ELSE Refused
  BY DEF decodeReceiptSSEEvent, BodyOf, CutOf, DataAt
<1>2. Refused.ok = FALSE
  BY DEF Refused
<1>3. good => oneData(data)
  OBVIOUS
<1> HIDE DEF good, nm, data, u
<1>4. good
  BY <1>1, <1>2
<1>5. decodeReceiptSSEEvent(raw).payload = u[Min(data)]
  BY <1>1, <1>4
<1> QED
  BY <1>3, <1>4, <1>5 DEF oneData, data, u

(* The texts of f are there between p and e, and nothing else is a text.   *)
TextsAt(d, ending, p, f, e) ==
    \A j \in 1..Len(f) : LET y == LineStart(ending, p, j - 1) + 1
                         IN  y \in (p + 1)..e /\ d[y] = f[j]
TextsOnly(d, ending, p, f, e) ==
    \A x \in (p + 1)..e : d[x] \in Lines =>
        \E j \in 1..Len(f) : x = LineStart(ending, p, j - 1) + 1 /\ d[x] = f[j]

(* Where the texts of a frame are.                                         *)
LEMMA TextPlaces ==
    ASSUME NEW d, NEW ending \in EndingNames, NEW p \in Nat, NEW f \in Seq(Lines), f # << >>,
           Framed(d, p, f, ending), NEW e, e = BlankEnd(ending, LineStart(ending, p, Len(f)))
    PROVE  TextsAt(d, ending, p, f, e) /\ TextsOnly(d, ending, p, f, e)
<1> DEFINE m == Len(f)
           S(j) == LineStart(ending, p, j)
           q == S(m)
<1>1. m \in Nat /\ m >= 1
  OBVIOUS
<1>2. \A j \in 0..m : S(j) \in Nat /\ S(j) >= p
  BY <1>1, StartFacts
<1>3. S(0) = p /\ q \in Nat
  BY <1>1, <1>2, StartFacts
<1>4. \A j \in 1..m : S(j - 1) + 2 <= q
  <2> SUFFICES ASSUME NEW j \in 1..m PROVE S(j - 1) + 2 <= q
    OBVIOUS
  <2>1. j - 1 \in Nat /\ j - 1 < m
    BY <1>1
  <2> QED
    BY <2>1, <1>1, StartOrder
<1>5. e \in Nat /\ e > q
  BY <1>3 DEF BlankEnd
<1>6. /\ \A j \in 1..m : TextLine(d, S(j - 1), S(j), f[j])
      /\ BlankLine(d, q, e)
  BY DEF Framed
<1> HIDE DEF S, m, q
<1>7. ASSUME NEW j \in 1..m
      PROVE  S(j - 1) + 1 \in (p + 1)..e /\ d[S(j - 1) + 1] = f[j]
  <2>1. j - 1 \in 0..m
    BY <1>1
  <2>2. S(j - 1) \in Nat /\ S(j - 1) >= p /\ S(j - 1) + 2 <= q
    BY <2>1, <1>2, <1>4
  <2>3. d[S(j - 1) + 1] = f[j]
    BY <1>6 DEF TextLine
  <2> QED
    BY <2>2, <2>3, <1>3, <1>5
<1>8. ASSUME NEW x \in (p + 1)..e, d[x] \in Lines
      PROVE  \E j \in 1..m : x = S(j - 1) + 1 /\ d[x] = f[j]
  <2>1. x \in Nat /\ d[x] # CR /\ d[x] # LF
    BY <1>8, LinesAreTexts
  <2>2. x <= q
    <3> SUFFICES ASSUME x > q PROVE FALSE
      BY <2>1, <1>3
    <3>1. x = e \/ x \in (q + 1)..(e - 1)
      BY <2>1, <1>3, <1>5
    <3> QED
      BY <3>1, <2>1, <1>6 DEF BlankLine
  <2> DEFINE g == [j \in 0..m |-> S(j)]
  <2>3. \A j \in 0..m : g[j] = S(j) /\ g[j] \in Nat
    BY <1>2
  <2>4. 0 \in 0..m /\ m \in 0..m
    BY <1>1
  <2>5. x > g[0] /\ x <= g[m]
    BY <2>1, <2>2, <2>3, <2>4, <1>3 DEF q
  <2> HIDE DEF g
  <2>6. PICK j \in 1..m : g[j - 1] < x /\ x <= g[j]
    BY <2>1, <2>3, <2>5, <1>1, Locate
  <2>7. j - 1 \in 0..m /\ j \in 0..m
    BY <1>1
  <2> DEFINE a == S(j - 1)
             z == S(j)
  <2>8. a \in Nat /\ z \in Nat /\ a < x /\ x <= z
    BY <2>3, <2>6, <2>7
  <2>9. TextLine(d, a, z, f[j])
    BY <1>6
  <2> HIDE DEF a, z
  <2>10. x = a + 1
    <3> SUFFICES ASSUME x # a + 1 PROVE FALSE
      OBVIOUS
    <3>1. x = z \/ x \in (a + 2)..(z - 1)
      BY <2>1, <2>8
    <3> QED
      BY <3>1, <2>1, <2>9 DEF TextLine
  <2>11. d[x] = f[j]
    BY <2>9, <2>10 DEF TextLine
  <2> QED
    BY <2>10, <2>11 DEF a
<1> QED
  BY <1>7, <1>8 DEF S, m, TextsAt, TextsOnly

(* u holds all texts of d between p and e.                                 *)
HasTexts(d, p, e, u) == \A y \in (p + 1)..e : d[y] \in Lines => y - p \in 1..Len(u)

(* The body of an event holds all its texts.                               *)
LEMMA BodyFacts ==
    ASSUME NEW d, NEW p \in Nat, NEW e \in Nat, p < e, EndsEvent(d, p, e),
           NEW raw, Piece(d, p, raw), Len(raw) = e - p
    PROVE  /\ Piece(d, p, BodyOf(raw)) /\ Len(BodyOf(raw)) \in Nat /\ Len(BodyOf(raw)) <= e - p
           /\ HasTexts(d, p, e, BodyOf(raw))
<1> DEFINE L == Len(raw)
           cut == CutOf(raw)
           u == BodyOf(raw)
<1>1. L \in Nat /\ L = e - p /\ raw \in Seq(Tokens) /\ \A x \in 1..(e - p) : raw[x] = d[p + x]
  BY DEF Piece
<1>2. \/ e - p >= 2 /\ d[e - 1] = LF /\ d[e] = LF
      \/ e - p >= 4 /\ d[e - 3] = CR /\ d[e - 2] = LF /\ d[e - 1] = CR /\ d[e] = LF
  BY EndsEventIs
<1>3. /\ cut \in {2, 4} /\ cut <= e - p
      /\ \A y \in ((e - cut) + 1)..e : d[y] \in {CR, LF}
  <2>1. CASE e - p >= 2 /\ d[e - 1] = LF /\ d[e] = LF
    <3>1. cut = 2
      <4> SUFFICES ASSUME L >= 4, SubSeq(raw, L - 3, L) = <<CR, LF, CR, LF>> PROVE FALSE
        BY DEF CutOf
      <4>1. SubSeq(raw, L - 3, L)[3] = raw[L - 1]
        BY <1>1
      <4>2. <<CR, LF, CR, LF>>[3] = CR
        OBVIOUS
      <4>3. L - 1 \in 1..(e - p) /\ p + (L - 1) = e - 1
        BY <1>1
      <4>4. raw[L - 1] = d[e - 1]
        BY <4>3, <1>1
      <4> QED
        BY <4>1, <4>2, <4>4, <2>1, LinesAreTexts
    <3> HIDE DEF cut
    <3>2. \A y \in ((e - 2) + 1)..e : y = e \/ y = e - 1
      OBVIOUS
    <3> QED
      BY <3>1, <3>2, <2>1
  <2>2. CASE e - p >= 4 /\ d[e - 3] = CR /\ d[e - 2] = LF /\ d[e - 1] = CR /\ d[e] = LF
    <3>1. /\ L - 3 \in 1..(e - p) /\ L - 2 \in 1..(e - p) /\ L - 1 \in 1..(e - p) /\ L \in 1..(e - p)
          /\ p + (L - 3) = e - 3 /\ p + (L - 2) = e - 2 /\ p + (L - 1) = e - 1 /\ p + L = e
      BY <1>1, <2>2
    <3>2. raw[L - 3] = CR /\ raw[L - 2] = LF /\ raw[L - 1] = CR /\ raw[L] = LF
      BY <3>1, <1>1, <2>2
    <3> DEFINE s == SubSeq(raw, L - 3, L)
    <3>3. s \in Seq(Tokens) /\ Len(s) = 4
      BY <1>1, <2>2
    <3>4. s[1] = raw[L - 3] /\ s[2] = raw[L - 2] /\ s[3] = raw[L - 1] /\ s[4] = raw[L]
      <4> DEFINE w == L - 3
      <4>1. w \in 1..L /\ L \in 1..L /\ (L - w) + 1 = 4 /\ s = SubSeq(raw, w, L)
        BY <1>1, <2>2
      <4>2. (w + 1) - 1 = L - 3 /\ (w + 2) - 1 = L - 2 /\ (w + 3) - 1 = L - 1 /\ (w + 4) - 1 = L
        BY <1>1
      <4> HIDE DEF w, s
      <4>3. \A x \in 1..4 : s[x] = raw[(w + x) - 1]
        BY <4>1, <1>1
      <4>4. 1 \in 1..4 /\ 2 \in 1..4 /\ 3 \in 1..4 /\ 4 \in 1..4
        OBVIOUS
      <4> QED
        BY <4>2, <4>3, <4>4
    <3> HIDE DEF s
    <3>5. s = <<CR, LF, CR, LF>>
      BY <3>2, <3>3, <3>4
    <3>6. L >= 4
      BY <1>1, <2>2
    <3>7. cut = 4
      BY <3>5, <3>6 DEF CutOf, s
    <3> HIDE DEF cut
    <3>8. \A y \in ((e - 4) + 1)..e : y = e \/ y = e - 1 \/ y = e - 2 \/ y = e - 3
      OBVIOUS
    <3> QED
      BY <3>7, <3>8, <2>2
  <2> QED
    BY <1>2, <2>1, <2>2
<1>4. u = SubSeq(raw, 1, L - cut)
  BY DEF BodyOf
<1> HIDE DEF cut, u, L
<1>5. L - cut \in Nat /\ L - cut <= L
  BY <1>1, <1>3
<1>6. u \in Seq(Tokens) /\ Len(u) = L - cut /\ \A x \in 1..(L - cut) : u[x] = raw[x]
  BY <1>1, <1>4, <1>5 DEF L
<1>7. ASSUME NEW x \in 1..Len(u) PROVE u[x] = d[p + x]
  <2>1. x \in 1..(L - cut) /\ x \in 1..(e - p)
    BY <1>1, <1>5, <1>6
  <2> QED
    BY <2>1, <1>1, <1>6
<1>8. ASSUME NEW y \in (p + 1)..e, d[y] \in Lines PROVE y - p \in 1..Len(u)
  <2>1. y \in Nat /\ y \notin ((e - cut) + 1)..e
    BY <1>3, <1>8, LinesAreTexts
  <2>2. y <= e - cut
    BY <2>1, <1>3
  <2> QED
    BY <2>1, <2>2, <1>1, <1>3, <1>6
<1>9. Len(u) \in Nat /\ Len(u) <= e - p
  BY <1>1, <1>5, <1>6
<1>10. Piece(d, p, u)
  BY <1>6, <1>7 DEF Piece
<1> QED
  BY <1>8, <1>9, <1>10 DEF u, HasTexts

(* The data lines of a frame join to t.                                    *)
Carries(f, t) == t \in DataLines /\ dataOf(f) = IF t = "empty" THEN "empty" ELSE trimmed(t)

(* What an event that decodes carries is what the chat iterator takes from *)
(* the frame.                                                              *)
LEMMA EventData ==
    ASSUME NEW d, NEW ending \in EndingNames, ending # "mixed", NEW p \in Nat,
           NEW f \in Seq(Lines), f # << >>, Framed(d, p, f, ending),
           NEW e \in Nat, p < e, e = BlankEnd(ending, LineStart(ending, p, Len(f))),
           NEW raw, Piece(d, p, raw), Len(raw) = e - p,
           decodeReceiptSSEEvent(raw).ok, NEW t, t = decodeReceiptSSEEvent(raw).payload
    PROVE  Carries(f, t)
<1> DEFINE u == BodyOf(raw)
           data == DataAt(u)
           m == Len(f)
           S(j) == LineStart(ending, p, j)
<1>1. e \in (p + 1)..e
  OBVIOUS
<1>2. EndsEvent(d, p, e)
  BY <1>1, FrameEnd
<1>3. /\ u \in Seq(Tokens) /\ \A x \in 1..Len(u) : u[x] = d[p + x]
      /\ \A y \in (p + 1)..e : d[y] \in Lines => y - p \in 1..Len(u)
      /\ Len(u) \in Nat /\ Len(u) <= e - p
  <2>1. Piece(d, p, u) /\ Len(u) \in Nat /\ Len(u) <= e - p /\ HasTexts(d, p, e, u)
    BY <1>2, BodyFacts
  <2> HIDE DEF u
  <2> QED
    BY <2>1 DEF Piece, HasTexts
<1>4. Cardinality(data) = 1 /\ t = u[Min(data)]
  BY DecodeOk
<1>5. DataLines \subseteq Lines
  BY DEF Lines
<1> HIDE DEF u, data
<1>6. Len(u) \in Nat /\ DOMAIN u = 1..Len(u) /\ Len(u) <= e - p
  BY <1>3
<1>7. data \subseteq 1..Len(u) /\ \A x \in 1..Len(u) : x \in data <=> d[p + x] \in DataLines
  BY <1>3, <1>6 DEF data, DataAt
<1>8. PICK c : data = {c}
  <2>1. IsFiniteSet(1..Len(u))
    <3>1. 1 \in Int /\ Len(u) \in Int
      BY <1>6
    <3> QED
      BY <3>1, FS_Interval
  <2>2. IsFiniteSet(data)
    BY <2>1, <1>7, FS_Subset
  <2> QED
    BY <2>2, <1>4, FS_Singleton
<1>9. c \in 1..Len(u) /\ c \in data
  BY <1>7, <1>8
<1>10. Min(data) = c
  <2>1. data \subseteq Nat
    BY <1>7
  <2>2. Min(data) \in data
    BY <2>1, <1>8, MinIsLeast
  <2> QED
    BY <2>2, <1>8
<1>11. t = d[p + c] /\ t \in DataLines
  BY <1>3, <1>4, <1>7, <1>9, <1>10
<1>12. p + c \in (p + 1)..e
  BY <1>6, <1>9
<1>13. /\ \A j \in 1..m : S(j - 1) + 1 \in (p + 1)..e /\ d[S(j - 1) + 1] = f[j]
       /\ \A x \in (p + 1)..e : d[x] \in Lines => \E j \in 1..m : x = S(j - 1) + 1 /\ d[x] = f[j]
  <2>1. TextsAt(d, ending, p, f, e) /\ TextsOnly(d, ending, p, f, e)
    BY TextPlaces
  <2> QED
    BY <2>1 DEF TextsAt, TextsOnly
<1>14. \A j \in 1..m : S(j - 1) \in Nat
  <2> SUFFICES ASSUME NEW j \in 1..m PROVE S(j - 1) \in Nat
    OBVIOUS
  <2>1. j - 1 \in Nat
    OBVIOUS
  <2> QED
    BY <2>1, StartFacts
<1>15. \A i, j \in 1..m : i < j => S(i - 1) # S(j - 1)
  <2> SUFFICES ASSUME NEW i \in 1..m, NEW j \in 1..m, i < j PROVE S(i - 1) # S(j - 1)
    OBVIOUS
  <2>1. i - 1 \in Nat /\ j - 1 \in Nat /\ i - 1 < j - 1
    OBVIOUS
  <2>2. S(i - 1) + 2 <= S(j - 1)
    BY <2>1, StartOrder
  <2> QED
    BY <2>2, <1>14
<1> HIDE DEF S, m
<1>16. PICK k \in 1..m : p + c = S(k - 1) + 1 /\ d[p + c] = f[k]
  BY <1>5, <1>11, <1>12, <1>13
<1>17. ASSUME NEW j \in 1..m, f[j] \in DataLines PROVE j = k
  <2> DEFINE y == S(j - 1) + 1
  <2>1. y \in (p + 1)..e /\ d[y] = f[j] /\ y \in Nat
    BY <1>13, <1>14
  <2> HIDE DEF y
  <2>2. y - p \in 1..Len(u) /\ p + (y - p) = y
    BY <2>1, <1>3, <1>5, <1>17
  <2>3. y - p \in data
    BY <2>1, <2>2, <1>7, <1>17
  <2>4. y - p = c
    BY <2>3, <1>8
  <2>5. S(j - 1) \in Nat /\ S(k - 1) \in Nat /\ c \in Nat
    BY <1>9, <1>14
  <2> DEFINE a == S(j - 1)
             z == S(k - 1)
  <2>6. a = z
    <3>1. y = a + 1 /\ p + c = z + 1 /\ a \in Nat /\ z \in Nat
      BY <2>5, <1>16 DEF y
    <3> HIDE DEF a, z
    <3> QED
      BY <3>1, <2>1, <2>4, <2>5
  <2>7. ~(j < k) /\ ~(k < j)
    BY <2>6, <1>15
  <2> QED
    BY <2>7
<1> DEFINE parts == {j \in DOMAIN f : f[j] \in DataLines \ {"empty"}}
<1>18. DOMAIN f = 1..m /\ f[k] = t
  BY <1>11, <1>16 DEF m
<1>19. dataOf(f) = CASE parts = {} -> "empty"
                     [] Cardinality(parts) = 1 -> trimmed(f[Min(parts)])
                     [] OTHER -> "garbage"
  BY DEF dataOf
<1>20. CASE t = "empty"
  <2>1. parts = {}
    BY <1>17, <1>18, <1>20
  <2>2. Cardinality({}) = 0
    BY FS_EmptySet
  <2> HIDE DEF parts
  <2>3. dataOf(f) = "empty"
    BY <2>1, <2>2, <1>19
  <2> QED
    BY <2>3, <1>11, <1>20 DEF Carries
<1>21. CASE t # "empty"
  <2>1. parts = {k}
    BY <1>11, <1>17, <1>18, <1>21
  <2>2. Cardinality({k}) = 1
    BY FS_Singleton
  <2>3. Min({k}) = k
    <3>1. {k} \subseteq Nat /\ {k} # {}
      BY <1>16 DEF m
    <3>2. Min({k}) \in {k}
      BY <3>1, MinIsLeast
    <3> QED
      BY <3>2
  <2> HIDE DEF parts
  <2>4. parts # {} /\ Cardinality(parts) = 1 /\ Min(parts) = k
    BY <2>1, <2>2, <2>3
  <2>5. dataOf(f) = trimmed(f[k])
    BY <2>4, <1>19
  <2> QED
    BY <2>5, <1>11, <1>18, <1>21 DEF Carries
<1> QED
  BY <1>20, <1>21

(* What a decoded event of a stream carries is what its frame does.        *)
LEMMA FrameData ==
    ASSUME NEW st, NEW sc, NEW en, NEW d, NEW ending, NEW b, Wire(st, sc, en, d, ending, b),
           NEW n \in Nat, n <= Len(st), NEW E, E = EventEnds(st, 0, n), NEW i \in 1..Len(E),
           NEW v, v = Decoded(st, 0, E)[i], v.ok
    PROVE  Carries(sc[i], v.payload)
<1> DEFINE N == Len(sc)
           p == b[i - 1]
           e == b[i]
           f == sc[i]
           raw == SubSeq(st, p + 1, e)
<1>1. /\ N \in Nat /\ ending \in EndingNames /\ Layout(d, sc, N, ending, b) /\ st \in Seq(Tokens)
      /\ Len(st) \in Nat
  BY DEF Wire, IsScript
<1>2. E \in Seq(Nat)
      /\ \A k \in 1..Len(E) : k \in 1..N /\ E[k] = b[k] /\ E[k] <= n /\ ending # "mixed"
  BY EventsAreFrames
<1>3. i \in 1..N /\ E[i] = e /\ e <= n /\ ending # "mixed"
  BY <1>2
<1>4. /\ p \in Nat /\ e \in Nat /\ p < e /\ f \in Seq(Lines) /\ Len(f) >= 1 /\ Len(f) \in Nat
  BY <1>1, <1>3, FrameWithin
<1>5. f # << >> /\ e = BlankEnd(ending, LineStart(ending, p, Len(f))) /\ Framed(d, p, f, ending)
  BY <1>1, <1>3 DEF Layout
<1>6. (IF i = 1 THEN 0 ELSE E[i - 1]) = p
  <2>1. CASE i = 1
    BY <2>1, <1>1 DEF Layout
  <2>2. CASE i # 1
    <3>1. i - 1 \in 1..Len(E)
      BY <2>2, <1>2
    <3> QED
      BY <3>1, <2>2, <1>2
  <2> QED
    BY <2>1, <2>2
<1>7. DOMAIN E = 1..Len(E)
  BY <1>2
<1>8. v = decodeReceiptSSEEvent(SubSeq(st, (IF i = 1 THEN 0 ELSE E[i - 1]) + 1, E[i]))
  BY <1>7 DEF Decoded
<1>9. v = decodeReceiptSSEEvent(raw)
  BY <1>3, <1>6, <1>8
<1>10. p <= e /\ e <= Len(st)
  BY <1>1, <1>3, <1>4
<1> HIDE DEF p, e, f, N
<1>11. raw = SubSeq(st, p + 1, e)
  OBVIOUS
<1> HIDE DEF raw
<1>12. Piece(d, p, raw) /\ Len(raw) = e - p
  BY <1>4, <1>10, <1>11, BufferedFacts
<1> DEFINE t == v.payload
<1>13. decodeReceiptSSEEvent(raw).ok /\ t = decodeReceiptSSEEvent(raw).payload
  BY <1>9
<1> HIDE DEF t
<1>14. ending \in EndingNames /\ ending # "mixed"
  BY <1>1, <1>3
<1>15. p \in Nat /\ e \in Nat /\ p < e /\ f \in Seq(Lines)
  BY <1>4
<1>16. Carries(f, t)
  BY ONLY <1>5, <1>12, <1>13, <1>14, <1>15, EventData
<1> QED
  BY <1>16 DEF t, f

(* What the chat iterator makes of a frame with one payload that is        *)
(* neither an error nor the end.                                           *)
LEMMA ChatEvent ==
    ASSUME NEW f, NEW t, Carries(f, t), t \notin Stoppers, t # "done"
    PROVE  parseFrame("chunks", f).event = IF t = "empty" THEN "none" ELSE t
<1>1. trimmed(t) = t
  BY DEF trimmed, Stoppers
<1>2. dataOf(f) = t /\ t \in DataLines
  BY <1>1 DEF Carries
<1>3. parseFrame("chunks", f) = parseChatSSEFrame(f)
  BY DEF parseFrame
<1>4. parseChatSSEFrame(f) = IF t = "empty" THEN Nothing ELSE Yields(t)
  BY <1>2 DEF parseChatSSEFrame, Stoppers
<1>5. Nothing.event = "none" /\ Yields(t).event = t
  BY DEF Nothing, Yields
<1> QED
  BY <1>3, <1>4, <1>5

(* Two sequences that differ in what is left out only.                     *)
Alike(S, g, x, h, y, n) ==
    /\ g \in [1..n -> S] /\ h \in [1..n -> S]
    /\ \A i \in 1..n : \/ g[i] = x /\ h[i] = y
                       \/ g[i] # x /\ h[i] # y /\ g[i] = h[i]

(* The same is left of them.                                               *)
LEMMA SameLeft ==
    ASSUME NEW S, NEW n \in Nat, NEW g, NEW h, NEW x, NEW y, Alike(S, g, x, h, y, n)
    PROVE  Without(g, x) = Without(h, y)
<1>1. g \in [1..n -> S] /\ h \in [1..n -> S]
  BY DEF Alike
<1>2. PICK u : Filters(S, g, n, x, u) /\ LeftOf(g, n, x, u)
  BY <1>1, WithoutPrefixes
<1>3. PICK w : Filters(S, h, n, y, w) /\ LeftOf(h, n, y, w)
  BY <1>1, WithoutPrefixes
<1> DEFINE T == {i \in 0..n : u[i] = w[i]}
<1>4. 0 \in T
  BY <1>2, <1>3 DEF Filters
<1>5. ASSUME NEW i \in 1..n, i - 1 \in T PROVE i \in T
  <2>1. u[i] = IF g[i] = x THEN u[i - 1] ELSE Append(u[i - 1], g[i])
    BY <1>2 DEF Filters
  <2>2. w[i] = IF h[i] = y THEN w[i - 1] ELSE Append(w[i - 1], h[i])
    BY <1>3 DEF Filters
  <2>3. i \in 0..n /\ u[i - 1] = w[i - 1]
    BY <1>5
  <2> QED
    BY <2>1, <2>2, <2>3 DEF Alike
<1> HIDE DEF T
<1>6. 0..n \subseteq T
  BY <1>4, <1>5, IndexInduction
<1>7. n \in 0..n /\ u[n] = w[n]
  BY <1>6 DEF T
<1>8. Firsts(g, n) = g /\ Firsts(h, n) = h
  BY <1>1 DEF Firsts
<1>9. Without(g, x) = u[n] /\ Without(h, y) = w[n]
  BY <1>2, <1>3, <1>7, <1>8 DEF LeftOf
<1> QED
  BY <1>7, <1>9

(* The events that are covered.                                            *)
Covers(domain, e) ==
    /\ e.payload # "done" /\ embedded(e.payload) = "none"
    /\ domain = "sse-data-v1" => e.name = "none"

(* The payloads of the first k events.                                     *)
Payloads(V, k) == [i \in 1..k |-> V[i].payload]

(* These events are covered ones, the receipt r, and another.              *)
Accepts(V, last, domain, r) ==
    /\ last >= 2 /\ r \notin {"none", "invalid"}
    /\ \A i \in 1..last : V[i].ok
    /\ \A i \in 1..(last - 2) : Covers(domain, V[i])
    /\ embedded(V[last - 1].payload) = r

(* A digest accepts covered events, the receipt and [DONE].                *)
LEMMA DigestIs ==
    ASSUME NEW st, NEW n, NEW domain, NEW r, NEW g, g = receiptStreamDigest(st, n, domain, r), g.ok,
           NEW E, E = EventEnds(st, 0, n), E \in Seq(Nat),
           NEW V, V = Decoded(st, 0, E), NEW last, last = Len(E)
    PROVE  Accepts(V, last, domain, r) /\ g.covered = Payloads(V, last - 2)
<1>1. Len(V) = last
  <2>1. DOMAIN V = 1..last /\ last \in Nat
    BY DEF Decoded
  <2> DEFINE R == {V[i] : i \in 1..last}
  <2>2. V \in [1..last -> R]
    BY <2>1 DEF Decoded
  <2> HIDE DEF R
  <2>3. V \in Seq(R)
    BY ONLY <2>1, <2>2, IsASeq
  <2> QED
    BY <2>1, <2>3
<1> DEFINE ok == /\ r \notin {"none", "invalid"}
                 /\ last >= 2 /\ E[last] = n
                 /\ \A i \in 1..last : V[i].ok
                 /\ \A i \in 1..(last - 2) : Covers(domain, V[i])
                 /\ embedded(V[last - 1].payload) = r
                 /\ V[last].payload = "done"
           covered == Payloads(V, last - 2)
           hashed == [i \in 1..(last - 2) |-> written(domain, V[i])]
<1>2. g = IF ok THEN [ok |-> TRUE, covered |-> covered, hashed |-> hashed] ELSE NoDigest
  BY <1>1 DEF receiptStreamDigest, Covers, Payloads
<1>3. ok => Accepts(V, last, domain, r)
  BY DEF Accepts
<1> HIDE DEF ok, covered, hashed
<1>4. ok
  <2>1. ~NoDigest.ok
    BY DEF NoDigest
  <2>2. ~ok => g = NoDigest
    BY <1>2
  <2> QED
    BY <2>1, <2>2, Zenon
<1>5. g.covered = covered
  BY <1>2, <1>4
<1> QED
  BY <1>3, <1>4, <1>5 DEF covered

(* What a verified receipt covers, the chat iterator yields, and then the  *)
(* receipt.                                                                *)
LEMMA CoveredIsSeen ==
    ASSUME NEW st, NEW sc, NEW en, NEW d, NEW ending, NEW b, Wire(st, sc, en, d, ending, b),
           NEW n \in Nat, n <= Len(st), NEW domain, NEW r,
           NEW g, g = receiptStreamDigest(st, n, domain, r), g.ok,
           \A i \in DOMAIN g.covered : g.covered[i] \notin Stoppers
    PROVE  IsPrefix(Append(Without(g.covered, "empty"), r), Handed("chunks", sc, Len(sc)))
<1> DEFINE N == Len(sc)
           E == EventEnds(st, 0, n)
           V == Decoded(st, 0, E)
           last == Len(E)
           z == last - 2
           ev(i) == parseFrame("chunks", sc[i]).event
<1>1. /\ E \in Seq(Nat) /\ \A i \in 1..last : i \in 1..N
      /\ IsScript(sc) /\ N \in Nat
  <2>1. /\ E \in Seq(Nat)
        /\ \A i \in 1..last : i \in 1..N /\ E[i] = b[i] /\ E[i] <= n /\ ending # "mixed"
    BY EventsAreFrames
  <2>2. IsScript(sc) /\ N \in Nat
    BY DEF Wire, IsScript
  <2> QED
    BY <2>1, <2>2
<1>2. /\ last >= 2 /\ r \notin {"none", "invalid"}
      /\ \A i \in 1..last : V[i].ok
      /\ \A i \in 1..z : Covers(domain, V[i])
      /\ embedded(V[last - 1].payload) = r
      /\ g.covered = [i \in 1..z |-> V[i].payload]
  <2>1. E = EventEnds(st, 0, n) /\ V = Decoded(st, 0, E) /\ last = Len(E)
    OBVIOUS
  <2> HIDE DEF E, V, last
  <2>2. Accepts(V, last, domain, r) /\ g.covered = Payloads(V, last - 2)
    BY <2>1, <1>1, DigestIs
  <2> QED
    BY <2>2 DEF Accepts, Payloads
<1>3. \A i \in 1..last : Carries(sc[i], V[i].payload)
  <2> SUFFICES ASSUME NEW i \in 1..last PROVE Carries(sc[i], V[i].payload)
    OBVIOUS
  <2> DEFINE v == V[i]
  <2>1. v = Decoded(st, 0, E)[i] /\ v.ok
    BY <1>2
  <2> HIDE DEF v
  <2>2. Carries(sc[i], v.payload)
    BY <2>1, FrameData
  <2> QED
    BY <2>2 DEF v
<1>4. last \in Nat /\ z \in Nat /\ last - 1 \in 1..last /\ (last - 1) - 1 = z
  BY <1>1, <1>2
<1> HIDE DEF E, V, last, z, N
<1>5. /\ V[last - 1].payload = r /\ r \in {"receipt", "otherReceipt"}
  BY <1>2 DEF embedded
<1>6. ev(last - 1) = r /\ r # "none"
  <2>1. r \in DataLines /\ r \notin Stoppers /\ r # "done" /\ r # "empty"
    BY <1>5 DEF DataLines, Stoppers
  <2>2. Carries(sc[last - 1], r)
    BY <1>3, <1>4, <1>5
  <2>3. ev(last - 1) = IF r = "empty" THEN "none" ELSE r
    BY <2>1, <2>2, ChatEvent
  <2> QED
    BY <2>1, <2>3, <1>5
<1> DEFINE G == [i \in 1..z |-> V[i].payload]
           H == [i \in 1..z |-> ev(i)]
           S == {"none"} \cup DataLines
<1>7. ASSUME NEW i \in 1..z
      PROVE  /\ G[i] \in DataLines
             /\ H[i] = IF G[i] = "empty" THEN "none" ELSE G[i]
  <2> DEFINE t == V[i].payload
  <2>1. i \in 1..last
    BY <1>4 DEF z
  <2>2. Carries(sc[i], t)
    BY <2>1, <1>3
  <2>3. t # "done"
    BY <1>2 DEF Covers
  <2>4. t \notin Stoppers
    <3>1. i \in DOMAIN g.covered /\ g.covered[i] = t
      BY <1>2
    <3> QED
      BY <3>1
  <2> HIDE DEF t
  <2>5. ev(i) = IF t = "empty" THEN "none" ELSE t
    BY <2>2, <2>3, <2>4, ChatEvent
  <2>6. G[i] = t /\ H[i] = ev(i)
    BY DEF t
  <2>7. t \in DataLines
    BY <2>2 DEF Carries
  <2> HIDE DEF G, H
  <2> QED
    BY <2>5, <2>6, <2>7
<1>8. G \in [1..z -> S] /\ H \in [1..z -> S]
  <2>1. \A i \in 1..z : V[i].payload \in S
    BY <1>7
  <2>2. \A i \in 1..z : ev(i) \in S
    BY <1>7
  <2> QED
    BY <2>1, <2>2
<1>9. Alike(S, G, "empty", H, "none", z)
  <2>1. "none" \notin DataLines
    BY DEF DataLines
  <2> HIDE DEF G, H, S
  <2> QED
    BY <2>1, <1>7, <1>8 DEF Alike
<1>10. g.covered = G /\ Handed("chunks", sc, z) = Without(H, "none")
  BY <1>2 DEF Handed
<1> HIDE DEF G, H, S
<1>11. Without(g.covered, "empty") = Handed("chunks", sc, z)
  <2>1. z \in Nat
    BY <1>4
  <2>2. Without(G, "empty") = Without(H, "none")
    BY ONLY <2>1, <1>9, SameLeft
  <2> QED
    BY <2>2, <1>10
<1> DEFINE k == last - 1
<1>12. k \in 1..N /\ k \in 0..N /\ N \in k..N /\ k - 1 = z
  <2>1. k \in 1..N
    BY <1>1, <1>4 DEF last, N
  <2> QED
    BY <2>1, <1>1, <1>4 DEF N
<1> HIDE DEF k
<1>13. /\ Handed("chunks", sc, k) = IF ev(k) = "none" THEN Handed("chunks", sc, k - 1)
                                    ELSE Append(Handed("chunks", sc, k - 1), ev(k))
       /\ IsPrefix(Handed("chunks", sc, k), Handed("chunks", sc, N))
  BY <1>1, <1>12, HandedFacts DEF N
<1>14. Handed("chunks", sc, k) = Append(Handed("chunks", sc, z), r)
  BY <1>6, <1>12, <1>13 DEF k
<1> QED
  BY <1>11, <1>13, <1>14 DEF N

(* What a verified receipt covers is what a reader of the same stream      *)
(* sees: the digest's framing, which knows LF LF and CR LF CR LF, and the  *)
(* iterator's, which reads line by line, find the same payloads in         *)
(* whatever the digest accepts.                                            *)
THEOREM VerifiedIsWhatIsRead == Spec => []AcceptedIsSeen
<1> DEFINE Both == DecodeInv /\ CaptureInv
<1>1. Both => AcceptedIsSeen
  <2> SUFFICES ASSUME Both PROVE AcceptedIsSeen
    OBVIOUS
  <2>1. PICK d, ending, b : Wire(stream, script, ended, d, ending, b)
    BY DEF DecodeInv
  <2> DEFINE n == capture.size
             r == capture.receipt
             seen == Without([i \in DOMAIN script |-> parseChatSSEFrame(script[i]).event], "none")
  <2>2. n \in Nat /\ n <= Len(stream)
    <3>1. n \in Nat /\ n <= pos /\ pos \in Nat /\ pos <= Len(stream) /\ Len(stream) \in Nat
      BY DEF CaptureInv, Captured, ReadInv
    <3> QED
      BY <3>1
  <2>3. seen = Handed("chunks", script, Len(script))
    <3>1. DOMAIN script = 1..Len(script)
      BY <2>1 DEF Wire, IsScript
    <3>2. \A i : parseFrame("chunks", script[i]) = parseChatSSEFrame(script[i])
      BY DEF parseFrame
    <3> QED
      BY <3>1, <3>2 DEF Handed
  <2> HIDE DEF n, r, seen
  <2>4. ASSUME NEW domain \in {"sse-data-v1", "sse-events-v1"}, NEW g,
               g = receiptStreamDigest(stream, n, domain, r), g.ok,
               \A i \in DOMAIN g.covered : g.covered[i] \notin Stoppers
        PROVE  IsPrefix(Append(Without(g.covered, "empty"), r), seen)
    BY <2>1, <2>2, <2>3, <2>4, CoveredIsSeen
  <2> QED
    BY <2>4 DEF AcceptedIsSeen, n, r, seen
<1>2. Init => Both
  <2> SUFFICES ASSUME Init PROVE Both
    OBVIOUS
  <2> QED
    BY DecodeStarts, CaptureBegins
<1>3. Both /\ [Next]_vars => Both'
  BY DecodeStep, CaptureStep
<1> QED
  BY <1>1, <1>2, <1>3, PTL DEF Spec

-----------------------------------------------------------------------------
(* The digest of a stream that is complete.                                *)

(* A stream of n events, each one data line and LF LF.                     *)
PlainStream(d, ps, n) ==
    \A i \in 1..n : /\ ps[i] \in DataLines /\ d[3 * i - 2] = ps[i]
                    /\ d[3 * i - 1] = LF /\ d[3 * i] = LF

(* An event of the line at o + 1.                                          *)
LEMMA PlainNext ==
    ASSUME NEW d, NEW n \in Nat, NEW o \in Nat, o + 3 <= n,
           d[o + 1] \in DataLines, d[o + 2] = LF, d[o + 3] = LF
    PROVE  o + 3 \in nextReceiptSSEEvent(d, o, n)
<1> DEFINE p == <<LF, LF>>
           q == <<CR, LF, CR, LF>>
           E(e) == EndsEvent(d, o, e)
<1>1. Len(p) = 2 /\ Len(q) = 4 /\ DOMAIN p = 1..2 /\ p[1] = LF /\ p[2] = LF
  OBVIOUS
<1> HIDE DEF p, q
<1>2. E(o + 3)
  <2>1. \A k \in 1..2 : k = 1 \/ k = 2
    OBVIOUS
  <2>2. (o + 3) - o >= 2 /\ (o + 3) - 2 + 1 = o + 2 /\ (o + 3) - 2 + 2 = o + 3
    OBVIOUS
  <2>3. EndsWith(d, o, o + 3, p)
    BY <1>1, <2>1, <2>2 DEF EndsWith
  <2> QED
    BY <2>3 DEF EndsEvent, p
<1>3. ASSUME NEW f \in (o + 1)..((o + 3) - 1) PROVE ~E(f)
  <2>1. f \in Int /\ (f = o + 1 \/ f = o + 2)
    OBVIOUS
  <2>2. ~EndsWith(d, o, f, q)
    <3>1. ~(f - o >= 4)
      BY <2>1
    <3> QED
      BY <3>1, <1>1 DEF EndsWith
  <2>3. ~EndsWith(d, o, f, p)
    <3>1. CASE f = o + 1
      <4>1. ~(f - o >= 2)
        BY <3>1
      <4> QED
        BY <4>1, <1>1 DEF EndsWith
    <3>2. CASE f = o + 2
      <4>1. f - 2 + 1 = o + 1 /\ 1 \in DOMAIN p
        BY <3>2, <1>1
      <4>2. d[o + 1] # LF
        BY DEF DataLines, LF
      <4> QED
        BY <4>1, <4>2, <1>1 DEF EndsWith
    <3> QED
      BY <2>1, <3>1, <3>2
  <2> QED
    BY <2>2, <2>3 DEF EndsEvent, p, q
<1>4. o + 3 \in (o + 1)..n
  OBVIOUS
<1> QED
  BY <1>2, <1>3, <1>4 DEF nextReceiptSSEEvent

(* The events of such a stream end where they should.                      *)
LEMMA PlainEnds ==
    ASSUME NEW d, NEW ps, NEW n \in Nat, PlainStream(d, ps, n)
    PROVE  EventEnds(d, 0, 3 * n) = [i \in 1..n |-> 3 * i]
<1> DEFINE N == 3 * n
           EndsTo(k) == [j \in 1..k |-> 3 * (n - k) + 3 * j]
           T == {k \in Nat : k <= n => EventEnds(d, 3 * (n - k), N) = EndsTo(k)}
<1>1. N \in Nat
  OBVIOUS
<1>2. 0 \in T
  <2>1. 3 * (n - 0) = N /\ N \in 0..N /\ (N + 1)..N = {}
    OBVIOUS
  <2>2. nextReceiptSSEEvent(d, N, N) = {}
    BY <2>1 DEF nextReceiptSSEEvent
  <2> HIDE DEF N
  <2>3. EventEnds(d, N, N) = << >>
    BY <1>1, <2>1, <2>2, EventEndsUnfold
  <2>4. EndsTo(0) = << >>
    OBVIOUS
  <2> HIDE DEF EndsTo
  <2> QED
    BY <2>1, <2>3, <2>4
<1>3. ASSUME NEW k \in T PROVE k + 1 \in T
  <2> SUFFICES ASSUME k + 1 <= n
               PROVE  EventEnds(d, 3 * (n - (k + 1)), N) = EndsTo(k + 1)
    OBVIOUS
  <2> DEFINE i == n - k
             o == 3 * (n - (k + 1))
  <2>1. /\ i \in 1..n /\ o \in Nat /\ o \in 0..N /\ o + 3 <= N /\ o + 3 = 3 * (n - k)
        /\ 3 * i - 2 = o + 1 /\ 3 * i - 1 = o + 2 /\ 3 * i = o + 3 /\ k \in Nat
    OBVIOUS
  <2>2. d[o + 1] \in DataLines /\ d[o + 2] = LF /\ d[o + 3] = LF
    <3> HIDE DEF i, o
    <3> QED
      BY <2>1 DEF PlainStream
  <2>3. EventEnds(d, o + 3, N) = EndsTo(k)
    BY <2>1
  <2> DEFINE s == EndsTo(k)
             u == EndsTo(k + 1)
  <2>4. s \in Seq(Nat) /\ Len(s) = k /\ \A j \in 1..k : s[j] = (o + 3) + 3 * j
    <3>1. \A j \in 1..k : 3 * (n - k) + 3 * j \in Nat
      BY <2>1
    <3>2. s \in [1..k -> Nat]
      BY <3>1
    <3> QED
      BY <2>1, <3>2, IsASeq
  <2>5. u \in Seq(Nat) /\ Len(u) = k + 1 /\ \A j \in 1..(k + 1) : u[j] = o + 3 * j
    <3>1. \A j \in 1..(k + 1) : 3 * (n - (k + 1)) + 3 * j \in Nat
      BY <2>1
    <3>2. u \in [1..(k + 1) -> Nat] /\ k + 1 \in Nat
      BY <2>1, <3>1
    <3> QED
      BY <2>1, <3>2, IsASeq
  <2> HIDE DEF s, u, EndsTo, i, o, N
  <2>6. o + 3 \in nextReceiptSSEEvent(d, o, N)
    BY <1>1, <2>1, <2>2, PlainNext
  <2>7. EventEnds(d, o, N) = <<o + 3>> \o s
    BY <1>1, <2>1, <2>3, <2>6, EventEndsUnfold DEF s
  <2>8. u = <<o + 3>> \o s
    <3> DEFINE h == <<o + 3>>
    <3>1. h \in Seq(Nat) /\ Len(h) = 1 /\ h[1] = o + 3
      BY <2>1
    <3> HIDE DEF h
    <3>2. Len(u) = Len(h) + Len(s)
      BY <2>1, <2>4, <2>5, <3>1
    <3>3. \A j \in 1..Len(h) : u[j] = h[j]
      <4>1. u[1] = o + 3
        BY <2>1, <2>5
      <4>2. \A j \in 1..Len(h) : j = 1
        BY <3>1
      <4> QED
        BY <3>1, <4>1, <4>2
    <3>4. \A j \in 1..Len(s) : u[Len(h) + j] = s[j]
      <4>1. ASSUME NEW j \in 1..k PROVE u[1 + j] = s[j]
        <5>1. 1 + j \in 1..(k + 1) /\ o + 3 * (1 + j) = (o + 3) + 3 * j
          BY <2>1
        <5> QED
          BY <5>1, <2>4, <2>5
      <4> QED
        BY <4>1, <2>4, <3>1
    <3>5. Joins(u, h, s)
      BY <3>2, <3>3, <3>4 DEF Joins
    <3>6. u = h \o s
      BY <2>4, <2>5, <3>1, <3>5, JoinIsConcat
    <3> QED
      BY <3>6 DEF h
  <2> QED
    BY <2>7, <2>8 DEF u, o
<1> HIDE DEF T
<1>4. T \subseteq Nat
  BY DEF T
<1>5. T = Nat
  BY <1>2, <1>3, <1>4, SetInduction
<1>6. EventEnds(d, 3 * (n - n), N) = EndsTo(n)
  <2> HIDE DEF EndsTo, N
  <2>1. n \in T /\ n <= n
    BY <1>5
  <2> QED
    BY <2>1 DEF T
<1>7. 3 * (n - n) = 0 /\ EndsTo(n) = [i \in 1..n |-> 3 * i]
  OBVIOUS
<1> QED
  BY <1>6, <1>7

(* One data line decodes to itself.                                        *)
LEMMA PlainDecodes ==
    ASSUME NEW p \in DataLines
    PROVE  decodeReceiptSSEEvent(<<p, LF, LF>>) = [ok |-> TRUE, name |-> "none", payload |-> p]
<1> DEFINE raw == <<p, LF, LF>>
           text == SubSeq(raw, 1, 1)
           data == {i \in DOMAIN text : text[i] \in DataLines}
           names == {i \in DOMAIN text : text[i] \in NameLines}
           breaks == {i \in DOMAIN text : text[i] = LF}
<1>1. Len(raw) = 3 /\ raw[1] = p
  OBVIOUS
<1>2. DOMAIN text = 1..1 /\ text[1] = p
  OBVIOUS
<1>3. p \notin NameLines /\ p # LF
  BY DEF DataLines, NameLines, LF
<1> HIDE DEF text
<1>4. data = {1} /\ names = {} /\ breaks = {}
  BY <1>2, <1>3
<1>5. Cardinality(data) = 1 /\ Cardinality(names) = 0 /\ Cardinality(breaks) = 0
  BY <1>4, FS_EmptySet, FS_Singleton
<1>6. Min(data) = 1
  BY <1>4 DEF Min
<1> HIDE DEF raw, data, names, breaks
<1>7. (IF Len(raw) >= 4 /\ SubSeq(raw, Len(raw) - 3, Len(raw)) = <<CR, LF, CR, LF>>
       THEN 4 ELSE 2) = 2
  BY <1>1
<1>8. SubSeq(raw, 1, Len(raw) - 2) = text
  BY <1>1 DEF text
<1>9. /\ oneData(data) /\ Cardinality(names) <= 1
      /\ Cardinality(data) + Cardinality(names) = Cardinality(breaks) + 1
  BY <1>5 DEF oneData
<1>10. decodeReceiptSSEEvent(raw)
         = [ok |-> TRUE, name |-> IF names = {} THEN "none" ELSE text[Min(names)],
            payload |-> text[Min(data)]]
  BY <1>7, <1>8, <1>9, Zenon DEF decodeReceiptSSEEvent, data, names, breaks
<1> QED
  BY <1>2, <1>4, <1>6, <1>10 DEF raw

(* A stream of plain events - the payloads of a response, the receipt and  *)
(* [DONE] - digests to the payloads, in both domains: none is left out,    *)
(* and neither of the last two is covered.                                 *)
THEOREM PlainStreamsDigest ==
    ASSUME NEW ps \in Seq(DataLines), NEW receipt \in {"receipt", "otherReceipt"}, NEW d,
           NEW domain,
           \A i \in DOMAIN ps : ps[i] # "done" /\ embedded(ps[i]) = "none",
           PlainStream(d, ps \o <<receipt, "done">>, Len(ps) + 2)
    PROVE  receiptStreamDigest(d, 3 * (Len(ps) + 2), domain, receipt)
             = [ok |-> TRUE, covered |-> ps,
                hashed |-> [i \in 1..Len(ps) |-> IF domain = "sse-events-v1" THEN <<"none", ps[i]>>
                                                 ELSE <<ps[i]>>]]
<1> DEFINE m == Len(ps)
           n == m + 2
           N == 3 * n
           t == <<receipt, "done">>
           qs == ps \o t
           ends == EventEnds(d, 0, N)
           events == Decoded(d, 0, ends)
           last == Len(events)
<1>1. /\ m \in Nat /\ n \in Nat /\ N \in Nat /\ ps \in [1..m -> DataLines]
      /\ n >= 2 /\ n - 2 = m /\ n - 1 = m + 1
  OBVIOUS
<1>2. /\ t \in Seq(DataLines) /\ Len(t) = 2 /\ t[1] = receipt /\ t[2] = "done"
  BY DEF DataLines
<1> HIDE DEF t
<1>3. /\ \A i \in 1..m : qs[i] = ps[i]
      /\ qs[m + 1] = receipt /\ qs[m + 2] = "done"
  <2>1. Joins(qs, ps, t)
    BY <1>2, ConcatJoins
  <2>2. 1 \in 1..Len(t) /\ 2 \in 1..Len(t)
    BY <1>2
  <2> HIDE DEF qs
  <2> QED
    BY <1>2, <2>1, <2>2 DEF Joins
<1>4. PlainStream(d, qs, n)
  BY DEF t
<1> HIDE DEF qs
<1>5. ends = [i \in 1..n |-> 3 * i]
  <2> HIDE DEF n
  <2> QED
    BY <1>1, <1>4, PlainEnds DEF N
<1>6. DOMAIN ends = 1..n /\ \A i \in 1..n : ends[i] = 3 * i
  BY <1>5
<1> HIDE DEF ends
<1>7. DOMAIN events = 1..n /\ last = n
  <2>1. DOMAIN events = 1..n
    BY <1>6 DEF Decoded
  <2>2. events \in Seq({events[i] : i \in 1..n})
    <3>1. events = [i \in 1..n |-> events[i]]
      BY <1>6 DEF Decoded
    <3> HIDE DEF events, n
    <3> DEFINE R == {events[i] : i \in 1..n}
    <3>2. events \in [1..n -> R]
      BY <3>1
    <3> HIDE DEF R
    <3>3. events \in Seq(R)
      BY <1>1, <3>2, IsASeq
    <3> QED
      BY <3>3 DEF R
  <2> HIDE DEF events, n
  <2> QED
    BY <1>1, <2>1, <2>2
<1>8. ASSUME NEW i \in 1..n
      PROVE  events[i] = [ok |-> TRUE, name |-> "none", payload |-> qs[i]]
  <2> DEFINE o == 3 * i - 3
             raw == SubSeq(d, o + 1, o + 3)
  <2>1. (IF i = 1 THEN 0 ELSE ends[i - 1]) = o
    <3>1. CASE i = 1
      BY <3>1
    <3>2. CASE i # 1
      <4>1. i - 1 \in 1..n /\ 3 * (i - 1) = o
        BY <3>2, <1>1
      <4> QED
        BY <3>2, <4>1, <1>6
    <3> QED
      BY <3>1, <3>2
  <2>2. o \in Nat /\ o + 1 = 3 * i - 2 /\ o + 2 = 3 * i - 1 /\ o + 3 = 3 * i
    OBVIOUS
  <2>3. ends[i] = o + 3
    BY <1>6, <2>2
  <2>4. qs[i] \in DataLines /\ d[o + 1] = qs[i] /\ d[o + 2] = LF /\ d[o + 3] = LF
    <3> HIDE DEF o
    <3> QED
      BY <1>4, <2>2 DEF PlainStream
  <2>5. events[i] = decodeReceiptSSEEvent(raw)
    <3> HIDE DEF o
    <3>1. i \in DOMAIN ends
      BY <1>6
    <3> QED
      BY <2>1, <2>3, <3>1, Zenon DEF Decoded, events
  <2> HIDE DEF o
  <2>6. raw = <<qs[i], LF, LF>>
    <3>1. raw = [j \in 1..3 |-> d[o + j]]
      BY <2>2
    <3>2. <<qs[i], LF, LF>> = [j \in 1..3 |-> IF j = 1 THEN qs[i] ELSE LF]
      OBVIOUS
    <3>3. \A j \in 1..3 : d[o + j] = IF j = 1 THEN qs[i] ELSE LF
      BY <2>4
    <3> QED
      BY <3>1, <3>2, <3>3
  <2> QED
    BY <2>4, <2>5, <2>6, PlainDecodes
<1> HIDE DEF events
<1>9. /\ \A i \in 1..n : events[i].payload = qs[i] /\ events[i].name = "none"
      /\ \A i \in 1..n : events[i].ok
  <2>1. ASSUME NEW i \in 1..n PROVE events[i].payload = qs[i] /\ events[i].name = "none"
    <3>1. events[i] = [ok |-> TRUE, name |-> "none", payload |-> qs[i]]
      BY <1>8
    <3> QED
      BY <3>1
  <2>2. ASSUME NEW i \in 1..n PROVE events[i].ok
    <3>1. events[i] = [ok |-> TRUE, name |-> "none", payload |-> qs[i]]
      BY <1>8
    <3>2. events[i].ok = TRUE
      BY <3>1
    <3> QED
      BY <3>2
  <2> QED
    BY <2>1, <2>2
<1>10. /\ last >= 2 /\ ends[last] = N
       /\ \A i \in 1..last : events[i].ok
  BY <1>1, <1>6, <1>7, <1>9
<1>11. \A i \in 1..(last - 2) : /\ events[i].payload = ps[i]
                                /\ events[i].payload # "done" /\ embedded(events[i].payload) = "none"
                                /\ events[i].name = "none"
  <2> SUFFICES ASSUME NEW i \in 1..m
               PROVE  /\ events[i].payload = ps[i]
                      /\ events[i].payload # "done" /\ embedded(events[i].payload) = "none"
                      /\ events[i].name = "none"
    BY <1>1, <1>7
  <2>1. i \in 1..n
    BY <1>1
  <2> QED
    BY <1>1, <1>3, <1>9, <2>1
<1>12. events[last - 1].payload = receipt /\ events[last].payload = "done"
  <2>1. m + 1 \in 1..n /\ m + 2 \in 1..n /\ last - 1 = m + 1 /\ last = m + 2
    BY <1>1, <1>7
  <2> QED
    BY <1>3, <1>9, <2>1
<1>13. embedded(receipt) = receipt /\ receipt \notin {"none", "invalid"}
  BY DEF embedded
<1> DEFINE covers(e) ==
               /\ e.payload # "done" /\ embedded(e.payload) = "none"
               /\ domain = "sse-data-v1" => e.name = "none"
           ok == /\ receipt \notin {"none", "invalid"}
                 /\ last >= 2 /\ ends[last] = N
                 /\ \A i \in 1..last : events[i].ok
                 /\ \A i \in 1..(last - 2) : covers(events[i])
                 /\ embedded(events[last - 1].payload) = receipt
                 /\ events[last].payload = "done"
<1>14. ok
  BY <1>10, <1>11, <1>12, <1>13, Zenon
<1>15. [i \in 1..(last - 2) |-> events[i].payload] = ps
  BY <1>1, <1>7, <1>11
<1> DEFINE hashed == [i \in 1..m |-> IF domain = "sse-events-v1" THEN <<"none", ps[i]>> ELSE <<ps[i]>>]
<1>16. [i \in 1..(last - 2) |-> written(domain, events[i])] = hashed
  <2>1. ASSUME NEW i \in 1..(last - 2)
        PROVE  written(domain, events[i])
                 = IF domain = "sse-events-v1" THEN <<"none", ps[i]>> ELSE <<ps[i]>>
    <3>1. events[i].payload = ps[i] /\ events[i].name = "none"
      BY <1>11
    <3> QED
      BY <3>1, Zenon DEF written
  <2> QED
    BY <1>1, <1>7, <2>1
<1>17. receiptStreamDigest(d, N, domain, receipt)
        = IF ok THEN [ok |-> TRUE, covered |-> [i \in 1..(last - 2) |-> events[i].payload],
                      hashed |-> [i \in 1..(last - 2) |-> written(domain, events[i])]]
          ELSE NoDigest
  BY Zenon DEF receiptStreamDigest, ends, events
<1> HIDE DEF ok, last, hashed
<1>18. receiptStreamDigest(d, N, domain, receipt) = [ok |-> TRUE, covered |-> ps, hashed |-> hashed]
  BY <1>14, <1>15, <1>16, <1>17, Zenon
<1> QED
  BY <1>18 DEF hashed
=============================================================================
