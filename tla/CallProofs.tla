------------------------------ MODULE CallProofs ------------------------------
(***************************************************************************)
(* What a report says of a call, proved for every retry budget, candidate  *)
(* list, event cap and number of recovered panics: it is handed over once, *)
(* its counters add up, its headers and its final outcome tell the truth.  *)
(*                                                                         *)
(* RecOK is what a recorder knows of itself, RecordInv relates it to the   *)
(* engine and the body; together with EngineInv they are inductive.        *)
(***************************************************************************)
EXTENDS Call, TransportProofs, DataLemmas

(* The types of a record, of an overflow entry and of a recorder.          *)
Outcomes == {"ok", "http_error", "transport_error", "timeout", "stream_broken", "aborted"}
(* The types of the recorder: its enumerations, attempt records, overflow  *)
(* rows and state.                                                         *)
ErrorClasses == {"none", "connect_timeout", "read_timeout", "stream_stalled", "other"}
Phases == {"none", "connect", "first_byte", "idle"}
StatusClasses == {"2xx", "429", "4xx", "5xx", "none"}

Attempt ==
    [index : Int, host : Int, outcome : Outcomes, errorClass : ErrorClasses,
     status : Int, phase : Phases, moved : BOOLEAN]

RowKey ==
    [host : Int, outcome : Outcomes, errorClass : ErrorClasses, class : StatusClasses,
     phase : Phases]

Entry == [key : RowKey, attempts : Nat, moved : Nat]

RecorderType ==
    [recordable : BOOLEAN, begun : BOOLEAN, attempts : Seq(Attempt),
     overflow : Seq(Entry), foldedIndex : Int, recorded : Nat,
     firstErrorClass : ErrorClasses, last : Attempt, hasLast : BOOLEAN,
     nextIndex : Nat, currentIndex : Nat, currentHost : Int,
     failoverUsed : BOOLEAN, ttft : BOOLEAN, exhausted : BOOLEAN, finished : BOOLEAN]

-----------------------------------------------------------------------------
(* What the recorder has counted: the attempts and the moves of its        *)
(* records, of its overflow entries, and of a last record that is in       *)
(* neither yet.                                                            *)
Loose(r) == r.hasLast /\ r.last.index # r.foldedIndex /\ ~HasRecord(r, r.last.index)

(* The moves of a record, and what a record that is in no list counts for. *)
MoveOf(a) == IF a.moved THEN 1 ELSE 0

LooseAttempts(r) == IF Loose(r) THEN 1 ELSE 0
LooseMoves(r) == IF Loose(r) THEN MoveOf(r.last) ELSE 0

(* The columns that are summed: moves of the records, attempts and moves   *)
(* of the overflow rows.                                                   *)
MovedIn(records) == [i \in DOMAIN records |-> MoveOf(records[i])]
FoldedAttempts(entries) == [i \in DOMAIN entries |-> entries[i].attempts]
FoldedMoves(entries) == [i \in DOMAIN entries |-> entries[i].moved]

(* The attempts and the moves that the recorder knows of, wherever it      *)
(* keeps them.                                                             *)
AttemptsKnown(r) ==
    Len(r.attempts) + SumFunction(FoldedAttempts(r.overflow)) + LooseAttempts(r)

MovesKnown(r) ==
    SumFunction(MovedIn(r.attempts)) + SumFunction(FoldedMoves(r.overflow))
        + LooseMoves(r)

(* The records are in the order of their attempts, none after the last.    *)
InOrder(r) ==
    /\ \A i, j \in DOMAIN r.attempts : i < j => r.attempts[i].index < r.attempts[j].index
    /\ \A i \in DOMAIN r.attempts : /\ r.attempts[i].index <= r.last.index
                                    /\ r.attempts[i].index = r.last.index => r.attempts[i] = r.last

(* What a recorder knows of itself.                                        *)
RecOK(r) ==
    /\ r \in RecorderType
    /\ r.begun => r.nextIndex = r.currentIndex + 1
    /\ ~r.begun => r.nextIndex = 0
    /\ r.hasLast => /\ r.begun
                    /\ r.last.index \in 0..r.currentIndex
                    /\ InOrder(r)
                    /\ r.foldedIndex <= r.last.index
                    /\ r.last.index < r.currentIndex => ~Loose(r)
                    /\ r.recorded <= r.last.index + 1
    /\ ~r.hasLast => /\ r.attempts = << >> /\ r.overflow = << >>
                     /\ r.recorded = 0 /\ r.foldedIndex = -1
    /\ r.finished \/ r.foldedIndex < r.currentIndex
    /\ Len(r.attempts) <= MaxEventAttempts
    /\ r.recorded = AttemptsKnown(r)

-----------------------------------------------------------------------------
(* The recorder against the engine: how far it is, and what it may have    *)
(* lost to panics.                                                         *)
Awaited == pc \in {"inflight", "answered"}

(* The recorder's numbers against the requests on the wire.                *)
Numbered ==
    /\ result # "requestError" => rec.nextIndex = Sent
    /\ result = "requestError" => ~rec.hasLast
    /\ ~call.valid => wire = << >>
    /\ wire # << >> => wire[1].host = 0
    /\ result = "response" => Sent > 0
    /\ Awaited /\ rec.hasLast => rec.last.index < rec.currentIndex
    /\ panics \in Nat

(* What is recorded accounts for every request and every move but those    *)
(* whose callback panicked.                                                *)
RecordedEnough ==
    /\ rec.recorded + panics >= IF Awaited THEN Sent - 1 ELSE Sent
    /\ MovesKnown(rec) <= baseIndex
    /\ MovesKnown(rec) + panics >= baseIndex
    /\ pc = "draining" /\ ~HasCurrent(rec) => MovesKnown(rec) + panics >= baseIndex + 1
    /\ HasCurrent(rec) /\ (pc = "draining" \/ result = "response") => ~rec.last.moved
    /\ rec.failoverUsed = (baseIndex > 0)

(* What the last record says of the attempt it is about.                   *)
TellsAnswer(a, i) ==
    /\ a.host \in {wire[i].host, Custom}
    /\ answers[i].kind = "response" =>
          a.outcome = IF answers[i].status < 400 THEN "ok" ELSE "http_error"
    /\ answers[i].kind = "error" => a.outcome \in {"transport_error", "timeout"}

(* The last record tells what happened to the last request.                *)
LastIsTrue ==
    /\ pc \notin {"start", "returned"} /\ wire # << >> =>
            rec.currentHost \in {wire[Sent].host, Custom}
    /\ pc \in {"draining", "sleep", "top"} /\ HasCurrent(rec) => TellsAnswer(rec.last, Sent)
    /\ rec.hasLast /\ rec.last.outcome = "aborted" => /\ pc = "returned"
                                                      /\ ctxDone \/ stopped # "no"
    /\ pc = "returned" /\ rec.hasLast /\ rec.last.outcome = "ok" /\ panics = 0 =>
            answer.kind = "response" /\ answer.status < 400
    /\ rec.exhausted => /\ pc = "returned"
                        /\ Sent = MaxRetries + 1 /\ Sent > 1
                        /\ \A j \in 1..Sent : PermitsRetry(answers[j])

(* Who finishes the call, and when.                                        *)
FinishedBy ==
    /\ body \in [started : BOOLEAN, sawEOF : BOOLEAN, done : BOOLEAN]
    /\ bodyState \in {"none", "open", "closing", "closed"}
    /\ stopped \in {"no", "first", "late"}
    /\ (bodyState = "none") <=> (result # "response")
    /\ body.done \/ stopped # "no" => result = "response"
    /\ stopped # "no" => body.done
    /\ rec.finished => pc = "returned" /\ (result = "response" => body.done)
    /\ pc = "returned" /\ result # "response" => rec.finished
    /\ bodyState = "closed" => rec.finished
    /\ stopped = "first" => rec.hasLast /\ rec.last.outcome = "aborted"
    /\ reports = IF rec.finished /\ rec.recordable /\ rec.hasLast
                 THEN << ReportOf(rec) >> ELSE << >>
    /\ rec.finished /\ rec.recordable => ~Loose(rec)

(* There is one telemetry header per request.                              *)
HeadersKept ==
    /\ headers \in Seq([a : Int, po : Outcomes \cup {"none"}, ph : Int, fo : BOOLEAN])
    /\ Len(headers) = Sent

(* Without telemetry the recorder is never touched.                        *)
NotRecorded ==
    /\ ~rec.hasLast
    /\ reports = << >>
    /\ \A i \in DOMAIN wire : headers[i] = NoHeader

(* What holds of the recorder, recording or not.                           *)
RecordInv ==
    IF recording
    THEN RecOK(rec) /\ Numbered /\ RecordedEnough /\ LastIsTrue /\ FinishedBy
    ELSE NotRecorded

(* The inductive invariant of a call.                                      *)
CallInv == EngineInv /\ HeadersKept /\ HeadersTellTheTruth /\ RecordInv

-----------------------------------------------------------------------------
(* The recorder's operators, one by one: which fields they touch, and what *)
(* they do to the counts.                                                  *)

(* The key of a record's counter row is a row key.                         *)
LEMMA KeyType ==
    ASSUME NEW a \in Attempt
    PROVE  CounterKey(a) \in RowKey
<1>1. statusClass(a.status) \in StatusClasses
  <2>1. a.status \in Int
    BY DEF Attempt
  <2> QED
    BY <2>1 DEF statusClass, StatusClasses
<1> QED
  BY <1>1 DEF CounterKey, RowKey, Attempt

(* The columns that are summed are sequences of naturals.                  *)
LEMMA Columns ==
    ASSUME NEW o \in Seq(Entry)
    PROVE  /\ FoldedAttempts(o) \in Seq(Nat) /\ Len(FoldedAttempts(o)) = Len(o)
           /\ FoldedMoves(o) \in Seq(Nat) /\ Len(FoldedMoves(o)) = Len(o)
           /\ FoldedAttempts(o) \in Seq(Int) /\ FoldedMoves(o) \in Seq(Int)
           /\ SumFunction(FoldedAttempts(o)) \in Nat
           /\ SumFunction(FoldedMoves(o)) \in Nat
           /\ \A i \in 1..Len(o) : /\ FoldedAttempts(o)[i] = o[i].attempts
                                   /\ FoldedMoves(o)[i] = o[i].moved
<1>1. DOMAIN o = 1..Len(o) /\ Len(o) \in Nat /\ \A i \in 1..Len(o) : o[i] \in Entry
  OBVIOUS
<1>2. FoldedAttempts(o) \in [1..Len(o) -> Nat] /\ FoldedMoves(o) \in [1..Len(o) -> Nat]
  BY <1>1 DEF FoldedAttempts, FoldedMoves, Entry
<1>3. /\ FoldedAttempts(o) \in Seq(Nat) /\ Len(FoldedAttempts(o)) = Len(o)
      /\ FoldedMoves(o) \in Seq(Nat) /\ Len(FoldedMoves(o)) = Len(o)
  <2>1. /\ FoldedAttempts(o) \in Seq(Nat) /\ DOMAIN FoldedAttempts(o) = DOMAIN o
        /\ FoldedMoves(o) \in Seq(Nat) /\ DOMAIN FoldedMoves(o) = DOMAIN o
    BY <1>1, <1>2, SameIndices
  <2> QED
    BY <1>1, <2>1
<1>4. FoldedAttempts(o) \in Seq(Int) /\ FoldedMoves(o) \in Seq(Int)
  BY <1>3
<1>5. SumFunction(FoldedAttempts(o)) \in Nat /\ SumFunction(FoldedMoves(o)) \in Nat
  BY <1>3, SeqSumType
<1>6. \A i \in 1..Len(o) : FoldedAttempts(o)[i] = o[i].attempts /\ FoldedMoves(o)[i] = o[i].moved
  BY <1>1 DEF FoldedAttempts, FoldedMoves
<1> QED
  BY <1>3, <1>4, <1>5, <1>6

(* The column of the records' moves.                                       *)
LEMMA MoveColumn ==
    ASSUME NEW s \in Seq(Attempt)
    PROVE  /\ MovedIn(s) \in Seq(Nat) /\ MovedIn(s) \in Seq(Int) /\ Len(MovedIn(s)) = Len(s)
           /\ SumFunction(MovedIn(s)) \in Nat
           /\ \A i \in 1..Len(s) : MovedIn(s)[i] = MoveOf(s[i])
<1>1. DOMAIN s = 1..Len(s) /\ Len(s) \in Nat /\ \A i \in 1..Len(s) : s[i] \in Attempt
  OBVIOUS
<1>2. MovedIn(s) \in [DOMAIN s -> Nat]
  BY <1>1 DEF MovedIn, MoveOf
<1>3. MovedIn(s) \in Seq(Nat) /\ DOMAIN MovedIn(s) = DOMAIN s
  BY <1>2, SameIndices
<1>4. MovedIn(s) \in Seq(Int) /\ Len(MovedIn(s)) = Len(s)
  BY <1>1, <1>3
<1>5. SumFunction(MovedIn(s)) \in Nat
  BY <1>3, SeqSumType
<1>6. \A i \in 1..Len(s) : MovedIn(s)[i] = MoveOf(s[i])
  BY <1>1 DEF MovedIn
<1> QED
  BY <1>3, <1>4, <1>5, <1>6

(* Folding an entry into the overflow adds its counts to the sums.         *)
LEMMA OverflowAppend ==
    ASSUME NEW o \in Seq(Entry), NEW e \in Entry
    PROVE  /\ Append(o, e) \in Seq(Entry)
           /\ SumFunction(FoldedAttempts(Append(o, e)))
                = SumFunction(FoldedAttempts(o)) + e.attempts
           /\ SumFunction(FoldedMoves(Append(o, e))) = SumFunction(FoldedMoves(o)) + e.moved
<1> DEFINE t == Append(o, e)
<1>1. /\ t \in Seq(Entry) /\ DOMAIN t = 1..(Len(o) + 1) /\ Len(o) \in Nat
      /\ DOMAIN o = 1..Len(o) /\ t[Len(o) + 1] = e /\ \A i \in 1..Len(o) : t[i] = o[i]
      /\ e.attempts \in Int /\ e.moved \in Int
  BY DEF Entry
<1>2. /\ FoldedAttempts(o) \in Seq(Int) /\ Len(FoldedAttempts(o)) = Len(o)
      /\ FoldedMoves(o) \in Seq(Int) /\ Len(FoldedMoves(o)) = Len(o)
  BY Columns
<1>3. FoldedAttempts(t) = Append(FoldedAttempts(o), e.attempts)
  BY <1>1, <1>2 DEF FoldedAttempts
<1>4. FoldedMoves(t) = Append(FoldedMoves(o), e.moved)
  BY <1>1, <1>2 DEF FoldedMoves
<1> HIDE DEF t
<1>5. /\ SumFunction(FoldedAttempts(t)) = SumFunction(FoldedAttempts(o)) + e.attempts
      /\ SumFunction(FoldedMoves(t)) = SumFunction(FoldedMoves(o)) + e.moved
  BY <1>1, <1>2, <1>3, <1>4, SumAppend
<1> QED
  BY <1>1, <1>5 DEF t

(* Overflow t is overflow o with one more attempt, and m moves, in entry k.*)
OneMore(o, t, k, m) ==
    /\ Len(t) = Len(o) /\ \A i \in 1..Len(o) : i # k => t[i] = o[i]
    /\ t[k].attempts = o[k].attempts + 1 /\ t[k].moved = o[k].moved + m

(* Merging a record into the entry of its key does the same.               *)
LEMMA OverflowMerge ==
    ASSUME NEW o \in Seq(Entry), NEW k \in 1..Len(o), NEW t \in Seq(Entry), NEW m \in Nat,
           OneMore(o, t, k, m)
    PROVE  /\ SumFunction(FoldedAttempts(t)) = SumFunction(FoldedAttempts(o)) + 1
           /\ SumFunction(FoldedMoves(t)) = SumFunction(FoldedMoves(o)) + m
<1> DEFINE fo == FoldedAttempts(o)
           ft == FoldedAttempts(t)
           mo == FoldedMoves(o)
           mt == FoldedMoves(t)
<1>1. /\ fo \in Seq(Int) /\ Len(fo) = Len(o) /\ mo \in Seq(Int) /\ Len(mo) = Len(o)
      /\ SumFunction(fo) \in Nat /\ SumFunction(mo) \in Nat
      /\ \A i \in 1..Len(o) : fo[i] = o[i].attempts /\ mo[i] = o[i].moved
  BY Columns
<1>2. /\ ft \in Seq(Int) /\ Len(ft) = Len(o) /\ mt \in Seq(Int) /\ Len(mt) = Len(o)
      /\ \A i \in 1..Len(o) : ft[i] = t[i].attempts /\ mt[i] = t[i].moved
  BY Columns DEF OneMore
<1>3. o[k].attempts \in Nat /\ o[k].moved \in Nat
  <2>1. o[k] \in Entry
    OBVIOUS
  <2> QED
    BY <2>1 DEF Entry
<1> HIDE DEF fo, ft, mo, mt
<1>4. /\ \A i \in 1..Len(o) : i # k => ft[i] = fo[i] /\ mt[i] = mo[i]
      /\ ft[k] = fo[k] + 1 /\ mt[k] = mo[k] + m /\ fo[k] \in Nat /\ mo[k] \in Nat
  BY <1>1, <1>2, <1>3 DEF OneMore
<1>5. SumFunction(ft) = SumFunction(fo) + ft[k] - fo[k]
  <2>1. DifferAt(fo, ft, k) /\ k \in 1..Len(fo)
    BY <1>1, <1>2, <1>4 DEF DifferAt
  <2> QED
    BY <1>1, <1>2, <2>1, SumChange
<1>6. SumFunction(mt) = SumFunction(mo) + mt[k] - mo[k]
  <2>1. DifferAt(mo, mt, k) /\ k \in 1..Len(mo)
    BY <1>1, <1>2, <1>4 DEF DifferAt
  <2> QED
    BY <1>1, <1>2, <2>1, SumChange
<1>7. SumFunction(ft) = SumFunction(fo) + 1 /\ SumFunction(mt) = SumFunction(mo) + m
  BY <1>1, <1>4, <1>5, <1>6
<1> QED
  BY <1>7 DEF fo, ft, mo, mt

(* Merging a record into the overflow adds one attempt and its move.       *)
LEMMA MergeFacts ==
    ASSUME NEW o \in Seq(Entry), NEW rowKey \in RowKey, NEW move \in Nat
    PROVE  LET p == MergeEntry(o, rowKey, move)
           IN  /\ p \in Seq(Entry)
               /\ SumFunction(FoldedAttempts(p)) = SumFunction(FoldedAttempts(o)) + 1
               /\ SumFunction(FoldedMoves(p)) = SumFunction(FoldedMoves(o)) + move
<1> DEFINE at == EntriesOf(o, rowKey)
           p == MergeEntry(o, rowKey, move)
<1>1. CASE at = {}
  <2> DEFINE e == [key |-> rowKey, attempts |-> 1, moved |-> move]
  <2>1. p = Append(o, e)
    BY <1>1 DEF MergeEntry
  <2>2. e \in Entry /\ e.attempts = 1 /\ e.moved = move
    BY DEF Entry
  <2> HIDE DEF e
  <2> QED
    BY <2>1, <2>2, OverflowAppend
<1>2. CASE at # {}
  <2> DEFINE k == Min(at)
  <2>1. DOMAIN o = 1..Len(o) /\ Len(o) \in Nat /\ at \subseteq Nat /\ at \subseteq DOMAIN o
    BY DEF EntriesOf
  <2>2. k \in 1..Len(o)
    <3> HIDE DEF at
    <3>1. Min(at) \in at
      BY <1>2, <2>1, MinIsLeast
    <3> QED
      BY <2>1, <3>1
  <2>3. p = [o EXCEPT ![k] = [key |-> rowKey, attempts |-> o[k].attempts + 1,
                              moved |-> o[k].moved + move]]
    BY <1>2 DEF MergeEntry
  <2> HIDE DEF p, at, k
  <2>4. o[k] \in Entry
    BY <2>1, <2>2
  <2>5. /\ o[k].attempts + 1 \in Nat /\ o[k].moved + move \in Nat
    BY <2>4 DEF Entry
  <2>6. /\ DOMAIN p = DOMAIN o
        /\ p[k] = [key |-> rowKey, attempts |-> o[k].attempts + 1,
                   moved |-> o[k].moved + move]
        /\ \A i \in 1..Len(o) : i # k => p[i] = o[i]
    BY <2>1, <2>2, <2>3
  <2>7. p[k] \in Entry /\ p[k].attempts = o[k].attempts + 1 /\ p[k].moved = o[k].moved + move
    BY <2>4, <2>5, <2>6 DEF Entry
  <2>8. p \in Seq(Entry) /\ Len(p) = Len(o)
    <3>1. p \in [DOMAIN o -> Entry]
      BY <2>1, <2>2, <2>3, <2>6, <2>7
    <3>2. p \in Seq(Entry) /\ DOMAIN p = DOMAIN o
      BY <3>1, SameIndices
    <3> QED
      BY <2>1, <3>2
  <2>9. /\ SumFunction(FoldedAttempts(p)) = SumFunction(FoldedAttempts(o)) + 1
        /\ SumFunction(FoldedMoves(p)) = SumFunction(FoldedMoves(o)) + move
    <3>1. OneMore(o, p, k, move)
      BY <2>6, <2>7, <2>8 DEF OneMore
    <3> QED
      BY <2>2, <2>8, <3>1, OverflowMerge
  <2> QED
    BY <2>8, <2>9 DEF p
<1> QED
  BY <1>1, <1>2

(* The fields folding leaves alone.                                        *)
SameButFolds(r, f) ==
    /\ f.recordable = r.recordable /\ f.begun = r.begun /\ f.attempts = r.attempts
    /\ f.recorded = r.recorded /\ f.firstErrorClass = r.firstErrorClass
    /\ f.last = r.last /\ f.hasLast = r.hasLast /\ f.nextIndex = r.nextIndex
    /\ f.currentIndex = r.currentIndex /\ f.currentHost = r.currentHost
    /\ f.failoverUsed = r.failoverUsed /\ f.ttft = r.ttft
    /\ f.exhausted = r.exhausted /\ f.finished = r.finished

(* foldOverflowLocked: a record beyond the cap is counted once, and after  *)
(* it nothing is left uncounted.                                           *)
LEMMA FoldFacts ==
    ASSUME NEW r \in RecorderType
    PROVE  LET f == FoldOverflow(r)
           IN  /\ f \in RecorderType /\ SameButFolds(r, f) /\ ~Loose(f)
               /\ AttemptsKnown(f) = AttemptsKnown(r) /\ MovesKnown(f) = MovesKnown(r)
               /\ ~Loose(r) => f = r
               /\ Loose(r) => f.foldedIndex = r.last.index
<1> DEFINE f == FoldOverflow(r)
<1>1. CASE ~Loose(r)
  <2>1. f = r
    BY <1>1 DEF FoldOverflow, Loose
  <2> QED
    BY <1>1, <2>1 DEF SameButFolds
<1>2. CASE Loose(r)
  <2> DEFINE move == MoveOf(r.last)
             o == r.overflow
             p == MergeEntry(o, CounterKey(r.last), move)
  <2>1. f = [r EXCEPT !.foldedIndex = r.last.index, !.overflow = p]
    BY <1>2 DEF FoldOverflow, Loose, MoveOf
  <2>2. /\ r.last \in Attempt /\ o \in Seq(Entry) /\ CounterKey(r.last) \in RowKey
        /\ move \in Nat
    BY KeyType DEF RecorderType, MoveOf
  <2>3. /\ p \in Seq(Entry)
        /\ SumFunction(FoldedAttempts(p)) = SumFunction(FoldedAttempts(o)) + 1
        /\ SumFunction(FoldedMoves(p)) = SumFunction(FoldedMoves(o)) + move
    <3> HIDE DEF move
    <3> QED
      BY <2>2, MergeFacts
  <2> HIDE DEF p
  <2>4. /\ f \in RecorderType /\ SameButFolds(r, f) /\ f.foldedIndex = r.last.index
        /\ f.overflow = p
    <3>1. r.last.index \in Int
      BY <2>2 DEF Attempt
    <3>2. SameButFolds(r, f) /\ f.foldedIndex = r.last.index /\ f.overflow = p
      <4> HIDE DEF f
      <4> QED
        BY <2>1 DEF RecorderType, SameButFolds
    <3>3. p \in Seq(Entry)
      BY <2>3
    <3> HIDE DEF f
    <3> QED
      BY <2>1, <3>1, <3>2, <3>3 DEF RecorderType
  <2> HIDE DEF f
  <2>5. ~Loose(f) /\ f.last = r.last /\ f.attempts = r.attempts
    BY <2>4 DEF Loose, SameButFolds
  <2>6. /\ SumFunction(FoldedAttempts(o)) \in Nat /\ SumFunction(FoldedMoves(o)) \in Nat
        /\ Len(r.attempts) \in Nat /\ SumFunction(MovedIn(r.attempts)) \in Nat
    BY <2>2, Columns, MoveColumn DEF RecorderType
  <2>7. AttemptsKnown(f) = AttemptsKnown(r)
    BY <1>2, <2>3, <2>4, <2>5, <2>6 DEF AttemptsKnown, LooseAttempts
  <2>8. MovesKnown(f) = MovesKnown(r)
    BY <1>2, <2>2, <2>3, <2>4, <2>5, <2>6 DEF MovesKnown, MoveOf, LooseMoves
  <2> QED
    BY <1>2, <2>4, <2>5, <2>7, <2>8 DEF f
<1> QED
  BY <1>1, <1>2

(* The sizes the counts are made of.                                       *)
LEMMA CountTypes ==
    ASSUME NEW r \in RecorderType
    PROVE  /\ r.attempts \in Seq(Attempt) /\ r.overflow \in Seq(Entry)
           /\ r.last \in Attempt /\ r.last.index \in Int /\ r.last.moved \in BOOLEAN
           /\ Len(r.attempts) \in Nat /\ DOMAIN r.attempts = 1..Len(r.attempts)
           /\ SumFunction(MovedIn(r.attempts)) \in Nat
           /\ SumFunction(FoldedAttempts(r.overflow)) \in Nat
           /\ SumFunction(FoldedMoves(r.overflow)) \in Nat
           /\ AttemptsKnown(r) \in Nat /\ MovesKnown(r) \in Nat
<1>1. r.attempts \in Seq(Attempt) /\ r.overflow \in Seq(Entry) /\ r.last \in Attempt
  BY DEF RecorderType
<1>2. r.last.index \in Int /\ r.last.moved \in BOOLEAN
  BY <1>1 DEF Attempt
<1>3. Len(r.attempts) \in Nat /\ DOMAIN r.attempts = 1..Len(r.attempts)
  BY <1>1
<1>4. /\ SumFunction(MovedIn(r.attempts)) \in Nat
      /\ SumFunction(FoldedAttempts(r.overflow)) \in Nat
      /\ SumFunction(FoldedMoves(r.overflow)) \in Nat
  BY <1>1, Columns, MoveColumn
<1>5. AttemptsKnown(r) \in Nat /\ MovesKnown(r) \in Nat
  BY <1>3, <1>4 DEF AttemptsKnown, MovesKnown, MoveOf, LooseAttempts, LooseMoves
<1> QED
  BY <1>1, <1>2, <1>3, <1>4, <1>5

(* The records of r, with record a in the place of the one of its attempt. *)
Replaced(r, a) ==
    [i \in DOMAIN r.attempts |-> IF r.attempts[i].index = a.index THEN a ELSE r.attempts[i]]

(* The fields storing a record leaves alone.                               *)
SameButStored(r, s) ==
    /\ s.recordable = r.recordable /\ s.begun = r.begun /\ s.overflow = r.overflow
    /\ s.foldedIndex = r.foldedIndex /\ s.nextIndex = r.nextIndex
    /\ s.currentIndex = r.currentIndex /\ s.currentHost = r.currentHost
    /\ s.failoverUsed = r.failoverUsed /\ s.ttft = r.ttft
    /\ s.exhausted = r.exhausted /\ s.finished = r.finished

(* storeAttempt, field by field.                                           *)
LEMMA StoreFields ==
    ASSUME NEW r \in RecorderType, NEW a \in Attempt
    PROVE  LET s == StoreAttempt(r, a)
               replaced == r.hasLast /\ r.last.index = a.index
           IN  /\ Replaced(r, a) \in Seq(Attempt) /\ Len(Replaced(r, a)) = Len(r.attempts)
               /\ s \in RecorderType /\ SameButStored(r, s) /\ s.last = a /\ s.hasLast
               /\ s.recorded = r.recorded + (IF replaced THEN 0 ELSE 1)
               /\ s.attempts =
                    IF ~HasRecord(r, a.index) /\ ~replaced /\ Len(r.attempts) < MaxEventAttempts
                    THEN Append(Replaced(r, a), a) ELSE Replaced(r, a)
<1> DEFINE s == StoreAttempt(r, a)
           replaced == r.hasLast /\ r.last.index = a.index
           new == IF ~HasRecord(r, a.index) /\ ~replaced /\ Len(r.attempts) < MaxEventAttempts
                  THEN Append(Replaced(r, a), a) ELSE Replaced(r, a)
           class == IF r.firstErrorClass = "none" THEN a.errorClass ELSE r.firstErrorClass
           count == IF replaced THEN r.recorded ELSE r.recorded + 1
<1>1. s = [r EXCEPT !.attempts = new, !.recorded = count, !.firstErrorClass = class,
                    !.last = a, !.hasLast = TRUE]
  BY DEF StoreAttempt, Replaced
<1>2. r.attempts \in Seq(Attempt) /\ Len(r.attempts) \in Nat
      /\ DOMAIN r.attempts = 1..Len(r.attempts)
  BY DEF RecorderType
<1>3. Replaced(r, a) \in Seq(Attempt) /\ Len(Replaced(r, a)) = Len(r.attempts)
  <2>1. Replaced(r, a) \in [DOMAIN r.attempts -> Attempt]
    BY <1>2 DEF Replaced
  <2>2. Replaced(r, a) \in Seq(Attempt) /\ DOMAIN Replaced(r, a) = DOMAIN r.attempts
    BY <1>2, <2>1, SameIndices
  <2> QED
    BY <1>2, <2>2
<1>4. new \in Seq(Attempt) /\ count \in Nat /\ class \in ErrorClasses
      /\ count = r.recorded + (IF replaced THEN 0 ELSE 1)
  <2>1. new \in Seq(Attempt)
    BY <1>3
  <2>2. count \in Nat /\ count = r.recorded + (IF replaced THEN 0 ELSE 1)
    BY DEF RecorderType
  <2>3. class \in ErrorClasses
    BY DEF RecorderType, Attempt
  <2> QED
    BY <2>1, <2>2, <2>3
<1> HIDE DEF s, new, class, count
<1>5. s \in RecorderType /\ SameButStored(r, s) /\ s.last = a /\ s.hasLast
      /\ s.recorded = count /\ s.attempts = new
  <2>1. s \in RecorderType
    BY <1>1, <1>4 DEF RecorderType
  <2>2. SameButStored(r, s) /\ s.last = a /\ s.hasLast /\ s.recorded = count /\ s.attempts = new
    BY <1>1 DEF RecorderType, SameButStored
  <2> QED
    BY <2>1, <2>2
<1> QED
  BY <1>3, <1>4, <1>5 DEF s, new

(* storeAttempt: the record of the attempt in flight is added or replaced; *)
(* the recorder stays consistent, and each attempt is counted once.        *)
LEMMA StoreFacts ==
    ASSUME NEW r, RecOK(r), r.begun, ~r.finished, NEW a \in Attempt, a.index = r.currentIndex
    PROVE  LET s == StoreAttempt(r, a)
           IN  /\ RecOK(s) /\ SameButStored(r, s) /\ s.last = a /\ s.hasLast
               /\ s.recorded = r.recorded + (IF HasCurrent(r) THEN 0 ELSE 1)
               /\ MovesKnown(s) = MovesKnown(r) + MoveOf(a)
                                     - (IF HasCurrent(r) THEN MoveOf(r.last) ELSE 0)
<1> DEFINE s == StoreAttempt(r, a)
           N == r.attempts
           K == Replaced(r, a)
           n == Len(N)
<1>1. r \in RecorderType /\ r.foldedIndex < r.currentIndex /\ r.currentIndex \in Nat
      /\ r.foldedIndex \in Int /\ r.recorded \in Nat /\ a.moved \in BOOLEAN
      /\ r.nextIndex = r.currentIndex + 1 /\ r.hasLast \in BOOLEAN
  BY DEF RecOK, RecorderType, Attempt
<1>2. /\ N \in Seq(Attempt) /\ n \in Nat /\ DOMAIN N = 1..n /\ r.last.index \in Int
      /\ r.last.moved \in BOOLEAN /\ r.last \in Attempt
      /\ SumFunction(MovedIn(N)) \in Nat
      /\ SumFunction(FoldedAttempts(r.overflow)) \in Nat
      /\ SumFunction(FoldedMoves(r.overflow)) \in Nat
  BY <1>1, CountTypes
<1>3. /\ K \in Seq(Attempt) /\ Len(K) = n /\ DOMAIN K = 1..n
      /\ s \in RecorderType /\ SameButStored(r, s) /\ s.last = a /\ s.hasLast
      /\ s.recorded = r.recorded + (IF HasCurrent(r) THEN 0 ELSE 1)
      /\ s.attempts = IF ~HasRecord(r, a.index) /\ ~HasCurrent(r) /\ n < MaxEventAttempts
                      THEN Append(K, a) ELSE K
  <2>1. /\ K \in Seq(Attempt) /\ Len(K) = n
        /\ s \in RecorderType /\ SameButStored(r, s) /\ s.last = a /\ s.hasLast
        /\ s.recorded = r.recorded + (IF HasCurrent(r) THEN 0 ELSE 1)
        /\ s.attempts = IF ~HasRecord(r, a.index) /\ ~HasCurrent(r) /\ n < MaxEventAttempts
                        THEN Append(K, a) ELSE K
    BY <1>1, StoreFields DEF HasCurrent
  <2> QED
    BY <1>2, <2>1
<1>4. /\ \A i \in 1..n : N[i] \in Attempt /\ N[i].index \in Int
      /\ \A i \in 1..n : K[i] = IF N[i].index = a.index THEN a ELSE N[i]
      /\ \A i \in 1..n : K[i].index = N[i].index
  <2>1. \A i \in 1..n : N[i] \in Attempt
    BY <1>2
  <2>2. \A i \in 1..n : K[i] = IF N[i].index = a.index THEN a ELSE N[i]
    BY <1>2 DEF Replaced
  <2> QED
    BY <2>1, <2>2 DEF Attempt
<1>5. Len(N) <= MaxEventAttempts /\ MaxEventAttempts \in Nat
  BY CapsAssumption DEF RecOK
<1> HIDE DEF s, K, n
<1>6. CASE HasCurrent(r)
  <2>1. /\ r.hasLast /\ r.last.index = a.index /\ r.foldedIndex # a.index /\ InOrder(r)
        /\ r.recorded <= r.last.index + 1 /\ s.attempts = K /\ s.recorded = r.recorded
    BY <1>1, <1>3, <1>6 DEF HasCurrent, RecOK
  <2>2. HasRecord(s, a.index) <=> HasRecord(r, a.index)
    BY <1>2, <1>3, <1>4, <2>1 DEF HasRecord
  <2>3. InOrder(s)
    <3>1. \A i, j \in 1..n : i < j => K[i].index < K[j].index
      BY <1>2, <1>4, <2>1 DEF InOrder
    <3>2. \A i \in 1..n : K[i].index <= a.index /\ (K[i].index = a.index => K[i] = a)
      BY <1>2, <1>4, <2>1 DEF InOrder
    <3> QED
      BY <1>3, <2>1, <3>1, <3>2 DEF InOrder
  <2>4. Loose(s) <=> Loose(r)
    BY <1>3, <2>1, <2>2 DEF Loose, SameButStored
  <2>5. AttemptsKnown(s) = AttemptsKnown(r)
    <3>1. Len(s.attempts) = Len(N) /\ s.overflow = r.overflow
      BY <1>3, <2>1 DEF SameButStored, n
    <3>2. LooseAttempts(s) = LooseAttempts(r)
      BY <2>4 DEF LooseAttempts
    <3> QED
      BY <3>1, <3>2 DEF AttemptsKnown
  <2>6. RecOK(s)
    BY <1>1, <1>3, <1>5, <2>1, <2>3, <2>4, <2>5 DEF RecOK, SameButStored, n
  <2>7. MovesKnown(s) = MovesKnown(r) + MoveOf(a) - MoveOf(r.last)
    <3>1. CASE HasRecord(r, a.index)
      <4>1. PICK k \in 1..n : N[k].index = a.index
        BY <1>2, <3>1 DEF HasRecord
      <4>2. \A i \in 1..n : i # k => N[i].index # a.index
        <5> SUFFICES ASSUME NEW i \in 1..n, i # k PROVE N[i].index # a.index
          OBVIOUS
        <5>1. /\ i < k => N[i].index < N[k].index
              /\ k < i => N[k].index < N[i].index
          BY <1>2, <2>1, <4>1 DEF InOrder
        <5>2. N[i].index \in Int /\ N[k].index \in Int /\ i \in Int /\ k \in Int
          BY <1>4, <4>1
        <5> HIDE DEF N
        <5> QED
          BY <4>1, <5>1, <5>2
      <4>3. N[k] = r.last /\ K[k] = a /\ \A i \in 1..n : i # k => K[i] = N[i]
        BY <1>2, <1>4, <2>1, <4>1, <4>2 DEF InOrder
      <4> DEFINE mk == MovedIn(K)
                 mn == MovedIn(N)
      <4>4. /\ mk \in Seq(Int) /\ mn \in Seq(Int) /\ Len(mk) = n /\ Len(mn) = n
            /\ \A i \in 1..n : mk[i] = MoveOf(K[i]) /\ mn[i] = MoveOf(N[i])
        BY <1>2, <1>3, MoveColumn DEF n
      <4> HIDE DEF mk, mn
      <4>5. DifferAt(mn, mk, k) /\ k \in 1..Len(mn)
        BY <4>3, <4>4 DEF DifferAt
      <4>6. SumFunction(mk) = SumFunction(mn) + mk[k] - mn[k]
        BY <4>4, <4>5, SumChange
      <4>7. mk[k] = MoveOf(a) /\ mn[k] = MoveOf(r.last)
        BY <4>3, <4>4
      <4>8. ~Loose(r) /\ ~Loose(s)
        BY <2>1, <2>4, <3>1 DEF Loose
      <4> QED
        BY <1>2, <1>3, <2>1, <4>6, <4>7, <4>8 DEF MovesKnown, SameButStored, mk, mn, MoveOf, LooseMoves
    <3>2. CASE ~HasRecord(r, a.index)
      <4>1. K = N
        <5>1. \A i \in 1..n : K[i] = N[i]
          BY <1>2, <1>4, <3>2 DEF HasRecord
        <5> QED
          BY <1>2, <1>3, <5>1 DEF n
      <4>2. Loose(r) /\ Loose(s)
        BY <2>1, <2>4, <3>2 DEF Loose
      <4> QED
        BY <1>1, <1>2, <1>3, <2>1, <4>1, <4>2 DEF MovesKnown, SameButStored, MoveOf, LooseMoves
    <3> QED
      BY <3>1, <3>2
  <2> QED
    BY <1>3, <1>6, <2>6, <2>7 DEF s
<1>7. CASE ~HasCurrent(r)
  <2>1. /\ r.hasLast => r.last.index < r.currentIndex
        /\ ~Loose(r)
    BY <1>1, <1>2, <1>7 DEF HasCurrent, RecOK, Loose
  <2>2. \A i \in 1..n : N[i].index < a.index
    <3>1. CASE r.hasLast
      <4>1. \A i \in 1..n : N[i].index <= r.last.index
        BY <1>2, <3>1 DEF RecOK, InOrder
      <4> QED
        BY <1>1, <1>2, <1>4, <2>1, <3>1, <4>1
    <3>2. CASE ~r.hasLast
      BY <1>2, <3>2 DEF RecOK, n
    <3> QED
      BY <3>1, <3>2
  <2>3. ~HasRecord(r, a.index) /\ K = N
    <3>1. \A i \in 1..n : N[i].index # a.index
      BY <1>1, <1>4, <2>2
    <3>2. \A i \in 1..n : K[i] = N[i]
      BY <1>4, <3>1
    <3>3. K = N
      BY <1>2, <1>3, <3>2 DEF n
    <3> QED
      BY <1>2, <3>1, <3>3 DEF HasRecord
  <2>4. s.recorded = r.recorded + 1 /\ r.recorded <= a.index
    BY <1>1, <1>2, <1>3, <1>7, <2>1 DEF RecOK
  <2>5. \A i, j \in 1..n : i < j => N[i].index < N[j].index
    <3>1. CASE r.hasLast
      BY <1>2, <3>1 DEF RecOK, InOrder
    <3>2. CASE ~r.hasLast
      BY <1>2, <3>2 DEF RecOK, n
    <3> QED
      BY <3>1, <3>2
  <2>6. CASE n < MaxEventAttempts
    <3>1. s.attempts = Append(N, a)
      BY <1>3, <1>7, <2>3, <2>6
    <3> DEFINE A == Append(N, a)
    <3>2. /\ A \in Seq(Attempt) /\ Len(A) = n + 1 /\ DOMAIN A = 1..(n + 1)
          /\ A[n + 1] = a /\ \A i \in 1..n : A[i] = N[i]
      BY <1>2 DEF n
    <3> HIDE DEF A
    <3>3. HasRecord(s, a.index) /\ ~Loose(s)
      <4>1. n + 1 \in DOMAIN s.attempts /\ s.attempts[n + 1].index = a.index
        BY <1>2, <3>1, <3>2 DEF A
      <4> QED
        BY <1>3, <4>1 DEF HasRecord, Loose
    <3>4. InOrder(s)
      <4>1. \A i \in 1..(n + 1) : i = n + 1 \/ i \in 1..n
        BY <1>2
      <4>2. \A i, j \in 1..(n + 1) : i < j => A[i].index < A[j].index
        <5> SUFFICES ASSUME NEW i \in 1..(n + 1), NEW j \in 1..(n + 1), i < j
                     PROVE  A[i].index < A[j].index
          OBVIOUS
        <5>1. i \in 1..n
          BY <1>2
        <5> QED
          BY <2>2, <2>5, <3>2, <4>1, <5>1
      <4>3. \A i \in 1..(n + 1) : A[i].index <= a.index /\ (A[i].index = a.index => A[i] = a)
        BY <1>1, <1>4, <2>2, <3>2, <4>1
      <4> QED
        BY <1>3, <3>1, <3>2, <4>2, <4>3 DEF InOrder, A
    <3>5. AttemptsKnown(s) = AttemptsKnown(r) + 1
      <4>1. Len(s.attempts) = Len(N) + 1 /\ s.overflow = r.overflow
        BY <1>3, <3>1, <3>2 DEF SameButStored, A, n
      <4>2. LooseAttempts(s) = 0 /\ LooseAttempts(r) = 0
        BY <2>1, <3>3 DEF LooseAttempts
      <4>3. Len(N) \in Nat
        BY <1>2 DEF n
      <4> QED
        BY <1>2, <4>1, <4>2, <4>3 DEF AttemptsKnown
    <3>6. RecOK(s)
      <4>1. /\ s.begun /\ s.nextIndex = s.currentIndex + 1 /\ s.hasLast /\ ~s.finished
            /\ s.last.index \in 0..s.currentIndex /\ s.foldedIndex < s.currentIndex
            /\ s.foldedIndex <= s.last.index /\ s.recorded <= s.last.index + 1
            /\ Len(s.attempts) <= MaxEventAttempts
        BY <1>1, <1>2, <1>3, <1>5, <2>4, <2>6, <3>1, <3>2 DEF SameButStored, A, n
      <4>2. s.recorded = AttemptsKnown(s)
        BY <2>4, <3>5 DEF RecOK
      <4> QED
        BY <1>3, <3>3, <3>4, <4>1, <4>2 DEF RecOK
    <3>7. SumFunction(MovedIn(A)) = SumFunction(MovedIn(N)) + MoveOf(a)
      <4>1. MovedIn(A) = Append(MovedIn(N), MoveOf(a))
        <5>1. DOMAIN MovedIn(A) = 1..(n + 1) /\ \A i \in 1..(n + 1) : MovedIn(A)[i] = MoveOf(A[i])
          BY <3>2 DEF MovedIn
        <5>2. /\ MovedIn(N) \in Seq(Int) /\ Len(MovedIn(N)) = n
              /\ \A i \in 1..n : MovedIn(N)[i] = MoveOf(N[i])
          BY <1>2, MoveColumn DEF n
        <5>3. MovedIn(A) \in Seq(Int) /\ MoveOf(a) \in Int
          BY <3>2, MoveColumn DEF MoveOf
        <5> QED
          BY <1>2, <3>2, <5>1, <5>2, <5>3
      <4>2. MovedIn(N) \in Seq(Int) /\ MoveOf(a) \in Int
        BY <1>2, MoveColumn DEF MoveOf
      <4> QED
        BY <4>1, <4>2, SumAppend
    <3>8. MovesKnown(s) = MovesKnown(r) + MoveOf(a)
      <4>1. s.attempts = A /\ s.overflow = r.overflow
        BY <1>3, <3>1 DEF SameButStored, A
      <4>2. LooseMoves(s) = 0 /\ LooseMoves(r) = 0 /\ MoveOf(a) \in Nat
        BY <2>1, <3>3 DEF LooseMoves, MoveOf
      <4> QED
        BY <1>2, <3>7, <4>1, <4>2 DEF MovesKnown
    <3> QED
      BY <1>2, <1>3, <1>7, <3>6, <3>8 DEF s, MoveOf
  <2>7. CASE ~(n < MaxEventAttempts)
    <3>1. s.attempts = N
      BY <1>3, <1>7, <2>3, <2>7
    <3>2. Loose(s)
      <4>1. ~HasRecord(s, a.index)
        BY <2>3, <3>1 DEF HasRecord
      <4>2. s.foldedIndex # a.index
        BY <1>1, <1>3 DEF SameButStored
      <4> QED
        BY <1>3, <4>1, <4>2 DEF Loose
    <3>3. InOrder(s)
      <4>1. \A i \in 1..n : N[i].index <= a.index /\ N[i].index # a.index
        BY <1>1, <1>4, <2>2
      <4> QED
        BY <1>2, <1>3, <2>5, <3>1, <4>1 DEF InOrder
    <3>4. AttemptsKnown(s) = AttemptsKnown(r) + 1
      <4>1. s.attempts = N /\ s.overflow = r.overflow
        BY <1>3, <3>1 DEF SameButStored
      <4>2. LooseAttempts(s) = 1 /\ LooseAttempts(r) = 0
        BY <2>1, <3>2 DEF LooseAttempts
      <4>3. Len(N) \in Nat
        BY <1>2 DEF n
      <4> QED
        BY <1>2, <4>1, <4>2, <4>3 DEF AttemptsKnown
    <3>5. RecOK(s)
      <4>1. /\ s.begun /\ s.nextIndex = s.currentIndex + 1 /\ s.hasLast /\ ~s.finished
            /\ s.last.index \in 0..s.currentIndex /\ s.foldedIndex < s.currentIndex
            /\ s.foldedIndex <= s.last.index /\ s.recorded <= s.last.index + 1
            /\ Len(s.attempts) <= MaxEventAttempts /\ ~(s.last.index < s.currentIndex)
        BY <1>1, <1>2, <1>3, <1>5, <2>4, <3>1 DEF SameButStored
      <4>2. s.recorded = AttemptsKnown(s)
        BY <2>4, <3>4 DEF RecOK
      <4> QED
        BY <1>3, <3>3, <4>1, <4>2 DEF RecOK
    <3>6. MovesKnown(s) = MovesKnown(r) + MoveOf(a)
      <4>1. s.attempts = N /\ s.overflow = r.overflow
        BY <1>3, <3>1 DEF SameButStored
      <4>2. LooseMoves(s) = MoveOf(a) /\ LooseMoves(r) = 0 /\ MoveOf(a) \in Nat
        BY <1>3, <2>1, <3>2 DEF LooseMoves, MoveOf
      <4> QED
        BY <1>2, <4>1, <4>2 DEF MovesKnown
    <3> QED
      BY <1>2, <1>3, <1>7, <3>5, <3>6 DEF s, MoveOf
  <2> QED
    BY <2>6, <2>7
<1> QED
  BY <1>6, <1>7

(* Two recorders with the same records and the same place in the call.     *)
SameRecords(r, s) ==
    /\ s.begun = r.begun /\ s.attempts = r.attempts /\ s.overflow = r.overflow
    /\ s.foldedIndex = r.foldedIndex /\ s.recorded = r.recorded
    /\ s.last = r.last /\ s.hasLast = r.hasLast
    /\ s.nextIndex = r.nextIndex /\ s.currentIndex = r.currentIndex

(* The other fields do not matter to the counts, nor to consistency.       *)
LEMMA SideChange ==
    ASSUME NEW r, RecOK(r), NEW s \in RecorderType, SameRecords(r, s), r.finished => s.finished
    PROVE  /\ RecOK(s) /\ MovesKnown(s) = MovesKnown(r)
           /\ Loose(s) <=> Loose(r)
           /\ HasCurrent(s) <=> HasCurrent(r)
<1>1. (Loose(s) <=> Loose(r)) /\ (HasCurrent(s) <=> HasCurrent(r))
  BY DEF SameRecords, Loose, HasRecord, HasCurrent
<1>2. MovesKnown(s) = MovesKnown(r)
  <2>1. LooseMoves(s) = LooseMoves(r)
    BY <1>1 DEF LooseMoves, SameRecords
  <2> QED
    BY <2>1 DEF MovesKnown, SameRecords
<1>3. AttemptsKnown(s) = AttemptsKnown(r)
  <2>1. LooseAttempts(s) = LooseAttempts(r)
    BY <1>1 DEF LooseAttempts
  <2> QED
    BY <2>1 DEF AttemptsKnown, SameRecords
<1>4. r.hasLast => InOrder(s)
  BY DEF RecOK, InOrder, SameRecords
<1>5. RecOK(s)
  BY <1>1, <1>3, <1>4 DEF RecOK, SameRecords
<1> QED
  BY <1>1, <1>2, <1>5

(* beginAttempt, field by field.                                           *)
LEMMA BeginFacts ==
    ASSUME NEW r, RecOK(r), ~r.finished, NEW host \in Int, NEW p \in BOOLEAN
    PROVE  LET b == BeginAttempt(r, host, p)
           IN  /\ RecOK(b) /\ ~Loose(b) /\ MovesKnown(b) = MovesKnown(r)
               /\ b.begun /\ b.currentIndex = r.nextIndex /\ b.nextIndex = r.nextIndex + 1
               /\ b.currentHost = IF p THEN Custom ELSE host
               /\ b.last = r.last /\ b.hasLast = r.hasLast /\ b.recorded = r.recorded
               /\ b.recordable = r.recordable /\ b.failoverUsed = r.failoverUsed
               /\ b.exhausted = r.exhausted /\ b.finished = r.finished
               /\ b.hasLast => b.last.index < b.currentIndex
               /\ b.attempts = r.attempts
<1> DEFINE g == [r EXCEPT !.currentIndex = r.nextIndex, !.nextIndex = r.nextIndex + 1]
           f == FoldOverflow(g)
           h == IF p THEN Custom ELSE host
           b == BeginAttempt(r, host, p)
<1>1. r \in RecorderType /\ r.nextIndex \in Nat /\ r.nextIndex + 1 \in Nat /\ h \in Int
      /\ r.currentIndex \in Nat
  BY DEF RecOK, RecorderType, Custom
<1>2. b = [f EXCEPT !.begun = TRUE, !.currentHost = h]
  BY DEF BeginAttempt
<1>3. /\ g \in RecorderType /\ g.begun = r.begun /\ g.attempts = r.attempts
      /\ g.overflow = r.overflow /\ g.foldedIndex = r.foldedIndex /\ g.recorded = r.recorded
      /\ g.last = r.last /\ g.hasLast = r.hasLast /\ g.recordable = r.recordable
      /\ g.failoverUsed = r.failoverUsed /\ g.exhausted = r.exhausted /\ g.finished = r.finished
      /\ g.currentIndex = r.nextIndex /\ g.nextIndex = r.nextIndex + 1
  BY <1>1 DEF RecorderType
<1> HIDE DEF g
<1>4. /\ f \in RecorderType /\ SameButFolds(g, f) /\ ~Loose(f)
      /\ AttemptsKnown(f) = AttemptsKnown(g) /\ MovesKnown(f) = MovesKnown(g)
      /\ ~Loose(g) => f = g
      /\ Loose(g) => f.foldedIndex = g.last.index
  BY <1>3, FoldFacts
<1> HIDE DEF f, h
<1>5. b \in RecorderType
  BY <1>1, <1>2, <1>4 DEF RecorderType
<1>6. /\ b.begun /\ b.attempts = r.attempts /\ b.overflow = f.overflow
      /\ b.foldedIndex = f.foldedIndex /\ b.recorded = r.recorded /\ b.last = r.last
      /\ b.hasLast = r.hasLast /\ b.recordable = r.recordable
      /\ b.failoverUsed = r.failoverUsed /\ b.exhausted = r.exhausted
      /\ b.finished = r.finished /\ b.currentIndex = r.nextIndex
      /\ b.nextIndex = r.nextIndex + 1 /\ b.currentHost = h
  <2>1. /\ b.begun /\ b.attempts = f.attempts /\ b.overflow = f.overflow
        /\ b.foldedIndex = f.foldedIndex /\ b.recorded = f.recorded /\ b.last = f.last
        /\ b.hasLast = f.hasLast /\ b.recordable = f.recordable
        /\ b.failoverUsed = f.failoverUsed /\ b.exhausted = f.exhausted
        /\ b.finished = f.finished /\ b.currentIndex = f.currentIndex
        /\ b.nextIndex = f.nextIndex /\ b.currentHost = h
    BY <1>2, <1>4 DEF RecorderType
  <2> HIDE DEF b
  <2> QED
    BY <1>3, <1>4, <2>1 DEF SameButFolds
<1> HIDE DEF b
<1>7. (Loose(g) <=> Loose(r)) /\ (Loose(b) <=> Loose(f)) /\ f.last = r.last /\ f.attempts = r.attempts
  BY <1>3, <1>4, <1>6 DEF Loose, HasRecord, SameButFolds
<1>8. AttemptsKnown(b) = AttemptsKnown(r) /\ MovesKnown(b) = MovesKnown(r)
  <2>1. AttemptsKnown(b) = AttemptsKnown(f) /\ MovesKnown(b) = MovesKnown(f)
    <3>1. LooseAttempts(b) = LooseAttempts(f) /\ LooseMoves(b) = LooseMoves(f)
      BY <1>6, <1>7 DEF LooseAttempts, LooseMoves
    <3> QED
      BY <1>6, <1>7, <3>1 DEF AttemptsKnown, MovesKnown
  <2>2. AttemptsKnown(g) = AttemptsKnown(r) /\ MovesKnown(g) = MovesKnown(r)
    <3>1. LooseAttempts(g) = LooseAttempts(r) /\ LooseMoves(g) = LooseMoves(r)
      BY <1>3, <1>7 DEF LooseAttempts, LooseMoves
    <3> QED
      BY <1>3, <3>1 DEF AttemptsKnown, MovesKnown
  <2> QED
    BY <1>4, <2>1, <2>2
<1>9. /\ b.hasLast => /\ b.last.index < b.currentIndex /\ b.last.index \in 0..b.currentIndex
                      /\ b.foldedIndex <= b.last.index
      /\ b.foldedIndex < b.currentIndex
      /\ ~b.hasLast => b.foldedIndex = -1 /\ b.overflow = << >>
  <2>1. r.last.index \in Int /\ r.foldedIndex \in Int
    BY <1>1 DEF RecorderType, Attempt
  <2>2. f.foldedIndex = r.foldedIndex \/ (r.hasLast /\ f.foldedIndex = r.last.index)
    BY <1>3, <1>4, <1>7 DEF Loose
  <2>3. CASE r.hasLast
    <3>1. r.begun /\ r.last.index \in 0..r.currentIndex /\ r.foldedIndex <= r.last.index
      BY <2>3 DEF RecOK
    <3>2. r.nextIndex = r.currentIndex + 1
      BY <3>1 DEF RecOK
    <3> QED
      BY <1>1, <1>6, <2>1, <2>2, <2>3, <3>1, <3>2
  <2>4. CASE ~r.hasLast
    <3>1. r.foldedIndex = -1 /\ r.overflow = << >> /\ f = g
      BY <1>4, <1>7, <2>4 DEF RecOK, Loose
    <3> QED
      BY <1>1, <1>3, <1>6, <2>4, <3>1
  <2> QED
    BY <2>3, <2>4
<1>10. RecOK(b)
  <2>1. b.hasLast => InOrder(b) /\ b.recorded <= b.last.index + 1
    BY <1>6 DEF RecOK, InOrder
  <2>2. b.recorded = AttemptsKnown(b) /\ Len(b.attempts) <= MaxEventAttempts
    BY <1>6, <1>8 DEF RecOK
  <2>3. ~b.hasLast => b.attempts = << >> /\ b.recorded = 0
    BY <1>6 DEF RecOK
  <2>4. ~Loose(b) /\ b.begun /\ b.nextIndex = b.currentIndex + 1
    BY <1>4, <1>6, <1>7
  <2> QED
    BY <1>5, <1>9, <2>1, <2>2, <2>3, <2>4 DEF RecOK
<1> QED
  BY <1>4, <1>6, <1>7, <1>8, <1>9, <1>10 DEF b, h

(* onMoved: the move is counted once, with the attempt it left, unless the *)
(* record of that attempt was lost.                                        *)
LEMMA MoveFacts ==
    ASSUME NEW r, RecOK(r), r.begun, ~r.finished, HasCurrent(r) => ~r.last.moved
    PROVE  LET m == OnMoved(r)
           IN  /\ RecOK(m) /\ m.failoverUsed
               /\ MovesKnown(m) = MovesKnown(r) + (IF HasCurrent(r) THEN 1 ELSE 0)
               /\ HasCurrent(m) <=> HasCurrent(r)
               /\ m.hasLast = r.hasLast /\ m.recorded = r.recorded
               /\ m.last.outcome = r.last.outcome /\ m.last.host = r.last.host
               /\ m.last.index = r.last.index
               /\ m.begun = r.begun /\ m.nextIndex = r.nextIndex
               /\ m.currentIndex = r.currentIndex /\ m.currentHost = r.currentHost
               /\ m.recordable = r.recordable
               /\ m.exhausted = r.exhausted /\ m.finished = r.finished
<1> DEFINE m == OnMoved(r)
<1>1. r \in RecorderType
  BY DEF RecOK
<1>2. CASE ~HasCurrent(r)
  <2>1. m = [r EXCEPT !.failoverUsed = TRUE]
    BY <1>2 DEF OnMoved
  <2>2. /\ m \in RecorderType /\ SameRecords(r, m) /\ m.failoverUsed
        /\ m.recordable = r.recordable /\ m.currentHost = r.currentHost
        /\ m.exhausted = r.exhausted /\ m.finished = r.finished
    BY <1>1, <2>1 DEF RecorderType, SameRecords
  <2> HIDE DEF m
  <2>3. RecOK(m) /\ MovesKnown(m) = MovesKnown(r) /\ (HasCurrent(m) <=> HasCurrent(r))
    BY <2>2, SideChange
  <2>4. MovesKnown(r) \in Nat
    BY <1>1, CountTypes
  <2> QED
    BY <1>2, <2>2, <2>3, <2>4 DEF SameRecords, m
<1>3. CASE HasCurrent(r)
  <2> DEFINE a == [r.last EXCEPT !.moved = TRUE]
             s == StoreAttempt(r, a)
             N == r.attempts
             marked == [i \in DOMAIN N |-> IF N[i].index = r.last.index
                                           THEN [N[i] EXCEPT !.moved = TRUE] ELSE N[i]]
  <2>1. /\ r.last \in Attempt /\ r.hasLast /\ r.last.index = r.currentIndex
        /\ InOrder(r) /\ ~r.last.moved
    BY <1>1, <1>3, CountTypes DEF HasCurrent, RecOK
  <2>2. /\ a \in Attempt /\ a.index = r.currentIndex /\ a.moved /\ a.outcome = r.last.outcome
        /\ a.host = r.last.host /\ a.index = r.last.index
    BY <2>1 DEF Attempt
  <2>3. marked = Replaced(r, a)
    <3>1. \A i \in DOMAIN N : N[i].index = r.last.index => N[i] = r.last
      BY <2>1 DEF InOrder
    <3>2. \A i \in DOMAIN N : marked[i] = Replaced(r, a)[i]
      BY <2>2, <3>1 DEF Replaced
    <3> QED
      BY <3>2 DEF Replaced
  <2>4. m = [r EXCEPT !.failoverUsed = TRUE, !.last = a, !.attempts = marked]
    BY <1>1, <1>3 DEF OnMoved, RecorderType
  <2> HIDE DEF a, marked
  <2>5. /\ RecOK(s) /\ SameButStored(r, s) /\ s.last = a /\ s.hasLast
        /\ s.recorded = r.recorded + 0
        /\ MovesKnown(s) = MovesKnown(r) + MoveOf(a) - MoveOf(r.last)
    BY <1>3, <2>2, StoreFacts
  <2>6. /\ s \in RecorderType /\ s.attempts = Replaced(r, a) /\ Replaced(r, a) \in Seq(Attempt)
    <3>1. /\ Replaced(r, a) \in Seq(Attempt) /\ s \in RecorderType
          /\ s.attempts = IF ~HasRecord(r, a.index) /\ ~(r.hasLast /\ r.last.index = a.index)
                                /\ Len(r.attempts) < MaxEventAttempts
                          THEN Append(Replaced(r, a), a) ELSE Replaced(r, a)
      BY <1>1, <2>2, StoreFields
    <3> QED
      BY <2>1, <2>2, <3>1
  <2>7. /\ m \in RecorderType /\ SameRecords(s, m) /\ m.failoverUsed
        /\ m.recordable = r.recordable /\ m.currentHost = r.currentHost
        /\ m.exhausted = r.exhausted /\ m.finished = r.finished
        /\ m.last = a /\ m.hasLast = r.hasLast /\ m.recorded = r.recorded /\ m.begun = r.begun
        /\ m.nextIndex = r.nextIndex /\ m.currentIndex = r.currentIndex
    <3>1. m \in RecorderType
      BY <1>1, <2>2, <2>3, <2>4, <2>6 DEF RecorderType
    <3>2. /\ m.failoverUsed /\ m.last = a /\ m.attempts = marked
          /\ m.recordable = r.recordable /\ m.currentHost = r.currentHost
          /\ m.exhausted = r.exhausted /\ m.finished = r.finished
          /\ m.hasLast = r.hasLast /\ m.recorded = r.recorded /\ m.begun = r.begun
          /\ m.nextIndex = r.nextIndex /\ m.currentIndex = r.currentIndex
          /\ m.overflow = r.overflow /\ m.foldedIndex = r.foldedIndex
      BY <1>1, <2>4 DEF RecorderType
    <3>3. r.recorded \in Nat /\ r.hasLast = TRUE /\ s.hasLast = TRUE
      BY <1>1, <2>1, <2>5, <2>6 DEF RecorderType
    <3> HIDE DEF m, s
    <3>4. /\ s.begun = r.begun /\ s.overflow = r.overflow /\ s.foldedIndex = r.foldedIndex
          /\ s.nextIndex = r.nextIndex /\ s.currentIndex = r.currentIndex
      BY <2>5 DEF SameButStored
    <3>5. s.recorded = r.recorded
      BY <2>5, <3>3
    <3>6. SameRecords(s, m)
      BY <2>3, <2>5, <2>6, <3>2, <3>3, <3>4, <3>5 DEF SameRecords
    <3> QED
      BY <3>1, <3>2, <3>6
  <2> HIDE DEF m, s
  <2>8. s.finished => m.finished
    BY <2>5, <2>7 DEF SameButStored
  <2>9. RecOK(m) /\ MovesKnown(m) = MovesKnown(s)
    BY <2>5, <2>7, <2>8, SideChange
  <2>10. MovesKnown(m) = MovesKnown(r) + 1 /\ HasCurrent(m)
    <3>1. MoveOf(a) = 1 /\ MoveOf(r.last) = 0 /\ MovesKnown(r) \in Nat
      BY <1>1, <2>1, <2>2, CountTypes DEF MoveOf
    <3>2. HasCurrent(m)
      BY <2>1, <2>2, <2>7 DEF HasCurrent
    <3> QED
      BY <2>5, <2>9, <3>1, <3>2
  <2> QED
    BY <1>3, <2>2, <2>7, <2>9, <2>10 DEF m
<1> QED
  BY <1>2, <1>3

(* s is r with the attempt in flight recorded: its index, its host, and no *)
(* move gained or lost.                                                    *)
AddedRecord(r, s) ==
    /\ RecOK(s) /\ SameButStored(r, s) /\ s.hasLast
    /\ s.last.index = r.currentIndex /\ s.last.host = r.currentHost
    /\ s.recorded = r.recorded + (IF HasCurrent(r) THEN 0 ELSE 1)
    /\ MovesKnown(s) = MovesKnown(r)

(* onResponse.                                                             *)
LEMMA ResponseFacts ==
    ASSUME NEW r, RecOK(r), r.begun, ~r.finished, HasCurrent(r) => ~r.last.moved,
           NEW resp, resp.status \in Int
    PROVE  LET s == OnResponse(r, resp)
           IN  /\ AddedRecord(r, s) /\ ~s.last.moved
               /\ s.last.outcome = IF resp.status < 400 THEN "ok" ELSE "http_error"
<1> DEFINE a == [NoAttempt EXCEPT !.index = r.currentIndex, !.host = r.currentHost,
                    !.status = resp.status,
                    !.outcome = IF resp.status < 400 THEN "ok" ELSE "http_error"]
           s == OnResponse(r, resp)
<1>1. s = StoreAttempt(r, a)
  BY DEF OnResponse
<1>2. r.currentIndex \in Int /\ r.currentHost \in Int /\ r \in RecorderType
  BY DEF RecOK, RecorderType
<1>3. /\ a \in Attempt /\ a.index = r.currentIndex /\ a.host = r.currentHost /\ ~a.moved
      /\ a.outcome = IF resp.status < 400 THEN "ok" ELSE "http_error"
  BY <1>2 DEF NoAttempt, Attempt, Custom, Outcomes, ErrorClasses, Phases
<1>4. MovesKnown(r) \in Nat
  BY <1>2, CountTypes
<1> HIDE DEF a, s
<1>5. /\ RecOK(s) /\ SameButStored(r, s) /\ s.last = a /\ s.hasLast
      /\ s.recorded = r.recorded + (IF HasCurrent(r) THEN 0 ELSE 1)
      /\ MovesKnown(s) = MovesKnown(r) + MoveOf(a) - (IF HasCurrent(r) THEN MoveOf(r.last) ELSE 0)
  BY <1>1, <1>3, StoreFacts
<1>6. MovesKnown(s) = MovesKnown(r)
  BY <1>3, <1>4, <1>5 DEF MoveOf
<1> QED
  BY <1>3, <1>5, <1>6 DEF AddedRecord, s

(* The class of a transport error is an error class.                       *)
LEMMA ClassType ==
    ASSUME NEW err, NEW timedOut \in BOOLEAN
    PROVE  ErrorClassOf(err, timedOut) \in {"connect_timeout", "read_timeout", "other"}
<1>1. CASE timedOut
  BY <1>1 DEF ErrorClassOf
<1>2. CASE ~timedOut /\ err \in {"idle", "read_timeout"}
  BY <1>2 DEF ErrorClassOf
<1>3. CASE ~timedOut /\ err = "connect_timeout"
  BY <1>3 DEF ErrorClassOf
<1>4. CASE ~timedOut /\ err \notin {"idle", "read_timeout"} /\ err # "connect_timeout"
  BY <1>4 DEF ErrorClassOf
<1> QED
  BY <1>1, <1>2, <1>3, <1>4

(* onTransportError.                                                       *)
LEMMA ErrorFacts ==
    ASSUME NEW r, RecOK(r), r.begun, ~r.finished, HasCurrent(r) => ~r.last.moved,
           NEW err, NEW timedOut \in BOOLEAN, NEW opened \in BOOLEAN, NEW started \in BOOLEAN
    PROVE  LET s == OnTransportError(r, err, timedOut, opened, started)
           IN  /\ AddedRecord(r, s) /\ ~s.last.moved
               /\ s.last.outcome \in {"transport_error", "timeout", "stream_broken"}
               /\ ~started => s.last.outcome # "stream_broken"
<1> DEFINE s == OnTransportError(r, err, timedOut, opened, started)
           class == ErrorClassOf(err, timedOut)
           late == class \in {"connect_timeout", "read_timeout"}
           status == IF HasCurrent(r) /\ opened THEN r.last.status ELSE 0
           outcome == IF late THEN "timeout"
                      ELSE IF started THEN "stream_broken" ELSE "transport_error"
           errorClass == IF started /\ class = "read_timeout" THEN "stream_stalled" ELSE class
           phase == IF ~late THEN "none" ELSE IF started THEN "idle"
                    ELSE IF class = "connect_timeout" THEN "connect" ELSE "first_byte"
           a == [NoAttempt EXCEPT !.index = r.currentIndex, !.host = r.currentHost,
                    !.status = status, !.outcome = outcome, !.errorClass = errorClass,
                    !.phase = phase]
<1>1. s = StoreAttempt(r, a)
  BY DEF OnTransportError
<1>2. /\ r.currentIndex \in Int /\ r.currentHost \in Int /\ r \in RecorderType
      /\ r.last \in Attempt
  BY DEF RecOK, RecorderType
<1>3. /\ status \in Int /\ errorClass \in ErrorClasses /\ phase \in Phases
      /\ outcome \in {"transport_error", "timeout", "stream_broken"}
      /\ ~started => outcome # "stream_broken"
  <2>1. class \in {"connect_timeout", "read_timeout", "other"}
    BY ClassType
  <2>2. status \in Int
    BY <1>2 DEF Attempt
  <2> HIDE DEF class
  <2> QED
    BY <2>1, <2>2 DEF ErrorClasses, Phases
<1>4. MovesKnown(r) \in Nat
  BY <1>2, CountTypes
<1> HIDE DEF s, status, outcome, errorClass, phase
<1>5. /\ a \in Attempt /\ a.index = r.currentIndex /\ a.host = r.currentHost /\ ~a.moved
      /\ a.outcome = outcome
  BY <1>2, <1>3 DEF NoAttempt, Attempt, Custom, Outcomes
<1> HIDE DEF a
<1>6. /\ RecOK(s) /\ SameButStored(r, s) /\ s.last = a /\ s.hasLast
      /\ s.recorded = r.recorded + (IF HasCurrent(r) THEN 0 ELSE 1)
      /\ MovesKnown(s) = MovesKnown(r) + MoveOf(a) - (IF HasCurrent(r) THEN MoveOf(r.last) ELSE 0)
  BY <1>1, <1>5, StoreFacts
<1>7. MovesKnown(s) = MovesKnown(r)
  BY <1>4, <1>5, <1>6 DEF MoveOf
<1> QED
  BY <1>3, <1>5, <1>6, <1>7 DEF AddedRecord, s

(* onAborted: the move of the attempt in flight is kept.                   *)
LEMMA AbortFacts ==
    ASSUME NEW r, RecOK(r), r.begun, ~r.finished
    PROVE  LET s == OnAborted(r)
           IN  /\ AddedRecord(r, s)
               /\ s.last.outcome = "aborted"
               /\ (HasCurrent(r) => ~r.last.moved) => ~s.last.moved
<1> DEFINE s == OnAborted(r)
           base == IF HasCurrent(r) THEN r.last ELSE NoAttempt
           a == [base EXCEPT !.index = r.currentIndex, !.host = r.currentHost,
                             !.outcome = "aborted"]
<1>1. s = StoreAttempt(r, a)
  BY DEF OnAborted
<1>2. /\ r.currentIndex \in Int /\ r.currentHost \in Int /\ r \in RecorderType
      /\ r.last \in Attempt
  BY DEF RecOK, RecorderType
<1>3. base \in Attempt /\ (~HasCurrent(r) => ~base.moved) /\ (HasCurrent(r) => base = r.last)
  BY <1>2 DEF NoAttempt, Attempt, Custom, Outcomes, ErrorClasses, Phases
<1>4. MovesKnown(r) \in Nat
  BY <1>2, CountTypes
<1> HIDE DEF s, base
<1>5. /\ a \in Attempt /\ a.index = r.currentIndex /\ a.host = r.currentHost
      /\ a.outcome = "aborted" /\ a.moved = base.moved
  BY <1>2, <1>3 DEF Attempt, Outcomes
<1> HIDE DEF a
<1>6. /\ RecOK(s) /\ SameButStored(r, s) /\ s.last = a /\ s.hasLast
      /\ s.recorded = r.recorded + (IF HasCurrent(r) THEN 0 ELSE 1)
      /\ MovesKnown(s) = MovesKnown(r) + MoveOf(a) - (IF HasCurrent(r) THEN MoveOf(r.last) ELSE 0)
  BY <1>1, <1>5, StoreFacts
<1>7. MoveOf(a) = (IF HasCurrent(r) THEN MoveOf(r.last) ELSE 0) /\ MoveOf(a) \in Nat
  BY <1>3, <1>5 DEF MoveOf
<1>8. MovesKnown(s) = MovesKnown(r)
  BY <1>4, <1>6, <1>7
<1> QED
  BY <1>3, <1>5, <1>6, <1>8 DEF AddedRecord, s

-----------------------------------------------------------------------------
(* finish.                                                                 *)

(* The fields finishing leaves alone.                                      *)
SameButFinished(r, q) ==
    /\ q.recordable = r.recordable /\ q.begun = r.begun /\ q.attempts = r.attempts
    /\ q.recorded = r.recorded /\ q.last = r.last /\ q.hasLast = r.hasLast
    /\ q.nextIndex = r.nextIndex /\ q.currentIndex = r.currentIndex
    /\ q.currentHost = r.currentHost /\ q.failoverUsed = r.failoverUsed
    /\ q.exhausted = r.exhausted

(* finish: what is reported is what the finished recorder would report,    *)
(* and it is reported the first time only.                                 *)
LEMMA FinishFacts ==
    ASSUME NEW r, RecOK(r), r.finished /\ r.recordable => ~Loose(r)
    PROVE  LET q == Finish(r)
           IN  /\ RecOK(q) /\ q.finished /\ SameButFinished(r, q)
               /\ MovesKnown(q) = MovesKnown(r)
               /\ q.recordable => ~Loose(q)
               /\ Reported(r) = IF ~r.finished /\ q.recordable /\ q.hasLast
                                THEN << ReportOf(q) >> ELSE << >>
               /\ r.finished => q = r
<1> DEFINE q == Finish(r)
           f == FoldOverflow(r)
<1>1. r \in RecorderType /\ (r.hasLast => r.begun)
  BY DEF RecOK
<1>2. Reportable(r) <=> ~r.finished /\ r.recordable /\ r.hasLast
  BY <1>1 DEF Reportable
<1>3. CASE Reportable(r)
  <2>1. q = [f EXCEPT !.finished = TRUE]
    BY <1>3 DEF Finish
  <2>2. /\ f \in RecorderType /\ SameButFolds(r, f) /\ ~Loose(f)
        /\ AttemptsKnown(f) = AttemptsKnown(r) /\ MovesKnown(f) = MovesKnown(r)
        /\ f.foldedIndex = r.foldedIndex \/ f.foldedIndex = r.last.index
    <3>1. /\ f \in RecorderType /\ SameButFolds(r, f) /\ ~Loose(f)
          /\ AttemptsKnown(f) = AttemptsKnown(r) /\ MovesKnown(f) = MovesKnown(r)
          /\ ~Loose(r) => f = r
          /\ Loose(r) => f.foldedIndex = r.last.index
      BY <1>1, FoldFacts
    <3> HIDE DEF f
    <3> QED
      BY <3>1
  <2> HIDE DEF f
  <2>3. /\ q \in RecorderType /\ q.finished /\ SameButFinished(f, q)
        /\ q.overflow = f.overflow /\ q.foldedIndex = f.foldedIndex /\ q.ttft = f.ttft
        /\ q.firstErrorClass = f.firstErrorClass
    BY <2>1, <2>2 DEF RecorderType, SameButFinished
  <2> HIDE DEF q
  <2>4. SameButFinished(r, q)
    BY <2>2, <2>3 DEF SameButFinished, SameButFolds
  <2>5. ~Loose(q) /\ AttemptsKnown(q) = AttemptsKnown(r) /\ MovesKnown(q) = MovesKnown(r)
    <3>1. ~Loose(q)
      BY <2>2, <2>3 DEF Loose, HasRecord, SameButFinished
    <3>2. /\ LooseAttempts(q) = LooseAttempts(f) /\ LooseMoves(q) = LooseMoves(f)
          /\ q.attempts = f.attempts
      BY <2>2, <2>3, <3>1 DEF LooseAttempts, LooseMoves, SameButFinished
    <3> QED
      BY <2>2, <2>3, <3>1, <3>2 DEF AttemptsKnown, MovesKnown
  <2>6. RecOK(q)
    <3>1. r.hasLast /\ r.begun /\ r.foldedIndex <= r.last.index
      BY <1>1, <1>2, <1>3 DEF RecOK
    <3>2. q.foldedIndex <= q.last.index
      <4>1. r.last.index \in Int
        BY <1>1, CountTypes
      <4> QED
        BY <2>2, <2>3, <2>4, <3>1, <4>1 DEF SameButFinished
    <3>3. InOrder(q)
      BY <2>4, <3>1 DEF RecOK, InOrder, SameButFinished
    <3> QED
      BY <2>3, <2>4, <2>5, <3>1, <3>2, <3>3 DEF RecOK, SameButFinished
  <2>7. ReportOf(r) = ReportOf(q)
    <3>1. FoldOverflow(q) = q
      BY <2>3, <2>5, FoldFacts
    <3>2. RequestRow(f) = RequestRow(q)
      BY <2>3 DEF RequestRow, SameButFinished
    <3>3. /\ f.attempts = q.attempts /\ f.overflow = q.overflow /\ f.last = q.last
          /\ f.exhausted = q.exhausted /\ f.recorded = q.recorded
          /\ f.failoverUsed = q.failoverUsed /\ f.ttft = q.ttft
      BY <2>3 DEF SameButFinished
    <3> QED
      BY <3>1, <3>2, <3>3 DEF ReportOf, f
  <2>8. Reported(r) = << ReportOf(q) >> /\ ~r.finished /\ q.recordable /\ q.hasLast
    BY <1>2, <1>3, <2>4, <2>7 DEF Reported, SameButFinished
  <2> QED
    BY <2>3, <2>4, <2>5, <2>6, <2>8 DEF q
<1>4. CASE ~Reportable(r)
  <2>1. q = [r EXCEPT !.finished = TRUE] /\ Reported(r) = << >>
    BY <1>4 DEF Finish, Reported
  <2>2. q \in RecorderType /\ q.finished /\ SameButFinished(r, q) /\ SameRecords(r, q)
    BY <1>1, <2>1 DEF RecorderType, SameButFinished, SameRecords
  <2>3. r.finished => q = r
    BY <1>1, <2>1 DEF RecorderType
  <2> HIDE DEF q
  <2>4. RecOK(q) /\ MovesKnown(q) = MovesKnown(r) /\ (Loose(q) <=> Loose(r))
    BY <2>2, SideChange
  <2>5. ~(~r.finished /\ q.recordable /\ q.hasLast)
    BY <1>2, <1>4, <2>2 DEF SameButFinished
  <2>6. q.recordable => ~Loose(q)
    BY <2>4, <2>5, <2>2 DEF SameButFinished, Loose
  <2> QED
    BY <2>1, <2>2, <2>3, <2>4, <2>5, <2>6 DEF q
<1> QED
  BY <1>3, <1>4

-----------------------------------------------------------------------------
(* The rows of a report.                                                   *)
Row ==
    [level : {"request", "attempt"}, requests : Nat, attempts : Nat, failoverUsed : Nat,
     firstAttemptSuccess : Nat, key : RowKey]

(* The columns of a sequence of rows.                                      *)
LEMMA RowColumns ==
    ASSUME NEW s \in Seq(Row)
    PROVE  /\ AttemptsColumn(s) \in Seq(Int) /\ Len(AttemptsColumn(s)) = Len(s)
           /\ MovesColumn(s) \in Seq(Int) /\ Len(MovesColumn(s)) = Len(s)
           /\ SumFunction(AttemptsColumn(s)) \in Int /\ SumFunction(MovesColumn(s)) \in Int
           /\ \A i \in 1..Len(s) :
                /\ AttemptsColumn(s)[i] = IF s[i].level = "attempt" THEN s[i].attempts ELSE 0
                /\ MovesColumn(s)[i] = IF s[i].level = "attempt" THEN s[i].failoverUsed ELSE 0
<1>1. DOMAIN s = 1..Len(s) /\ Len(s) \in Nat /\ \A i \in 1..Len(s) : s[i] \in Row
  OBVIOUS
<1>2. \A i \in 1..Len(s) : s[i].attempts \in Int /\ s[i].failoverUsed \in Int
  BY <1>1 DEF Row
<1>3. AttemptsColumn(s) \in [DOMAIN s -> Int] /\ MovesColumn(s) \in [DOMAIN s -> Int]
  BY <1>1, <1>2 DEF AttemptsColumn, MovesColumn
<1>4. /\ AttemptsColumn(s) \in Seq(Int) /\ DOMAIN AttemptsColumn(s) = DOMAIN s
      /\ MovesColumn(s) \in Seq(Int) /\ DOMAIN MovesColumn(s) = DOMAIN s
  BY <1>3, SameIndices
<1>5. Len(AttemptsColumn(s)) = Len(s) /\ Len(MovesColumn(s)) = Len(s)
  BY <1>1, <1>4
<1>6. SumFunction(AttemptsColumn(s)) \in Int /\ SumFunction(MovesColumn(s)) \in Int
  BY <1>4, SeqSumType
<1>7. \A i \in 1..Len(s) :
         /\ AttemptsColumn(s)[i] = IF s[i].level = "attempt" THEN s[i].attempts ELSE 0
         /\ MovesColumn(s)[i] = IF s[i].level = "attempt" THEN s[i].failoverUsed ELSE 0
  BY <1>1 DEF AttemptsColumn, MovesColumn
<1> QED
  BY <1>4, <1>5, <1>6, <1>7

(* The columns of a concatenation add up.                                  *)
LEMMA RowConcat ==
    ASSUME NEW s \in Seq(Row), NEW t \in Seq(Row)
    PROVE  /\ s \o t \in Seq(Row)
           /\ SumFunction(AttemptsColumn(s \o t))
                = SumFunction(AttemptsColumn(s)) + SumFunction(AttemptsColumn(t))
           /\ SumFunction(MovesColumn(s \o t))
                = SumFunction(MovesColumn(s)) + SumFunction(MovesColumn(t))
<1> DEFINE u == s \o t
           n == Len(s)
           m == Len(t)
<1>1. /\ u \in Seq(Row) /\ Len(u) = n + m /\ n \in Nat /\ m \in Nat
      /\ \A i \in 1..n : u[i] = s[i]
      /\ \A i \in 1..m : u[n + i] = t[i]
  OBVIOUS
<1>2. /\ AttemptsColumn(s) \in Seq(Int) /\ Len(AttemptsColumn(s)) = n
      /\ MovesColumn(s) \in Seq(Int) /\ Len(MovesColumn(s)) = n
      /\ \A i \in 1..n :
           /\ AttemptsColumn(s)[i] = IF s[i].level = "attempt" THEN s[i].attempts ELSE 0
           /\ MovesColumn(s)[i] = IF s[i].level = "attempt" THEN s[i].failoverUsed ELSE 0
  BY RowColumns
<1>3. /\ AttemptsColumn(t) \in Seq(Int) /\ Len(AttemptsColumn(t)) = m
      /\ MovesColumn(t) \in Seq(Int) /\ Len(MovesColumn(t)) = m
      /\ \A i \in 1..m :
           /\ AttemptsColumn(t)[i] = IF t[i].level = "attempt" THEN t[i].attempts ELSE 0
           /\ MovesColumn(t)[i] = IF t[i].level = "attempt" THEN t[i].failoverUsed ELSE 0
  BY RowColumns
<1> HIDE DEF u
<1>4. /\ AttemptsColumn(u) \in Seq(Int) /\ Len(AttemptsColumn(u)) = n + m
      /\ MovesColumn(u) \in Seq(Int) /\ Len(MovesColumn(u)) = n + m
      /\ \A i \in 1..(n + m) :
           /\ AttemptsColumn(u)[i] = IF u[i].level = "attempt" THEN u[i].attempts ELSE 0
           /\ MovesColumn(u)[i] = IF u[i].level = "attempt" THEN u[i].failoverUsed ELSE 0
  BY <1>1, RowColumns
<1> HIDE DEF n, m
<1>5. \A i \in 1..n : i \in 1..(n + m)
  BY <1>1
<1>6. \A i \in 1..m : n + i \in 1..(n + m)
  BY <1>1
<1>7. AttemptsColumn(u) = AttemptsColumn(s) \o AttemptsColumn(t)
  <2>1. ASSUME NEW i \in 1..n PROVE AttemptsColumn(u)[i] = AttemptsColumn(s)[i]
    BY <1>1, <1>2, <1>4, <1>5
  <2>2. ASSUME NEW i \in 1..m PROVE AttemptsColumn(u)[n + i] = AttemptsColumn(t)[i]
    <3>1. u[n + i] = t[i] /\ n + i \in 1..(n + m)
      BY <1>1, <1>6
    <3> QED
      BY <1>3, <1>4, <3>1
  <2>3. Joins(AttemptsColumn(u), AttemptsColumn(s), AttemptsColumn(t))
    BY <1>2, <1>3, <1>4, <2>1, <2>2 DEF Joins
  <2> QED
    BY <1>2, <1>3, <1>4, <2>3, JoinIsConcat
<1>8. MovesColumn(u) = MovesColumn(s) \o MovesColumn(t)
  <2>1. ASSUME NEW i \in 1..n PROVE MovesColumn(u)[i] = MovesColumn(s)[i]
    BY <1>1, <1>2, <1>4, <1>5
  <2>2. ASSUME NEW i \in 1..m PROVE MovesColumn(u)[n + i] = MovesColumn(t)[i]
    <3>1. u[n + i] = t[i] /\ n + i \in 1..(n + m)
      BY <1>1, <1>6
    <3> QED
      BY <1>3, <1>4, <3>1
  <2>3. Joins(MovesColumn(u), MovesColumn(s), MovesColumn(t))
    BY <1>2, <1>3, <1>4, <2>1, <2>2 DEF Joins
  <2> QED
    BY <1>2, <1>3, <1>4, <2>3, JoinIsConcat
<1>9. /\ SumFunction(AttemptsColumn(u)) = SumFunction(AttemptsColumn(s)) + SumFunction(AttemptsColumn(t))
      /\ SumFunction(MovesColumn(u)) = SumFunction(MovesColumn(s)) + SumFunction(MovesColumn(t))
  BY <1>2, <1>3, <1>7, <1>8, SumConcat
<1> QED
  BY <1>1, <1>9 DEF u

(* What a report says is what its recorder has counted.                    *)
LEMMA ReportFacts ==
    ASSUME NEW q, RecOK(q), q.hasLast, ~Loose(q)
    PROVE  LET R == ReportOf(q)
           IN  /\ R.attempts = q.attempts /\ R.failoverUsed = q.failoverUsed
               /\ R.finalOutcome = IF q.exhausted /\ q.recorded > 1 /\ q.last.outcome # "ok"
                                   THEN "exhausted" ELSE q.last.outcome
               /\ R.counters[1].attempts = q.recorded
               /\ SumFunction(AttemptsColumn(R.counters)) = q.recorded
               /\ SumFunction(MovesColumn(R.counters)) = MovesKnown(q)
<1> DEFINE N == q.attempts
           O == q.overflow
           A == [i \in DOMAIN N |-> AttemptRow(CounterKey(N[i]), 1, MoveOf(N[i]))]
           B == [i \in DOMAIN O |-> AttemptRow(O[i].key, O[i].attempts, O[i].moved)]
           H == << RequestRow(q) >>
           R == ReportOf(q)
<1>1. q \in RecorderType /\ q.recorded \in Nat /\ N \in Seq(Attempt) /\ O \in Seq(Entry)
      /\ q.last \in Attempt /\ q.firstErrorClass \in ErrorClasses
  BY DEF RecOK, RecorderType
<1>2. FoldOverflow(q) = q
  BY <1>1, FoldFacts
<1>3. /\ R.attempts = q.attempts /\ R.failoverUsed = q.failoverUsed
      /\ R.finalOutcome = IF q.exhausted /\ q.recorded > 1 /\ q.last.outcome # "ok"
                          THEN "exhausted" ELSE q.last.outcome
      /\ R.counters = H \o A \o B
  BY <1>2 DEF ReportOf, MoveOf
<1>4. /\ Len(N) \in Nat /\ DOMAIN N = 1..Len(N) /\ \A i \in 1..Len(N) : N[i] \in Attempt
      /\ Len(O) \in Nat /\ DOMAIN O = 1..Len(O) /\ \A i \in 1..Len(O) : O[i] \in Entry
  BY <1>1
<1>5. A \in Seq(Row) /\ Len(A) = Len(N)
  <2>1. ASSUME NEW i \in DOMAIN N PROVE AttemptRow(CounterKey(N[i]), 1, MoveOf(N[i])) \in Row
    <3>1. CounterKey(N[i]) \in RowKey /\ MoveOf(N[i]) \in Nat
      BY <1>4, KeyType DEF MoveOf
    <3> QED
      BY <3>1 DEF AttemptRow, Row
  <2>2. A \in [DOMAIN N -> Row]
    BY <2>1
  <2> HIDE DEF A
  <2>3. A \in Seq(Row) /\ DOMAIN A = DOMAIN N
    BY <1>1, <2>2, SameIndices
  <2> QED
    BY <1>4, <2>3
<1>6. B \in Seq(Row) /\ Len(B) = Len(O)
  <2>1. ASSUME NEW i \in DOMAIN O PROVE AttemptRow(O[i].key, O[i].attempts, O[i].moved) \in Row
    <3>1. O[i].key \in RowKey /\ O[i].attempts \in Nat /\ O[i].moved \in Nat
      BY <1>4 DEF Entry
    <3> QED
      BY <3>1 DEF AttemptRow, Row
  <2>2. B \in [DOMAIN O -> Row]
    BY <2>1
  <2> HIDE DEF B
  <2>3. B \in Seq(Row) /\ DOMAIN B = DOMAIN O
    BY <1>1, <2>2, SameIndices
  <2> QED
    BY <1>4, <2>3
<1>7. /\ H \in Seq(Row) /\ Len(H) = 1 /\ H[1].level = "request" /\ H[1].attempts = q.recorded
  <2>1. RequestRow(q) \in Row
    <3>1. [CounterKey(q.last) EXCEPT !.errorClass = q.firstErrorClass] \in RowKey
      <4>1. CounterKey(q.last) \in RowKey
        BY <1>1, KeyType
      <4> QED
        BY <1>1, <4>1 DEF RowKey
    <3> QED
      BY <1>1, <3>1 DEF RequestRow, Row
  <2> QED
    BY <2>1 DEF RequestRow
<1>8. SumFunction(AttemptsColumn(H)) = 0 /\ SumFunction(MovesColumn(H)) = 0
  <2>1. /\ AttemptsColumn(H) \in Seq(Int) /\ Len(AttemptsColumn(H)) = 1
        /\ MovesColumn(H) \in Seq(Int) /\ Len(MovesColumn(H)) = 1
        /\ AttemptsColumn(H)[1] = 0 /\ MovesColumn(H)[1] = 0
    <3> HIDE DEF H
    <3>1. /\ AttemptsColumn(H) \in Seq(Int) /\ Len(AttemptsColumn(H)) = Len(H)
          /\ MovesColumn(H) \in Seq(Int) /\ Len(MovesColumn(H)) = Len(H)
          /\ \A i \in 1..Len(H) :
               /\ AttemptsColumn(H)[i] = IF H[i].level = "attempt" THEN H[i].attempts ELSE 0
               /\ MovesColumn(H)[i] = IF H[i].level = "attempt" THEN H[i].failoverUsed ELSE 0
      BY <1>7, RowColumns
    <3>2. 1 \in 1..Len(H)
      BY <1>7
    <3> QED
      BY <1>7, <3>1, <3>2
  <2>2. AttemptsColumn(H) = Append(<< >>, 0) /\ MovesColumn(H) = Append(<< >>, 0)
    <3> HIDE DEF H
    <3> QED
      BY <2>1
  <2>3. SumFunction(Append(<< >>, 0)) = 0
    <3>1. << >> \in Seq(Int) /\ 0 \in Int
      OBVIOUS
    <3>2. SumFunction(<< >>) = 0
      <4>1. DOMAIN << >> = {}
        OBVIOUS
      <4> QED
        BY <4>1, SumEmpty DEF SumFunction
    <3>3. SumFunction(Append(<< >>, 0)) = SumFunction(<< >>) + 0
      BY <3>1, SumAppend
    <3> QED
      BY <3>2, <3>3
  <2> QED
    BY <2>2, <2>3
<1>9. SumFunction(AttemptsColumn(A)) = Len(N) /\ MovesColumn(A) = MovedIn(N)
  <2>1. \A i \in 1..Len(N) : /\ A[i].level = "attempt" /\ A[i].attempts = 1
                             /\ A[i].failoverUsed = MoveOf(N[i])
    BY <1>4 DEF AttemptRow
  <2> HIDE DEF A
  <2>2. /\ AttemptsColumn(A) \in Seq(Int) /\ Len(AttemptsColumn(A)) = Len(N)
        /\ MovesColumn(A) \in Seq(Int) /\ Len(MovesColumn(A)) = Len(N)
        /\ \A i \in 1..Len(N) :
             /\ AttemptsColumn(A)[i] = IF A[i].level = "attempt" THEN A[i].attempts ELSE 0
             /\ MovesColumn(A)[i] = IF A[i].level = "attempt" THEN A[i].failoverUsed ELSE 0
    BY <1>5, RowColumns
  <2>3. SumFunction(AttemptsColumn(A)) = Len(AttemptsColumn(A))
    <3>1. \A i \in 1..Len(AttemptsColumn(A)) : AttemptsColumn(A)[i] = 1
      BY <2>1, <2>2
    <3> QED
      BY <2>2, <3>1, SumOnes
  <2>4. /\ MovedIn(N) \in Seq(Int) /\ Len(MovedIn(N)) = Len(N)
        /\ \A i \in 1..Len(N) : MovedIn(N)[i] = MoveOf(N[i])
    BY <1>1, MoveColumn
  <2>5. MovesColumn(A) = MovedIn(N)
    <3>1. DOMAIN A = DOMAIN N
      BY <1>4, <1>5
    <3> QED
      BY <1>4, <2>1, <3>1 DEF MovesColumn, MovedIn
  <2> QED
    BY <2>2, <2>3, <2>5
<1>10. AttemptsColumn(B) = FoldedAttempts(O) /\ MovesColumn(B) = FoldedMoves(O)
  <2>1. \A i \in 1..Len(O) : /\ B[i].level = "attempt" /\ B[i].attempts = O[i].attempts
                             /\ B[i].failoverUsed = O[i].moved
    BY <1>4 DEF AttemptRow
  <2> HIDE DEF B
  <2>2. DOMAIN B = 1..Len(O)
    BY <1>4, <1>6
  <2> QED
    BY <1>4, <2>1, <2>2 DEF AttemptsColumn, MovesColumn, FoldedAttempts, FoldedMoves
<1>11. R.counters[1] = H[1]
  <2> HIDE DEF A, B, H
  <2>1. /\ H \o A \in Seq(Row) /\ Len(H \o A) >= 1 /\ (H \o A)[1] = H[1]
    <3>1. H \o A \in Seq(Row) /\ Joins(H \o A, H, A) /\ 1 \in 1..Len(H)
      BY <1>5, <1>7, ConcatJoins
    <3> QED
      BY <1>4, <1>5, <1>7, <3>1 DEF Joins
  <2>2. ((H \o A) \o B)[1] = (H \o A)[1]
    <3> DEFINE P == H \o A
    <3>1. P \in Seq(Row) /\ Len(P) \in Nat /\ Len(P) >= 1
      BY <2>1
    <3> HIDE DEF P
    <3>2. Joins(P \o B, P, B) /\ 1 \in 1..Len(P)
      BY <1>6, <3>1, ConcatJoins
    <3>3. (P \o B)[1] = P[1]
      BY <3>2 DEF Joins
    <3> QED
      BY <3>3 DEF P
  <2> QED
    BY <1>3, <2>1, <2>2
<1> HIDE DEF A, B, H, R
<1>12. /\ SumFunction(AttemptsColumn((H \o A) \o B))
             = SumFunction(AttemptsColumn(H \o A)) + SumFunction(AttemptsColumn(B))
       /\ SumFunction(MovesColumn((H \o A) \o B))
             = SumFunction(MovesColumn(H \o A)) + SumFunction(MovesColumn(B))
       /\ SumFunction(AttemptsColumn(H \o A))
             = SumFunction(AttemptsColumn(H)) + SumFunction(AttemptsColumn(A))
       /\ SumFunction(MovesColumn(H \o A))
             = SumFunction(MovesColumn(H)) + SumFunction(MovesColumn(A))
  <2>1. /\ H \o A \in Seq(Row)
        /\ SumFunction(AttemptsColumn(H \o A))
             = SumFunction(AttemptsColumn(H)) + SumFunction(AttemptsColumn(A))
        /\ SumFunction(MovesColumn(H \o A))
             = SumFunction(MovesColumn(H)) + SumFunction(MovesColumn(A))
    BY <1>5, <1>7, RowConcat
  <2> QED
    BY <1>6, <2>1, RowConcat
<1>13. /\ SumFunction(MovedIn(N)) \in Nat /\ SumFunction(FoldedAttempts(O)) \in Nat
       /\ SumFunction(FoldedMoves(O)) \in Nat
  BY <1>1, CountTypes
<1>14. q.recorded = Len(N) + SumFunction(FoldedAttempts(O))
  <2>1. LooseAttempts(q) = 0
    BY DEF LooseAttempts
  <2> QED
    BY <1>4, <1>13, <2>1 DEF RecOK, AttemptsKnown
<1>15. MovesKnown(q) = SumFunction(MovedIn(N)) + SumFunction(FoldedMoves(O))
  <2>1. LooseMoves(q) = 0
    BY DEF LooseMoves
  <2> QED
    BY <1>13, <2>1 DEF MovesKnown
<1>16. /\ SumFunction(AttemptsColumn(R.counters)) = q.recorded
       /\ SumFunction(MovesColumn(R.counters)) = MovesKnown(q)
  BY <1>3, <1>4, <1>8, <1>9, <1>10, <1>12, <1>13, <1>14, <1>15
<1> QED
  BY <1>3, <1>7, <1>11, <1>16 DEF R

-----------------------------------------------------------------------------
(* The recorder and the engine, step by step.                              *)

(* A call whose loop is running: nothing is finished, nothing reported.    *)
LEMMA Running ==
    ASSUME EngineInv, RecordInv, recording, pc # "returned"
    PROVE  /\ RecOK(rec) /\ ~rec.finished /\ ~rec.exhausted /\ result = "none"
           /\ reports = << >> /\ rec.nextIndex = Sent /\ (rec.begun <=> Sent > 0)
           /\ ~body.done /\ stopped = "no" /\ bodyState = "none"
           /\ rec.hasLast => rec.begun /\ rec.last.outcome # "aborted"
           /\ Sent \in Nat
<1>1. result = "none" /\ Sent \in Nat
  BY DEF EngineInv, Counted, WireTyped, Sent
<1>2. /\ RecOK(rec) /\ rec.nextIndex = Sent /\ ~rec.exhausted /\ ~rec.finished
      /\ bodyState = "none" /\ stopped = "no" /\ ~body.done /\ reports = << >>
      /\ rec.hasLast => rec.last.outcome # "aborted"
  BY <1>1 DEF RecordInv, Numbered, LastIsTrue, FinishedBy
<1>3. /\ rec.begun <=> Sent > 0
      /\ rec.hasLast => rec.begun
  <2>1. rec.currentIndex \in Nat /\ rec.begun \in BOOLEAN
    BY <1>2 DEF RecOK, RecorderType
  <2> QED
    BY <1>1, <1>2, <2>1 DEF RecOK
<1> QED
  BY <1>1, <1>2, <1>3

(* An attempt that has not been looked at has no record yet.               *)
LEMMA InFlight ==
    ASSUME EngineInv, RecordInv, recording, Awaited
    PROVE  rec.begun /\ ~HasCurrent(rec) /\ Sent = attempt + 1
<1>1. pc # "returned" /\ Sent = attempt + 1 /\ attempt \in Nat
  BY BoundsAssumption DEF Awaited, EngineInv, Counted, TypeOK, Sent
<1>2. rec.begun
  BY <1>1, Running
<1>3. rec.hasLast => rec.last.index < rec.currentIndex
  BY DEF RecordInv, Numbered
<1>4. rec.currentIndex \in Nat /\ rec.last.index \in Int
  <2>1. rec \in RecorderType
    BY <1>1, Running DEF RecOK
  <2> QED
    BY <2>1 DEF RecorderType, Attempt
<1> QED
  BY <1>1, <1>2, <1>3, <1>4 DEF HasCurrent

(* The numbers the accounts compare.                                       *)
LEMMA Numbers ==
    ASSUME EngineInv, RecordInv, recording
    PROVE  /\ Sent \in Nat /\ baseIndex \in Nat /\ panics \in Nat
           /\ rec.recorded \in Nat /\ MovesKnown(rec) \in Nat
<1>1. rec \in RecorderType /\ panics \in Nat
  BY DEF RecordInv, RecOK, Numbered
<1>2. MovesKnown(rec) \in Nat
  BY <1>1, CountTypes
<1>3. Sent \in Nat /\ baseIndex \in Nat
  BY CallFacts DEF EngineInv, WireTyped, TypeOK, Sent
<1> QED
  BY <1>1, <1>2, <1>3 DEF RecorderType

(* The steps of the loop and of its environment that no callback sees.     *)
LEMMA UnseenStep ==
    ASSUME EngineInv, RecordInv, recording,
           UNCHANGED <<call, baseIndex, result, wire, telemetry, body, bodyState, stopped>>,
           \/ UNCHANGED <<pc, answer, answers>> /\ (ctxDone => ctxDone')
           \/ UNCHANGED <<ctxDone, answer, answers>> /\ pc = "start" /\ pc' = "top"
           \/ UNCHANGED <<ctxDone, answer, answers>> /\ pc = "sleep" /\ pc' = "top"
           \/ UNCHANGED ctxDone /\ pc = "inflight" /\ pc' = "answered"
    PROVE  RecordInv'
<1>1. /\ call' = call /\ baseIndex' = baseIndex /\ result' = result
      /\ wire' = wire /\ rec' = rec /\ panics' = panics /\ reports' = reports
      /\ body' = body /\ bodyState' = bodyState /\ stopped' = stopped
      /\ Sent' = Sent /\ recording' = recording
  BY DEF telemetry, Sent, recording, controlPlane
<1>2. RecOK(rec)'
  BY <1>1 DEF RecordInv
<1>3. Numbered'
  BY <1>1 DEF RecordInv, Numbered, Awaited
<1>4. RecordedEnough'
  BY <1>1 DEF RecordInv, RecordedEnough, Awaited
<1>5. FinishedBy'
  BY <1>1 DEF RecordInv, FinishedBy
<1>6. LastIsTrue'
  <2>1. pc = "start" => ~HasCurrent(rec) /\ wire = << >>
    <3>1. pc = "start" => Sent = 0 /\ wire = << >>
      BY DEF EngineInv, Counted, WireTyped, Sent
    <3> QED
      BY <3>1, Running DEF HasCurrent
  <2>2. LastIsTrue
    BY DEF RecordInv
  <2>3. CASE UNCHANGED <<pc, answer, answers>>
    BY <1>1, <2>2, <2>3 DEF LastIsTrue, TellsAnswer
  <2>4. CASE UNCHANGED <<ctxDone, answer, answers>> /\ pc \in {"start", "sleep"} /\ pc' = "top"
    BY <1>1, <2>1, <2>2, <2>4 DEF LastIsTrue, TellsAnswer
  <2>5. CASE UNCHANGED ctxDone /\ pc = "inflight" /\ pc' = "answered"
    BY <1>1, <2>2, <2>5 DEF LastIsTrue
  <2> QED
    BY <2>3, <2>4, <2>5
<1> QED
  BY <1>1, <1>2, <1>3, <1>4, <1>5, <1>6 DEF RecordInv

(* What the next attempt begins with.                                      *)
LEMMA SendRecord ==
    ASSUME EngineInv, RecordInv, recording, NEW p \in BOOLEAN,
           rec' = BeginAttempt(rec, hostEnum(baseIndex), p), pc = "top"
    PROVE  /\ RecOK(rec)' /\ MovesKnown(rec)' = MovesKnown(rec)
           /\ rec'.begun /\ rec'.currentIndex = Sent /\ rec'.nextIndex = Sent + 1
           /\ rec'.currentHost = IF p THEN Custom ELSE hostEnum(baseIndex)
           /\ rec'.last = rec.last /\ rec'.hasLast = rec.hasLast
           /\ rec'.recorded = rec.recorded /\ rec'.recordable = rec.recordable
           /\ rec'.failoverUsed = rec.failoverUsed
           /\ ~rec'.exhausted /\ ~rec'.finished
           /\ rec'.hasLast => rec'.last.index < rec'.currentIndex
<1>1. hostEnum(baseIndex) \in Int
  BY Numbers DEF hostEnum, Custom
<1>2. RecOK(rec) /\ ~rec.finished /\ ~rec.exhausted /\ rec.nextIndex = Sent
  BY Running
<1> QED
  BY <1>1, <1>2, BeginFacts

(* A new attempt is sent.                                                  *)
LEMMA SendRecorded ==
    ASSUME EngineInv, RecordInv, recording, Send, UNCHANGED <<body, bodyState, stopped>>
    PROVE  RecordInv'
<1>1. PICK p \in BOOLEAN :
          /\ rec' = BeginAttempt(rec, hostEnum(baseIndex), p)
          /\ panics' = IF p THEN panics + 1 ELSE panics
  BY DEF Send, Panic, Telemetry, Panicked
<1>2. /\ pc = "top" /\ pc' = "inflight" /\ call.valid
      /\ call' = call /\ baseIndex' = baseIndex /\ result' = result
      /\ ctxDone' = ctxDone /\ reports' = reports /\ recording' = recording
      /\ wire' = Append(wire, [host |-> baseIndex, key |-> WireKey])
  BY DEF Send, recording, controlPlane
<1>3. /\ RecOK(rec)' /\ MovesKnown(rec)' = MovesKnown(rec)
      /\ rec'.begun /\ rec'.currentIndex = Sent /\ rec'.nextIndex = Sent + 1
      /\ rec'.currentHost = IF p THEN Custom ELSE hostEnum(baseIndex)
      /\ rec'.last = rec.last /\ rec'.hasLast = rec.hasLast
      /\ rec'.recorded = rec.recorded /\ rec'.recordable = rec.recordable
      /\ rec'.failoverUsed = rec.failoverUsed
      /\ ~rec'.exhausted /\ ~rec'.finished
      /\ rec'.hasLast => rec'.last.index < rec'.currentIndex
  BY <1>1, <1>2, SendRecord
<1>4. /\ RecOK(rec) /\ ~rec.finished /\ result = "none" /\ reports = << >>
      /\ ~body.done /\ stopped = "no" /\ bodyState = "none"
      /\ rec.hasLast => rec.last.outcome # "aborted"
  BY <1>2, Running
<1>5. /\ Sent \in Nat /\ baseIndex \in Nat /\ panics \in Nat /\ panics' \in Nat
      /\ rec.recorded \in Nat /\ MovesKnown(rec) \in Nat
  BY <1>1, Numbers
<1>6. /\ Sent' = Sent + 1 /\ wire' # << >>
      /\ wire'[Sent'].host = baseIndex
      /\ wire'[1].host = IF wire = << >> THEN baseIndex ELSE wire[1].host
  <2>1. /\ wire \in Seq([host : Nat, key : Nat])
        /\ [host |-> baseIndex, key |-> WireKey] \in [host : Nat, key : Nat]
    BY <1>5 DEF EngineInv, WireTyped, TypeOK, WireKey, NoKey
  <2> QED
    BY <1>2, <2>1 DEF Sent
<1>7. Numbered'
  <2>1. wire = << >> => baseIndex = 0
    BY DEF EngineInv, HostKnown
  <2> QED
    BY <1>2, <1>3, <1>4, <1>5, <1>6, <2>1 DEF RecordInv, Numbered, Awaited
<1>8. RecordedEnough'
  <2>1. /\ rec.recorded + panics >= Sent /\ MovesKnown(rec) <= baseIndex
        /\ MovesKnown(rec) + panics >= baseIndex /\ rec.failoverUsed = (baseIndex > 0)
    BY <1>2 DEF RecordInv, RecordedEnough, Awaited
  <2>2. Awaited' /\ pc' # "draining" /\ result' = "none"
    BY <1>2, <1>4 DEF Awaited
  <2>3. panics' >= panics
    BY <1>1, <1>5
  <2> QED
    BY <1>2, <1>3, <1>5, <1>6, <2>1, <2>2, <2>3 DEF RecordedEnough
<1>9. LastIsTrue'
  BY <1>2, <1>3, <1>4, <1>6 DEF LastIsTrue, hostEnum
<1>10. FinishedBy'
  <2>1. FinishedBy
    BY DEF RecordInv
  <2> QED
    BY <1>2, <1>3, <1>4, <2>1 DEF FinishedBy
<1> QED
  BY <1>2, <1>3, <1>7, <1>8, <1>9, <1>10 DEF RecordInv

-----------------------------------------------------------------------------
(* The recorder after the answer to the attempt in flight has been looked  *)
(* at: it has a record of it, or a panic cost it.                          *)
Looked(s, p) ==
    /\ RecOK(s) /\ MovesKnown(s) = MovesKnown(rec)
    /\ s.begun /\ s.nextIndex = Sent /\ s.currentHost = rec.currentHost
    /\ s.recordable = rec.recordable /\ s.failoverUsed = rec.failoverUsed
    /\ ~s.finished /\ ~s.exhausted
    /\ p => s = rec /\ ~HasCurrent(s)
    /\ ~p => /\ HasCurrent(s) /\ ~s.last.moved /\ TellsAnswer(s.last, Sent)
             /\ s.recorded = rec.recorded + 1

(* A record stored for the answer at hand is one the loop may act upon.    *)
LEMMA StoredLooked ==
    ASSUME EngineInv, RecordInv, recording, pc = "answered", NEW s, AddedRecord(rec, s),
           ~s.last.moved, answer.kind = "response" \/ answer.kind = "error",
           answer.kind = "response" =>
               s.last.outcome = IF answer.status < 400 THEN "ok" ELSE "http_error",
           answer.kind = "error" => s.last.outcome \in {"transport_error", "timeout"}
    PROVE  Looked(s, FALSE)
<1>1. ~HasCurrent(rec) /\ rec.begun
  BY InFlight DEF Awaited
<1>2. ~rec.finished /\ ~rec.exhausted /\ rec.nextIndex = Sent
  BY Running
<1>3. answer = answers[Sent] /\ wire # << >>
  BY AnsweredFacts DEF Sent
<1>4. rec.currentHost \in {wire[Sent].host, Custom}
  BY <1>3 DEF RecordInv, LastIsTrue
<1>5. TellsAnswer(s.last, Sent)
  BY <1>3, <1>4 DEF TellsAnswer, AddedRecord
<1>6. /\ s.begun = rec.begun /\ s.currentIndex = rec.currentIndex /\ s.nextIndex = rec.nextIndex
      /\ s.currentHost = rec.currentHost /\ s.recordable = rec.recordable
      /\ s.failoverUsed = rec.failoverUsed /\ s.finished = rec.finished
      /\ s.exhausted = rec.exhausted
  BY DEF AddedRecord, SameButStored
<1>7. HasCurrent(s)
  BY <1>6 DEF AddedRecord, HasCurrent
<1>8. s.recorded = rec.recorded + 1
  BY <1>1 DEF AddedRecord
<1> QED
  BY <1>1, <1>2, <1>5, <1>6, <1>7, <1>8 DEF Looked, AddedRecord

(* The same when the callback panicked and stored nothing.                 *)
LEMMA LostLooked ==
    ASSUME EngineInv, RecordInv, recording, pc = "answered"
    PROVE  Looked(rec, TRUE)
BY InFlight, Running DEF Looked, Awaited

(* An error answer looked at.                                              *)
LEMMA ErrorLooked ==
    ASSUME EngineInv, RecordInv, recording, ErrorAnswer, NEW p \in BOOLEAN
    PROVE  Looked(ErrorRecorded(p), p)
<1>1. pc = "answered" /\ answer.kind = "error"
  BY DEF ErrorAnswer
<1>2. CASE p
  BY <1>1, <1>2, LostLooked DEF ErrorRecorded
<1>3. CASE ~p
  <2> DEFINE s == OnTransportError(rec, answer.err, openTimedOut, FALSE, FALSE)
  <2>1. RecOK(rec) /\ rec.begun /\ ~rec.finished /\ ~HasCurrent(rec)
    BY <1>1, Running, InFlight DEF Awaited
  <2>2. openTimedOut \in BOOLEAN
    BY DEF openTimedOut, streamOpen
  <2>3. /\ AddedRecord(rec, s) /\ ~s.last.moved
        /\ s.last.outcome \in {"transport_error", "timeout", "stream_broken"}
        /\ s.last.outcome # "stream_broken"
    BY <2>1, <2>2, ErrorFacts
  <2>4. ErrorRecorded(p) = s
    BY <1>3 DEF ErrorRecorded
  <2> HIDE DEF s
  <2> QED
    BY <1>1, <1>3, <2>3, <2>4, StoredLooked
<1> QED
  BY <1>2, <1>3

(* A response looked at.                                                   *)
LEMMA ResponseLooked ==
    ASSUME EngineInv, RecordInv, recording, ResponseAnswer, NEW p \in BOOLEAN
    PROVE  Looked(ResponseRecorded(p), p)
<1>1. pc = "answered" /\ answer.kind = "response"
  BY DEF ResponseAnswer
<1>2. CASE p
  BY <1>1, <1>2, LostLooked DEF ResponseRecorded
<1>3. CASE ~p
  <2> DEFINE s == OnResponse(rec, answer)
  <2>1. RecOK(rec) /\ rec.begun /\ ~rec.finished /\ ~HasCurrent(rec)
    BY <1>1, Running, InFlight DEF Awaited
  <2>2. answer.status \in Int
    BY <1>1, AnsweredFacts, AnswerFacts
  <2>3. /\ AddedRecord(rec, s) /\ ~s.last.moved
        /\ s.last.outcome = IF answer.status < 400 THEN "ok" ELSE "http_error"
    BY <2>1, <2>2, ResponseFacts
  <2>4. ResponseRecorded(p) = s
    BY <1>3 DEF ResponseRecorded
  <2> HIDE DEF s
  <2> QED
    BY <1>1, <1>3, <2>3, <2>4, StoredLooked
<1> QED
  BY <1>2, <1>3

(* What a looked-at answer leaves the accounts at.                         *)
LEMMA LookedCounts ==
    ASSUME EngineInv, RecordInv, recording, pc = "answered", NEW p \in BOOLEAN, NEW s,
           Looked(s, p), panics' = IF p THEN panics + 1 ELSE panics
    PROVE  /\ panics' \in Nat /\ (p => panics' > 0)
           /\ s.recorded + panics' >= Sent
           /\ MovesKnown(s) <= baseIndex /\ MovesKnown(s) + panics' >= baseIndex
           /\ ~HasCurrent(s) => MovesKnown(s) + panics' >= baseIndex + 1
           /\ HasCurrent(s) => ~s.last.moved /\ TellsAnswer(s.last, Sent)
           /\ s.failoverUsed = (baseIndex > 0)
           /\ s.hasLast => s.last.outcome # "aborted"
<1>1. /\ Sent \in Nat /\ baseIndex \in Nat /\ panics \in Nat
      /\ rec.recorded \in Nat /\ MovesKnown(rec) \in Nat
  BY Numbers
<1>2. /\ rec.recorded + panics >= Sent - 1 /\ MovesKnown(rec) <= baseIndex
      /\ MovesKnown(rec) + panics >= baseIndex /\ rec.failoverUsed = (baseIndex > 0)
  BY DEF RecordInv, RecordedEnough, Awaited
<1>3. /\ MovesKnown(s) = MovesKnown(rec) /\ s.failoverUsed = rec.failoverUsed
      /\ p => s = rec /\ ~HasCurrent(s)
      /\ ~p => /\ HasCurrent(s) /\ ~s.last.moved /\ TellsAnswer(s.last, Sent)
               /\ s.recorded = rec.recorded + 1
  BY DEF Looked
<1>4. s.hasLast => s.last.outcome # "aborted"
  <2>1. CASE p
    BY <1>3, <2>1, Running
  <2>2. CASE ~p
    <3>1. answer = answers[Sent] /\ answer.kind \in {"response", "error"}
      BY AnsweredFacts, AnswerFacts DEF Sent
    <3> QED
      BY <1>3, <2>2, <3>1 DEF TellsAnswer
  <2> QED
    BY <2>1, <2>2
<1> QED
  BY <1>1, <1>2, <1>3, <1>4

(* A response that will be retried.                                        *)
LEMMA ResponseRetriedRecorded ==
    ASSUME EngineInv, RecordInv, recording, ResponseRetried,
           UNCHANGED <<body, bodyState, stopped>>
    PROVE  RecordInv'
<1>1. PICK p \in BOOLEAN : /\ panics' = IF p THEN panics + 1 ELSE panics
                           /\ rec' = ResponseRecorded(p)
  BY DEF ResponseRetried, Panic, Panicked, Telemetry
<1>2. /\ pc = "answered" /\ pc' = "draining" /\ ResponseAnswer
      /\ call' = call /\ baseIndex' = baseIndex /\ result' = result
      /\ ctxDone' = ctxDone /\ reports' = reports /\ recording' = recording
      /\ wire' = wire /\ answers' = answers /\ Sent' = Sent
  BY DEF ResponseRetried, ResponseAnswer, recording, controlPlane, history, Sent
<1>3. Looked(rec', p)
  BY <1>1, <1>2, ResponseLooked
<1>4. /\ result = "none" /\ reports = << >> /\ ~body.done /\ stopped = "no"
      /\ bodyState = "none" /\ ~rec.finished
  BY <1>2, Running
<1>5. /\ panics' \in Nat
      /\ rec'.recorded + panics' >= Sent
      /\ MovesKnown(rec') <= baseIndex /\ MovesKnown(rec') + panics' >= baseIndex
      /\ ~HasCurrent(rec') => MovesKnown(rec') + panics' >= baseIndex + 1
      /\ HasCurrent(rec') => ~rec'.last.moved /\ TellsAnswer(rec'.last, Sent)
      /\ rec'.failoverUsed = (baseIndex > 0)
      /\ rec'.hasLast => rec'.last.outcome # "aborted"
  BY <1>1, <1>2, <1>3, LookedCounts
<1>6. /\ RecOK(rec') /\ rec'.nextIndex = Sent /\ rec'.currentHost = rec.currentHost
      /\ ~rec'.finished /\ ~rec'.exhausted
  BY <1>3 DEF Looked
<1>7. Numbered'
  BY <1>2, <1>4, <1>5, <1>6 DEF RecordInv, Numbered, Awaited
<1>8. RecordedEnough'
  BY <1>2, <1>5 DEF RecordedEnough, Awaited
<1>9. LastIsTrue'
  <2>1. HasCurrent(rec') => TellsAnswer(rec.last, Sent)'
    BY <1>2, <1>5 DEF TellsAnswer
  <2>2. wire # << >> => rec.currentHost \in {wire[Sent].host, Custom}
    BY <1>2 DEF RecordInv, LastIsTrue
  <2> QED
    BY <1>2, <1>5, <1>6, <2>1, <2>2 DEF LastIsTrue
<1>10. FinishedBy'
  <2>1. FinishedBy
    BY DEF RecordInv
  <2> QED
    BY <1>2, <1>4, <1>6, <2>1 DEF FinishedBy
<1> QED
  BY <1>2, <1>6, <1>7, <1>8, <1>9, <1>10 DEF RecordInv

(* The move to the next candidate, counted with the attempt it left.       *)
LEMMA MoveCounted ==
    ASSUME NEW s, RecOK(s), s.begun, ~s.finished, HasCurrent(s) => ~s.last.moved,
           NEW moves \in BOOLEAN, NEW base \in Nat, NEW lost \in Nat,
           MovesKnown(s) <= base, MovesKnown(s) + lost >= base,
           ~HasCurrent(s) => MovesKnown(s) + lost >= base + 1,
           s.failoverUsed = (base > 0)
    PROVE  LET m == IF moves THEN OnMoved(s) ELSE s
               b == IF moves THEN base + 1 ELSE base
           IN  /\ RecOK(m) /\ MovesKnown(m) <= b /\ MovesKnown(m) + lost >= b
               /\ m.failoverUsed = (b > 0)
               /\ HasCurrent(m) <=> HasCurrent(s)
               /\ m.hasLast = s.hasLast /\ m.recorded = s.recorded
               /\ m.last.outcome = s.last.outcome /\ m.last.host = s.last.host
               /\ m.nextIndex = s.nextIndex /\ m.currentHost = s.currentHost
               /\ m.recordable = s.recordable
               /\ m.exhausted = s.exhausted /\ m.finished = s.finished
<1>1. MovesKnown(s) \in Nat
  BY CountTypes DEF RecOK
<1>2. CASE ~moves
  BY <1>1, <1>2
<1>3. CASE moves
  <2> DEFINE m == OnMoved(s)
  <2>1. /\ RecOK(m) /\ m.failoverUsed
        /\ MovesKnown(m) = MovesKnown(s) + (IF HasCurrent(s) THEN 1 ELSE 0)
        /\ HasCurrent(m) <=> HasCurrent(s)
        /\ m.hasLast = s.hasLast /\ m.recorded = s.recorded
        /\ m.last.outcome = s.last.outcome /\ m.last.host = s.last.host
        /\ m.nextIndex = s.nextIndex /\ m.currentHost = s.currentHost
        /\ m.recordable = s.recordable
        /\ m.exhausted = s.exhausted /\ m.finished = s.finished
    BY MoveFacts
  <2> HIDE DEF m
  <2>2. MovesKnown(m) <= base + 1 /\ MovesKnown(m) + lost >= base + 1
    BY <1>1, <2>1
  <2>3. m.failoverUsed = (base + 1 > 0)
    <3>1. m.failoverUsed \in BOOLEAN
      BY <2>1 DEF RecOK, RecorderType
    <3>2. m.failoverUsed = TRUE
      BY <2>1, <3>1
    <3>3. (base + 1 > 0) = TRUE
      OBVIOUS
    <3> QED
      BY <3>2, <3>3
  <2> QED
    BY <1>3, <2>1, <2>2, <2>3 DEF m
<1> QED
  BY <1>2, <1>3

(* Between two attempts, after the move if there is one.                   *)
LEMMA AsleepRecorded ==
    ASSUME EngineInv, RecordInv, recording, pc \in {"answered", "draining"}, pc' = "sleep",
           NEW s, RecOK(s), s.begun, ~s.finished, ~s.exhausted, s.nextIndex = Sent,
           s.currentHost = rec.currentHost, panics' \in Nat, s.recorded + panics' >= Sent,
           s.failoverUsed = (baseIndex > 0),
           MovesKnown(s) <= baseIndex, MovesKnown(s) + panics' >= baseIndex,
           ~HasCurrent(s) => MovesKnown(s) + panics' >= baseIndex + 1,
           HasCurrent(s) => ~s.last.moved /\ TellsAnswer(s.last, Sent),
           s.hasLast => s.last.outcome # "aborted",
           NEW moves \in BOOLEAN, rec' = IF moves THEN OnMoved(s) ELSE s,
           baseIndex' = IF moves THEN baseIndex + 1 ELSE baseIndex,
           UNCHANGED <<call, ctxDone, answer, result, history, reports>>,
           UNCHANGED <<body, bodyState, stopped>>
    PROVE  RecordInv'
<1>1. /\ call' = call /\ result' = result /\ wire' = wire /\ answers' = answers
      /\ Sent' = Sent /\ reports' = reports /\ ctxDone' = ctxDone /\ recording' = recording
  BY DEF history, Sent, recording, controlPlane
<1>2. Sent \in Nat /\ baseIndex \in Nat
  BY Numbers
<1>3. /\ result = "none" /\ reports = << >> /\ ~body.done /\ stopped = "no"
      /\ bodyState = "none"
  BY Running
<1>4. /\ RecOK(rec') /\ MovesKnown(rec') <= baseIndex' /\ MovesKnown(rec') + panics' >= baseIndex'
      /\ rec'.failoverUsed = (baseIndex' > 0)
      /\ HasCurrent(rec') <=> HasCurrent(s)
      /\ rec'.hasLast = s.hasLast /\ rec'.recorded = s.recorded
      /\ rec'.last.outcome = s.last.outcome /\ rec'.last.host = s.last.host
      /\ rec'.nextIndex = s.nextIndex /\ rec'.currentHost = s.currentHost
      /\ rec'.exhausted = s.exhausted /\ rec'.finished = s.finished
  BY <1>2, MoveCounted
<1>5. Numbered'
  BY <1>1, <1>3, <1>4 DEF RecordInv, Numbered, Awaited
<1>6. RecordedEnough'
  BY <1>1, <1>3, <1>4 DEF RecordedEnough, Awaited
<1>7. LastIsTrue'
  <2>1. HasCurrent(rec') => TellsAnswer(rec.last, Sent)'
    BY <1>1, <1>4 DEF TellsAnswer
  <2>2. wire # << >> => rec.currentHost \in {wire[Sent].host, Custom}
    BY DEF RecordInv, LastIsTrue
  <2> QED
    BY <1>1, <1>4, <2>1, <2>2 DEF LastIsTrue
<1>8. FinishedBy'
  <2>1. FinishedBy
    BY DEF RecordInv
  <2> QED
    BY <1>1, <1>3, <1>4, <2>1 DEF FinishedBy
<1> QED
  BY <1>1, <1>4, <1>5, <1>6, <1>7, <1>8 DEF RecordInv

(* A retried transport error.                                              *)
LEMMA ErrorRetriesRecorded ==
    ASSUME EngineInv, RecordInv, recording, ErrorRetries,
           UNCHANGED <<body, bodyState, stopped>>
    PROVE  RecordInv'
<1>1. PICK p \in BOOLEAN :
          /\ panics' = IF p THEN panics + 1 ELSE panics
          /\ rec' = IF MovesAfterError THEN OnMoved(ErrorRecorded(p)) ELSE ErrorRecorded(p)
  BY DEF ErrorRetries, Panic, Panicked, Telemetry
<1>2. /\ pc = "answered" /\ pc' = "sleep" /\ ErrorAnswer
      /\ baseIndex' = IF MovesAfterError THEN baseIndex + 1 ELSE baseIndex
      /\ UNCHANGED <<call, ctxDone, answer, result, history, reports>>
  BY DEF ErrorRetries, ErrorAnswer
<1> DEFINE s == ErrorRecorded(p)
<1>3. Looked(s, p)
  BY <1>2, ErrorLooked
<1>4. MovesAfterError \in BOOLEAN
  BY CallFacts DEF MovesAfterError, CanMove, EngineInv, TypeOK
<1> HIDE DEF s
<1>5. /\ panics' \in Nat
      /\ s.recorded + panics' >= Sent
      /\ MovesKnown(s) <= baseIndex /\ MovesKnown(s) + panics' >= baseIndex
      /\ ~HasCurrent(s) => MovesKnown(s) + panics' >= baseIndex + 1
      /\ HasCurrent(s) => ~s.last.moved /\ TellsAnswer(s.last, Sent)
      /\ s.failoverUsed = (baseIndex > 0)
      /\ s.hasLast => s.last.outcome # "aborted"
  BY <1>1, <1>2, <1>3, LookedCounts
<1>6. /\ RecOK(s) /\ s.begun /\ s.nextIndex = Sent /\ s.currentHost = rec.currentHost
      /\ ~s.finished /\ ~s.exhausted
  BY <1>3 DEF Looked
<1>7. rec' = IF MovesAfterError THEN OnMoved(s) ELSE s
  BY <1>1 DEF s
<1> QED
  BY <1>2, <1>4, <1>5, <1>6, <1>7, AsleepRecorded

(* A drained response.                                                     *)
LEMMA DrainedRecorded ==
    ASSUME EngineInv, RecordInv, recording, Drained, UNCHANGED <<body, bodyState, stopped>>
    PROVE  RecordInv'
<1>1. /\ pc = "draining" /\ pc' = "sleep" /\ panics' = panics
      /\ rec' = IF MovesAfterResponse THEN OnMoved(rec) ELSE rec
      /\ baseIndex' = IF MovesAfterResponse THEN baseIndex + 1 ELSE baseIndex
      /\ UNCHANGED <<call, ctxDone, answer, result, history, reports>>
  BY DEF Drained, Telemetry
<1>2. MovesAfterResponse \in BOOLEAN
  BY CallFacts DEF MovesAfterResponse, CanMove, EngineInv, TypeOK, regionalFailoverable
<1>3. /\ RecOK(rec) /\ rec.begun /\ rec.nextIndex = Sent
      /\ ~rec.finished /\ ~rec.exhausted /\ (rec.hasLast => rec.last.outcome # "aborted")
  <2>1. Sent > 0
    BY <1>1, BoundsAssumption DEF EngineInv, Counted, TypeOK, Sent
  <2> QED
    BY <1>1, <2>1, Running
<1>4. /\ panics' \in Nat
      /\ rec.recorded + panics' >= Sent
      /\ MovesKnown(rec) <= baseIndex /\ MovesKnown(rec) + panics' >= baseIndex
      /\ ~HasCurrent(rec) => MovesKnown(rec) + panics' >= baseIndex + 1
      /\ HasCurrent(rec) => ~rec.last.moved /\ TellsAnswer(rec.last, Sent)
      /\ rec.failoverUsed = (baseIndex > 0)
  BY <1>1, Numbers DEF RecordInv, RecordedEnough, LastIsTrue, Awaited
<1> QED
  BY <1>1, <1>2, <1>3, <1>4, AsleepRecorded

-----------------------------------------------------------------------------
(* The call is finished, by whoever comes first: one report, or none when  *)
(* there is nothing to report or it was reported before.                   *)
LEMMA FinishReports ==
    ASSUME RecordInv, recording, NEW s, RecOK(s),
           s = rec \/ (~s.finished /\ ~rec.finished),
           rec' = Finish(s), reports' = reports \o Reported(s)
    PROVE  /\ RecOK(rec') /\ rec'.finished /\ SameButFinished(s, rec')
           /\ MovesKnown(rec') = MovesKnown(s)
           /\ rec'.recordable => ~Loose(rec')
           /\ reports' = IF rec'.recordable /\ rec'.hasLast
                         THEN << ReportOf(rec') >> ELSE << >>
<1>1. /\ reports = IF rec.finished /\ rec.recordable /\ rec.hasLast
                   THEN << ReportOf(rec) >> ELSE << >>
      /\ rec.finished /\ rec.recordable => ~Loose(rec)
  BY DEF RecordInv, FinishedBy
<1>2. s.finished /\ s.recordable => ~Loose(s)
  BY <1>1
<1>3. /\ RecOK(rec') /\ rec'.finished /\ SameButFinished(s, rec')
      /\ MovesKnown(rec') = MovesKnown(s)
      /\ rec'.recordable => ~Loose(rec')
      /\ Reported(s) = IF ~s.finished /\ rec'.recordable /\ rec'.hasLast
                       THEN << ReportOf(rec') >> ELSE << >>
      /\ s.finished => rec' = s
  BY <1>2, FinishFacts
<1>4. CASE s.finished
  <2>1. s = rec /\ rec' = rec /\ Reported(s) = << >>
    BY <1>3, <1>4
  <2>2. reports' = reports
    <3> DEFINE R == {ReportOf(rec)}
    <3>1. << ReportOf(rec) >> \in Seq(R) /\ << >> \in Seq(R)
      OBVIOUS
    <3> HIDE DEF R
    <3>2. reports \in Seq(R)
      BY <1>1, <3>1
    <3> QED
      BY <2>1, <3>2, ConcatEmptySeq
  <2> QED
    BY <1>1, <1>3, <1>4, <2>1, <2>2
<1>5. CASE ~s.finished
  <2>1. reports = << >>
    BY <1>1, <1>5
  <2> DEFINE R == {ReportOf(rec')}
  <2>2. Reported(s) \in Seq(R)
    <3>1. << ReportOf(rec') >> \in Seq(R) /\ << >> \in Seq(R)
      OBVIOUS
    <3> HIDE DEF R
    <3> QED
      BY <1>3, <3>1
  <2> HIDE DEF R
  <2>3. reports' = Reported(s)
    BY <2>1, <2>2, ConcatEmptySeq
  <2> QED
    BY <1>3, <1>5, <2>3
<1> QED
  BY <1>4, <1>5

(* do() returns an error: the call is finished there.                      *)
LEMMA EndedRecorded ==
    ASSUME EngineInv, RecordInv, recording, pc # "returned", pc' = "returned",
           result' \in {"transportError", "contextError", "requestError"},
           NEW s, RecOK(s), ~s.finished, s.failoverUsed = (baseIndex > 0),
           panics' \in Nat, s.recorded + panics' >= Sent,
           MovesKnown(s) <= baseIndex, MovesKnown(s) + panics' >= baseIndex,
           result' # "requestError" => s.nextIndex = Sent,
           result' = "requestError" => ~s.hasLast,
           s.hasLast /\ s.last.outcome = "aborted" => ctxDone,
           s.hasLast /\ s.last.outcome = "ok" => panics' > 0,
           s.exhausted => /\ Sent = MaxRetries + 1 /\ Sent > 1
                          /\ \A j \in 1..Sent : PermitsRetry(answers[j]),
           rec' = Finish(s), reports' = reports \o Reported(s),
           UNCHANGED <<call, baseIndex, ctxDone, answer, history>>,
           UNCHANGED <<body, bodyState, stopped>>
    PROVE  RecordInv'
<1>1. /\ call' = call /\ baseIndex' = baseIndex /\ ctxDone' = ctxDone /\ answer' = answer
      /\ wire' = wire /\ answers' = answers /\ Sent' = Sent /\ recording' = recording
  BY DEF history, Sent, recording, controlPlane
<1>2. /\ result = "none" /\ ~body.done /\ stopped = "no"
      /\ bodyState = "none" /\ ~rec.finished
  BY Running
<1>3. /\ RecOK(rec') /\ rec'.finished /\ SameButFinished(s, rec')
      /\ MovesKnown(rec') = MovesKnown(s)
      /\ rec'.recordable => ~Loose(rec')
      /\ reports' = IF rec'.recordable /\ rec'.hasLast
                    THEN << ReportOf(rec') >> ELSE << >>
  BY <1>2, FinishReports
<1>4. /\ rec'.nextIndex = s.nextIndex /\ rec'.hasLast = s.hasLast /\ rec'.last = s.last
      /\ rec'.recorded = s.recorded /\ rec'.failoverUsed = s.failoverUsed
      /\ rec'.exhausted = s.exhausted
  BY <1>3 DEF SameButFinished
<1>5. Numbered'
  BY <1>1, <1>4 DEF RecordInv, Numbered, Awaited
<1>6. RecordedEnough'
  BY <1>1, <1>3, <1>4 DEF RecordedEnough, Awaited
<1>7. LastIsTrue'
  BY <1>1, <1>4 DEF LastIsTrue
<1>8. FinishedBy'
  <2>1. FinishedBy
    BY DEF RecordInv
  <2> QED
    BY <1>1, <1>2, <1>3, <1>4, <2>1 DEF FinishedBy
<1> QED
  BY <1>1, <1>3, <1>5, <1>6, <1>7, <1>8 DEF RecordInv

(* The abort record of a running call.                                     *)
LEMMA AbortRecord ==
    ASSUME EngineInv, RecordInv, recording, pc # "returned"
    PROVE  LET s == OnAborted(rec)
           IN  /\ RecOK(s) /\ ~s.finished /\ ~s.exhausted /\ s.nextIndex = Sent
               /\ s.hasLast => s.last.outcome = "aborted"
               /\ s.recorded + panics >= Sent
               /\ MovesKnown(s) <= baseIndex /\ MovesKnown(s) + panics >= baseIndex
               /\ s.failoverUsed = (baseIndex > 0)
<1> DEFINE s == OnAborted(rec)
<1>1. /\ RecOK(rec) /\ ~rec.finished /\ ~rec.exhausted /\ rec.nextIndex = Sent
      /\ (rec.begun <=> Sent > 0) /\ (rec.hasLast => rec.begun)
  BY Running
<1>2. /\ Sent \in Nat /\ baseIndex \in Nat /\ panics \in Nat
      /\ rec.recorded \in Nat /\ MovesKnown(rec) \in Nat
  BY Numbers
<1>3. /\ rec.recorded + panics >= IF Awaited THEN Sent - 1 ELSE Sent
      /\ MovesKnown(rec) <= baseIndex /\ MovesKnown(rec) + panics >= baseIndex
      /\ rec.failoverUsed = (baseIndex > 0)
  BY DEF RecordInv, RecordedEnough
<1>4. Awaited => rec.begun /\ ~HasCurrent(rec)
  BY InFlight
<1>5. CASE ~rec.begun
  <2>1. s = rec
    BY <1>5 DEF OnAborted
  <2> QED
    BY <1>1, <1>3, <1>4, <1>5, <2>1
<1>6. CASE rec.begun
  <2>1. AddedRecord(rec, s) /\ s.last.outcome = "aborted"
    BY <1>1, <1>6, AbortFacts
  <2> HIDE DEF s
  <2>2. /\ RecOK(s) /\ MovesKnown(s) = MovesKnown(rec)
        /\ s.recorded = rec.recorded + (IF HasCurrent(rec) THEN 0 ELSE 1)
        /\ s.finished = rec.finished /\ s.exhausted = rec.exhausted
        /\ s.nextIndex = rec.nextIndex /\ s.failoverUsed = rec.failoverUsed
    BY <2>1 DEF AddedRecord, SameButStored
  <2>3. s.recorded + panics >= Sent
    BY <1>2, <1>3, <1>4, <2>2
  <2> QED
    BY <1>1, <1>3, <2>1, <2>2, <2>3 DEF s
<1> QED
  BY <1>5, <1>6

(* The caller's context has ended.                                         *)
LEMMA AbortRecorded ==
    ASSUME EngineInv, RecordInv, recording, Abort \/ ErrorAborts,
           UNCHANGED <<body, bodyState, stopped>>
    PROVE  RecordInv'
<1>1. /\ pc # "returned" /\ pc' = "returned" /\ result' = "contextError" /\ ctxDone
      /\ rec' = Finish(OnAborted(rec)) /\ reports' = reports \o Reported(OnAborted(rec))
      /\ panics' = panics
      /\ UNCHANGED <<call, baseIndex, ctxDone, answer, history>>
  BY DEF Abort, ErrorAborts, ErrorAnswer, TelemetryFinish, Telemetry
<1> DEFINE s == OnAborted(rec)
<1>2. /\ RecOK(s) /\ ~s.finished /\ ~s.exhausted /\ s.nextIndex = Sent
      /\ s.hasLast => s.last.outcome = "aborted"
      /\ s.recorded + panics >= Sent
      /\ MovesKnown(s) <= baseIndex /\ MovesKnown(s) + panics >= baseIndex
      /\ s.failoverUsed = (baseIndex > 0)
  BY <1>1, AbortRecord
<1>3. rec' = Finish(s) /\ reports' = reports \o Reported(s) /\ panics' \in Nat
  BY <1>1, Numbers
<1> HIDE DEF s
<1> QED
  BY <1>1, <1>2, <1>3, EndedRecorded

(* The request cannot be assembled.                                        *)
LEMMA RequestErrorRecorded ==
    ASSUME EngineInv, RecordInv, recording, RequestError, UNCHANGED <<body, bodyState, stopped>>
    PROVE  RecordInv'
<1>1. PICK p \in BOOLEAN :
          /\ panics' = IF p THEN panics + 1 ELSE panics
          /\ rec' = Finish(BeginAttempt(rec, hostEnum(baseIndex), p))
          /\ reports' = reports \o Reported(BeginAttempt(rec, hostEnum(baseIndex), p))
  BY DEF RequestError, TelemetryFinish, Telemetry, Panic, Panicked
<1>2. /\ pc = "top" /\ pc' = "returned" /\ result' = "requestError" /\ ~call.valid
      /\ UNCHANGED <<call, baseIndex, ctxDone, answer, history>>
  BY DEF RequestError
<1> DEFINE s == BeginAttempt(rec, hostEnum(baseIndex), p)
<1>3. /\ RecOK(rec) /\ ~rec.finished /\ ~rec.exhausted /\ Sent = 0 /\ ~rec.hasLast
  <2>1. wire = << >>
    BY <1>2 DEF RecordInv, Numbered
  <2> QED
    BY <1>2, <2>1, Running DEF Sent
<1>4. /\ Sent \in Nat /\ baseIndex \in Nat /\ panics \in Nat /\ panics' \in Nat
      /\ panics' >= panics /\ rec.recorded \in Nat /\ MovesKnown(rec) \in Nat
  BY <1>1, Numbers
<1>5. hostEnum(baseIndex) \in Int
  BY <1>4 DEF hostEnum, Custom
<1>6. /\ RecOK(s) /\ MovesKnown(s) = MovesKnown(rec) /\ s.hasLast = rec.hasLast
      /\ s.recorded = rec.recorded /\ s.failoverUsed = rec.failoverUsed
      /\ s.exhausted = rec.exhausted /\ s.finished = rec.finished
  BY <1>3, <1>5, BeginFacts
<1>7. rec' = Finish(s) /\ reports' = reports \o Reported(s)
  BY <1>1
<1> HIDE DEF s
<1>8. /\ MovesKnown(rec) <= baseIndex /\ MovesKnown(rec) + panics >= baseIndex
      /\ rec.failoverUsed = (baseIndex > 0)
  BY DEF RecordInv, RecordedEnough
<1>9. /\ MovesKnown(s) <= baseIndex /\ MovesKnown(s) + panics' >= baseIndex
      /\ s.recorded + panics' >= Sent
  BY <1>3, <1>4, <1>6, <1>8
<1> QED
  BY <1>2, <1>3, <1>4, <1>6, <1>7, <1>8, <1>9, EndedRecorded

(* Marking changes nothing but the mark.                                   *)
LEMMA MarkFacts ==
    ASSUME NEW s, RecOK(s), NEW spent \in BOOLEAN
    PROVE  LET m == MarkExhausted(s, spent)
           IN  /\ RecOK(m) /\ MovesKnown(m) = MovesKnown(s) /\ m.exhausted = spent
               /\ HasCurrent(m) <=> HasCurrent(s)
               /\ SameRecords(s, m) /\ m.recordable = s.recordable
               /\ m.currentHost = s.currentHost /\ m.failoverUsed = s.failoverUsed
               /\ m.finished = s.finished
<1> DEFINE m == MarkExhausted(s, spent)
<1>1. /\ m \in RecorderType /\ SameRecords(s, m) /\ m.exhausted = spent
      /\ m.recordable = s.recordable /\ m.currentHost = s.currentHost
      /\ m.failoverUsed = s.failoverUsed /\ m.finished = s.finished
  BY DEF MarkExhausted, RecOK, RecorderType, SameRecords
<1> HIDE DEF m
<1>2. RecOK(m) /\ MovesKnown(m) = MovesKnown(s) /\ (HasCurrent(m) <=> HasCurrent(s))
  BY <1>1, SideChange
<1> QED
  BY <1>1, <1>2 DEF m

(* The whole budget went to answers that permitted a retry.                *)
LEMMA BudgetWasSpent ==
    ASSUME EngineInv, pc = "answered", BudgetSpent(attempt), attempt > 0, PermitsRetry(answer)
    PROVE  /\ Sent = MaxRetries + 1 /\ Sent > 1
           /\ \A j \in 1..Sent : PermitsRetry(answers[j])
<1>1. Sent = attempt + 1 /\ answer = answers[Sent] /\ attempt \in Nat
  BY AnsweredFacts, BoundsAssumption DEF EngineInv, TypeOK, Sent
<1>2. attempt = MaxRetries
  BY <1>1, BoundsAssumption DEF EngineInv, TypeOK, BudgetSpent
<1>3. \A j \in 1..(Sent - 1) : PermitsRetry(answers[j])
  BY DEF EngineInv, RetriesArePermitted, Sent
<1> QED
  BY <1>1, <1>2, <1>3

(* A surfaced transport error.                                             *)
LEMMA ErrorGivesUpRecorded ==
    ASSUME EngineInv, RecordInv, recording, ErrorGivesUp, UNCHANGED <<body, bodyState, stopped>>
    PROVE  RecordInv'
<1> DEFINE spent == attempt > 0 /\ replaySafe
<1>1. PICK p \in BOOLEAN :
          /\ panics' = IF p THEN panics + 1 ELSE panics
          /\ rec' = Finish(MarkExhausted(ErrorRecorded(p), spent))
          /\ reports' = reports \o Reported(MarkExhausted(ErrorRecorded(p), spent))
  BY DEF ErrorGivesUp, Panic, Panicked, TelemetryFinish, Telemetry
<1>2. /\ pc = "answered" /\ pc' = "returned" /\ result' = "transportError" /\ ErrorAnswer
      /\ answer.kind = "error" /\ (BudgetSpent(attempt) \/ ~replaySafe)
      /\ UNCHANGED <<call, baseIndex, ctxDone, answer, history>>
  BY DEF ErrorGivesUp, ErrorAnswer
<1>3. spent \in BOOLEAN
  BY DEF replaySafe, requestReplaySafe
<1>4. spent => /\ Sent = MaxRetries + 1 /\ Sent > 1
               /\ \A j \in 1..Sent : PermitsRetry(answers[j])
  BY <1>2, BudgetWasSpent DEF PermitsRetry
<1> DEFINE l == ErrorRecorded(p)
           s == MarkExhausted(l, spent)
<1>5. Looked(l, p)
  BY <1>2, ErrorLooked
<1> HIDE DEF l, spent
<1>6. /\ panics' \in Nat /\ (p => panics' > 0)
      /\ l.recorded + panics' >= Sent
      /\ MovesKnown(l) <= baseIndex /\ MovesKnown(l) + panics' >= baseIndex
      /\ HasCurrent(l) => ~l.last.moved /\ TellsAnswer(l.last, Sent)
      /\ l.failoverUsed = (baseIndex > 0)
      /\ l.hasLast => l.last.outcome # "aborted"
  BY <1>1, <1>2, <1>5, LookedCounts
<1>7. RecOK(l) /\ l.nextIndex = Sent /\ ~l.finished /\ (~p => HasCurrent(l))
  BY <1>5 DEF Looked
<1>8. ~p => l.last.outcome # "ok"
  <2>1. answer = answers[Sent]
    BY <1>2, AnsweredFacts DEF Sent
  <2> QED
    BY <1>2, <1>6, <1>7, <2>1 DEF TellsAnswer
<1>9. /\ RecOK(s) /\ MovesKnown(s) = MovesKnown(l) /\ s.exhausted = spent
      /\ SameRecords(l, s) /\ s.failoverUsed = l.failoverUsed /\ s.finished = l.finished
  BY <1>3, <1>7, MarkFacts
<1>10. rec' = Finish(s) /\ reports' = reports \o Reported(s)
  BY <1>1 DEF l
<1> HIDE DEF s
<1>11. /\ s.last = l.last /\ s.hasLast = l.hasLast /\ s.recorded = l.recorded
       /\ s.nextIndex = l.nextIndex
  BY <1>9 DEF SameRecords
<1>12. s.exhausted => /\ Sent = MaxRetries + 1 /\ Sent > 1
                      /\ \A j \in 1..Sent : PermitsRetry(answers[j])
  BY <1>4, <1>9
<1>13. /\ s.hasLast /\ s.last.outcome = "ok" => panics' > 0
       /\ s.hasLast => s.last.outcome # "aborted"
       /\ s.recorded + panics' >= Sent /\ ~s.finished /\ s.nextIndex = Sent
       /\ MovesKnown(s) <= baseIndex /\ MovesKnown(s) + panics' >= baseIndex
       /\ s.failoverUsed = (baseIndex > 0)
  BY <1>6, <1>7, <1>8, <1>9, <1>11
<1> QED
  BY <1>2, <1>6, <1>9, <1>10, <1>12, <1>13, EndedRecorded

(* A returned response: the call goes on in its body.                      *)
LEMMA ResponseReturnedRecorded ==
    ASSUME EngineInv, RecordInv, recording, ResponseReturned,
           bodyState' = "open", UNCHANGED <<body, stopped>>
    PROVE  RecordInv'
<1> DEFINE spent == attempt > 0 /\ canRetry
<1>1. PICK p \in BOOLEAN :
          /\ panics' = IF p THEN panics + 1 ELSE panics
          /\ rec' = MarkExhausted(ResponseRecorded(p), spent)
  BY DEF ResponseReturned, Panic, Panicked, Telemetry
<1>2. /\ pc = "answered" /\ pc' = "returned" /\ result' = "response" /\ ResponseAnswer
      /\ answer.kind = "response" /\ (BudgetSpent(attempt) \/ ~canRetry)
      /\ call' = call /\ baseIndex' = baseIndex /\ ctxDone' = ctxDone /\ answer' = answer
      /\ wire' = wire /\ answers' = answers /\ Sent' = Sent /\ reports' = reports
      /\ recording' = recording
  BY DEF ResponseReturned, ResponseAnswer, history, Sent, recording, controlPlane
<1>3. spent \in BOOLEAN
  BY DEF canRetry, replaySafe, requestReplaySafe, retryable
<1>4. answer = answers[Sent] /\ answer \in Answers /\ Sent > 0
  BY <1>2, AnsweredFacts, BoundsAssumption DEF Sent, EngineInv, TypeOK
<1>5. spent => /\ Sent = MaxRetries + 1 /\ Sent > 1
               /\ \A j \in 1..Sent : PermitsRetry(answers[j])
  <2>1. canRetry => PermitsRetry(answer)
    BY <1>2, <1>4, DecisionsPermitted DEF canRetry
  <2> QED
    BY <1>2, <2>1, BudgetWasSpent
<1> DEFINE l == ResponseRecorded(p)
<1>6. Looked(l, p)
  BY <1>2, ResponseLooked
<1> HIDE DEF l, spent
<1>7. /\ panics' \in Nat /\ (p => panics' > 0)
      /\ l.recorded + panics' >= Sent
      /\ MovesKnown(l) <= baseIndex /\ MovesKnown(l) + panics' >= baseIndex
      /\ HasCurrent(l) => ~l.last.moved /\ TellsAnswer(l.last, Sent)
      /\ l.failoverUsed = (baseIndex > 0)
      /\ l.hasLast => l.last.outcome # "aborted"
  BY <1>1, <1>2, <1>6, LookedCounts
<1>8. RecOK(l) /\ l.nextIndex = Sent /\ ~l.finished /\ (~p => HasCurrent(l))
  BY <1>6 DEF Looked
<1>9. /\ RecOK(rec') /\ MovesKnown(rec') = MovesKnown(l) /\ rec'.exhausted = spent
      /\ HasCurrent(rec') <=> HasCurrent(l)
      /\ SameRecords(l, rec') /\ rec'.failoverUsed = l.failoverUsed
      /\ rec'.finished = l.finished
  BY <1>1, <1>3, <1>8, MarkFacts DEF l
<1>10. /\ rec'.last = l.last /\ rec'.hasLast = l.hasLast /\ rec'.recorded = l.recorded
       /\ rec'.nextIndex = l.nextIndex
  BY <1>9 DEF SameRecords
<1>11. ~p /\ l.last.outcome = "ok" => answer.status < 400
  BY <1>2, <1>4, <1>7, <1>8 DEF TellsAnswer
<1>12. /\ result = "none" /\ ~body.done /\ stopped = "no" /\ reports = << >>
       /\ bodyState = "none"
  BY <1>2, Running
<1>13. Numbered'
  BY <1>2, <1>4, <1>7, <1>8, <1>10 DEF RecordInv, Numbered, Awaited
<1>14. RecordedEnough'
  BY <1>2, <1>7, <1>9, <1>10 DEF RecordedEnough, Awaited
<1>15. LastIsTrue'
  <2>1. rec'.exhausted => /\ Sent' = MaxRetries + 1 /\ Sent' > 1
                          /\ \A j \in 1..Sent' : PermitsRetry(answers[j])'
    BY <1>2, <1>5, <1>9
  <2>2. rec'.hasLast /\ rec'.last.outcome = "ok" /\ panics' = 0 => answer.status < 400
    BY <1>7, <1>10, <1>11
  <2> QED
    BY <1>2, <1>7, <1>10, <2>1, <2>2 DEF LastIsTrue
<1>16. FinishedBy'
  <2>1. FinishedBy
    BY DEF RecordInv
  <2> QED
    BY <1>2, <1>8, <1>9, <1>12, <2>1 DEF FinishedBy
<1> QED
  BY <1>2, <1>9, <1>13, <1>14, <1>15, <1>16 DEF RecordInv

-----------------------------------------------------------------------------
(* The body: reader, closer and consumer.                                  *)

(* A call whose response the caller holds.                                 *)
LEMMA InBody ==
    ASSUME EngineInv, RecordInv, recording, bodyState \in {"open", "closing"}
    PROVE  /\ RecOK(rec) /\ rec.begun /\ pc = "returned" /\ result = "response"
           /\ (HasCurrent(rec) => ~rec.last.moved) /\ (rec.finished => body.done)
           /\ (stopped # "no" => body.done) /\ rec.nextIndex = Sent
<1>1. /\ result = "response" /\ (rec.finished => body.done) /\ RecOK(rec)
      /\ (stopped # "no" => body.done)
  BY DEF RecordInv, FinishedBy
<1>2. pc = "returned" /\ Sent > 0 /\ rec.nextIndex = Sent /\ Sent \in Nat
  BY <1>1, Numbers DEF EngineInv, Counted, RecordInv, Numbered
<1>3. rec.begun
  BY <1>1, <1>2 DEF RecOK
<1>4. HasCurrent(rec) => ~rec.last.moved
  BY <1>1 DEF RecordInv, RecordedEnough
<1> QED
  BY <1>1, <1>2, <1>3, <1>4

(* What the recorder of a returned response still has to say truly.        *)
BodyAccount(r) ==
    /\ RecOK(r) /\ r.nextIndex = Sent /\ r.recorded + panics >= Sent
    /\ MovesKnown(r) <= baseIndex /\ MovesKnown(r) + panics >= baseIndex
    /\ r.failoverUsed = (baseIndex > 0)
    /\ HasCurrent(r) => ~r.last.moved
    /\ r.exhausted = rec.exhausted

(* A record the body adds: how the attempt ended after its headers.        *)
LEMMA BodyRecord ==
    ASSUME EngineInv, RecordInv, recording, bodyState \in {"open", "closing"}, ~body.done,
           NEW s, AddedRecord(rec, s), ~s.last.moved
    PROVE  BodyAccount(s) /\ ~s.finished /\ s.hasLast
<1>1. ~rec.finished /\ rec.nextIndex = Sent /\ pc = "returned"
  BY InBody
<1>2. /\ rec.recorded + panics >= Sent
      /\ MovesKnown(rec) <= baseIndex /\ MovesKnown(rec) + panics >= baseIndex
      /\ rec.failoverUsed = (baseIndex > 0)
  BY <1>1 DEF RecordInv, RecordedEnough, Awaited
<1>3. /\ RecOK(s) /\ MovesKnown(s) = MovesKnown(rec) /\ s.hasLast
      /\ s.recorded = rec.recorded + (IF HasCurrent(rec) THEN 0 ELSE 1)
      /\ s.finished = rec.finished /\ s.nextIndex = rec.nextIndex
      /\ s.failoverUsed = rec.failoverUsed /\ s.exhausted = rec.exhausted
  BY DEF AddedRecord, SameButStored
<1>4. s.recorded + panics >= Sent
  BY <1>2, <1>3, Numbers
<1> QED
  BY <1>1, <1>2, <1>3, <1>4 DEF BodyAccount

(* A step of the body leaves the invariant true if the recorder it leaves  *)
(* is a true account of the call.                                          *)
LEMMA BodyStepRecorded ==
    ASSUME EngineInv, RecordInv, recording, UNCHANGED bodyOnly,
           bodyState \in {"open", "closing"}, bodyState' \in {"open", "closing", "closed"},
           body' \in [started : BOOLEAN, sawEOF : BOOLEAN, done : BOOLEAN],
           body.done => body'.done,
           stopped' = stopped \/ (stopped' \in {"first", "late"} /\ stopped = "no" /\ body'.done),
           BodyAccount(rec'),
           rec'.hasLast /\ rec'.last.outcome = "aborted" => ctxDone \/ stopped' # "no",
           rec'.hasLast /\ rec'.last.outcome = "ok" => rec.hasLast /\ rec.last.outcome = "ok",
           stopped' = "first" => rec'.hasLast /\ rec'.last.outcome = "aborted",
           rec'.finished => body'.done, bodyState' = "closed" => rec'.finished,
           reports' = IF rec'.finished /\ rec'.recordable /\ rec'.hasLast
                      THEN << ReportOf(rec') >> ELSE << >>,
           rec'.finished /\ rec'.recordable => ~Loose(rec')
    PROVE  RecordInv'
<1>1. /\ call' = call /\ pc' = pc /\ baseIndex' = baseIndex /\ ctxDone' = ctxDone
      /\ answer' = answer /\ result' = result /\ wire' = wire /\ answers' = answers
      /\ panics' = panics /\ Sent' = Sent /\ recording' = recording
  BY DEF bodyOnly, engine, history, Sent, recording, controlPlane
<1>2. pc = "returned" /\ result = "response" /\ (stopped # "no" => body.done)
  BY InBody
<1>3. Numbered'
  BY <1>1, <1>2 DEF RecordInv, Numbered, Awaited, BodyAccount
<1>4. RecordedEnough'
  BY <1>1, <1>2 DEF RecordedEnough, Awaited, BodyAccount
<1>5. LastIsTrue'
  BY <1>1, <1>2 DEF RecordInv, LastIsTrue, BodyAccount
<1>6. FinishedBy'
  <2>1. stopped \in {"no", "first", "late"}
    BY DEF RecordInv, FinishedBy
  <2> QED
    BY <1>1, <1>2, <2>1 DEF FinishedBy
<1> QED
  BY <1>1, <1>3, <1>4, <1>5, <1>6 DEF RecordInv, BodyAccount

(* What the recorder already is, when a step leaves it alone.              *)
LEMMA BodyNow ==
    ASSUME EngineInv, RecordInv, recording, bodyState \in {"open", "closing"}
    PROVE  /\ BodyAccount(rec)
           /\ rec.hasLast /\ rec.last.outcome = "aborted" => ctxDone \/ stopped # "no"
           /\ stopped = "first" => rec.hasLast /\ rec.last.outcome = "aborted"
           /\ rec.finished => body.done
           /\ reports = IF rec.finished /\ rec.recordable /\ rec.hasLast
                        THEN << ReportOf(rec) >> ELSE << >>
           /\ rec.finished /\ rec.recordable => ~Loose(rec)
           /\ body \in [started : BOOLEAN, sawEOF : BOOLEAN, done : BOOLEAN]
<1>1. pc = "returned" /\ result = "response" /\ rec.nextIndex = Sent
  BY InBody
<1> QED
  BY <1>1 DEF RecordInv, RecordedEnough, LastIsTrue, FinishedBy, Awaited, BodyAccount

(* A read that ends, and a Close that begins.                              *)
LEMMA ReadEOFRecorded ==
    ASSUME EngineInv, RecordInv, recording, ReadEOF \/ CloseStarts
    PROVE  RecordInv'
<1>1. /\ bodyState = "open" /\ bodyState' \in {"open", "closing"} /\ stopped' = stopped
      /\ rec' = rec /\ reports' = reports /\ UNCHANGED bodyOnly
      /\ body' = [body EXCEPT !.sawEOF = TRUE] \/ body' = body
  BY DEF ReadEOF, CloseStarts
<1>2. /\ BodyAccount(rec)
      /\ rec.hasLast /\ rec.last.outcome = "aborted" => ctxDone \/ stopped # "no"
      /\ stopped = "first" => rec.hasLast /\ rec.last.outcome = "aborted"
      /\ rec.finished => body.done
      /\ reports = IF rec.finished /\ rec.recordable /\ rec.hasLast
                   THEN << ReportOf(rec) >> ELSE << >>
      /\ rec.finished /\ rec.recordable => ~Loose(rec)
      /\ body \in [started : BOOLEAN, sawEOF : BOOLEAN, done : BOOLEAN]
  BY <1>1, BodyNow
<1>3. /\ body' \in [started : BOOLEAN, sawEOF : BOOLEAN, done : BOOLEAN]
      /\ body'.done = body.done
  BY <1>1, <1>2
<1> QED
  BY <1>1, <1>2, <1>3, BodyStepRecorded

(* The first event.                                                        *)
LEMMA FirstEventRecorded ==
    ASSUME EngineInv, RecordInv, recording, FirstEvent
    PROVE  RecordInv'
<1>1. /\ bodyState = "open" /\ bodyState' = "open" /\ stopped' = stopped /\ ~body.done
      /\ rec' = OnFirstEvent(rec) /\ reports' = reports /\ UNCHANGED bodyOnly
      /\ body' = [body EXCEPT !.started = TRUE]
  BY DEF FirstEvent, Telemetry
<1>2. /\ BodyAccount(rec)
      /\ rec.hasLast /\ rec.last.outcome = "aborted" => ctxDone \/ stopped # "no"
      /\ stopped = "first" => rec.hasLast /\ rec.last.outcome = "aborted"
      /\ rec.finished => body.done
      /\ reports = IF rec.finished /\ rec.recordable /\ rec.hasLast
                   THEN << ReportOf(rec) >> ELSE << >>
      /\ body \in [started : BOOLEAN, sawEOF : BOOLEAN, done : BOOLEAN]
  BY <1>1, BodyNow
<1>3. /\ body' \in [started : BOOLEAN, sawEOF : BOOLEAN, done : BOOLEAN]
      /\ body'.done = body.done
  BY <1>1, <1>2
<1>4. RecOK(rec) /\ ~rec.finished /\ reports = << >>
  BY <1>1, <1>2 DEF BodyAccount
<1>5. /\ rec' \in RecorderType /\ SameRecords(rec, rec') /\ rec'.exhausted = rec.exhausted
      /\ rec'.failoverUsed = rec.failoverUsed /\ ~rec'.finished
  BY <1>1, <1>4 DEF OnFirstEvent, RecOK, RecorderType, SameRecords
<1>6. /\ RecOK(rec') /\ MovesKnown(rec') = MovesKnown(rec)
      /\ HasCurrent(rec') <=> HasCurrent(rec)
  BY <1>4, <1>5, SideChange
<1>7. /\ rec'.last = rec.last /\ rec'.hasLast = rec.hasLast /\ rec'.recorded = rec.recorded
      /\ rec'.nextIndex = rec.nextIndex
  BY <1>5 DEF SameRecords
<1>8. BodyAccount(rec')
  BY <1>2, <1>5, <1>6, <1>7 DEF BodyAccount
<1> QED
  BY <1>1, <1>2, <1>3, <1>4, <1>5, <1>7, <1>8, BodyStepRecorded

(* The abort record of a body.                                             *)
LEMMA BodyAbort ==
    ASSUME EngineInv, RecordInv, recording, bodyState \in {"open", "closing"}, ~body.done
    PROVE  LET s == OnAborted(rec)
           IN  BodyAccount(s) /\ ~s.finished /\ s.hasLast /\ s.last.outcome = "aborted"
<1> DEFINE s == OnAborted(rec)
<1>1. RecOK(rec) /\ rec.begun /\ ~rec.finished /\ (HasCurrent(rec) => ~rec.last.moved)
  BY InBody
<1>2. AddedRecord(rec, s) /\ s.last.outcome = "aborted" /\ ~s.last.moved
  BY <1>1, AbortFacts
<1> HIDE DEF s
<1>3. BodyAccount(s) /\ ~s.finished /\ s.hasLast
  BY <1>2, BodyRecord
<1> QED
  BY <1>2, <1>3 DEF s

(* The consumer stops iterating.                                           *)
LEMMA ConsumerStopsRecorded ==
    ASSUME EngineInv, RecordInv, recording, ConsumerStops
    PROVE  RecordInv'
<1>1. /\ bodyState = "open" /\ bodyState' = "open" /\ stopped = "no"
      /\ stopped' = IF body.done THEN "late" ELSE "first"
      /\ rec' = IF body.done THEN rec ELSE OnAborted(rec)
      /\ reports' = reports /\ UNCHANGED bodyOnly
      /\ body' = [body EXCEPT !.done = TRUE]
  BY DEF ConsumerStops, Telemetry
<1>2. /\ BodyAccount(rec)
      /\ rec.hasLast /\ rec.last.outcome = "aborted" => ctxDone \/ stopped # "no"
      /\ rec.finished => body.done
      /\ reports = IF rec.finished /\ rec.recordable /\ rec.hasLast
                   THEN << ReportOf(rec) >> ELSE << >>
      /\ rec.finished /\ rec.recordable => ~Loose(rec)
      /\ body \in [started : BOOLEAN, sawEOF : BOOLEAN, done : BOOLEAN]
  BY <1>1, BodyNow
<1>3. /\ body' \in [started : BOOLEAN, sawEOF : BOOLEAN, done : BOOLEAN]
      /\ body'.done
  BY <1>1, <1>2
<1>4. CASE body.done
  <2>1. stopped' = "late" /\ rec' = rec
    BY <1>1, <1>4
  <2> QED
    BY <1>1, <1>2, <1>3, <1>4, <2>1, BodyStepRecorded
<1>5. CASE ~body.done
  <2>1. stopped' = "first" /\ rec' = OnAborted(rec) /\ reports = << >>
    BY <1>1, <1>2, <1>5
  <2>2. BodyAccount(rec') /\ ~rec'.finished /\ rec'.hasLast /\ rec'.last.outcome = "aborted"
    BY <1>1, <1>5, <2>1, BodyAbort
  <2> QED
    BY <1>1, <1>3, <1>5, <2>1, <2>2, BodyStepRecorded
<1> QED
  BY <1>4, <1>5

(* A true account is one once finished.                                    *)
LEMMA FinishedAccount ==
    ASSUME NEW s, BodyAccount(s), NEW q, RecOK(q), SameButFinished(s, q),
           MovesKnown(q) = MovesKnown(s)
    PROVE  BodyAccount(q) /\ q.hasLast = s.hasLast /\ q.last = s.last
BY DEF BodyAccount, SameButFinished, HasCurrent

(* A failed read.                                                          *)
LEMMA ReadFailsRecorded ==
    ASSUME EngineInv, RecordInv, recording, ReadFails
    PROVE  RecordInv'
<1>1. /\ bodyState \in {"open", "closing"} /\ bodyState' = bodyState /\ stopped' = stopped
      /\ UNCHANGED bodyOnly /\ body' = [body EXCEPT !.done = TRUE]
  BY DEF ReadFails
<1>2. PICK err :
        IF ~body.done
        THEN TelemetryFinish(IF ctxDone THEN OnAborted(rec)
                             ELSE OnTransportError(rec, err, FALSE, TRUE, body.started))
        ELSE UNCHANGED <<rec, reports>>
  BY DEF ReadFails, ReadRecords
<1>3. /\ BodyAccount(rec)
      /\ rec.hasLast /\ rec.last.outcome = "aborted" => ctxDone \/ stopped # "no"
      /\ stopped = "first" => rec.hasLast /\ rec.last.outcome = "aborted"
      /\ rec.finished => body.done
      /\ reports = IF rec.finished /\ rec.recordable /\ rec.hasLast
                   THEN << ReportOf(rec) >> ELSE << >>
      /\ rec.finished /\ rec.recordable => ~Loose(rec)
      /\ body \in [started : BOOLEAN, sawEOF : BOOLEAN, done : BOOLEAN]
  BY <1>1, BodyNow
<1>4. /\ body' \in [started : BOOLEAN, sawEOF : BOOLEAN, done : BOOLEAN]
      /\ body'.done
  BY <1>1, <1>3
<1>5. CASE body.done
  <2>1. rec' = rec /\ reports' = reports
    BY <1>2, <1>5
  <2> QED
    BY <1>1, <1>3, <1>4, <2>1, BodyStepRecorded
<1>6. CASE ~body.done
  <2> DEFINE s == IF ctxDone THEN OnAborted(rec)
                  ELSE OnTransportError(rec, err, FALSE, TRUE, body.started)
  <2>1. rec' = Finish(s) /\ reports' = reports \o Reported(s)
    BY <1>2, <1>6 DEF TelemetryFinish, Telemetry
  <2>2. stopped = "no" /\ ~rec.finished
    BY <1>1, <1>6, InBody
  <2>3. /\ BodyAccount(s) /\ ~s.finished /\ s.hasLast /\ s.last.outcome # "ok"
        /\ s.last.outcome = "aborted" => ctxDone
    <3>1. CASE ctxDone
      BY <1>1, <1>6, <3>1, BodyAbort
    <3>2. CASE ~ctxDone
      <4>1. RecOK(rec) /\ rec.begun /\ ~rec.finished /\ (HasCurrent(rec) => ~rec.last.moved)
        BY <1>1, <1>6, InBody
      <4>2. body.started \in BOOLEAN
        BY <1>3
      <4>3. /\ AddedRecord(rec, s) /\ ~s.last.moved
            /\ s.last.outcome \in {"transport_error", "timeout", "stream_broken"}
        BY <3>2, <4>1, <4>2, ErrorFacts
      <4> HIDE DEF s
      <4> QED
        BY <1>1, <1>6, <4>3, BodyRecord
    <3> QED
      BY <3>1, <3>2
  <2> HIDE DEF s
  <2>4. RecOK(s)
    BY <2>3 DEF BodyAccount
  <2>5. /\ RecOK(rec') /\ rec'.finished /\ SameButFinished(s, rec')
        /\ MovesKnown(rec') = MovesKnown(s)
        /\ rec'.recordable => ~Loose(rec')
        /\ reports' = IF rec'.recordable /\ rec'.hasLast
                      THEN << ReportOf(rec') >> ELSE << >>
    BY <2>1, <2>2, <2>3, <2>4, FinishReports
  <2>6. BodyAccount(rec') /\ rec'.hasLast = s.hasLast /\ rec'.last = s.last
    BY <2>3, <2>5, FinishedAccount
  <2> QED
    BY <1>1, <1>4, <1>6, <2>2, <2>3, <2>5, <2>6, BodyStepRecorded
<1> QED
  BY <1>5, <1>6

(* Close, once the connection is closed.                                   *)
LEMMA CloseEndsRecorded ==
    ASSUME EngineInv, RecordInv, recording, CloseEnds
    PROVE  RecordInv'
<1> DEFINE aborts == ~body.done /\ ctxDone /\ ~body.sawEOF
           s == IF aborts THEN OnAborted(rec) ELSE rec
<1>1. /\ bodyState = "closing" /\ bodyState' = "closed" /\ stopped' = stopped
      /\ UNCHANGED bodyOnly /\ body' = [body EXCEPT !.done = TRUE]
      /\ rec' = Finish(s)
      /\ reports' = IF Finish(s).finished THEN reports \o Reported(s) ELSE reports
  BY DEF CloseEnds, Telemetry, CloseFinishes
<1>2. /\ BodyAccount(rec)
      /\ rec.hasLast /\ rec.last.outcome = "aborted" => ctxDone \/ stopped # "no"
      /\ stopped = "first" => rec.hasLast /\ rec.last.outcome = "aborted"
      /\ rec.finished => body.done
      /\ rec.finished /\ rec.recordable => ~Loose(rec)
      /\ body \in [started : BOOLEAN, sawEOF : BOOLEAN, done : BOOLEAN]
  BY <1>1, BodyNow
<1>3. /\ body' \in [started : BOOLEAN, sawEOF : BOOLEAN, done : BOOLEAN]
      /\ body'.done
  BY <1>1, <1>2
<1>4. /\ BodyAccount(s)
      /\ s = rec \/ (~s.finished /\ ~rec.finished)
      /\ s.finished /\ s.recordable => ~Loose(s)
      /\ s.hasLast /\ s.last.outcome = "aborted" => ctxDone \/ stopped # "no"
      /\ s.hasLast /\ s.last.outcome = "ok" => rec.hasLast /\ rec.last.outcome = "ok"
      /\ stopped = "first" => s.hasLast /\ s.last.outcome = "aborted"
  <2>1. CASE aborts
    <3>1. s = OnAborted(rec) /\ ~body.done /\ ctxDone
      BY <2>1
    <3>2. BodyAccount(s) /\ ~s.finished /\ s.hasLast /\ s.last.outcome = "aborted"
      BY <1>1, <3>1, BodyAbort
    <3> QED
      BY <1>2, <3>1, <3>2
  <2>2. CASE ~aborts
    <3>1. s = rec
      BY <2>2
    <3> QED
      BY <1>2, <3>1
  <2> QED
    BY <2>1, <2>2
<1> HIDE DEF s
<1>5. RecOK(s)
  BY <1>4 DEF BodyAccount
<1>6. reports' = reports \o Reported(s)
  BY <1>1, <1>4, <1>5, FinishFacts
<1>7. /\ RecOK(rec') /\ rec'.finished /\ SameButFinished(s, rec')
      /\ MovesKnown(rec') = MovesKnown(s)
      /\ rec'.recordable => ~Loose(rec')
      /\ reports' = IF rec'.recordable /\ rec'.hasLast
                    THEN << ReportOf(rec') >> ELSE << >>
  BY <1>1, <1>4, <1>5, <1>6, FinishReports
<1>8. BodyAccount(rec') /\ rec'.hasLast = s.hasLast /\ rec'.last = s.last
  BY <1>4, <1>7, FinishedAccount
<1> QED
  BY <1>1, <1>3, <1>4, <1>7, <1>8, BodyStepRecorded

-----------------------------------------------------------------------------
(* The headers.                                                            *)

(* The steps that send nothing leave the headers true: the answers they    *)
(* speak of are in the past.                                               *)
LEMMA HeadersStay ==
    ASSUME EngineInv, HeadersKept, HeadersTellTheTruth, UNCHANGED <<call, wire, headers>>,
           answers' = answers \/ DoReturns
    PROVE  HeadersKept' /\ HeadersTellTheTruth'
<1>1. HeadersKept'
  BY DEF HeadersKept, Sent
<1>2. ASSUME NEW i \in DOMAIN wire, i > 1
      PROVE  answers'[i - 1] = answers[i - 1]
  <2>1. CASE answers' = answers
    BY <2>1
  <2>2. CASE DoReturns
    <3>1. PICK a \in Answers : answers' = Append(answers, a)
      BY <2>2 DEF DoReturns, PossibleErrors, Answers
    <3>2. /\ answers \in Seq(Answers) /\ wire \in Seq([host : Nat, key : Nat])
          /\ Len(answers) = Len(wire) - 1
      BY <2>2 DEF DoReturns, EngineInv, WireTyped, Counted
    <3>3. i - 1 \in 1..Len(answers)
      BY <1>2, <3>2
    <3> QED
      BY <3>1, <3>2, <3>3
  <2> QED
    BY <2>1, <2>2
<1>3. HeadersTellTheTruth'
  <2> SUFFICES ASSUME NEW i \in DOMAIN wire, headers[i] # NoHeader
               PROVE  /\ headers[i].a = i - 1
                      /\ ~call.custom
                      /\ i > 1 => /\ headers[i].po \in OutcomeOf(answers'[i - 1])
                                  /\ headers[i].ph \in {wire[i - 1].host, Custom}
                                  /\ headers[i].fo = (wire[i].host # wire[1].host)
    BY DEF HeadersTellTheTruth, OutcomeOf
  <2> QED
    BY <1>2 DEF HeadersTellTheTruth
<1> QED
  BY <1>1, <1>3

(* The header of the attempt being sent.                                   *)
HeaderOfNext(h) ==
    h # NoHeader =>
        /\ h.a = Sent
        /\ ~call.custom
        /\ Sent > 0 => /\ h.po \in OutcomeOf(answers[Sent])
                       /\ h.ph \in {wire[Sent].host, Custom}
                       /\ h.fo = (baseIndex # wire[1].host)

(* What headerValue can be.                                                *)
LEMMA HeaderFields ==
    ASSUME NEW b \in RecorderType, HeaderValue(b) # NoHeader
    PROVE  /\ b.currentHost # Custom
           /\ HeaderValue(b).a = b.currentIndex
           /\ b.currentIndex > 0 =>
                 /\ b.hasLast /\ b.last.index = b.currentIndex - 1
                 /\ HeaderValue(b).ph = b.last.host
                 /\ HeaderValue(b).po = IF b.last.outcome \in {"ok", "aborted"}
                                        THEN "none" ELSE b.last.outcome
                 /\ HeaderValue(b).fo = b.failoverUsed
<1>1. b.currentIndex \in Nat /\ b.failoverUsed \in BOOLEAN
  BY DEF RecorderType
<1> QED
  BY <1>1 DEF HeaderValue

(* The header of a recorder has the type of a header.                      *)
LEMMA HeaderType ==
    ASSUME NEW b \in RecorderType
    PROVE  HeaderValue(b) \in [a : Int, po : Outcomes \cup {"none"}, ph : Int, fo : BOOLEAN]
<1>1. /\ b.currentIndex \in Int /\ b.failoverUsed \in BOOLEAN /\ b.last \in Attempt
      /\ (b.currentIndex > 0 /\ b.failoverUsed) \in BOOLEAN
  BY DEF RecorderType
<1>2. b.last.host \in Int /\ b.last.outcome \in Outcomes
  BY <1>1 DEF Attempt
<1> QED
  BY <1>1, <1>2 DEF HeaderValue, NoHeader, Custom

(* The header built when an attempt begins tells the truth about the       *)
(* attempt before.                                                         *)
LEMMA NextHeaderTrue ==
    ASSUME EngineInv, RecordInv, recording, pc = "top", NEW p \in BOOLEAN,
           rec' = BeginAttempt(rec, hostEnum(baseIndex), p)
    PROVE  /\ HeaderOfNext(HeaderValue(rec'))
           /\ HeaderValue(rec') \in [a : Int, po : Outcomes \cup {"none"}, ph : Int, fo : BOOLEAN]
<1> DEFINE h == HeaderValue(rec')
<1>1. /\ RecOK(rec)' /\ rec'.currentIndex = Sent
      /\ rec'.currentHost = IF p THEN Custom ELSE hostEnum(baseIndex)
      /\ rec'.last = rec.last /\ rec'.hasLast = rec.hasLast
      /\ rec'.failoverUsed = rec.failoverUsed
  BY SendRecord
<1>2. rec' \in RecorderType
  BY <1>1 DEF RecOK
<1>3. h \in [a : Int, po : Outcomes \cup {"none"}, ph : Int, fo : BOOLEAN]
  BY <1>2, HeaderType
<1>4. ASSUME h # NoHeader
      PROVE  /\ h.a = Sent /\ ~call.custom
             /\ Sent > 0 => /\ h.po \in OutcomeOf(answers[Sent])
                            /\ h.ph \in {wire[Sent].host, Custom}
                            /\ h.fo = (baseIndex # wire[1].host)
  <2>1. /\ rec'.currentHost # Custom /\ h.a = Sent
        /\ Sent > 0 =>
                 /\ rec.hasLast /\ rec.last.index = Sent - 1
                 /\ h.ph = rec.last.host
                 /\ h.po = IF rec.last.outcome \in {"ok", "aborted"}
                           THEN "none" ELSE rec.last.outcome
                 /\ h.fo = rec.failoverUsed
    BY <1>1, <1>2, <1>4, HeaderFields
  <2> HIDE DEF h
  <2>2. ~call.custom
    BY <1>1, <2>1 DEF hostEnum
  <2>3. ASSUME Sent > 0
        PROVE  /\ h.po \in OutcomeOf(answers[Sent]) /\ h.ph \in {wire[Sent].host, Custom}
               /\ h.fo = (baseIndex # wire[1].host)
    <3>1. RecOK(rec) /\ rec.begun /\ rec.nextIndex = Sent /\ rec.last.outcome # "aborted"
      BY <2>1, <2>3, Running
    <3>2. HasCurrent(rec)
      <4>1. rec.nextIndex = rec.currentIndex + 1 /\ rec.currentIndex \in Nat
        BY <3>1 DEF RecOK, RecorderType
      <4> QED
        BY <2>1, <2>3, <3>1, <4>1 DEF HasCurrent
    <3>3. TellsAnswer(rec.last, Sent)
      BY <3>2 DEF RecordInv, LastIsTrue
    <3>4. answers[Sent] \in Answers
      <4>1. answers \in Seq(Answers) /\ Len(answers) = Sent /\ Sent \in Nat
        BY Numbers DEF EngineInv, WireTyped, Counted, Sent
      <4> QED
        BY <2>3, <4>1
    <3>5. answers[Sent].kind \in {"response", "error"} /\ answers[Sent].status \in Nat
      BY <3>4, AnswerFacts
    <3>6. h.po \in OutcomeOf(answers[Sent])
      <4>1. CASE answers[Sent].kind = "error"
        <5>1. OutcomeOf(answers[Sent]) = {"transport_error", "timeout"}
          BY <4>1 DEF OutcomeOf
        <5> QED
          BY <2>1, <2>3, <3>3, <4>1, <5>1 DEF TellsAnswer
      <4>2. CASE answers[Sent].kind = "response" /\ answers[Sent].status < 400
        <5>1. OutcomeOf(answers[Sent]) = {"none"}
          BY <3>5, <4>2 DEF OutcomeOf
        <5> QED
          BY <2>1, <2>3, <3>3, <4>2, <5>1 DEF TellsAnswer
      <4>3. CASE answers[Sent].kind = "response" /\ ~(answers[Sent].status < 400)
        <5>1. OutcomeOf(answers[Sent]) = {"http_error"}
          BY <3>5, <4>3 DEF OutcomeOf
        <5> QED
          BY <2>1, <2>3, <3>3, <4>3, <5>1 DEF TellsAnswer
      <4> QED
        BY <3>5, <4>1, <4>2, <4>3
    <3>7. h.fo = (baseIndex # wire[1].host)
      <4>1. wire[1].host = 0
        BY <2>3 DEF RecordInv, Numbered, Sent
      <4>2. rec.failoverUsed = (baseIndex > 0) /\ baseIndex \in Nat
        BY Numbers DEF RecordInv, RecordedEnough
      <4> QED
        BY <2>1, <2>3, <4>1, <4>2
    <3> QED
      BY <2>1, <2>3, <3>3, <3>6, <3>7 DEF TellsAnswer
  <2> QED
    BY <2>1, <2>2, <2>3
<1> QED
  BY <1>3, <1>4 DEF HeaderOfNext

(* Send keeps the headers truthful.                                        *)
LEMMA SendHeaders ==
    ASSUME EngineInv, RecordInv, HeadersKept, HeadersTellTheTruth, Send
    PROVE  HeadersKept' /\ HeadersTellTheTruth'
<1> DEFINE H == [a : Int, po : Outcomes \cup {"none"}, ph : Int, fo : BOOLEAN]
           R == [host : Nat, key : Nat]
           new == [host |-> baseIndex, key |-> WireKey]
<1>1. /\ wire' = Append(wire, new) /\ answers' = answers /\ call' = call /\ pc = "top"
  BY DEF Send
<1>2. PICK h \in H : headers' = Append(headers, h) /\ HeaderOfNext(h)
  <2>1. PICK p \in BOOLEAN :
            /\ headers' = Append(headers, IF recording
                  THEN HeaderValue(BeginAttempt(rec, hostEnum(baseIndex), p)) ELSE NoHeader)
            /\ recording => rec' = BeginAttempt(rec, hostEnum(baseIndex), p)
    BY DEF Send, Panic, Telemetry
  <2>2. CASE recording
    BY <1>1, <2>1, <2>2, NextHeaderTrue
  <2>3. CASE ~recording
    <3>1. NoHeader \in H /\ HeaderOfNext(NoHeader)
      BY DEF NoHeader, Custom, HeaderOfNext
    <3> QED
      BY <2>1, <2>3, <3>1
  <2> QED
    BY <2>2, <2>3
<1>3. /\ wire \in Seq(R) /\ new \in R /\ headers \in Seq(H) /\ Len(headers) = Sent
      /\ Sent = Len(wire) /\ Sent \in Nat
  BY CallFacts DEF EngineInv, WireTyped, TypeOK, HeadersKept, Sent, WireKey, NoKey
<1> HIDE DEF H, R
<1>4. /\ headers' \in Seq(H) /\ Len(headers') = Sent + 1 /\ Len(wire') = Sent + 1
      /\ DOMAIN wire' = 1..(Sent + 1)
      /\ \A i \in 1..Sent : wire'[i] = wire[i] /\ headers'[i] = headers[i]
      /\ wire'[Sent + 1] = new /\ headers'[Sent + 1] = h
  <2> HIDE DEF new
  <2> QED
    BY <1>1, <1>2, <1>3
<1>5. HeadersKept'
  BY <1>4 DEF HeadersKept, Sent, H
<1>6. HeadersTellTheTruth'
  <2> SUFFICES ASSUME NEW i \in 1..(Sent + 1), headers'[i] # NoHeader
               PROVE  /\ headers'[i].a = i - 1
                      /\ ~call.custom
                      /\ i > 1 => /\ headers'[i].po \in OutcomeOf(answers[i - 1])
                                  /\ headers'[i].ph \in {wire'[i - 1].host, Custom}
                                  /\ headers'[i].fo = (wire'[i].host # wire'[1].host)
    BY <1>1, <1>4 DEF HeadersTellTheTruth
  <2>1. CASE i \in 1..Sent
    <3>1. /\ headers'[i] = headers[i] /\ wire'[i] = wire[i] /\ wire'[1] = wire[1]
          /\ i > 1 => wire'[i - 1] = wire[i - 1]
          /\ i \in DOMAIN wire
      BY <1>3, <1>4, <2>1
    <3> QED
      BY <3>1 DEF HeadersTellTheTruth
  <2>2. CASE i = Sent + 1
    <3>1. i - 1 = Sent /\ headers'[i] = h /\ wire'[i].host = baseIndex
      BY <1>3, <1>4, <2>2
    <3>2. i > 1 => Sent > 0 /\ wire'[i - 1] = wire[Sent] /\ wire'[1] = wire[1]
      BY <1>3, <1>4, <2>2
    <3> QED
      BY <1>2, <3>1, <3>2 DEF HeaderOfNext
  <2> QED
    BY <1>3, <2>1, <2>2
<1> QED
  BY <1>5, <1>6

-----------------------------------------------------------------------------
(* The invariant, and what it is for.                                      *)

(* Without telemetry there is nothing to account for.                      *)
LEMMA Unrecorded ==
    ASSUME EngineInv, HeadersKept, RecordInv, ~recording, CallNext
    PROVE  RecordInv'
<1>1. call' = call /\ rec' = rec /\ reports' = reports
  BY DEF CallNext, EngineStep, Loop, Environment, Start, Send, RequestError, Abort, ErrorAborts,
         ErrorGivesUp, ErrorRetries, ResponseReturned, ResponseRetried, SleepDone,
         CallerCancels, TimerFires, DoReturns, Drained, FirstEvent, ConsumerStops, ReadEOF,
         ReadFails, CloseStarts, CloseEnds, CallOver, Telemetry, TelemetryFinish, telemetry,
         callVars, vars, bodyOnly, engine
<1>2. ~recording'
  BY <1>1 DEF recording, controlPlane
<1>3. NotRecorded
  BY DEF RecordInv
<1>4. \A i \in DOMAIN wire' : headers'[i] = NoHeader
  <2>1. CASE Send
    <3> DEFINE new == [host |-> baseIndex, key |-> WireKey]
               H == [a : Int, po : Outcomes \cup {"none"}, ph : Int, fo : BOOLEAN]
    <3>1. /\ wire' = Append(wire, new) /\ headers' = Append(headers, NoHeader)
      BY <2>1 DEF Send
    <3>2. /\ wire \in Seq([host : Nat, key : Nat]) /\ headers \in Seq(H)
          /\ Len(headers) = Len(wire) /\ new \in [host : Nat, key : Nat]
      BY CallFacts DEF EngineInv, WireTyped, TypeOK, HeadersKept, Sent, WireKey, NoKey
    <3>3. NoHeader \in H
      BY DEF NoHeader, Custom
    <3> HIDE DEF H, new
    <3>4. /\ DOMAIN wire = 1..Len(wire) /\ DOMAIN wire' = 1..(Len(wire) + 1)
          /\ Len(wire) \in Nat
      BY <3>1, <3>2
    <3>5. /\ headers'[Len(wire) + 1] = NoHeader
          /\ \A i \in 1..Len(wire) : headers'[i] = headers[i]
      BY <3>1, <3>2, <3>3
    <3> QED
      BY <1>3, <3>4, <3>5 DEF NotRecorded
  <2>2. CASE ~Send
    <3>1. UNCHANGED <<wire, headers>>
      BY <2>2 DEF CallNext, EngineStep, Loop, Environment, Start, RequestError, Abort,
         ErrorAborts, ErrorGivesUp, ErrorRetries, ResponseReturned, ResponseRetried, SleepDone,
         CallerCancels, TimerFires, DoReturns, Drained, FirstEvent, ConsumerStops, ReadEOF,
         ReadFails, CloseStarts, CloseEnds, CallOver, telemetry, history, callVars, vars,
         bodyOnly
    <3> QED
      BY <1>3, <3>1 DEF NotRecorded
  <2> QED
    BY <2>1, <2>2
<1> QED
  BY <1>1, <1>2, <1>3, <1>4 DEF RecordInv, NotRecorded

(* The engine inside the call.                                             *)
LEMMA EngineInCall ==
    ASSUME EngineInv, CallNext
    PROVE  EngineInv'
<1>1. CASE EngineStep
  BY <1>1, EngineStepInv DEF EngineStep, Next
<1>2. CASE ~EngineStep
  <2>1. UNCHANGED <<engine, history>>
    BY <1>2 DEF CallNext, FirstEvent, ConsumerStops, ReadEOF, ReadFails, CloseStarts, CloseEnds,
                CallOver, bodyOnly, callVars, vars
  <2>2. /\ UNCHANGED <<call, pc, attempt, baseIndex, key, ctxDone, cause, armed, answer, result>>
        /\ UNCHANGED <<wire, answers>>
    BY <2>1 DEF engine, history
  <2> QED
    BY <2>2 DEF EngineInv, TypeOK, WireTyped, Counted, KeyHeld, LastAnswerKnown, HostKnown,
              BetweenAttempts, RetriesArePermitted, MovesArePermitted, BudgetExact,
              streamOpen, credentialFree, WireKey, replaySafe, canRetry
<1> QED
  BY <1>1, <1>2

(* One step of a recorded call.                                            *)
LEMMA RecordedStep ==
    ASSUME EngineInv, RecordInv, recording, CallNext
    PROVE  RecordInv'
<1>1. CASE EngineStep
  <2>1. /\ body' = body /\ stopped' = stopped
        /\ bodyState' = IF result = "none" /\ result' = "response" THEN "open" ELSE bodyState
        /\ Loop \/ Environment
    BY <1>1 DEF EngineStep
  <2>2. CASE ResponseReturned
    <3>1. result = "none" /\ result' = "response"
      BY <2>2 DEF ResponseReturned, ResponseAnswer, EngineInv, Counted
    <3> QED
      BY <2>1, <2>2, <3>1, ResponseReturnedRecorded
  <2>3. CASE ~ResponseReturned
    <3>1. result' = result \/ result' # "response"
      BY <2>1, <2>3 DEF Loop, Environment, Start, Send, RequestError, Abort, ErrorAborts,
         ErrorGivesUp, ErrorRetries, ResponseRetried, SleepDone, CallerCancels, TimerFires,
         DoReturns, Drained
    <3>2. UNCHANGED <<body, bodyState, stopped>>
      BY <2>1, <3>1
    <3>3. CASE Start \/ SleepDone \/ CallerCancels \/ TimerFires \/ DoReturns
      <4>1. UNCHANGED <<call, baseIndex, result, wire, telemetry, body, bodyState, stopped>>
        BY <3>2, <3>3 DEF Start, SleepDone, CallerCancels, TimerFires, DoReturns, history
      <4>2. \/ UNCHANGED <<pc, answer, answers>> /\ (ctxDone => ctxDone')
            \/ UNCHANGED <<ctxDone, answer, answers>> /\ pc = "start" /\ pc' = "top"
            \/ UNCHANGED <<ctxDone, answer, answers>> /\ pc = "sleep" /\ pc' = "top"
            \/ UNCHANGED ctxDone /\ pc = "inflight" /\ pc' = "answered"
        BY <3>3 DEF Start, SleepDone, CallerCancels, TimerFires, DoReturns, history
      <4> QED
        BY <4>1, <4>2, UnseenStep
    <3>4. CASE Send
      BY <3>2, <3>4, SendRecorded
    <3>5. CASE RequestError
      BY <3>2, <3>5, RequestErrorRecorded
    <3>6. CASE Abort \/ ErrorAborts
      BY <3>2, <3>6, AbortRecorded
    <3>7. CASE ErrorGivesUp
      BY <3>2, <3>7, ErrorGivesUpRecorded
    <3>8. CASE ErrorRetries
      BY <3>2, <3>8, ErrorRetriesRecorded
    <3>9. CASE ResponseRetried
      BY <3>2, <3>9, ResponseRetriedRecorded
    <3>10. CASE Drained
      BY <3>2, <3>10, DrainedRecorded
    <3> QED
      BY <2>1, <2>3, <3>3, <3>4, <3>5, <3>6, <3>7, <3>8, <3>9, <3>10 DEF Loop, Environment
  <2> QED
    BY <2>2, <2>3
<1>2. CASE CallOver
  <2>1. UNCHANGED <<call, baseIndex, result, wire, telemetry, body, bodyState, stopped>>
        /\ UNCHANGED <<pc, answer, answers, ctxDone>>
    BY <1>2 DEF CallOver, callVars, vars, engine, history
  <2> QED
    BY <2>1, UnseenStep
<1> QED
  BY <1>1, <1>2, FirstEventRecorded, ConsumerStopsRecorded, ReadEOFRecorded, ReadFailsRecorded,
     CloseEndsRecorded DEF CallNext

(* Every step keeps the headers truthful: only Send adds one.              *)
LEMMA HeadersStep ==
    ASSUME EngineInv, RecordInv, HeadersKept, HeadersTellTheTruth, CallNext
    PROVE  HeadersKept' /\ HeadersTellTheTruth'
<1>1. CASE Send
  BY <1>1, SendHeaders
<1>2. CASE ~Send
  <2>1. UNCHANGED <<call, wire, headers>> /\ (answers' = answers \/ DoReturns)
    BY <1>2 DEF CallNext, EngineStep, Loop, Environment, Start, RequestError, Abort, ErrorAborts,
         ErrorGivesUp, ErrorRetries, ResponseReturned, ResponseRetried, SleepDone,
         CallerCancels, TimerFires, DoReturns, Drained, FirstEvent, ConsumerStops, ReadEOF,
         ReadFails, CloseStarts, CloseEnds, CallOver, telemetry, engine, history, callVars, vars,
         bodyOnly
  <2> QED
    BY <2>1, HeadersStay
<1> QED
  BY <1>1, <1>2

(* A stuttering step keeps the invariant.                                  *)
LEMMA CallStutters ==
    ASSUME CallInv, UNCHANGED callVars
    PROVE  CallInv'
<1>1. /\ UNCHANGED <<call, pc, attempt, baseIndex, key, ctxDone, cause, armed, answer, result>>
      /\ UNCHANGED <<wire, answers, rec, panics, reports, headers, body, bodyState, stopped>>
  BY DEF callVars, vars, engine, history, telemetry
<1>2. EngineInv'
  BY <1>1 DEF CallInv, EngineInv, TypeOK, WireTyped, Counted, KeyHeld, LastAnswerKnown, HostKnown,
              BetweenAttempts, RetriesArePermitted, MovesArePermitted, BudgetExact,
              streamOpen, credentialFree, WireKey, replaySafe, canRetry
<1>3. HeadersKept' /\ HeadersTellTheTruth'
  BY <1>1, HeadersStay DEF CallInv
<1>4. CASE recording
  BY <1>1, <1>2, <1>3, <1>4, UnseenStep DEF CallInv, telemetry
<1>5. CASE ~recording
  <2>1. NotRecorded' /\ ~recording'
    BY <1>1, <1>5 DEF CallInv, RecordInv, NotRecorded, recording, controlPlane
  <2> QED
    BY <1>2, <1>3, <2>1 DEF CallInv, RecordInv
<1> QED
  BY <1>4, <1>5

(* Every step keeps the invariant.                                         *)
LEMMA CallInductive == CallInv /\ [CallNext]_callVars => CallInv'
<1> SUFFICES ASSUME CallInv, [CallNext]_callVars PROVE CallInv'
  OBVIOUS
<1>1. CASE CallNext
  <2>1. EngineInv /\ HeadersKept /\ HeadersTellTheTruth /\ RecordInv
    BY DEF CallInv
  <2>2. EngineInv' /\ HeadersKept' /\ HeadersTellTheTruth'
    BY <1>1, <2>1, EngineInCall, HeadersStep
  <2>3. RecordInv'
    BY <1>1, <2>1, RecordedStep, Unrecorded
  <2> QED
    BY <2>2, <2>3 DEF CallInv
<1>2. CASE UNCHANGED callVars
  BY <1>2, CallStutters
<1> QED
  BY <1>1, <1>2

(* A new recorder is a consistent one.                                     *)
LEMMA NewRecorderOK ==
    ASSUME NEW b \in BOOLEAN
    PROVE  RecOK(NewRecorder(b)) /\ MovesKnown(NewRecorder(b)) = 0
<1> DEFINE r == NewRecorder(b)
<1>1. /\ r \in RecorderType /\ ~r.begun /\ r.attempts = << >> /\ r.overflow = << >>
      /\ r.foldedIndex = -1 /\ r.recorded = 0 /\ ~r.hasLast /\ r.nextIndex = 0
      /\ r.currentIndex = 0
  BY DEF NewRecorder, RecorderType, NoAttempt, Attempt, Custom, Outcomes, ErrorClasses, Phases
<1>2. SumFunction(MovedIn(<< >>)) = 0 /\ SumFunction(FoldedAttempts(<< >>)) = 0
      /\ SumFunction(FoldedMoves(<< >>)) = 0
  <2>1. \A f : DOMAIN f = {} => SumFunction(f) = 0
    BY SumEmpty DEF SumFunction
  <2>2. /\ DOMAIN MovedIn(<< >>) = {} /\ DOMAIN FoldedAttempts(<< >>) = {}
        /\ DOMAIN FoldedMoves(<< >>) = {}
    BY DEF MovedIn, FoldedAttempts, FoldedMoves
  <2> QED
    BY <2>1, <2>2
<1> HIDE DEF r
<1>3. ~Loose(r)
  BY <1>1 DEF Loose
<1>4. AttemptsKnown(r) = 0 /\ MovesKnown(r) = 0
  BY <1>1, <1>2, <1>3 DEF AttemptsKnown, MovesKnown, LooseAttempts, LooseMoves
<1>5. RecOK(r)
  BY <1>1, <1>3, <1>4, CapsAssumption DEF RecOK
<1> QED
  BY <1>4, <1>5 DEF r

(* The invariant holds initially.                                          *)
LEMMA CallInitial == CallInit => CallInv
<1> SUFFICES ASSUME CallInit PROVE CallInv
  OBVIOUS
<1>1. EngineInv
  BY InitEngine DEF CallInit
<1>2. HeadersKept /\ HeadersTellTheTruth
  BY DEF CallInit, Init, HeadersKept, HeadersTellTheTruth, Sent
<1>3. CASE recording
  <2>1. RecOK(rec) /\ MovesKnown(rec) = 0
    <3>1. rec = NewRecorder(TRUE) \/ rec = NewRecorder(FALSE)
      <4>1. (call.method \in {"GET", "POST"}) \in BOOLEAN
        OBVIOUS
      <4> QED
        BY <4>1 DEF CallInit, Init
    <3> QED
      BY <3>1, NewRecorderOK
  <2>2. /\ ~rec.begun /\ rec.recorded = 0 /\ ~rec.hasLast /\ rec.nextIndex = 0
        /\ ~rec.exhausted /\ ~rec.finished /\ ~rec.failoverUsed
        /\ rec.failoverUsed = FALSE
    BY DEF CallInit, Init, NewRecorder
  <2>3. /\ pc = "start" /\ baseIndex = 0 /\ result = "none" /\ panics = 0 /\ reports = << >>
        /\ wire = << >> /\ Sent = 0 /\ body = NoBody /\ bodyState = "none" /\ stopped = "no"
    BY DEF CallInit, Init, Sent
  <2>4. Numbered
    BY <2>2, <2>3 DEF Numbered, Awaited
  <2>5. RecordedEnough
    <3>1. ~HasCurrent(rec) /\ rec.failoverUsed = (baseIndex > 0)
      <4>1. (baseIndex > 0) = FALSE
        BY <2>3
      <4>2. rec.failoverUsed = (baseIndex > 0)
        BY <2>2, <4>1, Zenon
      <4> QED
        BY <2>2, <4>2 DEF HasCurrent
    <3> QED
      BY <2>1, <2>2, <2>3, <3>1 DEF RecordedEnough, Awaited
  <2>6. LastIsTrue
    BY <2>2, <2>3 DEF LastIsTrue
  <2>7. FinishedBy
    BY <2>2, <2>3 DEF FinishedBy, NoBody
  <2> QED
    BY <1>1, <1>2, <1>3, <2>1, <2>4, <2>5, <2>6, <2>7 DEF CallInv, RecordInv
<1>4. CASE ~recording
  <2>1. NotRecorded
    BY DEF CallInit, Init, NewRecorder, NotRecorded
  <2> QED
    BY <1>1, <1>2, <1>4, <2>1 DEF CallInv, RecordInv
<1> QED
  BY <1>3, <1>4

(* The invariant of a call, for every budget, candidate list, event cap    *)
(* and number of panics.                                                   *)
THEOREM CallInvariant == CallSpec => []CallInv
<1> QED
  BY CallInitial, CallInductive, PTL DEF CallSpec

(* What the report of a finished call is.                                  *)
LEMMA TheReport ==
    ASSUME CallInv, reports # << >>
    PROVE  /\ recording /\ rec.finished /\ rec.hasLast /\ RecOK(rec) /\ ~Loose(rec)
           /\ reports = << ReportOf(rec) >> /\ pc = "returned" /\ result # "requestError"
<1>1. recording
  BY DEF CallInv, RecordInv, NotRecorded
<1>2. RecOK(rec) /\ FinishedBy /\ Numbered
  BY <1>1 DEF CallInv, RecordInv
<1>3. rec.finished /\ rec.recordable /\ rec.hasLast /\ reports = << ReportOf(rec) >>
  BY <1>2 DEF FinishedBy
<1> QED
  BY <1>1, <1>2, <1>3 DEF FinishedBy, Numbered

(* A finished call is reported once, whoever finishes it.                  *)
THEOREM EveryCallReportedOnce == CallSpec => []ReportedOnce
<1>1. CallInv => ReportedOnce
  <2> SUFFICES ASSUME CallInv PROVE ReportedOnce
    OBVIOUS
  <2>1. CASE recording
    <3>1. RecOK(rec) /\ FinishedBy /\ Numbered
      BY <2>1 DEF CallInv, RecordInv
    <3>2. Settled => rec.finished
      BY <3>1 DEF Settled, FinishedBy
    <3>3. reports = IF rec.finished /\ rec.recordable /\ rec.hasLast
                    THEN << ReportOf(rec) >> ELSE << >>
      BY <3>1 DEF FinishedBy
    <3>4. Len(<< ReportOf(rec) >>) = 1 /\ Len(<< >>) = 0 /\ << ReportOf(rec) >> # << >>
      OBVIOUS
    <3>5. reports # << >> => Sent > 0
      <4>1. ASSUME reports # << >> PROVE Sent > 0
        <5>1. rec.hasLast /\ result # "requestError"
          BY <4>1, TheReport
        <5>2. rec.begun /\ rec.nextIndex = rec.currentIndex + 1 /\ rec.currentIndex \in Nat
          BY <3>1, <5>1 DEF RecOK, RecorderType
        <5> QED
          BY <3>1, <5>1, <5>2 DEF Numbered
      <4> QED
        BY <4>1
    <3> QED
      BY <3>2, <3>3, <3>4, <3>5 DEF ReportedOnce
  <2>2. CASE ~recording
    <3>1. reports = << >> /\ ~rec.hasLast
      BY <2>2 DEF CallInv, RecordInv, NotRecorded
    <3> QED
      BY <3>1 DEF ReportedOnce
  <2> QED
    BY <2>1, <2>2
<1> QED
  BY <1>1, CallInvariant, PTL

(* The counters of a report add up to the attempts sent and the moves      *)
(* made, past the event cap too, less what panics cost.                    *)
THEOREM CountersAddUp == CallSpec => []CountersExact
<1>1. CallInv => CountersExact
  <2> SUFFICES ASSUME CallInv, reports # << >> PROVE CountersExact
    BY DEF CountersExact
  <2> DEFINE R == ReportOf(rec)
  <2>1. /\ recording /\ rec.hasLast /\ RecOK(rec) /\ ~Loose(rec) /\ pc = "returned"
        /\ reports = << R >> /\ result # "requestError"
    BY TheReport
  <2>2. /\ R.attempts = rec.attempts /\ R.failoverUsed = rec.failoverUsed
        /\ R.counters[1].attempts = rec.recorded
        /\ SumFunction(AttemptsColumn(R.counters)) = rec.recorded
        /\ SumFunction(MovesColumn(R.counters)) = MovesKnown(rec)
    BY <2>1, ReportFacts
  <2> HIDE DEF R
  <2>3. EngineInv /\ RecordInv
    BY DEF CallInv
  <2>4. /\ Sent \in Nat /\ baseIndex \in Nat /\ panics \in Nat
        /\ rec.recorded \in Nat /\ MovesKnown(rec) \in Nat
    BY <2>1, <2>3, Numbers
  <2>5. rec.recorded \in (Sent - panics)..Sent
    <3>1. rec.recorded + panics >= Sent
      BY <2>1, <2>3 DEF RecordInv, RecordedEnough, Awaited
    <3>2. rec.recorded <= Sent
      <4>1. /\ rec.begun /\ rec.last.index \in 0..rec.currentIndex
            /\ rec.recorded <= rec.last.index + 1 /\ rec.currentIndex \in Nat
        BY <2>1 DEF RecOK, RecorderType
      <4>2. rec.nextIndex = rec.currentIndex + 1 /\ rec.nextIndex = Sent
        BY <2>1, <2>3, <4>1 DEF RecOK, RecordInv, Numbered
      <4> QED
        BY <2>4, <4>1, <4>2
    <3> QED
      BY <2>4, <3>1, <3>2
  <2>6. MovesKnown(rec) \in (baseIndex - panics)..baseIndex
    <3>1. MovesKnown(rec) <= baseIndex /\ MovesKnown(rec) + panics >= baseIndex
      BY <2>1, <2>3 DEF RecordInv, RecordedEnough
    <3> QED
      BY <2>4, <3>1
  <2>7. Len(rec.attempts) <= MaxEventAttempts /\ rec.failoverUsed = (baseIndex > 0)
    BY <2>1, <2>3 DEF RecOK, RecordInv, RecordedEnough
  <2> SUFFICES ASSUME NEW i \in DOMAIN reports
               PROVE  /\ SumFunction(AttemptsColumn(reports[i].counters))
                            = reports[i].counters[1].attempts
                      /\ SumFunction(AttemptsColumn(reports[i].counters))
                            \in (Sent - panics)..Sent
                      /\ SumFunction(MovesColumn(reports[i].counters))
                            \in (baseIndex - panics)..baseIndex
                      /\ Len(reports[i].attempts) <= MaxEventAttempts
                      /\ reports[i].failoverUsed = (baseIndex > 0)
    BY DEF CountersExact
  <2>8. reports[i] = R
    BY <2>1
  <2> QED
    BY <2>2, <2>5, <2>6, <2>7, <2>8
<1> QED
  BY <1>1, CallInvariant, PTL

(* What a header says of the attempt before is what its answer was.        *)
THEOREM HeadersAreTrue == CallSpec => []HeadersTellTheTruth
<1>1. CallInv => HeadersTellTheTruth
  BY DEF CallInv
<1> QED
  BY <1>1, CallInvariant, PTL

(* The final outcome of a report is how the call ended.                    *)
THEOREM OutcomesAreTrue == CallSpec => []FinalOutcomeTruth
<1>1. CallInv => FinalOutcomeTruth
  <2> SUFFICES ASSUME CallInv, reports # << >> PROVE FinalOutcomeTruth
    BY DEF FinalOutcomeTruth
  <2> DEFINE R == ReportOf(rec)
  <2>1. /\ recording /\ rec.hasLast /\ RecOK(rec) /\ ~Loose(rec) /\ pc = "returned"
        /\ reports = << R >>
    BY TheReport
  <2>2. R.finalOutcome = IF rec.exhausted /\ rec.recorded > 1 /\ rec.last.outcome # "ok"
                         THEN "exhausted" ELSE rec.last.outcome
    BY <2>1, ReportFacts
  <2> HIDE DEF R
  <2>3. LastIsTrue /\ FinishedBy
    BY <2>1 DEF CallInv, RecordInv
  <2>4. rec.last.outcome # "exhausted"
    BY <2>1 DEF RecOK, RecorderType, Attempt, Outcomes
  <2>5. /\ R.finalOutcome = "exhausted" =>
              /\ Sent = MaxRetries + 1 /\ Sent > 1
              /\ \A j \in 1..Sent : PermitsRetry(answers[j])
        /\ R.finalOutcome = "ok" /\ panics = 0 => answer.kind = "response" /\ answer.status < 400
        /\ R.finalOutcome = "aborted" => ctxDone \/ stopped # "no"
        /\ stopped = "first" => R.finalOutcome \in {"aborted", "exhausted"}
    BY <2>1, <2>2, <2>3, <2>4 DEF LastIsTrue, FinishedBy
  <2>6. \A i \in DOMAIN reports : reports[i] = R
    BY <2>1
  <2> QED
    BY <2>5, <2>6 DEF FinalOutcomeTruth
<1> QED
  BY <1>1, CallInvariant, PTL
=============================================================================
