---------------------------- MODULE KernelProofs ----------------------------
(***************************************************************************)
(* Proofs about the sequential kernels: the retry delay, for every         *)
(* attempt, draw and pair of headers; the counter table, for any limit and *)
(* any keys; the verification of receipts, for any receipt and options;    *)
(* and the collection of chat completions, for any chunks.                 *)
(***************************************************************************)
EXTENDS MCKernels, DataLemmas

-----------------------------------------------------------------------------
(* The retry delay.                                                        *)

(* The backoff base is between one unit and its limit.                     *)
LEMMA BaseBounds ==
    ASSUME NEW attempt \in Nat
    PROVE  Base(attempt) \in Nat /\ Base(attempt) <= MaxBackoff
<1> DEFINE k == LesserOf(attempt, MaxShift)
<1>1. k \in 0..MaxShift
  BY DEF LesserOf, MaxShift
<1>2. Shifted[k] \in Nat
  <2>1. k + 1 \in 1..7
    BY <1>1 DEF MaxShift
  <2> HIDE DEF k
  <2>2. <<1, 2, 4, 8, 16, 32, 64>>[k + 1] \in Nat
    BY <2>1
  <2> QED
    BY <1>1, <2>2 DEF Shifted
<1> HIDE DEF k
<1>3. BackoffUnit * Shifted[k] \in Nat
  BY <1>2 DEF BackoffUnit
<1> DEFINE x == BackoffUnit * Shifted[k]
<1>4. Base(attempt) = LesserOf(x, MaxBackoff)
  BY DEF Base, k
<1>5. x \in Nat
  BY <1>3
<1> HIDE DEF x
<1> QED
  BY <1>4, <1>5 DEF LesserOf, MaxBackoff

(* A nonempty set of at most three numbers has its minimum and maximum.    *)
LEMMA MinMaxOfThree ==
    ASSUME NEW a \in Int, NEW b \in Int, NEW c \in Int, NEW T, T \subseteq {a, b, c}, T # {}
    PROVE  /\ Min(T) \in T /\ \A y \in T : Min(T) <= y
           /\ Max(T) \in T /\ \A y \in T : Max(T) >= y
<1>1. \E x \in T : \A y \in T : x <= y
  <2> SUFFICES ASSUME \A x \in T : \E y \in T : y < x PROVE FALSE
    OBVIOUS
  <2>1. /\ a \in T => (b \in T /\ b < a) \/ (c \in T /\ c < a)
        /\ b \in T => (a \in T /\ a < b) \/ (c \in T /\ c < b)
        /\ c \in T => (a \in T /\ a < c) \/ (b \in T /\ b < c)
    OBVIOUS
  <2>2. a \in T \/ b \in T \/ c \in T
    OBVIOUS
  <2> QED
    BY <2>1, <2>2
<1>2. \E x \in T : \A y \in T : x >= y
  <2> SUFFICES ASSUME \A x \in T : \E y \in T : y > x PROVE FALSE
    OBVIOUS
  <2>1. /\ a \in T => (b \in T /\ b > a) \/ (c \in T /\ c > a)
        /\ b \in T => (a \in T /\ a > b) \/ (c \in T /\ c > b)
        /\ c \in T => (a \in T /\ a > c) \/ (b \in T /\ b > c)
    OBVIOUS
  <2>2. a \in T \/ b \in T \/ c \in T
    OBVIOUS
  <2> QED
    BY <2>1, <2>2
<1> QED
  BY <1>1, <1>2 DEF Min, Max

(* Every retry delay keeps its bounds, whatever the headers say and        *)
(* whatever the jitter draws.                                              *)
THEOREM EveryDelayKeepsBounds ==
    ASSUME NEW attempt \in Nat, NEW jitter \in 0..Base(attempt),
           NEW ms \in [kind : HeaderKinds, value : Int],
           NEW seconds \in [kind : HeaderKinds, value : Int]
    PROVE  DelayKeepsBounds(attempt, jitter, ms, seconds)
<1> DEFINE a == ms.value
           b == seconds.value
           hint  == retryAfterSeconds(ms, seconds)
           delay == retrySleepDuration(attempt, hint, jitter)
           asked == Asked(ms, seconds)
           usable(h) == h.kind = "number" /\ h.value >= 0
<1>1. /\ Base(attempt) \in Nat /\ Base(attempt) <= MaxBackoff /\ jitter \in Nat /\ jitter <= Base(attempt)
      /\ jitter <= MaxRetryAfter
  <2>1. Base(attempt) \in Nat /\ Base(attempt) <= MaxBackoff
    BY BaseBounds
  <2> QED
    BY <2>1 DEF MaxBackoff, MaxRetryAfter
<1>2. a \in Int /\ b \in Int /\ 0 \in Int
  OBVIOUS
<1>3. /\ asked \subseteq {a, b, 0}
      /\ \A v \in asked : v \in Nat
      /\ usable(ms) => ms.value \in asked
      /\ usable(seconds) => seconds.value \in asked
      /\ ~usable(ms) /\ ~usable(seconds) => asked = {}
      /\ asked # {} => usable(ms) \/ usable(seconds)
  BY <1>2 DEF Asked
<1>4. hint = IF usable(ms) THEN LesserOf(ms.value, MaxRetryAfter)
             ELSE IF usable(seconds) THEN LesserOf(seconds.value, MaxRetryAfter) ELSE NoHint
  BY <1>2 DEF retryAfterSeconds, boundedRetryAfter, LesserOf, MaxRetryAfter, NoHint
<1>5. hint \in Int /\ hint >= NoHint /\ hint <= MaxRetryAfter
  BY <1>2, <1>4 DEF LesserOf, MaxRetryAfter, NoHint
<1> HIDE DEF hint, asked, a, b
<1>6. delay = GreaterOf(jitter, hint)
  BY <1>1, <1>5
  DEF retrySleepDuration, boundedRetryAfter, LesserOf, GreaterOf, MaxRetryAfter, NoHint
<1> HIDE DEF delay
<1>7. delay \in Nat /\ delay <= MaxRetryAfter
  <2>1. jitter \in Nat /\ jitter <= 60000 /\ hint \in Int /\ hint <= 60000
    BY <1>1, <1>5 DEF MaxRetryAfter
  <2> QED
    BY <1>6, <2>1 DEF GreaterOf, MaxRetryAfter
<1>8. CASE asked = {}
  <2>1. hint = NoHint
    BY <1>3, <1>4, <1>8
  <2>2. delay = jitter
    BY <1>1, <1>6, <2>1 DEF GreaterOf, NoHint
  <2>3. delay <= Base(attempt) /\ Base(attempt) <= MaxBackoff
    BY <1>1, <2>2
  <2> QED
    BY <1>7, <1>8, <2>2, <2>3 DEF DelayKeepsBounds, delay, hint, asked
<1>9. CASE asked # {}
  <2>1. PICK v \in asked : hint = LesserOf(v, MaxRetryAfter)
    BY <1>3, <1>4, <1>9
  <2>2. Max(asked \cup {0}) \in Int /\ Max(asked \cup {0}) >= v
    <3> DEFINE T == asked \cup {0}
    <3>1. T \subseteq {a, b, 0} /\ T # {} /\ v \in T
      BY <1>3
    <3> HIDE DEF T
    <3>2. Max(T) \in T /\ \A y \in T : Max(T) >= y
      BY <1>2, <3>1, MinMaxOfThree
    <3> QED
      BY <1>2, <3>1, <3>2 DEF T
  <2>3. Min(asked) \in Nat /\ Min(asked) <= v
    <3>1. Min(asked) \in asked /\ \A y \in asked : Min(asked) <= y
      BY <1>2, <1>3, <1>9, MinMaxOfThree
    <3> QED
      BY <1>3, <3>1
  <2>4. v \in Nat
    BY <1>3
  <2> DEFINE top == Max(asked \cup {0})
             bottom == Min(asked)
  <2> HIDE DEF top, bottom
  <2>5. top \in Int /\ top >= v /\ bottom \in Nat /\ bottom <= v
    BY <2>2, <2>3 DEF top, bottom
  <2>6. delay <= Base(attempt) \/ delay <= top
    BY <1>1, <1>6, <2>1, <2>4, <2>5 DEF LesserOf, GreaterOf, MaxRetryAfter
  <2>7. delay >= LesserOf(bottom, MaxRetryAfter)
    BY <1>1, <1>6, <2>1, <2>4, <2>5 DEF LesserOf, GreaterOf, MaxRetryAfter
  <2> QED
    BY <1>7, <1>9, <2>6, <2>7 DEF DelayKeepsBounds, delay, hint, asked, top, bottom
<1> QED
  BY <1>8, <1>9

(* The inputs of the retry kernel keep their bounds.                       *)
THEOREM DelaysAreBounded == KernelSpec => []DelayIsBounded
<1> DEFINE Inputs == [attempt : 0..9, draw : 0..4,
                      ms : [kind : HeaderKinds, value : {-5, 0, 250, 90000}],
                      seconds : [kind : HeaderKinds, value : {-1000, 2000, 100000}]]
           Inv == kernel = "delay" => input \in Inputs
<1>1. KernelInit => Inv
  BY DEF KernelInit
<1>2. Inv /\ [KernelNext]_kernelVars => Inv'
  BY DEF KernelNext, kernelVars
<1>3. Inv => DelayIsBounded
  <2> SUFFICES ASSUME kernel = "delay", input \in Inputs
               PROVE  DelayKeepsBounds(input.attempt, (Base(input.attempt) * input.draw) \div 4,
                                       input.ms, input.seconds)
    BY DEF DelayIsBounded
  <2> DEFINE base == Base(input.attempt)
             jitter == (base * input.draw) \div 4
  <2>1. /\ input.attempt \in Nat /\ input.draw \in 0..4
        /\ input.ms \in [kind : HeaderKinds, value : Int]
        /\ input.seconds \in [kind : HeaderKinds, value : Int]
    OBVIOUS
  <2>2. base \in Nat
    BY <2>1, BaseBounds
  <2> HIDE DEF base
  <2>3. jitter \in 0..base
    BY <2>1, <2>2
  <2> HIDE DEF jitter
  <2> QED
    BY <2>1, <2>3, EveryDelayKeepsBounds DEF base, jitter
<1> QED
  BY <1>1, <1>2, <1>3, PTL DEF KernelSpec

-----------------------------------------------------------------------------
(* The counter table.                                                      *)

(* A row of the counter table, and the sum of the table's counts.          *)
Row == [key : Keys, count : Nat]
Total(table) == SumFunction(RowCounts(table))

(* Folding a key, and folding it again.                                    *)
LEMMA FoldedKey ==
    ASSUME NEW key \in Keys, NEW e \in BOOLEAN
    PROVE  /\ telemetryFoldedCounterKey(key, e) \in Keys
           /\ telemetryFoldedCounterKey(key, e) =
                [endpoint |-> IF e THEN "inference_other" ELSE key.endpoint,
                 errorClass |-> "unknown", rest |-> key.rest]
BY CounterTableAssumption DEF telemetryFoldedCounterKey, Keys

(* Folding a folded key folds it as far as the two folds together.         *)
LEMMA FoldedTwice ==
    ASSUME NEW key \in Keys, NEW d \in BOOLEAN, NEW e \in BOOLEAN
    PROVE  telemetryFoldedCounterKey(telemetryFoldedCounterKey(key, d), e) =
             telemetryFoldedCounterKey(key, d \/ e)
<1> DEFINE once == telemetryFoldedCounterKey(key, d)
<1>1. /\ once \in Keys /\ once.rest = key.rest
      /\ once.endpoint = IF d THEN "inference_other" ELSE key.endpoint
  BY FoldedKey
<1> HIDE DEF once
<1>2. telemetryFoldedCounterKey(once, e) =
        [endpoint |-> IF e THEN "inference_other" ELSE once.endpoint,
         errorClass |-> "unknown", rest |-> once.rest]
  BY <1>1, FoldedKey
<1>3. telemetryFoldedCounterKey(key, d \/ e) =
        [endpoint |-> IF d \/ e THEN "inference_other" ELSE key.endpoint,
         errorClass |-> "unknown", rest |-> key.rest]
  <2>1. (d \/ e) \in BOOLEAN
    OBVIOUS
  <2> QED
    BY <2>1, FoldedKey
<1> QED
  BY <1>1, <1>2, <1>3 DEF once

(* What folds from a merged key folds on from it.                          *)
LEMMA FoldAgain ==
    ASSUME NEW k, FoldOfCounted(k), NEW e \in BOOLEAN
    PROVE  FoldOfCounted(telemetryFoldedCounterKey(k, e))
<1>1. PICK c \in Counted : k \in {c, telemetryFoldedCounterKey(c, FALSE),
                                     telemetryFoldedCounterKey(c, TRUE)}
  BY DEF FoldOfCounted
<1>2. c \in Keys
  BY DEF Counted
<1>3. telemetryFoldedCounterKey(k, e) \in {telemetryFoldedCounterKey(c, FALSE),
                                           telemetryFoldedCounterKey(c, TRUE)}
  <2>1. CASE k = c
    BY <2>1
  <2>2. CASE k = telemetryFoldedCounterKey(c, FALSE)
    <3>1. telemetryFoldedCounterKey(k, e) = telemetryFoldedCounterKey(c, FALSE \/ e)
      BY <1>2, <2>2, FoldedTwice
    <3> QED
      BY <3>1
  <2>3. CASE k = telemetryFoldedCounterKey(c, TRUE)
    <3>1. telemetryFoldedCounterKey(k, e) = telemetryFoldedCounterKey(c, TRUE \/ e)
      BY <1>2, <2>3, FoldedTwice
    <3> QED
      BY <3>1
  <2> QED
    BY <1>1, <2>1, <2>2, <2>3
<1> QED
  BY <1>3 DEF FoldOfCounted

-----------------------------------------------------------------------------
(* The columns of a table.                                                 *)
LEMMA ColumnFacts ==
    ASSUME NEW table \in Seq(Row)
    PROVE  /\ RowCounts(table) \in Seq(Nat) /\ RowCounts(table) \in Seq(Int)
           /\ Len(RowCounts(table)) = Len(table) /\ Len(table) \in Nat
           /\ DOMAIN table = 1..Len(table) /\ IsFiniteSet(DOMAIN table)
           /\ \A i \in DOMAIN table : /\ table[i].key \in Keys /\ table[i].count \in Nat
                                      /\ RowCounts(table)[i] = table[i].count
           /\ Total(table) \in Nat
<1>1. DOMAIN table = 1..Len(table) /\ Len(table) \in Nat /\ \A i \in DOMAIN table : table[i] \in Row
  <2> HIDE DEF Row
  <2> QED
    OBVIOUS
<1>2. \A i \in DOMAIN table : table[i].key \in Keys /\ table[i].count \in Nat
  BY <1>1 DEF Row
<1> DEFINE c == RowCounts(table)
<1>3. c = [i \in 1..Len(table) |-> table[i].count] /\ \A i \in 1..Len(table) : table[i].count \in Nat
  BY <1>1, <1>2 DEF RowCounts
<1> HIDE DEF c
<1>4. c \in Seq(Nat) /\ Len(c) = Len(table)
  BY <1>1, <1>3
<1>5. c \in Seq(Int)
  BY <1>4
<1>6. SumFunction(c) \in Nat /\ IsFiniteSet(1..Len(table))
  BY <1>1, <1>4, SeqSumType, FS_Interval
<1> QED
  BY <1>1, <1>2, <1>3, <1>4, <1>5, <1>6 DEF c, Total

(* With distinct keys a key's count is that of its row.                    *)
LEMMA CountAt ==
    ASSUME NEW table \in Seq(Row), DistinctKeys(table), NEW i \in DOMAIN table
    PROVE  countOf(table, table[i].key) = table[i].count /\ has(table, table[i].key)
<1> DEFINE j == CHOOSE x \in DOMAIN table : table[x].key = table[i].key
<1>1. j \in DOMAIN table /\ table[j].key = table[i].key
  OBVIOUS
<1> HIDE DEF j
<1>2. j = i
  BY <1>1 DEF DistinctKeys
<1> QED
  BY <1>2 DEF countOf, has, j

(* A key without a row counts nothing.                                     *)
LEMMA CountMissing ==
    ASSUME NEW table, NEW key, ~has(table, key)
    PROVE  countOf(table, key) = 0
BY DEF countOf

(* The keys of a table are those it has a row for.                         *)
LEMMA RowKeysHas ==
    ASSUME NEW table, NEW key
    PROVE  has(table, key) <=> key \in RowKeys(table)
BY DEF has, RowKeys

(* put of a key that has no row.                                           *)
LEMMA PutNew ==
    ASSUME NEW table \in Seq(Row), DistinctKeys(table), NEW key \in Keys, NEW count \in Nat,
           ~has(table, key)
    PROVE  LET t == put(table, key, count)
           IN  /\ t \in Seq(Row) /\ DistinctKeys(t) /\ Len(t) = Len(table) + 1
               /\ Total(t) = Total(table) + count
               /\ RowKeys(t) = RowKeys(table) \cup {key}
               /\ countOf(t, key) = count
               /\ \A k : k # key => countOf(t, k) = countOf(table, k)
<1> DEFINE row == [key |-> key, count |-> count]
           t == put(table, key, count)
           m == Len(table) + 1
<1>1. t = Append(table, row)
  BY DEF put
<1>2. row \in Row /\ row.key = key /\ row.count = count
  BY DEF Row
<1>3. Len(table) \in Nat /\ DOMAIN table = 1..Len(table)
  BY ColumnFacts
<1> HIDE DEF row, t
<1>4. /\ t \in Seq(Row) /\ Len(t) = m /\ DOMAIN t = 1..m
      /\ \A i \in 1..Len(table) : t[i] = table[i]
      /\ t[m] = row
  <2> HIDE DEF Row
  <2> QED
    BY <1>1, <1>2, <1>3
<1>5. \A i \in DOMAIN t : (i \in DOMAIN table /\ t[i] = table[i]) \/ (i = m /\ t[i] = row)
  BY <1>3, <1>4
<1>6. \A i \in DOMAIN table : i \in DOMAIN t /\ t[i] = table[i] /\ table[i].key # key
  BY <1>3, <1>4 DEF has
<1>7. DistinctKeys(t)
  <2> SUFFICES ASSUME NEW i \in DOMAIN t, NEW j \in DOMAIN t, t[i].key = t[j].key PROVE i = j
    BY DEF DistinctKeys
  <2> QED
    BY <1>2, <1>5, <1>6 DEF DistinctKeys
<1>8. RowKeys(t) = RowKeys(table) \cup {key}
  <2>1. \A k \in RowKeys(t) : k \in RowKeys(table) \cup {key}
    BY <1>2, <1>5 DEF RowKeys
  <2>2. \A k \in RowKeys(table) : k \in RowKeys(t)
    BY <1>6 DEF RowKeys
  <2>3. m \in DOMAIN t /\ t[m].key = key
    BY <1>2, <1>3, <1>4
  <2>4. key \in RowKeys(t)
    BY <2>3 DEF RowKeys
  <2> QED
    BY <2>1, <2>2, <2>4
<1>9. Total(t) = Total(table) + count
  <2> DEFINE c == RowCounts(table)
             d == RowCounts(t)
  <2>1. /\ c \in Seq(Int) /\ d \in Seq(Int) /\ Len(c) = Len(table) /\ Len(d) = m
        /\ \A i \in DOMAIN table : c[i] = table[i].count
        /\ \A i \in DOMAIN t : d[i] = t[i].count
    BY <1>4, ColumnFacts
  <2> HIDE DEF c, d
  <2>2. Append(c, count) \in Seq(Int) /\ Len(Append(c, count)) = m
    BY <1>3, <2>1
  <2>3. ASSUME NEW i \in 1..m PROVE d[i] = Append(c, count)[i]
    <3>1. CASE i = m
      BY <1>2, <1>3, <1>4, <2>1, <3>1
    <3>2. CASE i # m
      <4>1. i \in 1..Len(table)
        BY <1>3, <3>2
      <4>2. Append(c, count)[i] = c[i]
        BY <2>1, <4>1
      <4> QED
        BY <1>3, <1>4, <2>1, <4>1, <4>2
    <3> QED
      BY <3>1, <3>2
  <2>4. d = Append(c, count)
    BY <2>1, <2>2, <2>3, SeqEqual
  <2>5. SumFunction(Append(c, count)) = SumFunction(c) + count
    BY <2>1, SumAppend
  <2> QED
    BY <2>4, <2>5 DEF Total, c, d
<1>10. countOf(t, key) = count
  <2>1. m \in DOMAIN t
    BY <1>3, <1>4
  <2> QED
    BY <1>2, <1>4, <1>7, <2>1, CountAt
<1>11. ASSUME NEW k, k # key PROVE countOf(t, k) = countOf(table, k)
  <2>1. CASE has(table, k)
    <3>1. PICK i \in DOMAIN table : table[i].key = k
      BY <2>1 DEF has
    <3>2. countOf(table, k) = table[i].count
      BY <3>1, CountAt
    <3>3. countOf(t, k) = t[i].count
      BY <1>4, <1>6, <1>7, <3>1, CountAt
    <3> QED
      BY <1>6, <3>2, <3>3
  <2>2. CASE ~has(table, k)
    <3>1. ~has(t, k)
      BY <1>8, <1>11, <2>2, RowKeysHas
    <3> QED
      BY <2>2, <3>1, CountMissing
  <2> QED
    BY <2>1, <2>2
<1> QED
  BY <1>4, <1>7, <1>8, <1>9, <1>10, <1>11 DEF t

(* put of a key that has a row.                                            *)
LEMMA PutOld ==
    ASSUME NEW table \in Seq(Row), DistinctKeys(table), NEW key \in Keys, NEW count \in Nat,
           has(table, key)
    PROVE  LET t == put(table, key, count)
           IN  /\ t \in Seq(Row) /\ DistinctKeys(t) /\ Len(t) = Len(table)
               /\ Total(t) = Total(table) + count - countOf(table, key)
               /\ RowKeys(t) = RowKeys(table)
               /\ countOf(t, key) = count
               /\ \A k : k # key => countOf(t, k) = countOf(table, k)
<1> DEFINE row == [key |-> key, count |-> count]
           t == put(table, key, count)
<1>1. t = [i \in DOMAIN table |-> IF table[i].key = key THEN row ELSE table[i]]
  BY DEF put
<1>2. row \in Row /\ row.key = key /\ row.count = count
  BY DEF Row
<1>3. Len(table) \in Nat /\ DOMAIN table = 1..Len(table)
  BY ColumnFacts
<1>4. PICK p \in DOMAIN table : table[p].key = key
  BY DEF has
<1> HIDE DEF row, t
<1>5. /\ t \in Seq(Row) /\ Len(t) = Len(table) /\ DOMAIN t = DOMAIN table
      /\ \A i \in DOMAIN table : i # p => t[i] = table[i]
      /\ \A i \in DOMAIN table : t[i].key = table[i].key
      /\ t[p] = row
  <2>1. \A i \in 1..Len(table) : (IF table[i].key = key THEN row ELSE table[i]) \in Row
    <3> HIDE DEF Row
    <3> QED
      BY <1>2, <1>3
  <2>2. t \in Seq(Row) /\ Len(t) = Len(table) /\ DOMAIN t = DOMAIN table
    <3> HIDE DEF Row
    <3> QED
      BY <1>1, <1>3, <2>1
  <2>3. \A i \in DOMAIN table : i # p => table[i].key # key
    BY <1>4 DEF DistinctKeys
  <2> QED
    BY <1>1, <1>2, <1>4, <2>2, <2>3
<1>6. DistinctKeys(t) /\ RowKeys(t) = RowKeys(table)
  BY <1>5 DEF DistinctKeys, RowKeys
<1>7. countOf(t, key) = count
  BY <1>2, <1>5, <1>6, CountAt
<1>8. countOf(table, key) = table[p].count
  BY <1>4, CountAt
<1>9. Total(t) = Total(table) + count - countOf(table, key)
  <2> DEFINE c == RowCounts(table)
             d == RowCounts(t)
  <2>1. /\ c \in Seq(Int) /\ d \in Seq(Int) /\ Len(c) = Len(table) /\ Len(d) = Len(table)
        /\ \A i \in DOMAIN table : c[i] = table[i].count
        /\ \A i \in DOMAIN table : d[i] = t[i].count
    BY <1>5, ColumnFacts
  <2> HIDE DEF c, d
  <2>2. DifferAt(c, d, p) /\ p \in 1..Len(c) /\ d[p] = count /\ c[p] = countOf(table, key)
    BY <1>2, <1>3, <1>5, <1>8, <2>1 DEF DifferAt
  <2>3. SumFunction(d) = SumFunction(c) + d[p] - c[p]
    BY <2>1, <2>2, SumChange
  <2> QED
    BY <2>2, <2>3 DEF Total, c, d
<1>10. ASSUME NEW k, k # key PROVE countOf(t, k) = countOf(table, k)
  <2>1. CASE has(table, k)
    <3>1. PICK i \in DOMAIN table : table[i].key = k
      BY <2>1 DEF has
    <3>2. i # p /\ t[i].key = k /\ t[i] = table[i]
      BY <1>4, <1>5, <1>10, <3>1
    <3>3. countOf(table, k) = table[i].count
      BY <3>1, CountAt
    <3>4. countOf(t, k) = t[i].count
      BY <1>5, <1>6, <3>2, CountAt
    <3> QED
      BY <3>2, <3>3, <3>4
  <2>2. CASE ~has(table, k)
    <3>1. ~has(t, k)
      BY <1>6, <2>2, RowKeysHas
    <3> QED
      BY <2>2, <3>1, CountMissing
  <2> QED
    BY <2>1, <2>2
<1> QED
  BY <1>5, <1>6, <1>7, <1>9, <1>10 DEF t

(* remove takes out one row.                                               *)
LEMMA RemoveRow ==
    ASSUME NEW table \in Seq(Row), DistinctKeys(table), NEW i \in DOMAIN table
    PROVE  LET t == remove(table, i)
           IN  /\ t \in Seq(Row) /\ DistinctKeys(t) /\ Len(t) = Len(table) - 1
               /\ Total(t) = Total(table) - table[i].count
               /\ RowKeys(t) = RowKeys(table) \ {table[i].key}
<1> DEFINE t == remove(table, i)
           n == Len(table)
           p == [j \in 1..(n - 1) |-> IF j < i THEN j ELSE j + 1]
<1>1. n \in Nat /\ DOMAIN table = 1..n /\ i \in 1..n /\ i \in Nat
  BY ColumnFacts
<1>2. /\ t \in Seq(Row) /\ Len(t) = n - 1 /\ DOMAIN t = 1..(n - 1)
      /\ \A j \in 1..(n - 1) : t[j] = IF j < i THEN table[j] ELSE table[j + 1]
  <2> HIDE DEF Row
  <2> DEFINE a == SubSeq(table, 1, i - 1)
             b == SubSeq(table, i + 1, Len(table))
  <2>1. t = a \o b
    BY DEF remove, RemoveAt
  <2>2. /\ a \in Seq(Row) /\ Len(a) = i - 1 /\ b \in Seq(Row) /\ Len(b) = n - i
        /\ \A j \in 1..(i - 1) : a[j] = table[j]
        /\ \A j \in 1..(n - i) : b[j] = table[j + i]
    BY <1>1
  <2> HIDE DEF a, b, t, n
  <2>3. /\ t \in Seq(Row) /\ Len(t) = n - 1
        /\ \A j \in 1..(i - 1) : t[j] = a[j]
        /\ \A j \in 1..(n - i) : t[i - 1 + j] = b[j]
    BY <1>1, <2>1, <2>2
  <2>4. DOMAIN t = 1..(n - 1)
    BY <1>1, <2>3
  <2>5. ASSUME NEW j \in 1..(n - 1)
        PROVE  t[j] = IF j < i THEN table[j] ELSE table[j + 1]
    <3>1. CASE j < i
      BY <1>1, <2>2, <2>3, <3>1
    <3>2. CASE ~(j < i)
      <4> DEFINE l == j - i + 1
      <4>1. l \in 1..(n - i) /\ i - 1 + l = j /\ l + i = j + 1
        BY <1>1, <3>2
      <4> HIDE DEF l
      <4>2. t[i - 1 + l] = b[l] /\ b[l] = table[l + i]
        BY <2>2, <2>3, <4>1
      <4>3. t[j] = table[j + 1]
        BY <4>1, <4>2
      <4> QED
        BY <3>2, <4>3
    <3> QED
      BY <3>1, <3>2
  <2> QED
    BY <2>3, <2>4, <2>5
<1> HIDE DEF t, n
<1>3. /\ p \in [1..(n - 1) -> (1..n) \ {i}]
      /\ \A j, k \in 1..(n - 1) : p[j] = p[k] => j = k
      /\ \A j \in 1..(n - 1) : p[j] \in DOMAIN table /\ t[j] = table[p[j]]
  BY <1>1, <1>2
<1>4. \A x \in (1..n) \ {i} : \E j \in 1..(n - 1) : p[j] = x
  <2> SUFFICES ASSUME NEW x \in (1..n) \ {i} PROVE \E j \in 1..(n - 1) : p[j] = x
    OBVIOUS
  <2>1. CASE x < i
    <3>1. x \in 1..(n - 1) /\ p[x] = x
      BY <1>1, <2>1
    <3> QED
      BY <3>1
  <2>2. CASE x > i
    <3>1. x - 1 \in 1..(n - 1) /\ p[x - 1] = x
      BY <1>1, <2>2
    <3> QED
      BY <3>1
  <2> QED
    BY <1>1, <2>1, <2>2
<1> HIDE DEF p
<1>5. DistinctKeys(t)
  <2> SUFFICES ASSUME NEW j \in 1..(n - 1), NEW k \in 1..(n - 1), t[j].key = t[k].key
               PROVE  j = k
    BY <1>2 DEF DistinctKeys
  <2>1. p[j] = p[k]
    BY <1>3 DEF DistinctKeys
  <2> QED
    BY <1>3, <2>1
<1>6. RowKeys(t) = RowKeys(table) \ {table[i].key}
  <2>1. ASSUME NEW k \in RowKeys(t) PROVE k \in RowKeys(table) \ {table[i].key}
    <3>1. PICK j \in 1..(n - 1) : t[j].key = k
      BY <1>2 DEF RowKeys
    <3>2. p[j] \in DOMAIN table /\ p[j] # i /\ table[p[j]].key = k
      BY <1>3, <3>1
    <3> QED
      BY <3>2 DEF RowKeys, DistinctKeys
  <2>2. ASSUME NEW k \in RowKeys(table) \ {table[i].key} PROVE k \in RowKeys(t)
    <3>1. PICK x \in DOMAIN table : table[x].key = k /\ x # i
      BY DEF RowKeys
    <3>2. PICK j \in 1..(n - 1) : p[j] = x
      BY <1>1, <1>4, <3>1
    <3>3. j \in DOMAIN t /\ t[j].key = k
      BY <1>2, <1>3, <3>1, <3>2
    <3> QED
      BY <3>3 DEF RowKeys
  <2> QED
    BY <2>1, <2>2
<1>7. Total(t) = Total(table) - table[i].count
  <2> DEFINE c == RowCounts(table)
             d == RowCounts(t)
             R == 1..(n - 1)
             S == (1..n) \ {i}
  <2>1. /\ DOMAIN c = 1..n /\ DOMAIN d = R
        /\ \A j \in 1..n : c[j] \in Int /\ c[j] = table[j].count
        /\ \A j \in R : d[j] = t[j].count
        /\ Total(table) \in Nat /\ Total(t) \in Nat
    <3>1. /\ \A j \in DOMAIN table : c[j] = table[j].count /\ table[j].count \in Nat
          /\ DOMAIN c = DOMAIN table /\ Total(table) \in Nat
      BY ColumnFacts DEF RowCounts
    <3>2. /\ \A j \in DOMAIN t : d[j] = t[j].count
          /\ DOMAIN d = DOMAIN t /\ Total(t) \in Nat
      BY <1>2, ColumnFacts DEF RowCounts
    <3> HIDE DEF c, d
    <3>3. DOMAIN c = 1..n /\ DOMAIN d = R
      BY <1>1, <1>2, <3>1, <3>2
    <3>4. \A j \in 1..n : c[j] \in Int /\ c[j] = table[j].count
      BY <1>1, <3>1
    <3>5. \A j \in R : d[j] = t[j].count
      BY <1>2, <3>2
    <3> QED
      BY <3>1, <3>2, <3>3, <3>4, <3>5
  <2>2. IsFiniteSet(1..n) /\ IsFiniteSet(R) /\ IsFiniteSet(S)
    <3>1. n \in Int /\ n - 1 \in Int /\ 1 \in Int
      BY <1>1
    <3>2. IsFiniteSet(1..n) /\ IsFiniteSet(R)
      BY <3>1, FS_Interval
    <3> QED
      BY <3>2, FS_Subset
  <2>3. SumFunctionOnSet(c, 1..n) = c[i] + SumFunctionOnSet(c, S)
    <3> DEFINE D == 1..n
    <3>1. IsFiniteSet(D) /\ i \in D /\ \A j \in D : c[j] \in Int
      BY <1>1, <2>1, <2>2
    <3> HIDE DEF D, c
    <3>2. SumFunctionOnSet(c, D) = c[i] + SumFunctionOnSet(c, D \ {i})
      BY <3>1, SumRemove
    <3> QED
      BY <3>2 DEF D
  <2>4. SumFunctionOnSet(d, R) = SumFunctionOnSet(c, S)
    <3>1. /\ \A x \in S : c[x] \in Int
          /\ p \in [R -> S]
          /\ \A j, k \in R : p[j] = p[k] => j = k
          /\ \A x \in S : \E j \in R : p[j] = x
      BY <1>3, <1>4, <2>1
    <3>2. \A j \in R : d[j] = c[p[j]]
      <4> HIDE DEF c, d
      <4> SUFFICES ASSUME NEW j \in R PROVE d[j] = c[p[j]]
        OBVIOUS
      <4>1. p[j] \in 1..n /\ t[j] = table[p[j]] /\ d[j] = t[j].count
        BY <1>1, <1>3, <2>1
      <4>2. c[p[j]] = table[p[j]].count
        BY <2>1, <4>1
      <4> QED
        BY <4>1, <4>2
    <3> HIDE DEF R, S, c, d
    <3> QED
      BY <2>2, <3>1, <3>2, SumReindex
  <2>5. c[i] = table[i].count
    BY <1>1, <2>1
  <2>6. Total(table) = SumFunctionOnSet(c, 1..n) /\ Total(t) = SumFunctionOnSet(d, R)
    BY <2>1 DEF Total, SumFunction
  <2>7. table[i].count \in Int
    BY ColumnFacts
  <2> HIDE DEF R, S, c, d
  <2> QED
    BY <2>1, <2>3, <2>4, <2>5, <2>6, <2>7
<1> QED
  BY <1>2, <1>5, <1>6, <1>7 DEF t, n

(* Re-keying a row to a fold that has none keeps the counts.               *)
LEMMA RekeyedFacts ==
    ASSUME NEW table \in Seq(Row), DistinctKeys(table), NEW i \in DOMAIN table, NEW e \in BOOLEAN,
           ~has(table, telemetryFoldedCounterKey(table[i].key, e))
    PROVE  LET t == Rekeyed(table, i, e)
               k == telemetryFoldedCounterKey(table[i].key, e)
           IN  /\ t \in Seq(Row) /\ DistinctKeys(t) /\ Len(t) = Len(table)
               /\ Total(t) = Total(table) /\ k \in Keys
               /\ has(t, k) /\ RowKeys(t) = (RowKeys(table) \ {table[i].key}) \cup {k}
<1> DEFINE k == telemetryFoldedCounterKey(table[i].key, e)
           s == remove(table, i)
           c == table[i].count
           t == put(s, k, c)
<1>1. table[i].key \in Keys /\ c \in Nat /\ Total(table) \in Nat /\ Len(table) \in Nat
  BY ColumnFacts
<1>2. k \in Keys
  BY <1>1, FoldedKey
<1>3. /\ s \in Seq(Row) /\ DistinctKeys(s) /\ Len(s) = Len(table) - 1
      /\ Total(s) = Total(table) - c
      /\ RowKeys(s) = RowKeys(table) \ {table[i].key}
  BY RemoveRow
<1> HIDE DEF k, s, c
<1>4. ~has(s, k)
  <2>1. ~has(table, k)
    BY DEF k
  <2> QED
    BY <1>3, <2>1, RowKeysHas
<1>5. /\ t \in Seq(Row) /\ DistinctKeys(t) /\ Len(t) = Len(s) + 1
      /\ Total(t) = Total(s) + c /\ RowKeys(t) = RowKeys(s) \cup {k}
  BY <1>1, <1>2, <1>3, <1>4, PutNew
<1>6. has(t, k)
  BY <1>5, RowKeysHas
<1> HIDE DEF t
<1>7. Len(t) = Len(table) /\ Total(t) = Total(table)
  BY <1>1, <1>3, <1>5
<1>8. Rekeyed(table, i, e) = t
  BY DEF Rekeyed, t, s, k, c
<1> QED
  BY <1>2, <1>3, <1>5, <1>6, <1>7, <1>8 DEF k

(* One rung of the ladder: it finds a row of the folded key, and loses no  *)
(* count.  A key it makes is the fold of one that the table had.           *)
Placed(table, t) ==
    /\ t.rows \in Seq(Row) /\ DistinctKeys(t.rows) /\ Len(t.rows) = Len(table)
    /\ Total(t.rows) = Total(table) /\ t.key \in Keys

(* A rung of the ladder loses no count, makes a row for its key and adds   *)
(* no key but folded ones.                                                 *)
LEMMA RungFacts ==
    ASSUME NEW table \in Seq(Row), DistinctKeys(table), NEW key \in Keys, NEW e \in BOOLEAN,
           NEW t \in Rung(table, key, e)
    PROVE  /\ Placed(table, t) /\ has(t.rows, t.key)
           /\ \A k \in RowKeys(t.rows) : \/ k \in RowKeys(table)
                                         \/ \E j \in RowKeys(table) : k = telemetryFoldedCounterKey(j, e)
<1> DEFINE folded == telemetryFoldedCounterKey(key, e)
           matching == Compatible(table, key, e)
<1>1. folded \in Keys
  BY FoldedKey
<1>2. CASE has(table, folded)
  <2>1. t = Target(table, folded)
    BY <1>2 DEF Rung
  <2>2. t.rows = table /\ t.key = folded
    BY <2>1 DEF Target
  <2> QED
    BY <1>1, <1>2, <2>2 DEF Placed
<1>3. CASE ~has(table, folded) /\ matching # {}
  <2> DEFINE i == Min(matching)
             k == telemetryFoldedCounterKey(table[i].key, e)
  <2>1. t = Target(Rekeyed(table, i, e), k)
    BY <1>3 DEF Rung
  <2>2. i \in matching
    <3>1. matching \subseteq Nat
      BY ColumnFacts DEF Compatible
    <3> HIDE DEF matching
    <3> QED
      BY <1>3, <3>1, MinIsLeast
  <2> HIDE DEF i
  <2>3. i \in DOMAIN table /\ Match(table[i].key, key, e) /\ table[i].key \in Keys
    BY <2>2, ColumnFacts DEF Compatible
  <2>4. k = folded
    BY <2>3, FoldedKey DEF Match
  <2> DEFINE r == Rekeyed(table, i, e)
  <2>5. /\ r \in Seq(Row) /\ DistinctKeys(r) /\ Len(r) = Len(table)
        /\ Total(r) = Total(table) /\ k \in Keys
        /\ has(r, k) /\ RowKeys(r) = (RowKeys(table) \ {table[i].key}) \cup {k}
    <3>1. ~has(table, k)
      BY <1>3, <2>4
    <3> QED
      BY <2>3, <3>1, RekeyedFacts
  <2>6. t.rows = r /\ t.key = k
    BY <2>1 DEF Target
  <2>7. table[i].key \in RowKeys(table)
    BY <2>3 DEF RowKeys
  <2> HIDE DEF r
  <2>8. ASSUME NEW x \in RowKeys(r)
        PROVE  x \in RowKeys(table) \/ \E j \in RowKeys(table) : x = telemetryFoldedCounterKey(j, e)
    <3>1. CASE x = k
      BY <2>7, <3>1
    <3>2. CASE x # k
      BY <2>5, <3>2
    <3> QED
      BY <3>1, <3>2
  <2> HIDE DEF k
  <2> QED
    BY <2>5, <2>6, <2>8 DEF Placed
<1>4. CASE ~has(table, folded) /\ matching = {}
  BY <1>4 DEF Rung
<1> QED
  BY <1>2, <1>3, <1>4

(* counterTargetLocked: the key itself when it has a row or there is room; *)
(* else a row that is there, and no count is lost on the way.              *)
LEMMA TargetFacts ==
    ASSUME NEW table \in Seq(Row), DistinctKeys(table), NEW key \in Keys,
           Len(table) <= MaxWindowKeys
    PROVE  LET t == counterTargetLocked(table, key)
           IN  \/ /\ has(table, key) \/ Len(table) < MaxWindowKeys
                  /\ t.rows = table /\ t.key = key
               \/ /\ ~has(table, key) /\ Len(table) = MaxWindowKeys
                  /\ Placed(table, t) /\ has(t.rows, t.key)
                  /\ \A k \in RowKeys(t.rows) :
                        \/ k \in RowKeys(table)
                        \/ \E j \in RowKeys(table), e \in BOOLEAN : k = telemetryFoldedCounterKey(j, e)
<1> DEFINE t == counterTargetLocked(table, key)
           full == ~has(table, key) /\ ~(Len(table) < MaxWindowKeys)
           first == Rung(table, key, FALSE)
           second == Rung(table, key, TRUE)
<1>1. Len(table) \in Nat /\ MaxWindowKeys \in Nat \ {0}
  BY ColumnFacts, CounterTableAssumption
<1>2. CASE ~full
  <2>1. t = Target(table, key)
    BY <1>2 DEF counterTargetLocked
  <2>2. t.rows = table /\ t.key = key
    BY <2>1 DEF Target
  <2> QED
    BY <1>2, <2>2
<1>3. CASE full
  <2>1. Len(table) = MaxWindowKeys
    BY <1>1, <1>3
  <2>2. CASE first # {}
    <3>1. t \in first
      BY <1>3, <2>2 DEF counterTargetLocked
    <3> HIDE DEF t
    <3>2. /\ Placed(table, t) /\ has(t.rows, t.key)
          /\ \A k \in RowKeys(t.rows) : \/ k \in RowKeys(table)
                                        \/ \E j \in RowKeys(table) : k = telemetryFoldedCounterKey(j, FALSE)
      BY <3>1, RungFacts
    <3> QED
      BY <1>3, <2>1, <3>2 DEF t
  <2>3. CASE first = {} /\ second # {}
    <3>1. t \in second
      BY <1>3, <2>3 DEF counterTargetLocked
    <3> HIDE DEF t
    <3>2. /\ Placed(table, t) /\ has(t.rows, t.key)
          /\ \A k \in RowKeys(t.rows) : \/ k \in RowKeys(table)
                                        \/ \E j \in RowKeys(table) : k = telemetryFoldedCounterKey(j, TRUE)
      BY <3>1, RungFacts
    <3> QED
      BY <1>3, <2>1, <3>2 DEF t
  <2>4. CASE first = {} /\ second = {}
    <3>1. t = Target(table, table[1].key)
      BY <1>3, <2>4 DEF counterTargetLocked
    <3>2. t.rows = table /\ t.key = table[1].key
      BY <3>1 DEF Target
    <3>3. 1 \in DOMAIN table /\ table[1].key \in Keys
      BY <1>1, <2>1, ColumnFacts
    <3>4. has(table, table[1].key)
      BY <3>3 DEF has
    <3> HIDE DEF t
    <3> QED
      BY <1>3, <2>1, <3>2, <3>3, <3>4 DEF Placed, t
  <2> QED
    BY <2>2, <2>3, <2>4
<1> QED
  BY <1>2, <1>3

(* A table of distinct keys is no longer than the set they are from.       *)
LEMMA RowsFit ==
    ASSUME NEW table \in Seq(Row), DistinctKeys(table), NEW S, IsFiniteSet(S),
           RowKeys(table) \subseteq S
    PROVE  Len(table) <= Cardinality(S)
<1> DEFINE D == 1..Len(table)
           f == [i \in D |-> table[i].key]
<1>1. DOMAIN table = D /\ Len(table) \in Nat
  BY ColumnFacts
<1>2. f \in Injection(D, S)
  BY <1>1 DEF Injection, IsInjective, RowKeys, DistinctKeys
<1> HIDE DEF f
<1>3. Cardinality(D) <= Cardinality(S)
  <2> HIDE DEF D
  <2> QED
    BY <1>2, FS_Injection
<1>4. Cardinality(D) = Len(table)
  BY <1>1, FS_Interval
<1> QED
  BY <1>3, <1>4

(* A count is a natural number.                                            *)
LEMMA CountType ==
    ASSUME NEW table \in Seq(Row), DistinctKeys(table), NEW key
    PROVE  countOf(table, key) \in Nat
<1>1. CASE has(table, key)
  <2>1. PICK i \in DOMAIN table : table[i].key = key
    BY <1>1 DEF has
  <2> QED
    BY <2>1, CountAt, ColumnFacts
<1>2. CASE ~has(table, key)
  BY <1>2, CountMissing
<1> QED
  BY <1>1, <1>2

(* One increment: the table with it, and what it does to the rows.         *)
Counts(table, key) ==
    LET t == counterTargetLocked(table, key)
    IN  put(t.rows, t.key, countOf(t.rows, t.key) + 1)

(* Keys that an increment may add to a table.                              *)
MayAppear(table, key, k) ==
    \/ k \in RowKeys(table) \cup {key}
    \/ \E j \in RowKeys(table), e \in BOOLEAN : k = telemetryFoldedCounterKey(j, e)

(* An increment adds one to the counts, stays within the rows and, while   *)
(* there is room, changes only the row of its key.                         *)
LEMMA IncrementFacts ==
    ASSUME NEW table \in Seq(Row), DistinctKeys(table), NEW key \in Keys,
           Len(table) <= MaxWindowKeys
    PROVE  LET t == Counts(table, key)
           IN  /\ t \in Seq(Row) /\ DistinctKeys(t) /\ Len(t) <= MaxWindowKeys
               /\ Total(t) = Total(table) + 1
               /\ \A k \in RowKeys(t) : MayAppear(table, key, k)
               /\ has(table, key) \/ Len(table) < MaxWindowKeys =>
                     /\ RowKeys(t) = RowKeys(table) \cup {key}
                     /\ countOf(t, key) = countOf(table, key) + 1
                     /\ \A k : k # key => countOf(t, k) = countOf(table, k)
<1> DEFINE g == counterTargetLocked(table, key)
           s == g.rows
           h == g.key
           c == countOf(s, h)
           t == put(s, h, c + 1)
<1>1. Counts(table, key) = t
  BY DEF Counts
<1>2. Len(table) \in Nat /\ MaxWindowKeys \in Nat /\ Total(table) \in Nat
  BY ColumnFacts, CounterTableAssumption
<1>3. CASE has(table, key) \/ Len(table) < MaxWindowKeys
  <2>1. s = table /\ h = key
    BY <1>2, <1>3, TargetFacts
  <2>2. c \in Nat
    BY <2>1, CountType
  <2> HIDE DEF g, s, h, c
  <2>3. CASE has(table, key)
    <3>1. /\ t \in Seq(Row) /\ DistinctKeys(t) /\ Len(t) = Len(table)
          /\ Total(t) = Total(table) + (c + 1) - countOf(table, key)
          /\ RowKeys(t) = RowKeys(table)
          /\ countOf(t, key) = c + 1
          /\ \A k : k # key => countOf(t, k) = countOf(table, k)
      <4>1. c + 1 \in Nat
        BY <2>2
      <4> QED
        BY <2>1, <2>3, <4>1, PutOld
    <3>2. c = countOf(table, key)
      BY <2>1 DEF c
    <3>3. key \in RowKeys(table)
      BY <2>3, RowKeysHas
    <3> HIDE DEF t
    <3>4. Total(t) = Total(table) + 1
      BY <1>2, <2>2, <3>1, <3>2
    <3>5. RowKeys(t) = RowKeys(table) \cup {key} /\ countOf(t, key) = countOf(table, key) + 1
      BY <3>1, <3>2, <3>3
    <3>6. \A k \in RowKeys(t) : MayAppear(table, key, k)
      BY <3>5 DEF MayAppear
    <3> QED
      BY <1>1, <3>1, <3>4, <3>5, <3>6
  <2>4. CASE ~has(table, key) /\ Len(table) < MaxWindowKeys
    <3>1. c = 0 /\ countOf(table, key) = 0
      BY <2>1, <2>4, CountMissing DEF c
    <3>2. /\ t \in Seq(Row) /\ DistinctKeys(t) /\ Len(t) = Len(table) + 1
          /\ Total(t) = Total(table) + (c + 1)
          /\ RowKeys(t) = RowKeys(table) \cup {key}
          /\ countOf(t, key) = c + 1
          /\ \A k : k # key => countOf(t, k) = countOf(table, k)
      <4>1. c + 1 \in Nat
        BY <2>2
      <4> QED
        BY <2>1, <2>4, <4>1, PutNew
    <3> HIDE DEF t
    <3>3. Len(t) <= MaxWindowKeys /\ Total(t) = Total(table) + 1 /\ countOf(t, key) = countOf(table, key) + 1
      BY <1>2, <2>4, <3>1, <3>2
    <3>4. \A k \in RowKeys(t) : MayAppear(table, key, k)
      BY <3>2 DEF MayAppear
    <3> QED
      BY <1>1, <3>2, <3>3, <3>4
  <2> QED
    BY <1>3, <2>3, <2>4
<1>4. CASE ~(has(table, key) \/ Len(table) < MaxWindowKeys)
  <2>1. /\ Placed(table, g) /\ has(s, h) /\ Len(table) = MaxWindowKeys
        /\ \A k \in RowKeys(s) :
              \/ k \in RowKeys(table)
              \/ \E j \in RowKeys(table), e \in BOOLEAN : k = telemetryFoldedCounterKey(j, e)
    BY <1>2, <1>4, TargetFacts
  <2>2. s \in Seq(Row) /\ DistinctKeys(s) /\ Len(s) = Len(table) /\ Total(s) = Total(table) /\ h \in Keys
    BY <2>1 DEF Placed
  <2> HIDE DEF g, s, h
  <2>3. c \in Nat
    BY <2>2, CountType
  <2>4. /\ t \in Seq(Row) /\ DistinctKeys(t) /\ Len(t) = Len(s)
        /\ Total(t) = Total(s) + (c + 1) - countOf(s, h)
        /\ RowKeys(t) = RowKeys(s)
    <3>1. c + 1 \in Nat
      BY <2>3
    <3> HIDE DEF c
    <3> QED
      BY <2>1, <2>2, <3>1, PutOld
  <2>5. c = countOf(s, h)
    OBVIOUS
  <2> HIDE DEF t, c
  <2>6. Total(t) = Total(table) + 1 /\ Len(t) <= MaxWindowKeys
    BY <1>2, <2>1, <2>2, <2>3, <2>4, <2>5
  <2>7. \A k \in RowKeys(t) : MayAppear(table, key, k)
    BY <2>1, <2>4 DEF MayAppear
  <2> QED
    BY <1>1, <1>4, <2>4, <2>6, <2>7
<1> QED
  BY <1>3, <1>4

-----------------------------------------------------------------------------
(* A sum with one more at `key`, which may have counted nothing before.    *)
LEMMA SumMoreAt ==
    ASSUME NEW f, NEW g, NEW A, IsFiniteSet(A), NEW key,
           f[key] \in Int, \A k \in A : f[k] \in Int,
           g[key] = f[key] + 1, \A k \in A : k # key => g[k] = f[k],
           key \notin A => f[key] = 0
    PROVE  SumFunctionOnSet(g, A \cup {key}) = SumFunctionOnSet(f, A) + 1
<1> DEFINE B == A \cup {key}
           R == A \ {key}
<1>1. IsFiniteSet(B) /\ IsFiniteSet(R) /\ B \ {key} = R /\ key \in B
  BY FS_AddElement, FS_Subset
<1>2. \A k \in B : g[k] \in Int
  OBVIOUS
<1> HIDE DEF B
<1>3. SumFunctionOnSet(g, B) = g[key] + SumFunctionOnSet(g, B \ {key})
  BY <1>1, <1>2, SumRemove
<1>4. SumFunctionOnSet(g, R) = SumFunctionOnSet(f, R)
  <2>1. \A k \in R : f[k] \in Int /\ g[k] = f[k]
    OBVIOUS
  <2> HIDE DEF R
  <2> QED
    BY <1>1, <2>1, SumSame
<1>5. SumFunctionOnSet(f, R) \in Int
  <2>1. Int \in {Nat, Int} /\ \A k \in R : f[k] \in Int
    OBVIOUS
  <2> HIDE DEF R
  <2> QED
    BY <1>1, <2>1, SumType
<1>6. SumFunctionOnSet(f, A) = f[key] + SumFunctionOnSet(f, R)
  <2>1. CASE key \in A
    BY <2>1, SumRemove
  <2>2. CASE key \notin A
    <3>1. R = A /\ f[key] = 0
      BY <2>2
    <3> HIDE DEF R
    <3> QED
      BY <1>5, <3>1
  <2> QED
    BY <2>1, <2>2
<1> HIDE DEF R
<1>7. SumFunctionOnSet(g, B) = SumFunctionOnSet(f, A) + 1
  BY <1>1, <1>3, <1>4, <1>5, <1>6
<1> QED
  BY <1>7 DEF B

(* One increment more was merged.                                          *)
LEMMA MergedStep ==
    ASSUME seen \in [Keys -> Nat], IsFiniteSet(Counted), NEW key \in Keys,
           seen' = [seen EXCEPT ![key] = @ + 1]
    PROVE  /\ seen' \in [Keys -> Nat] /\ Counted' = Counted \cup {key}
           /\ IsFiniteSet(Counted') /\ Merged' = Merged + 1
           /\ Cardinality(Counted) <= Cardinality(Counted')
           /\ key \notin Counted => Cardinality(Counted') = Cardinality(Counted) + 1
           /\ Cardinality(Counted) \in Nat /\ Cardinality(Counted') \in Nat
<1>1. /\ seen' \in [Keys -> Nat] /\ seen'[key] = seen[key] + 1
      /\ \A k \in Keys : k # key => seen'[k] = seen[k]
      /\ \A k \in Keys : seen[k] \in Nat /\ seen'[k] \in Nat
  OBVIOUS
<1>2. /\ Counted' = Counted \cup {key} /\ Counted \subseteq Keys
      /\ key \notin Counted => seen[key] = 0
  BY <1>1 DEF Counted
<1>3. /\ IsFiniteSet(Counted') /\ Cardinality(Counted) \in Nat /\ Cardinality(Counted') \in Nat
      /\ Cardinality(Counted') =
           IF key \in Counted THEN Cardinality(Counted) ELSE Cardinality(Counted) + 1
  BY <1>2, FS_AddElement, FS_CardinalityType
<1>4. Cardinality(Counted) <= Cardinality(Counted')
  BY <1>3
<1>5. SumFunctionOnSet(seen', Counted \cup {key}) = SumFunctionOnSet(seen, Counted) + 1
  <2> DEFINE g == seen'
             A == Counted
  <2>1. /\ seen[key] \in Int /\ \A k \in A : seen[k] \in Int
        /\ g[key] = seen[key] + 1 /\ \A k \in A : k # key => g[k] = seen[k]
        /\ key \notin A => seen[key] = 0
        /\ IsFiniteSet(A)
    BY <1>1, <1>2
  <2> HIDE DEF g, A
  <2>2. SumFunctionOnSet(g, A \cup {key}) = SumFunctionOnSet(seen, A) + 1
    BY <2>1, SumMoreAt
  <2> QED
    BY <2>2 DEF g, A
<1>6. Merged' = Merged + 1
  BY <1>2, <1>5 DEF Merged
<1> QED
  BY <1>1, <1>2, <1>3, <1>4, <1>6

(* Every increment keeps the table's invariant.                            *)
LEMMA TableStep ==
    ASSUME TableInv, NEW key \in Keys, mergeCounters(key)
    PROVE  TableInv'
<1>1. /\ rows \in Seq(Row) /\ DistinctKeys(rows) /\ Len(rows) <= MaxWindowKeys
      /\ seen \in [Keys -> Nat] /\ IsFiniteSet(Counted) /\ Total(rows) = Merged
      /\ \A k \in RowKeys(rows) : FoldOfCounted(k)
      /\ MaxWindowKeys \in Nat
  BY CounterTableAssumption DEF TableInv, FoldedCountsExact, Row, Total
<1>2. rows' = Counts(rows, key) /\ seen' = [seen EXCEPT ![key] = @ + 1]
  BY DEF mergeCounters, Counts
<1>3. /\ seen' \in [Keys -> Nat] /\ Counted' = Counted \cup {key}
      /\ IsFiniteSet(Counted') /\ Merged' = Merged + 1
      /\ Cardinality(Counted) <= Cardinality(Counted')
      /\ key \notin Counted => Cardinality(Counted') = Cardinality(Counted) + 1
      /\ Cardinality(Counted) \in Nat /\ Cardinality(Counted') \in Nat
  BY <1>1, <1>2, MergedStep
<1>4. /\ rows' \in Seq(Row) /\ DistinctKeys(rows') /\ Len(rows') <= MaxWindowKeys
      /\ Total(rows') = Total(rows) + 1
      /\ \A k \in RowKeys(rows') : MayAppear(rows, key, k)
      /\ has(rows, key) \/ Len(rows) < MaxWindowKeys =>
            /\ RowKeys(rows') = RowKeys(rows) \cup {key}
            /\ countOf(rows', key) = countOf(rows, key) + 1
            /\ \A k : k # key => countOf(rows', k) = countOf(rows, k)
  BY <1>1, <1>2, IncrementFacts
<1>5. ASSUME NEW k, FoldOfCounted(k) PROVE FoldOfCounted(k)'
  BY <1>3, <1>5 DEF FoldOfCounted
<1>6. ASSUME NEW k \in RowKeys(rows') PROVE FoldOfCounted(k)'
  <2>1. MayAppear(rows, key, k)
    BY <1>4
  <2>2. CASE k \in RowKeys(rows)
    BY <1>1, <1>5, <2>2
  <2>3. CASE k = key
    BY <1>3, <2>3 DEF FoldOfCounted
  <2>4. ASSUME NEW j \in RowKeys(rows), NEW e \in BOOLEAN, k = telemetryFoldedCounterKey(j, e)
        PROVE  FoldOfCounted(k)'
    <3>1. FoldOfCounted(k)
      BY <1>1, <2>4, FoldAgain
    <3> QED
      BY <1>5, <3>1
  <2> QED
    BY <2>1, <2>2, <2>3, <2>4 DEF MayAppear
<1>7. ASSUME Cardinality(Counted') <= MaxWindowKeys
      PROVE  /\ RowKeys(rows') \subseteq Counted'
             /\ \A k \in Counted' : countOf(rows', k) = seen'[k]
  <2>1. /\ RowKeys(rows) \subseteq Counted
        /\ \A k \in Counted : countOf(rows, k) = seen[k]
    BY <1>1, <1>3, <1>7 DEF TableInv, FoldedCountsExact
  <2>2. Len(rows) <= Cardinality(Counted) /\ Len(rows) \in Nat
    BY <1>1, <2>1, RowsFit, ColumnFacts
  <2>3. has(rows, key) \/ Len(rows) < MaxWindowKeys
    <3>1. CASE key \in Counted
      <4>1. countOf(rows, key) > 0
        BY <1>1, <2>1, <3>1 DEF Counted
      <4> QED
        BY <4>1, CountMissing
    <3>2. CASE key \notin Counted
      BY <1>1, <1>3, <1>7, <2>2, <3>2
    <3> QED
      BY <3>1, <3>2
  <2>4. RowKeys(rows') \subseteq Counted'
    BY <1>3, <1>4, <2>1, <2>3
  <2>5. countOf(rows, key) = seen[key]
    <3>1. CASE key \in Counted
      BY <2>1, <3>1
    <3>2. CASE key \notin Counted
      <4>1. ~has(rows, key)
        BY <2>1, <3>2, RowKeysHas
      <4>2. seen[key] = 0
        BY <1>1, <3>2 DEF Counted
      <4> QED
        BY <4>1, <4>2, CountMissing
    <3> QED
      BY <3>1, <3>2
  <2>6. seen'[key] = seen[key] + 1 /\ \A k \in Keys : k # key => seen'[k] = seen[k]
    BY <1>1, <1>2
  <2>7. ASSUME NEW k \in Counted' PROVE countOf(rows', k) = seen'[k]
    <3>1. CASE k = key
      BY <1>4, <2>3, <2>5, <2>6, <3>1
    <3>2. CASE k # key
      <4>1. k \in Counted /\ k \in Keys
        BY <1>3, <3>2 DEF Counted
      <4> QED
        BY <1>4, <2>1, <2>3, <2>6, <3>2, <4>1
    <3> QED
      BY <3>1, <3>2
  <2> QED
    BY <2>4, <2>7
<1>8. FoldedCountsExact'
  <2>1. SumFunction(RowCounts(rows')) = Merged'
    BY <1>1, <1>3, <1>4 DEF Total
  <2> QED
    BY <1>4, <1>6, <1>7, <2>1 DEF FoldedCountsExact
<1> QED
  BY <1>3, <1>4, <1>7, <1>8 DEF TableInv, Row

(* The counter table never loses, doubles or misplaces a count, whatever   *)
(* its limit and whatever keys are merged in whatever order.               *)
THEOREM FoldingKeepsCounts == TableSpec => []FoldedCountsExact
<1>1. TableInit => TableInv
  <2> SUFFICES ASSUME TableInit PROVE TableInv
    OBVIOUS
  <2>1. rows = << >> /\ seen = [k \in Keys |-> 0]
    BY DEF TableInit
  <2>2. Counted = {}
    BY <2>1 DEF Counted
  <2>3. IsFiniteSet(Counted) /\ Merged = 0
    BY <2>2, FS_EmptySet, SumEmpty DEF Merged
  <2>4. RowKeys(rows) = {} /\ RowCounts(rows) = << >> /\ DistinctKeys(rows) /\ Len(rows) = 0
    BY <2>1 DEF RowKeys, RowCounts, DistinctKeys
  <2>5. SumFunction(RowCounts(rows)) = 0
    <3>1. DOMAIN RowCounts(rows) = {}
      BY <2>4
    <3> QED
      BY <3>1, SumEmpty DEF SumFunction
  <2>6. rows \in Seq([key : Keys, count : Nat]) /\ seen \in [Keys -> Nat]
    BY <2>1
  <2> QED
    BY <2>2, <2>3, <2>4, <2>5, <2>6, CounterTableAssumption DEF TableInv, FoldedCountsExact
<1>2. TableInv /\ [TableNext]_tableVars => TableInv'
  <2> SUFFICES ASSUME TableInv, [TableNext]_tableVars PROVE TableInv'
    OBVIOUS
  <2>1. CASE TableNext
    BY <2>1, TableStep DEF TableNext
  <2>2. CASE UNCHANGED tableVars
    <3>1. rows' = rows /\ seen' = seen
      BY <2>2 DEF tableVars
    <3>2. Counted' = Counted
      BY <3>1 DEF Counted
    <3>3. Merged' = Merged
      BY <3>1, <3>2 DEF Merged
    <3>4. FoldedCountsExact'
      BY <3>1, <3>2, <3>3 DEF TableInv, FoldedCountsExact, FoldOfCounted
    <3> QED
      BY <3>1, <3>2, <3>4 DEF TableInv
  <2> QED
    BY <2>1, <2>2
<1>3. TableInv => FoldedCountsExact
  BY DEF TableInv
<1> QED
  BY <1>1, <1>2, <1>3, PTL DEF TableSpec

-----------------------------------------------------------------------------
(* Receipts.                                                               *)

(* A chain of checks that ends without an error has passed every one.      *)
LEMMA AllChecksPass ==
    ASSUME NEW checks, NEW m \in Nat, DOMAIN checks = 1..m,
           \A i \in 1..m : checks[i].error # "none",
           FirstError(checks) = "none"
    PROVE  \A i \in 1..m : checks[i].holds
<1> DEFINE failed == {i \in DOMAIN checks : ~checks[i].holds}
<1>1. ASSUME failed # {} PROVE FALSE
  <2>1. failed \subseteq Nat
    OBVIOUS
  <2> HIDE DEF failed
  <2>2. Min(failed) \in failed
    BY <1>1, <2>1, MinIsLeast
  <2>3. Min(failed) \in 1..m
    BY <2>2 DEF failed
  <2>4. FirstError(checks) = checks[Min(failed)].error
    BY <1>1 DEF FirstError, failed
  <2> QED
    BY <2>3, <2>4
<1> QED
  BY <1>1

(* What VerifyReceipt has checked when it returns "verified".              *)
LEMMA VerifiedChecks ==
    ASSUME NEW receipt, NEW expectedIssuer, NEW opts, NEW clock,
           VerifyReceipt(receipt, expectedIssuer, opts, clock) = "verified"
    PROVE  /\ requireReceiptTrafficBindings(opts)
           /\ parseReceiptEnvelope(receipt)
           /\ verifyReceiptSignature(receipt)
           /\ issuerAccepted(receipt.payload, expectedIssuer)
           /\ iatAccepted(receipt.payload, opts, clock)
           /\ nonceAccepted(receipt.payload, opts)
           /\ requestBound(receipt.payload, opts)
           /\ responseBound(receipt, opts)
           /\ verifyReceiptAttestation(receipt, opts, clock) = "verified"
<1> DEFINE checks == ReceiptChecks(receipt, expectedIssuer, opts, clock)
<1>1. /\ DOMAIN checks = 1..18
      /\ \A i \in 1..18 : checks[i].error \notin {"none", "verified"}
  <2>1. DOMAIN checks = 1..18
    BY DEF ReceiptChecks
  <2>2. /\ checks[1].error = "MissingBinding" /\ checks[2].error = "Issuer"
        /\ checks[3].error = "Structure" /\ checks[4].error = "Header"
        /\ checks[5].error = "Signature" /\ checks[6].error = "Claims"
        /\ checks[7].error = "Claims" /\ checks[8].error = "Issuer"
        /\ checks[9].error = "Time" /\ checks[10].error = "Nonce"
        /\ checks[11].error = "Upstream" /\ checks[12].error = "Hash"
        /\ checks[13].error = "Hash" /\ checks[14].error = "Claims"
        /\ checks[15].error = "Claims" /\ checks[16].error = "Upstream"
        /\ checks[17].error = "Claims" /\ checks[18].error = "Claims"
    BY DEF ReceiptChecks, Check
  <2> HIDE DEF checks
  <2>3. ASSUME NEW i \in 1..18 PROVE checks[i].error \notin {"none", "verified"}
    <3>1. \/ i = 1 \/ i = 2 \/ i = 3 \/ i = 4 \/ i = 5 \/ i = 6 \/ i = 7 \/ i = 8 \/ i = 9
          \/ i = 10 \/ i = 11 \/ i = 12 \/ i = 13 \/ i = 14 \/ i = 15 \/ i = 16 \/ i = 17 \/ i = 18
      OBVIOUS
    <3> QED
      BY <3>1, <2>2
  <2> QED
    BY <2>1, <2>3
<1>2. /\ checks[1].holds = requireReceiptTrafficBindings(opts)
      /\ checks[3].holds = parseReceiptEnvelope(receipt)
      /\ checks[5].holds = verifyReceiptSignature(receipt)
      /\ checks[8].holds = issuerAccepted(receipt.payload, expectedIssuer)
      /\ checks[9].holds = iatAccepted(receipt.payload, opts, clock)
      /\ checks[10].holds = nonceAccepted(receipt.payload, opts)
      /\ checks[12].holds = requestBound(receipt.payload, opts)
      /\ checks[13].holds = responseBound(receipt, opts)
  BY DEF ReceiptChecks, Check
<1> HIDE DEF checks
<1>3. FirstError(checks) = "none"
  <2> DEFINE failed == {i \in DOMAIN checks : ~checks[i].holds}
  <2>1. ASSUME failed # {} PROVE FirstError(checks) \notin {"none", "verified"}
    <3>1. failed \subseteq Nat
      BY <1>1
    <3>2. FirstError(checks) = checks[Min(failed)].error
      BY <2>1 DEF FirstError
    <3> HIDE DEF failed
    <3>3. Min(failed) \in failed
      BY <2>1, <3>1, MinIsLeast
    <3>4. Min(failed) \in 1..18
      BY <3>3, <1>1 DEF failed
    <3> QED
      BY <3>2, <3>4, <1>1
  <2>2. FirstError(checks) # "none" => FirstError(checks) = "verified"
    BY DEF VerifyReceipt, checks
  <2>3. CASE failed = {}
    BY <2>3 DEF FirstError
  <2> QED
    BY <2>1, <2>2, <2>3
<1>4. verifyReceiptAttestation(receipt, opts, clock) = "verified"
  BY <1>3 DEF VerifyReceipt, checks
<1>5. \A i \in 1..18 : checks[i].holds
  BY <1>1, <1>3, AllChecksPass
<1>6. /\ checks[1].holds /\ checks[3].holds /\ checks[5].holds /\ checks[8].holds
      /\ checks[9].holds /\ checks[10].holds /\ checks[12].holds /\ checks[13].holds
  BY <1>5
<1> QED
  BY <1>2, <1>4, <1>6, Zenon

(* A key of the receipts' JWKS signed a statement that a workload without  *)
(* a debugger, of an image the release pins, put the key in eat_nonce, and *)
(* that it has not expired.                                                *)
Attests(document, signer, now) ==
    /\ now < document.claims.exp
    /\ \E i \in DOMAIN ReceiptJWKS : ReceiptJWKS[i].key = document.signedBy
    /\ ToLower(document.claims.dbgstat) = Hex("disabled-since-boot")
    /\ imageAccepted(document.claims, PolicyFromTrustRelease(Release, "", NoHex))
    /\ \E entry \in document.claims.eatNonce : ToLower(entry) = ToLower(Hex(signer))

(* A receipt whose attestation verifies names a key that the document at   *)
(* hand attests: the caller's, or the one that the receipt carries, by the *)
(* wall clock and not by the caller's Now.                                 *)
LEMMA VerifiedKeyAttested ==
    ASSUME NEW receipt, NEW opts, NEW clock,
           verifyReceiptAttestation(receipt, opts, clock) = "verified"
    PROVE  \E document \in {opts.document, receipt.header.att} :
               Attests(document, receipt.header.jwk.key, clock.attest)
<1> DEFINE error == FirstError(attestationFound(receipt, opts))
           document == IF receipt.form = "compact" THEN opts.document ELSE receipt.header.att
<1>1. error # "verified"
  <2> DEFINE checks == attestationFound(receipt, opts)
             failed == {i \in DOMAIN checks : ~checks[i].holds}
  <2>1. PICK m \in {2, 3} :
           DOMAIN checks = 1..m /\ \A i \in 1..m : checks[i].error # "verified"
    <3>1. CASE receipt.form = "compact"
      BY <3>1 DEF attestationFound, Check
    <3>2. CASE receipt.form # "compact"
      BY <3>2 DEF attestationFound, Check
    <3> QED
      BY <3>1, <3>2
  <2> HIDE DEF checks
  <2>2. failed \subseteq Nat
    BY <2>1
  <2>3. FirstError(checks) = IF failed = {} THEN "none" ELSE checks[Min(failed)].error
    BY DEF FirstError
  <2> HIDE DEF failed
  <2>4. ASSUME failed # {} PROVE Min(failed) \in 1..m
    <3>1. Min(failed) \in failed
      BY <2>4, <2>2, MinIsLeast
    <3> QED
      BY <3>1, <2>1 DEF failed
  <2> QED
    BY <2>1, <2>3, <2>4 DEF checks
<1> HIDE DEF error
<1>2. keyAttested(document, receipt.header.jwk.key, clock.attest)
  BY <1>1 DEF verifyReceiptAttestation, error
<1> DEFINE policy == PolicyFromTrustRelease(Release, "", NoHex)
           signer == receipt.header.jwk.key
<1>3. ~policy.allowDebug
  BY DEF PolicyFromTrustRelease, NoPolicy
<1>4. /\ verifiedAttestationJWTClaims(document, ReceiptJWKS)
      /\ receiptKeyAccepted(document.claims, policy, Hex(signer), clock.attest)
  BY <1>2 DEF keyAttested, VerifyReceiptKeyAttestation
<1> HIDE DEF document, policy, signer
<1>5. \E i \in DOMAIN ReceiptJWKS : ReceiptJWKS[i].key = document.signedBy
  BY <1>4 DEF verifiedAttestationJWTClaims, verifyRS256
<1>6. /\ imageAccepted(document.claims, policy)
      /\ ToLower(document.claims.dbgstat) = Hex("disabled-since-boot")
      /\ clock.attest < document.claims.exp
  <2>1. workloadAccepted(document.claims, policy, clock.attest)
    BY <1>4 DEF receiptKeyAccepted
  <2> QED
    BY <1>3, <1>4, <2>1 DEF receiptKeyAccepted, workloadAccepted
<1>7. \E entry \in document.claims.eatNonce : ToLower(entry) = ToLower(Hex(signer))
  BY <1>4 DEF receiptKeyAccepted
<1>8. Attests(document, signer, clock.attest)
  BY <1>5, <1>6, <1>7 DEF Attests, policy
<1>9. document \in {opts.document, receipt.header.att}
  BY DEF document
<1> QED
  BY <1>8, <1>9 DEF signer

(* What a receipt that verifies vouches for, whatever the receipt, the     *)
(* issuer, the options and the clock.  Suppose that the documents at hand, *)
(* if they have not expired, attest only keys of enclaves for the released *)
(* image, and that the receipt, if one of these signed it, has the claims  *)
(* of an exchange that was handled.  Then a receipt that VerifyReceipt     *)
(* accepts with the traffic bindings required carries the claims of such   *)
(* an exchange, from the issuer the caller expects and not older than it   *)
(* allows; the request the caller holds, empty or not, is the one that was *)
(* handled; the body it holds is the one that was returned, and what is    *)
(* hashed of the events of the stream it holds is what was hashed of the   *)
(* events that were returned.                                              *)
THEOREM VerifiedReceiptsAreGenuine ==
    ASSUME NEW receipt, NEW issuer, NEW opts, NEW clock, NEW EnclaveKeys, NEW Handled,
           \A document \in {opts.document, receipt.header.att} :
               \A signer : Attests(document, signer, clock.attest) => signer \in EnclaveKeys,
           receipt.signature.key \in EnclaveKeys =>
               \E x \in Handled : receipt.signature.payload = x.claims,
           \A x \in Handled :
               /\ x.claims.req.hash = BodyDigest(x.request)
               /\ x.claims.resp.hash = IF x.claims.resp.of = "body" THEN BodyDigest(x.response)
                                       ELSE StreamDigest(x.claims.resp.of, x.response),
           opts.requireBindings,
           VerifyReceipt(receipt, issuer, opts, clock) = "verified"
    PROVE  \E x \in Handled :
               /\ receipt.payload = x.claims
               /\ opts.request = x.request
               /\ opts.body # Absent \/ opts.stream # Absent
               /\ opts.body # Absent => opts.body = x.response
               /\ opts.stream # Absent =>
                      LET expected == IF receipt.form = "flattened" THEN receipt.json ELSE "none"
                          digest == receiptStreamDigest(opts.stream, Len(opts.stream),
                                                        x.claims.resp.of, expected)
                      IN  /\ digest.ok /\ digest.hashed = x.response
                          /\ x.claims.resp.events = Len(x.response)
               /\ iatAccepted(x.claims, opts, clock) /\ issuerAccepted(x.claims, issuer)
<1>1. /\ requireReceiptTrafficBindings(opts)
      /\ verifyReceiptSignature(receipt)
      /\ issuerAccepted(receipt.payload, issuer)
      /\ iatAccepted(receipt.payload, opts, clock)
      /\ requestBound(receipt.payload, opts)
      /\ responseBound(receipt, opts)
      /\ verifyReceiptAttestation(receipt, opts, clock) = "verified"
  BY VerifiedChecks
<1>2. receipt.header.jwk.key \in EnclaveKeys
  BY <1>1, VerifiedKeyAttested
<1>3. /\ receipt.signature.key = receipt.header.jwk.key
      /\ receipt.signature.payload = receipt.payload
  BY <1>1 DEF verifyReceiptSignature
<1>4. PICK x \in Handled : receipt.payload = x.claims
  BY <1>2, <1>3
<1>5. /\ opts.request # Absent
      /\ opts.body # Absent \/ opts.stream # Absent
  BY <1>1 DEF requireReceiptTrafficBindings
<1>6. BodyDigest(opts.request) = BodyDigest(x.request)
  BY <1>1, <1>4, <1>5 DEF requestBound
<1>7. opts.request = x.request
  BY <1>6 DEF BodyDigest
<1>8. ASSUME opts.body # Absent PROVE opts.body = x.response
  <2>1. x.claims.resp.of = "body" /\ x.claims.resp.hash = BodyDigest(opts.body)
    BY <1>1, <1>4, <1>8, Zenon DEF responseBound
  <2>2. BodyDigest(opts.body) = BodyDigest(x.response)
    BY <2>1
  <2> QED
    BY <2>2 DEF BodyDigest
<1>9. ASSUME opts.stream # Absent
      PROVE  LET expected == IF receipt.form = "flattened" THEN receipt.json ELSE "none"
                 digest == receiptStreamDigest(opts.stream, Len(opts.stream),
                                               x.claims.resp.of, expected)
             IN  /\ digest.ok /\ digest.hashed = x.response
                 /\ x.claims.resp.events = Len(x.response)
  <2> DEFINE expected == IF receipt.form = "flattened" THEN receipt.json ELSE "none"
             digest == receiptStreamDigest(opts.stream, Len(opts.stream), x.claims.resp.of, expected)
  <2>1. /\ x.claims.resp.of \in Domains /\ digest.ok
        /\ x.claims.resp.hash = StreamDigest(x.claims.resp.of, digest.hashed)
        /\ x.claims.resp.events = Len(digest.hashed)
    BY <1>1, <1>4, <1>9 DEF responseBound
  <2> HIDE DEF digest
  <2>2. x.claims.resp.of # "body"
    BY <2>1 DEF Domains
  <2>3. StreamDigest(x.claims.resp.of, digest.hashed) = StreamDigest(x.claims.resp.of, x.response)
    BY <2>1, <2>2
  <2>4. digest.hashed = x.response
    BY <2>3 DEF StreamDigest
  <2> QED
    BY <2>1, <2>4 DEF digest
<1>10. iatAccepted(x.claims, opts, clock) /\ issuerAccepted(x.claims, issuer)
  BY <1>1, <1>4
<1> QED
  BY <1>4, <1>5, <1>7, <1>8, <1>9, <1>10

(* A document that Google signed for a workload of the released image that *)
(* commits to `signer`, before it expires.                                 *)
AttestedNow(document, signer, now) ==
    /\ document.kind = "document" /\ document.threeSegments
    /\ document.alg = "RS256" /\ document.kid # ""
    /\ \E i \in DOMAIN ReceiptJWKS :
          /\ ReceiptJWKS[i] = [kid |-> document.kid, kty |-> "RSA", wellFormed |-> TRUE,
                               key |-> document.signedBy]
          /\ \A j \in 1..(i - 1) : ReceiptJWKS[j].kid # document.kid
    /\ document.claims.exp \in Nat /\ now < document.claims.exp
    /\ document.claims.iss = GCPIssuer
    /\ ToLower(document.claims.dbgstat) = Hex("disabled-since-boot")
    /\ document.claims.swname = "CONFIDENTIAL_SPACE" /\ document.claims.secboot
    /\ document.claims.hwmodel \in {"GCP_AMD_SEV", "GCP_AMD_SEV_ES", "GCP_INTEL_TDX"}
    /\ defaultAttestationAudience \in document.claims.aud
    /\ Hex(signer) \in document.claims.eatNonce \/ Upper(Hex(signer)) \in document.claims.eatNonce

(* The release pins an image by its digest or by its reference, and the    *)
(* document is for an image that it pins.                                  *)
RunsRelease(claims) ==
    /\ "" \notin Release.digests \cup Release.references
    /\ Release.digests \cup Release.references # {} \/ Release.digest # "" \/ Release.reference # ""
    /\ claims.digest # "" /\ claims.reference # ""
    /\ IF Release.digests = {} THEN Release.digest \in {"", claims.digest}
       ELSE claims.digest \in Release.digests
    /\ IF Release.references = {} THEN Release.reference \in {"", claims.reference}
       ELSE claims.reference \in Release.references

(* The digest claims of exchange x: its body, or the events of its stream. *)
DigestClaims(payload, x) ==
    /\ payload.req = Claim("body", BodyDigest(x.request), BadInt)
    /\ payload.resp = IF x.of = "body" THEN Claim("body", BodyDigest(x.response), BadInt)
                      ELSE Claim(x.of, StreamDigest(x.of, x.response), Len(x.response))

(* The upstream was verified before the exchange and for longer than it.   *)
UpstreamClaims(payload) ==
    \/ payload.tier = "tls-webpki"
    \/ /\ payload.tier = "tee-verified" /\ payload.policy # ""
       /\ payload.verifiedAt \in Nat /\ payload.expiresAt \in Nat
       /\ payload.verifiedAt <= payload.iat /\ payload.iat < payload.expiresAt

(* The receipt that key `signer` makes for exchange x: a compact one pins  *)
(* the document, a flattened one carries it.                               *)
SignedFor(receipt, x, signer, document) ==
    /\ receipt.header.alg = "EdDSA" /\ receipt.header.typ = "inference-receipt+jws"
    /\ receipt.header.jwk = [kind |-> "public", key |-> signer] /\ receipt.header.kid = signer
    /\ receipt.signature = [key |-> signer, header |-> receipt.header, payload |-> receipt.payload]
    /\ receipt.payload.rv = 1 /\ receipt.payload.iss = x.iss /\ receipt.payload.iat = x.iat
    /\ x.iat \in Nat
    /\ UpstreamClaims(receipt.payload) /\ DigestClaims(receipt.payload, x)
    /\ "bad" \notin {receipt.payload.nonce, receipt.payload.policy, receipt.payload.cert,
                     receipt.payload.gen}
    /\ {receipt.payload.jti, receipt.payload.model} \cap {"", "bad"} = {}
    /\ receipt.payload.route \in {"chat.completions", "responses"}
    /\ \/ receipt.form = "compact" /\ receipt.payload.att = document
       \/ /\ receipt.form = "flattened" /\ receipt.payload.att \in {NoDoc, document}
          /\ receipt.header.attKind = "gcp-cs-jwt" /\ receipt.header.att = document

(* The caller allows for the age of x, measured at its Now if it gives one *)
(* and by the wall clock if it does not.                                   *)
AllowsAge(opts, clock, x) ==
    \E now \in Int :
        /\ opts.now = Finite(now) \/ (opts.now = Unset /\ now = clock.verify)
        /\ x.iat <= now + MaxFutureSkew
        /\ \/ opts.maxAge = Unset
           \/ \E age \in Nat : opts.maxAge = Finite(age) /\ now - x.iat <= age

(* The caller holds the traffic of x, asks for its issuer in any accepted  *)
(* spelling, and allows for its age.                                       *)
HoldsTraffic(opts, receipt, issuer, x, clock) ==
    /\ opts.request = x.request /\ x.request # Absent
    /\ AllowsAge(opts, clock, x)
    /\ {issuer.spelling, x.iss.spelling} \subseteq {"exact", "case", "slash", "port443"}
    /\ issuer.of = x.iss.of /\ issuer.of # ""
    /\ opts.nonce \in {"", receipt.payload.nonce}
    /\ IF x.of = "body" THEN opts.body = x.response /\ x.response # Absent /\ opts.stream = Absent
       ELSE /\ x.of \in Domains /\ receipt.form = "flattened"
            /\ opts.body = Absent /\ opts.stream # Absent
            /\ receiptStreamDigest(opts.stream, Len(opts.stream), x.of, receipt.json).ok
            /\ receiptStreamDigest(opts.stream, Len(opts.stream), x.of, receipt.json).hashed
                  = x.response
            /\ Len(x.response) \in Nat

(* It has the document of a compact receipt, or that of a flattened one or *)
(* none.                                                                   *)
HoldsDocument(opts, receipt, document) ==
    opts.document = document \/ (receipt.form = "flattened" /\ opts.document = NoDoc)

(* A list of checks without a failure has no error.                        *)
LEMMA NoCheckFails ==
    ASSUME NEW checks, \A i \in DOMAIN checks : checks[i].holds
    PROVE  FirstError(checks) = "none"
  BY DEF FirstError

(* A document is one.                                                      *)
LEMMA AttestedIsDocument ==
    ASSUME NEW document, NEW signer, NEW now, AttestedNow(document, signer, now)
    PROVE  document # NoDoc /\ document # [kind |-> "bad"]
<1>1. document.kind = "document"
  BY Zenon DEF AttestedNow
<1> QED
  BY <1>1 DEF NoDoc

(* Such a document attests the key.                                        *)
LEMMA AttestedKeyAccepted ==
    ASSUME NEW document, NEW signer, NEW now \in Int, AttestedNow(document, signer, now),
           RunsRelease(document.claims)
    PROVE  keyAttested(document, signer, now)
<1> DEFINE policy == PolicyFromTrustRelease(Release, "", NoHex)
           claims == document.claims
<1>1. /\ policy.digests = accepted(Release.digests, Release.digest) /\ policy.digest = Release.digest
      /\ policy.references = accepted(Release.references, Release.reference)
      /\ policy.reference = Release.reference /\ policy.audience = defaultAttestationAudience
      /\ PinsImageIdentity(policy)
  BY DEF PolicyFromTrustRelease, RunsRelease, PinsImageIdentity, accepted
<1> HIDE DEF policy
<1>2. imageAccepted(claims, policy)
  <2>1. accepted(policy.digests, policy.digest) # {} =>
            containsSafeString(accepted(policy.digests, policy.digest), claims.digest)
    BY <1>1 DEF accepted, containsSafeString, RunsRelease
  <2>2. accepted(policy.references, policy.reference) # {} =>
            containsSafeString(accepted(policy.references, policy.reference), claims.reference)
    BY <1>1 DEF accepted, containsSafeString, RunsRelease
  <2> QED
    BY <1>1, <2>1, <2>2 DEF imageAccepted
<1>3. workloadAccepted(claims, policy, now)
  <2>1. claims.exp # BadExp /\ claims.exp > now
    <3>1. claims.exp \in Nat /\ now < claims.exp
      BY Zenon DEF AttestedNow
    <3> QED
      BY <3>1 DEF BadExp
  <2>2. /\ claims.iss = GCPIssuer /\ ToLower(claims.dbgstat) = Hex("disabled-since-boot")
        /\ claims.swname = "CONFIDENTIAL_SPACE" /\ claims.secboot
        /\ claims.hwmodel \in {"GCP_AMD_SEV", "GCP_AMD_SEV_ES", "GCP_INTEL_TDX"}
        /\ defaultAttestationAudience \in claims.aud
    BY Zenon DEF AttestedNow
  <2>3. (IF policy.audience = "" THEN defaultAttestationAudience ELSE policy.audience) \in claims.aud
    BY <1>1, <2>2
  <2> QED
    BY <2>1, <2>2, <2>3, Zenon DEF workloadAccepted
<1>4. \E n \in claims.eatNonce : ToLower(n) = ToLower(Hex(signer))
  <2>1. ToLower(Upper(Hex(signer))) = ToLower(Hex(signer))
    BY DEF ToLower, Upper, Hex
  <2> QED
    BY <2>1, Zenon DEF AttestedNow
<1>5. verifiedAttestationJWTClaims(document, ReceiptJWKS)
  <2>1. PICK i \in DOMAIN ReceiptJWKS :
          /\ ReceiptJWKS[i] = [kid |-> document.kid, kty |-> "RSA", wellFormed |-> TRUE,
                               key |-> document.signedBy]
          /\ \A j \in 1..(i - 1) : ReceiptJWKS[j].kid # document.kid
    BY Zenon DEF AttestedNow
  <2>2. /\ ReceiptJWKS[i].kid = document.kid /\ ReceiptJWKS[i].kty = "RSA"
        /\ ReceiptJWKS[i].key = document.signedBy
    BY <2>1
  <2>3. ReceiptJWKS[i].wellFormed
    BY <2>1
  <2>4. document.threeSegments /\ document.alg = "RS256" /\ document.kid # ""
    BY Zenon DEF AttestedNow
  <2> QED
    BY <2>1, <2>2, <2>3, <2>4, Zenon DEF verifiedAttestationJWTClaims, verifyRS256
<1>6. document.kind = "document"
  BY Zenon DEF AttestedNow
<1> QED
  BY <1>1, <1>2, <1>3, <1>4, <1>5, <1>6, Zenon
     DEF keyAttested, VerifyReceiptKeyAttestation, receiptKeyAccepted, policy

(* The attestation of such a receipt verifies.                             *)
LEMMA AttestationVerifies ==
    ASSUME NEW receipt, NEW x, NEW signer, NEW document, NEW opts, NEW clock, clock.attest \in Int,
           SignedFor(receipt, x, signer, document), HoldsDocument(opts, receipt, document),
           AttestedNow(document, signer, clock.attest), RunsRelease(document.claims)
    PROVE  verifyReceiptAttestation(receipt, opts, clock) = "verified"
<1>1. keyAttested(document, signer, clock.attest)
  BY AttestedKeyAccepted
<1>2. document # NoDoc
  BY AttestedIsDocument
<1>3. receipt.header.jwk.key = signer
  BY DEF SignedFor
<1>4. CASE receipt.form = "compact"
  <2>1. opts.document = document /\ receipt.payload.att = document
    BY <1>4 DEF SignedFor, HoldsDocument
  <2> DEFINE checks == attestationFound(receipt, opts)
  <2>2. DOMAIN checks = 1..2
    BY <1>4 DEF attestationFound
  <2>3. checks[1].holds /\ checks[2].holds
    BY <1>4, <1>2, <2>1 DEF attestationFound, Check
  <2> HIDE DEF checks
  <2>4. FirstError(checks) = "none"
    <3>1. \A i \in 1..2 : i = 1 \/ i = 2
      OBVIOUS
    <3> QED
      BY <2>2, <2>3, <3>1, NoCheckFails
  <2> QED
    BY <1>1, <1>2, <1>3, <1>4, <2>1, <2>4 DEF verifyReceiptAttestation, checks
<1>5. CASE receipt.form = "flattened"
  <2>1. /\ receipt.header.attKind = "gcp-cs-jwt" /\ receipt.header.att = document
        /\ opts.document \in {NoDoc, document}
    BY <1>5 DEF SignedFor, HoldsDocument
  <2> DEFINE checks == attestationFound(receipt, opts)
  <2>2. DOMAIN checks = 1..3
    BY <1>5 DEF attestationFound
  <2>3. checks[1].holds /\ checks[2].holds /\ checks[3].holds
    BY <1>5, <1>2, <2>1 DEF attestationFound, Check
  <2> HIDE DEF checks
  <2>4. FirstError(checks) = "none"
    <3>1. \A i \in 1..3 : i = 1 \/ i = 2 \/ i = 3
      OBVIOUS
    <3> QED
      BY <2>2, <2>3, <3>1, NoCheckFails
  <2> QED
    BY <1>1, <1>2, <1>3, <1>5, <2>1, <2>4 DEF verifyReceiptAttestation, checks
<1> QED
  BY <1>4, <1>5 DEF SignedFor

(* No genuine receipt is refused: a receipt that an attested key made for  *)
(* an exchange verifies for every caller that holds the traffic of the     *)
(* exchange, be they empty, up to the last second of the age it allows, of *)
(* the future skew and of the upstream's window, in either form, under     *)
(* either case of the key's commitment and any accepted spelling of the    *)
(* issuer.  The age is measured at the caller's Now, if it gives one; but  *)
(* the document must not have expired by the wall clock: that Now does not *)
(* reach the attestation check (NowOverridesTime does not hold).           *)
THEOREM GenuineReceiptsVerify ==
    ASSUME NEW receipt, NEW issuer, NEW x, NEW signer, NEW document, NEW opts, NEW clock,
           clock.verify \in Int, clock.attest \in Int,
           SignedFor(receipt, x, signer, document),
           AttestedNow(document, signer, clock.attest), RunsRelease(document.claims),
           HoldsTraffic(opts, receipt, issuer, x, clock), HoldsDocument(opts, receipt, document)
    PROVE  VerifyReceipt(receipt, issuer, opts, clock) = "verified"
<1> DEFINE payload == receipt.payload
           checks == ReceiptChecks(receipt, issuer, opts, clock)
<1>1. requireReceiptTrafficBindings(opts)
  BY DEF requireReceiptTrafficBindings, HoldsTraffic
<1>2. canonicalReceiptHTTPSOrigin(issuer) # "" /\ payload.iss.of # "" /\ issuerAccepted(payload, issuer)
  BY DEF canonicalReceiptHTTPSOrigin, issuerAccepted, HoldsTraffic, SignedFor
<1>3. parseReceiptEnvelope(receipt) /\ parseReceiptHeader(receipt.header) /\ verifyReceiptSignature(receipt)
  BY DEF parseReceiptEnvelope, parseReceiptHeader, verifyReceiptSignature, SignedFor
<1>4. iatAccepted(payload, opts, clock)
  <2>1. payload.iat = x.iat /\ x.iat \in Nat
    BY Zenon DEF SignedFor
  <2>2. PICK now \in Int :
          /\ opts.now = Finite(now) \/ (opts.now = Unset /\ now = clock.verify)
          /\ x.iat <= now + MaxFutureSkew
          /\ \/ opts.maxAge = Unset
             \/ \E age \in Nat : opts.maxAge = Finite(age) /\ now - x.iat <= age
    BY Zenon DEF HoldsTraffic, AllowsAge
  <2>3. x.iat # BadInt
    BY <2>1 DEF BadInt
  <2>4. ASSUME NEW v
        PROVE  Finite(v).value = v /\ Finite(v) # Unset /\ Finite(v) # NotFinite
    <3>1. /\ Finite(v).kind = "finite" /\ Finite(v).value = v
          /\ Unset.kind = "unset" /\ NotFinite.kind = "notFinite"
      BY DEF Finite, Unset, NotFinite
    <3> QED
      BY <3>1
  <2>5. Unset # NotFinite
    <3>1. Unset.kind = "unset" /\ NotFinite.kind = "notFinite"
      BY DEF Unset, NotFinite
    <3> QED
      BY <3>1
  <2>6. opts.now # NotFinite /\ nowOf(opts, clock) = now
    BY <2>2, <2>4, <2>5 DEF nowOf
  <2>7. ASSUME opts.maxAge # Unset
        PROVE  opts.maxAge # NotFinite /\ opts.maxAge.value >= 0 /\ now - x.iat <= opts.maxAge.value
    <3>1. PICK age \in Nat : opts.maxAge = Finite(age) /\ now - x.iat <= age
      BY <2>2, <2>7
    <3>2. age >= 0
      OBVIOUS
    <3> QED
      BY <2>4, <3>1, <3>2
  <2> QED
    BY <2>1, <2>2, <2>3, <2>6, <2>7 DEF iatAccepted
<1>5. nonceAccepted(payload, opts)
  BY DEF nonceAccepted, Optional, SignedFor, HoldsTraffic
<1>6. upstreamAccepted(payload)
  <2>1. UpstreamClaims(payload)
    BY Zenon DEF SignedFor
  <2>2. BadInt \notin Nat
    BY DEF BadInt
  <2> QED
    BY <2>1, <2>2, Zenon DEF upstreamAccepted, UpstreamClaims
<1>7. payload.tier = "tee-verified" => payload.policy # ""
  BY DEF UpstreamClaims, SignedFor
<1>8. requestBound(payload, opts)
  <2>1. payload.req = Claim("body", BodyDigest(x.request), BadInt) /\ opts.request = x.request
    BY DEF SignedFor, HoldsTraffic, DigestClaims
  <2>2. BodyDigest(x.request) # << >>
    BY DEF BodyDigest
  <2> QED
    BY <2>1, <2>2 DEF requestBound, parseReceiptDigestClaim, Claim, BadInt
<1>9. responseBound(receipt, opts)
  <2> DEFINE claim == payload.resp
             expected == IF receipt.form = "flattened" THEN receipt.json ELSE "none"
             digest == receiptStreamDigest(opts.stream, Len(opts.stream), claim.of, expected)
  <2>1. claim = IF x.of = "body" THEN Claim("body", BodyDigest(x.response), BadInt)
                ELSE Claim(x.of, StreamDigest(x.of, x.response), Len(x.response))
    BY Zenon DEF SignedFor, DigestClaims
  <2>2. CASE x.of = "body"
    <3>1. opts.body = x.response /\ opts.stream = Absent
      BY <2>2, Zenon DEF HoldsTraffic
    <3>2. BodyDigest(x.response) # << >>
      BY DEF BodyDigest
    <3>3. parseReceiptDigestClaim(claim, TRUE)
      BY <2>1, <2>2, <3>2 DEF parseReceiptDigestClaim, Claim
    <3>4. claim.of = "body" /\ claim.hash = BodyDigest(opts.body)
      BY <2>1, <2>2, <3>1 DEF Claim
    <3> QED
      BY <3>1, <3>3, <3>4, Zenon DEF responseBound
  <2>3. CASE x.of # "body"
    <3>1. /\ x.of \in Domains /\ receipt.form = "flattened" /\ opts.body = Absent
          /\ receiptStreamDigest(opts.stream, Len(opts.stream), x.of, receipt.json).ok
          /\ receiptStreamDigest(opts.stream, Len(opts.stream), x.of, receipt.json).hashed = x.response
          /\ Len(x.response) \in Nat
      BY <2>3, Zenon DEF HoldsTraffic
    <3>2. /\ claim.alg = "sha256" /\ claim.of = x.of /\ claim.hash = StreamDigest(x.of, x.response)
          /\ claim.events = Len(x.response)
      BY <2>1, <2>3 DEF Claim
    <3>3. digest = receiptStreamDigest(opts.stream, Len(opts.stream), x.of, receipt.json)
      BY <3>1, <3>2
    <3>4. digest.ok
      BY <3>1, <3>3
    <3>5. digest.hashed = x.response
      BY <3>1, <3>3
    <3>6. StreamDigest(x.of, x.response) # << >> /\ Len(x.response) >= 0
      BY <3>1 DEF StreamDigest
    <3> HIDE DEF digest, claim
    <3>7. parseReceiptDigestClaim(claim, TRUE)
      BY <3>1, <3>2, <3>6, <2>3 DEF parseReceiptDigestClaim
    <3> QED
      BY <3>1, <3>2, <3>4, <3>5, <3>7, Zenon DEF responseBound, digest, claim
  <2> QED
    BY <2>2, <2>3
<1>10. namesAccepted(payload) /\ Optional(payload.policy) /\ Optional(payload.cert) /\ payload.rv = 1
  BY DEF namesAccepted, Present, Optional, SignedFor
<1>11. pinAccepted(receipt)
  <2>1. NoDoc # [kind |-> "bad"]
    BY DEF NoDoc
  <2> QED
    BY <2>1, AttestedIsDocument, Zenon DEF pinAccepted, SignedFor
<1>12. DOMAIN checks = 1..18
  BY DEF ReceiptChecks
<1>13. /\ checks[1].holds = requireReceiptTrafficBindings(opts)
       /\ checks[2].holds = (canonicalReceiptHTTPSOrigin(issuer) # "")
       /\ checks[3].holds = parseReceiptEnvelope(receipt)
       /\ checks[4].holds = parseReceiptHeader(receipt.header)
       /\ checks[5].holds = verifyReceiptSignature(receipt)
       /\ checks[6].holds = (payload.rv = 1)
       /\ checks[7].holds = (payload.iss.of # "")
       /\ checks[8].holds = issuerAccepted(payload, issuer)
       /\ checks[9].holds = iatAccepted(payload, opts, clock)
  BY DEF ReceiptChecks, Check
<1>14. /\ checks[10].holds = nonceAccepted(payload, opts)
       /\ checks[11].holds = upstreamAccepted(payload)
       /\ checks[12].holds = requestBound(payload, opts)
       /\ checks[13].holds = responseBound(receipt, opts)
       /\ checks[14].holds = namesAccepted(payload)
       /\ checks[15].holds = Optional(payload.policy)
       /\ checks[16].holds = (payload.tier = "tee-verified" => payload.policy # "")
       /\ checks[17].holds = Optional(payload.cert)
       /\ checks[18].holds = pinAccepted(receipt)
  BY DEF ReceiptChecks, Check
<1> HIDE DEF checks, payload
<1>15. /\ checks[1].holds /\ checks[2].holds /\ checks[3].holds /\ checks[4].holds
       /\ checks[5].holds /\ checks[6].holds /\ checks[7].holds /\ checks[8].holds
       /\ checks[9].holds
  BY <1>1, <1>2, <1>3, <1>4, <1>10, <1>13, Zenon
<1>16. /\ checks[10].holds /\ checks[11].holds /\ checks[12].holds /\ checks[13].holds
       /\ checks[14].holds /\ checks[15].holds /\ checks[16].holds /\ checks[17].holds
       /\ checks[18].holds
  BY <1>5, <1>6, <1>7, <1>8, <1>9, <1>10, <1>11, <1>14, Zenon
<1>17. \A i \in 1..18 : checks[i].holds
  <2>1. ASSUME NEW i \in 1..18 PROVE checks[i].holds
    <3>1. \/ i = 1 \/ i = 2 \/ i = 3 \/ i = 4 \/ i = 5 \/ i = 6 \/ i = 7 \/ i = 8 \/ i = 9
          \/ i = 10 \/ i = 11 \/ i = 12 \/ i = 13 \/ i = 14 \/ i = 15 \/ i = 16 \/ i = 17 \/ i = 18
      OBVIOUS
    <3> QED
      BY <1>15, <1>16, <3>1
  <2> QED
    BY <2>1
<1>18. FirstError(checks) = "none"
  BY <1>12, <1>17, NoCheckFails
<1>19. verifyReceiptAttestation(receipt, opts, clock) = "verified"
  BY AttestationVerifies
<1> QED
  BY <1>18, <1>19 DEF VerifyReceipt, checks

-----------------------------------------------------------------------------
(* The collection of chat completions.                                     *)

(* (The provers do not know that a literal is a string.)                   *)
Words == STRING \cup {"", "assistant", "stop"}

(* A slot of a tool call, and the state of a choice.                       *)
Slots == [open : BOOLEAN, id : Words, args : Seq(Nat)]

ChoiceStates ==
    [used : BOOLEAN, role : Words, text : Seq(Nat), finish : Words,
     tools : [ToolIndexes -> Slots], reasoning : Seq(Nat), logprobs : Seq(Nat)]

(* h[i] is h[0] with the pieces among the first i joined to it.            *)
Gathers(n, part, own, h) ==
    /\ part \in [1..n -> Seq(Nat)] /\ h \in [0..n -> Seq(Nat)]
    /\ \A i \in 1..n : h[i] = h[i - 1] \o (IF i \in own THEN part[i] ELSE << >>)

(* Pieces is what such a series adds.                                      *)
LEMMA PiecesGathered ==
    ASSUME NEW n \in Nat, NEW part, NEW own, NEW h, Gathers(n, part, own, h)
    PROVE  Pieces(part, own) \in Seq(Nat) /\ h[n] = h[0] \o Pieces(part, own)
<1> DEFINE ss == [i \in 1..n |-> IF i \in own THEN part[i] ELSE << >>]
<1>1. DOMAIN part = 1..n /\ \A i \in 1..n : part[i] \in Seq(Nat)
  BY DEF Gathers
<1>2. ss \in [1..n -> Seq(Nat)]
  BY <1>1
<1>3. ss \in Seq(Seq(Nat)) /\ Len(ss) = n
  <2> HIDE DEF ss
  <2> QED
    BY <1>2
<1>4. Pieces(part, own) = FlattenSeq(ss)
  BY <1>1 DEF Pieces
<1>5. ASSUME NEW i \in 1..n PROVE h[i] = h[i - 1] \o ss[i]
  BY DEF Gathers
<1>6. h \in [0..n -> Seq(Nat)]
  BY DEF Gathers
<1> HIDE DEF ss
<1>7. Accumulates(Nat, ss, h)
  BY <1>3, <1>5, <1>6 DEF Accumulates
<1>8. FlattenSeq(ss) \in Seq(Nat) /\ h[Len(ss)] = h[0] \o FlattenSeq(ss)
  BY <1>3, <1>7, FlattenFrom
<1> QED
  BY <1>3, <1>4, <1>8

(* h[i] is the last thing said among the first i.                          *)
Repeats(n, said, own, h) ==
    /\ own \subseteq 1..n
    /\ \A i \in 1..n : h[i] = LastSaid(IF i \in own THEN said[i] ELSE "", h[i - 1])

(* LastOf is what remains of a series of LastSaid.                         *)
LEMMA LastSaidLast ==
    ASSUME NEW n \in Nat, NEW said, NEW own, NEW h, Repeats(n, said, own, h)
    PROVE  h[n] = LastOf(said, own, h[0])
<1> DEFINE Loud(k) == {i \in 1..k : i \in own /\ said[i] # ""}
           T == {k \in 0..n : h[k] = IF Loud(k) = {} THEN h[0] ELSE said[Max(Loud(k))]}
<1>1. \A i \in 1..n : h[i] = LastSaid(IF i \in own THEN said[i] ELSE "", h[i - 1])
  BY DEF Repeats
<1>2. 0 \in T
  <2>1. Loud(0) = {}
    OBVIOUS
  <2> HIDE DEF Loud
  <2> QED
    BY <2>1
<1>3. ASSUME NEW k \in 1..n, k - 1 \in T PROVE k \in T
  <2>1. k \in 0..n /\ 1..k = (1..(k - 1)) \cup {k} /\ k \in Int
    OBVIOUS
  <2>2. h[k - 1] = IF Loud(k - 1) = {} THEN h[0] ELSE said[Max(Loud(k - 1))]
    BY <1>3
  <2>3. CASE ~(k \in own /\ said[k] # "")
    <3>1. Loud(k) = Loud(k - 1)
      BY <2>1, <2>3
    <3>2. h[k] = h[k - 1]
      BY <1>1, <2>3 DEF LastSaid
    <3> HIDE DEF Loud
    <3> QED
      BY <2>1, <2>2, <3>1, <3>2
  <2>4. CASE k \in own /\ said[k] # ""
    <3>1. k \in Loud(k) /\ Loud(k) \subseteq Int /\ \A y \in Loud(k) : k >= y
      <4>1. k \in Nat /\ k \in 1..k
        OBVIOUS
      <4>2. \A y \in 1..k : y \in Int /\ k >= y
        BY <4>1
      <4> QED
        BY <4>1, <4>2, <2>4
    <3>2. h[k] = said[k]
      BY <1>1, <2>4 DEF LastSaid
    <3> HIDE DEF Loud
    <3>3. Max(Loud(k)) = k
      BY <3>1, MaxIs
    <3> QED
      BY <2>1, <3>1, <3>2, <3>3
  <2> QED
    BY <2>3, <2>4
<1>4. n \in T
  <2> HIDE DEF T
  <2>1. 0..n \subseteq T
    BY <1>2, <1>3, IndexInduction
  <2> QED
    BY <2>1
<1>5. h[n] = IF Loud(n) = {} THEN h[0] ELSE said[Max(Loud(n))]
  BY <1>4
<1>6. Loud(n) = {i \in own : said[i] # ""}
  BY DEF Repeats
<1> HIDE DEF Loud, T
<1> QED
  BY <1>5, <1>6 DEF LastOf

(* h[i] tells whether one of the first i is in Q, or h[0] held.            *)
Reaches(n, Q, h) == \A i \in 1..n : h[i] <=> (h[i - 1] \/ i \in Q)

(* In the end it tells whether any is.                                     *)
LEMMA ReachedIs ==
    ASSUME NEW n \in Nat, NEW Q, NEW h, Reaches(n, Q, h)
    PROVE  h[n] <=> (h[0] \/ \E i \in 1..n : i \in Q)
<1> DEFINE T == {k \in 0..n : h[k] <=> (h[0] \/ \E i \in 1..k : i \in Q)}
<1>1. 0 \in T
  OBVIOUS
<1>2. ASSUME NEW k \in 1..n, k - 1 \in T PROVE k \in T
  <2>1. k \in 0..n /\ 1..k = (1..(k - 1)) \cup {k}
    OBVIOUS
  <2>2. h[k] <=> (h[k - 1] \/ k \in Q)
    BY DEF Reaches
  <2>3. h[k - 1] <=> (h[0] \/ \E i \in 1..(k - 1) : i \in Q)
    BY <1>2
  <2>4. h[k] <=> (h[0] \/ \E i \in 1..k : i \in Q)
    BY <2>1, <2>2, <2>3
  <2> QED
    BY <2>1, <2>4
<1> HIDE DEF T
<1>3. 0..n \subseteq T
  BY <1>1, <1>2, IndexInduction
<1>4. n \in T
  BY <1>3
<1> QED
  BY <1>4 DEF T

(* The tool calls of a choice.                                             *)
ToolTables == [ToolIndexes -> Slots]

(* One call of a tool.                                                     *)
LEMMA MergeToolIs ==
    ASSUME NEW tools \in ToolTables, NEW call \in ToolCalls
    PROVE  /\ mergeTool(tools, call) \in ToolTables
           /\ \A t \in ToolIndexes :
                 /\ mergeTool(tools, call)[t].args =
                       tools[t].args \o (IF call.index = t THEN call.args ELSE << >>)
                 /\ mergeTool(tools, call)[t].open <=> (tools[t].open \/ call.index = t)
<1> DEFINE x == call.index
           s == [open |-> TRUE, id |-> LastSaid(call.id, tools[x].id), args |-> tools[x].args \o call.args]
           m == mergeTool(tools, call)
<1>1. x \in ToolIndexes /\ call.id \in Words /\ call.args \in Seq(Nat)
  BY DEF ToolCalls, Words
<1>2. ASSUME NEW t \in ToolIndexes
      PROVE  tools[t] \in Slots /\ tools[t].open \in BOOLEAN /\ tools[t].id \in Words /\ tools[t].args \in Seq(Nat)
  BY DEF ToolTables, Slots
<1>3. s \in Slots
  <2>1. tools[x].id \in Words /\ tools[x].args \in Seq(Nat)
    BY <1>1, <1>2
  <2>2. LastSaid(call.id, tools[x].id) \in Words
    BY <1>1, <2>1 DEF LastSaid
  <2>3. tools[x].args \o call.args \in Seq(Nat)
    BY <1>1, <2>1
  <2> QED
    BY <2>2, <2>3 DEF Slots
<1>4. m = [tools EXCEPT ![x] = s]
  BY DEF mergeTool
<1>5. s.args = tools[x].args \o call.args /\ s.open = TRUE
  OBVIOUS
<1> HIDE DEF m, s, x
<1>6. m \in ToolTables /\ \A t \in ToolIndexes : m[t] = IF t = x THEN s ELSE tools[t]
  BY <1>1, <1>3, <1>4 DEF ToolTables
<1>7. ASSUME NEW t \in ToolIndexes
      PROVE  /\ m[t].args = tools[t].args \o (IF x = t THEN call.args ELSE << >>)
             /\ m[t].open <=> (tools[t].open \/ x = t)
  <2>1. CASE t = x
    BY <1>5, <1>6, <2>1
  <2>2. CASE t # x
    <3>1. m[t] = tools[t]
      BY <1>6, <2>2
    <3>2. tools[t].args \o << >> = tools[t].args
      BY <1>2
    <3> QED
      BY <2>2, <3>1, <3>2
  <2> QED
    BY <2>1, <2>2
<1> QED
  BY <1>6, <1>7 DEF m, x

(* f[k] is the table after k calls.                                        *)
Merges(tools, calls, f) ==
    /\ f \in [0..Len(calls) -> ToolTables] /\ f[0] = tools
    /\ \A k \in 1..Len(calls) : f[k] = mergeTool(f[k - 1], calls[k])

(* The equation of the recursive function in mergeTools.                   *)
LEMMA MergeSteps ==
    ASSUME NEW tools \in ToolTables, NEW calls \in Seq(ToolCalls)
    PROVE  \E f : Merges(tools, calls, f) /\ mergeTools(tools, calls) = f[Len(calls)]
<1> DEFINE n == Len(calls)
           step == [p \in (1..n) \X ToolTables |-> mergeTool(p[2], calls[p[1]])]
           Eq(h) == h = [k \in 0..n |-> IF k = 0 THEN tools ELSE mergeTool(h[k - 1], calls[k])]
<1>1. n \in Nat /\ \A i \in 1..n : calls[i] \in ToolCalls
  OBVIOUS
<1> HIDE DEF n
<1>2. StepsWithin(n, ToolTables, step)
  <2> SUFFICES ASSUME NEW i \in 1..n, NEW v \in ToolTables PROVE step[<<i, v>>] \in ToolTables
    BY DEF StepsWithin
  <2>1. calls[i] \in ToolCalls /\ step[<<i, v>>] = mergeTool(v, calls[i])
    BY <1>1
  <2> HIDE DEF step
  <2> QED
    BY <2>1, MergeToolIs
<1>3. PICK f : Iterates(n, ToolTables, tools, step, f)
  <2> HIDE DEF step
  <2> QED
    BY <1>1, <1>2, IterationExists
<1>4. f \in [0..n -> ToolTables] /\ f[0] = tools
  BY <1>3 DEF Iterates
<1>5. ASSUME NEW i \in 1..n PROVE f[i] = mergeTool(f[i - 1], calls[i])
  <2>1. i - 1 \in 0..n
    BY <1>1
  <2>2. f[i - 1] \in ToolTables /\ f[i] = step[<<i, f[i - 1]>>]
    BY <2>1, <1>3 DEF Iterates
  <2>3. <<i, f[i - 1]>> \in (1..n) \X ToolTables
    BY <2>2
  <2> QED
    BY <2>2, <2>3
<1>6. Eq(f)
  <2>1. \A k \in 0..n : f[k] = IF k = 0 THEN tools ELSE mergeTool(f[k - 1], calls[k])
    BY <1>1, <1>4, <1>5
  <2>2. f = [k \in 0..n |-> f[k]]
    BY <1>4
  <2> QED
    BY <2>1, <2>2
<1>7. PICK h : h = (CHOOSE g : Eq(g)) /\ Eq(h)
  BY <1>6
<1>8. mergeTools(tools, calls) = h[n]
  BY <1>7 DEF mergeTools, n
<1>9. \A k \in 0..n : h[k] = IF k = 0 THEN tools ELSE mergeTool(h[k - 1], calls[k])
  BY <1>7
<1> HIDE DEF Eq, step
<1> DEFINE T == {k \in 0..n : h[k] = f[k]}
<1>10. 0 \in T
  BY <1>1, <1>4, <1>9
<1>11. \A k \in 1..n : k - 1 \in T => k \in T
  BY <1>1, <1>5, <1>9
<1> HIDE DEF T
<1>12. 0..n \subseteq T
  BY <1>1, <1>10, <1>11, IndexInduction
<1>13. h[n] = f[n]
  BY <1>1, <1>12 DEF T
<1>14. Merges(tools, calls, f)
  BY <1>4, <1>5 DEF Merges, n
<1> QED
  BY <1>8, <1>13, <1>14 DEF n

(* What the calls of one delta make of the tool calls.                     *)
Called(tools, after, delta) ==
    \A t \in ToolIndexes :
        /\ ArgsOf(delta, t) \in Seq(Nat)
        /\ after[t].args = tools[t].args \o ArgsOf(delta, t)
        /\ after[t].open <=>
              (tools[t].open \/ \E k \in DOMAIN delta.tools : delta.tools[k].index = t)

(* The calls of a delta add to their tools what ArgsOf tells, and to no    *)
(* other.                                                                  *)
LEMMA MergeToolsIs ==
    ASSUME NEW tools \in ToolTables, NEW delta, delta.tools \in Seq(ToolCalls)
    PROVE  /\ mergeTools(tools, delta.tools) \in ToolTables
           /\ Called(tools, mergeTools(tools, delta.tools), delta)
<1> DEFINE calls == delta.tools
           n == Len(calls)
           m == mergeTools(tools, calls)
<1>1. PICK f : Merges(tools, calls, f) /\ m = f[n]
  BY MergeSteps
<1>2. n \in Nat /\ DOMAIN calls = 1..n /\ \A k \in 1..n : calls[k] \in ToolCalls
  OBVIOUS
<1> HIDE DEF m, n
<1>3. /\ f \in [0..n -> ToolTables] /\ f[0] = tools
      /\ \A k \in 1..n : f[k] = mergeTool(f[k - 1], calls[k])
  BY <1>1 DEF Merges, n
<1>4. m \in ToolTables
  BY <1>1, <1>2, <1>3
<1>5. ASSUME NEW t \in ToolIndexes, NEW k \in 1..n
      PROVE  /\ f[k][t].args = f[k - 1][t].args \o (IF calls[k].index = t THEN calls[k].args ELSE << >>)
             /\ f[k][t].open <=> (f[k - 1][t].open \/ calls[k].index = t)
  <2> DEFINE v == f[k - 1]
             c == calls[k]
  <2>1. v \in ToolTables /\ c \in ToolCalls /\ f[k] = mergeTool(v, c)
    BY <1>2, <1>3
  <2> HIDE DEF v, c
  <2>2. /\ mergeTool(v, c)[t].args = v[t].args \o (IF c.index = t THEN c.args ELSE << >>)
        /\ mergeTool(v, c)[t].open <=> (v[t].open \/ c.index = t)
    BY <2>1, MergeToolIs
  <2> QED
    BY <2>1, <2>2 DEF v, c
<1>6. ASSUME NEW t \in ToolIndexes
      PROVE  /\ ArgsOf(delta, t) \in Seq(Nat)
             /\ m[t].args = tools[t].args \o ArgsOf(delta, t)
             /\ m[t].open <=> (tools[t].open \/ \E k \in 1..n : calls[k].index = t)
  <2> DEFINE part == [k \in 1..n |-> calls[k].args]
             own == {k \in 1..n : calls[k].index = t}
             h == [k \in 0..n |-> f[k][t].args]
             o == [k \in 0..n |-> f[k][t].open]
  <2>1. ArgsOf(delta, t) = Pieces(part, own)
    BY <1>2 DEF ArgsOf
  <2>2. Gathers(n, part, own, h)
    <3>1. \A k \in 1..n : calls[k].args \in Seq(Nat)
      BY <1>2 DEF ToolCalls
    <3>2. part \in [1..n -> Seq(Nat)]
      BY <3>1
    <3>3. \A k \in 0..n : f[k][t].args \in Seq(Nat)
      BY <1>3 DEF ToolTables, Slots
    <3>4. h \in [0..n -> Seq(Nat)]
      BY <3>3
    <3>5. ASSUME NEW k \in 1..n PROVE h[k] = h[k - 1] \o (IF k \in own THEN part[k] ELSE << >>)
      <4> DEFINE p == IF calls[k].index = t THEN calls[k].args ELSE << >>
      <4>1. k \in 0..n /\ k - 1 \in 0..n
        BY <1>2
      <4>2. h[k] = f[k][t].args /\ h[k - 1] = f[k - 1][t].args
        BY <4>1
      <4>3. (IF k \in own THEN part[k] ELSE << >>) = p
        OBVIOUS
      <4>4. f[k][t].args = f[k - 1][t].args \o p
        BY <1>5
      <4> HIDE DEF p, h, part, own
      <4> QED
        BY <4>2, <4>3, <4>4
    <3> HIDE DEF h, part, own
    <3> QED
      BY <3>2, <3>4, <3>5 DEF Gathers
  <2>3. h[0] = tools[t].args /\ h[n] = m[t].args /\ o[0] = tools[t].open /\ o[n] = m[t].open
    BY <1>1, <1>2, <1>3
  <2>4. Reaches(n, own, o)
    <3> SUFFICES ASSUME NEW k \in 1..n PROVE o[k] <=> (o[k - 1] \/ k \in own)
      BY DEF Reaches
    <3>1. k \in 0..n /\ k - 1 \in 0..n
      BY <1>2
    <3>2. o[k] = f[k][t].open /\ o[k - 1] = f[k - 1][t].open
      BY <3>1
    <3>3. f[k][t].open <=> (f[k - 1][t].open \/ calls[k].index = t)
      BY <1>5
    <3>4. k \in own <=> calls[k].index = t
      OBVIOUS
    <3> HIDE DEF o, own
    <3> QED
      BY <3>2, <3>3, <3>4
  <2>5. (\E k \in 1..n : k \in own) <=> (\E k \in 1..n : calls[k].index = t)
    OBVIOUS
  <2> HIDE DEF h, o, part, own
  <2>6. Pieces(part, own) \in Seq(Nat) /\ h[n] = h[0] \o Pieces(part, own)
    BY <1>2, <2>2, PiecesGathered
  <2>7. o[n] <=> (o[0] \/ \E k \in 1..n : k \in own)
    BY <1>2, <2>4, ReachedIs
  <2>8. m[t].open <=> (tools[t].open \/ \E k \in 1..n : calls[k].index = t)
    BY <2>3, <2>5, <2>7
  <2> QED
    BY <2>1, <2>3, <2>6, <2>8
<1>7. Called(tools, m, delta)
  BY <1>2, <1>6 DEF Called
<1> QED
  BY <1>4, <1>7 DEF m

(* The states of all choices.                                              *)
ChoiceTables == [ChoiceIndexes -> ChoiceStates]

(* The state of choice x before and after a delta that is for it (own) or  *)
(* for another choice: a text takes what is its own.                       *)
Own(own, v, none) == IF own THEN v ELSE none

Takes(s, r, delta, own) ==
    /\ r.text = s.text \o Own(own, delta.text, << >>)
    /\ r.reasoning = s.reasoning \o Own(own, delta.reasoning, << >>)
    /\ r.logprobs = s.logprobs \o Own(own, delta.logprobs, << >>)
    /\ r.role = LastSaid(Own(own, delta.role, ""), s.role)
    /\ r.finish = LastSaid(Own(own, delta.finish, ""), s.finish)
    /\ r.used <=> (s.used \/ own)

(* The same of its tool calls.                                             *)
TakesTools(s, r, delta, own) ==
    \A t \in ToolIndexes :
        /\ r.tools[t].args = s.tools[t].args \o Own(own, ArgsOf(delta, t), << >>)
        /\ r.tools[t].open <=>
              (s.tools[t].open \/ (own /\ \E k \in DOMAIN delta.tools : delta.tools[k].index = t))

(* A delta is absorbed by its choice.                                      *)
LEMMA AbsorbIs ==
    ASSUME NEW s \in ChoiceStates, NEW delta \in ChoiceDeltas
    PROVE  /\ absorb(s, delta) \in ChoiceStates
           /\ Takes(s, absorb(s, delta), delta, TRUE)
           /\ TakesTools(s, absorb(s, delta), delta, TRUE)
<1> DEFINE r == absorb(s, delta)
           m == mergeTools(s.tools, delta.tools)
<1>1. /\ delta.role \in Words /\ delta.text \in Seq(Nat) /\ delta.tools \in Seq(ToolCalls)
      /\ delta.finish \in Words /\ delta.reasoning \in Seq(Nat) /\ delta.logprobs \in Seq(Nat)
  BY DEF ChoiceDeltas, Words
<1>2. /\ s.role \in Words /\ s.text \in Seq(Nat) /\ s.tools \in ToolTables
      /\ s.finish \in Words /\ s.reasoning \in Seq(Nat) /\ s.logprobs \in Seq(Nat)
  BY DEF ChoiceStates, ToolTables
<1>3. m \in ToolTables /\ Called(s.tools, m, delta)
  BY <1>1, <1>2, MergeToolsIs
<1> HIDE DEF m
<1>4. /\ r.used = TRUE /\ r.tools = m
      /\ r.role = LastSaid(delta.role, s.role) /\ r.finish = LastSaid(delta.finish, s.finish)
      /\ r.text = s.text \o delta.text /\ r.reasoning = s.reasoning \o delta.reasoning
      /\ r.logprobs = s.logprobs \o delta.logprobs
  BY DEF absorb, m
<1>5. r \in ChoiceStates
  <2>1. LastSaid(delta.role, s.role) \in Words /\ LastSaid(delta.finish, s.finish) \in Words
    BY <1>1, <1>2 DEF LastSaid
  <2>2. /\ s.text \o delta.text \in Seq(Nat) /\ s.reasoning \o delta.reasoning \in Seq(Nat)
        /\ s.logprobs \o delta.logprobs \in Seq(Nat)
    BY <1>1, <1>2
  <2>3. m \in [ToolIndexes -> Slots]
    BY <1>3 DEF ToolTables
  <2> QED
    BY <2>1, <2>2, <2>3 DEF absorb, m, ChoiceStates
<1> HIDE DEF r
<1>6. Takes(s, r, delta, TRUE)
  BY <1>4 DEF Takes, Own
<1>7. TakesTools(s, r, delta, TRUE)
  BY <1>3, <1>4 DEF Called, TakesTools, Own
<1> QED
  BY <1>5, <1>6, <1>7 DEF r

(* Another choice is left alone.                                           *)
LEMMA OtherTakesNothing ==
    ASSUME NEW s \in ChoiceStates, NEW delta
    PROVE  Takes(s, s, delta, FALSE) /\ TakesTools(s, s, delta, FALSE)
<1>1. /\ s.text \in Seq(Nat) /\ s.reasoning \in Seq(Nat) /\ s.logprobs \in Seq(Nat)
      /\ s.tools \in ToolTables
  BY DEF ChoiceStates, ToolTables
<1>2. s.text \o << >> = s.text /\ s.reasoning \o << >> = s.reasoning /\ s.logprobs \o << >> = s.logprobs
  BY <1>1
<1>3. Takes(s, s, delta, FALSE)
  BY <1>2 DEF Takes, Own, LastSaid
<1>4. ASSUME NEW t \in ToolIndexes PROVE s.tools[t].args \o << >> = s.tools[t].args
  <2>1. s.tools[t].args \in Seq(Nat)
    BY <1>1 DEF ToolTables, Slots
  <2> QED
    BY <2>1
<1>5. TakesTools(s, s, delta, FALSE)
  BY <1>4 DEF TakesTools, Own
<1> QED
  BY <1>3, <1>5

(* A delta gives its own choice what it holds, and no other choice         *)
(* anything.                                                               *)
LEMMA AbsorbNextIs ==
    ASSUME NEW states \in ChoiceTables, NEW delta \in ChoiceDeltas
    PROVE  /\ absorbNext(states, delta) \in ChoiceTables
           /\ \A x \in ChoiceIndexes :
                 /\ Takes(states[x], absorbNext(states, delta)[x], delta, delta.index = x)
                 /\ TakesTools(states[x], absorbNext(states, delta)[x], delta, delta.index = x)
<1> DEFINE y == delta.index
           r == absorb(states[y], delta)
           n == absorbNext(states, delta)
<1>1. y \in ChoiceIndexes /\ states[y] \in ChoiceStates
  BY DEF ChoiceDeltas, ChoiceTables
<1>2. r \in ChoiceStates /\ Takes(states[y], r, delta, TRUE) /\ TakesTools(states[y], r, delta, TRUE)
  BY <1>1, AbsorbIs
<1>3. n = [states EXCEPT ![y] = r]
  BY DEF absorbNext
<1> HIDE DEF y, r, n
<1>4. n \in ChoiceTables /\ n[y] = r /\ \A x \in ChoiceIndexes : x # y => n[x] = states[x]
  BY <1>1, <1>2, <1>3 DEF ChoiceTables
<1>5. ASSUME NEW x \in ChoiceIndexes
      PROVE  Takes(states[x], n[x], delta, y = x) /\ TakesTools(states[x], n[x], delta, y = x)
  <2>1. CASE y = x
    <3>1. Takes(states[x], n[x], delta, TRUE) /\ TakesTools(states[x], n[x], delta, TRUE)
      BY <1>2, <1>4, <2>1
    <3>2. (y = x) = TRUE
      BY <2>1
    <3> QED
      BY <3>1, <3>2, Zenon
  <2>2. CASE y # x
    <3>1. states[x] \in ChoiceStates /\ n[x] = states[x]
      BY <1>4, <2>2 DEF ChoiceTables
    <3>2. Takes(states[x], states[x], delta, FALSE) /\ TakesTools(states[x], states[x], delta, FALSE)
      BY <3>1, OtherTakesNothing
    <3>3. (y = x) = FALSE
      BY <2>2
    <3> QED
      BY <3>1, <3>2, <3>3, Zenon
  <2> QED
    BY <2>1, <2>2
<1> QED
  BY <1>4, <1>5 DEF n, y

(* The states before the first delta.                                      *)
Fresh0 == [x \in ChoiceIndexes |-> FreshChoice]

(* st[i] are the choices after i deltas.                                   *)
Absorbs(received, st) ==
    /\ st \in [0..Len(received) -> ChoiceTables] /\ st[0] = Fresh0
    /\ \A i \in 1..Len(received) : st[i] = absorbNext(st[i - 1], received[i])

(* They are states of choices.                                             *)
LEMMA FreshTyped == Fresh0 \in ChoiceTables
<1>1. NoSlot \in Slots
  <2> DEFINE e == << >>
             i == ""
  <2>1. e \in Seq(Nat)
    OBVIOUS
  <2>2. i \in Words
    BY DEF Words
  <2>3. NoSlot = [open |-> FALSE, id |-> i, args |-> e]
    BY DEF NoSlot
  <2> HIDE DEF e, i
  <2> QED
    BY <2>1, <2>2, <2>3 DEF Slots
<1>2. [i \in ToolIndexes |-> NoSlot] \in [ToolIndexes -> Slots]
  BY <1>1
<1>3. FreshChoice \in ChoiceStates
  <2> DEFINE t == [i \in ToolIndexes |-> NoSlot]
  <2>1. t \in [ToolIndexes -> Slots]
    BY <1>2
  <2> DEFINE e == << >>
             r == "assistant"
             f == "stop"
  <2>2. e \in Seq(Nat)
    OBVIOUS
  <2>3. r \in Words /\ f \in Words
    BY DEF Words
  <2>4. FreshChoice = [used |-> FALSE, role |-> r, text |-> e, finish |-> f,
                       tools |-> t, reasoning |-> e, logprobs |-> e]
    BY DEF FreshChoice
  <2> HIDE DEF t, e, r, f
  <2> QED
    BY <2>1, <2>2, <2>3, <2>4 DEF ChoiceStates
<1> QED
  BY <1>3 DEF Fresh0, ChoiceTables

(* The equation of the recursive function in absorbAll.                    *)
LEMMA AbsorbSteps ==
    ASSUME NEW received \in Seq(ChoiceDeltas)
    PROVE  \E st : Absorbs(received, st) /\ absorbAll(received) = st[Len(received)]
<1> DEFINE n == Len(received)
           step == [p \in (1..n) \X ChoiceTables |-> absorbNext(p[2], received[p[1]])]
           Eq(h) == h = [k \in 0..n |-> IF k = 0 THEN Fresh0 ELSE absorbNext(h[k - 1], received[k])]
<1>1. n \in Nat /\ \A i \in 1..n : received[i] \in ChoiceDeltas
  OBVIOUS
<1> HIDE DEF n
<1>2. StepsWithin(n, ChoiceTables, step)
  <2> SUFFICES ASSUME NEW i \in 1..n, NEW v \in ChoiceTables PROVE step[<<i, v>>] \in ChoiceTables
    BY DEF StepsWithin
  <2>1. received[i] \in ChoiceDeltas /\ step[<<i, v>>] = absorbNext(v, received[i])
    BY <1>1
  <2> HIDE DEF step
  <2> QED
    BY <2>1, AbsorbNextIs
<1>3. PICK f : Iterates(n, ChoiceTables, Fresh0, step, f)
  <2> HIDE DEF step
  <2> QED
    BY <1>1, <1>2, FreshTyped, IterationExists
<1>4. f \in [0..n -> ChoiceTables] /\ f[0] = Fresh0
  BY <1>3 DEF Iterates
<1>5. ASSUME NEW i \in 1..n PROVE f[i] = absorbNext(f[i - 1], received[i])
  <2>1. i - 1 \in 0..n
    BY <1>1
  <2>2. f[i - 1] \in ChoiceTables /\ f[i] = step[<<i, f[i - 1]>>]
    BY <2>1, <1>3 DEF Iterates
  <2>3. <<i, f[i - 1]>> \in (1..n) \X ChoiceTables
    BY <2>2
  <2> QED
    BY <2>2, <2>3
<1>6. Eq(f)
  <2>1. \A k \in 0..n : f[k] = IF k = 0 THEN Fresh0 ELSE absorbNext(f[k - 1], received[k])
    BY <1>1, <1>4, <1>5
  <2>2. f = [k \in 0..n |-> f[k]]
    BY <1>4
  <2> QED
    BY <2>1, <2>2
<1>7. PICK h : h = (CHOOSE g : Eq(g)) /\ Eq(h)
  BY <1>6
<1>8. absorbAll(received) = h[n]
  BY <1>7 DEF absorbAll, n, Fresh0
<1>9. \A k \in 0..n : h[k] = IF k = 0 THEN Fresh0 ELSE absorbNext(h[k - 1], received[k])
  BY <1>7
<1> HIDE DEF Eq, step
<1> DEFINE T == {k \in 0..n : h[k] = f[k]}
<1>10. 0 \in T
  BY <1>1, <1>4, <1>9
<1>11. \A k \in 1..n : k - 1 \in T => k \in T
  BY <1>1, <1>5, <1>9
<1> HIDE DEF T
<1>12. 0..n \subseteq T
  BY <1>1, <1>10, <1>11, IndexInduction
<1>13. h[n] = f[n]
  BY <1>1, <1>12 DEF T
<1>14. Absorbs(received, f)
  BY <1>4, <1>5 DEF Absorbs, n
<1> QED
  BY <1>8, <1>13, <1>14 DEF n

(* The deltas of choice x, and the tools they call.                        *)
OwnOf(told, x) == {i \in DOMAIN told : told[i].index = x}

CalledBy(told, x) ==
    UNION {{told[i].tools[k].index : k \in DOMAIN told[i].tools} : i \in OwnOf(told, x)}

(* State s of choice x holds what `told` says.                             *)
HoldsTexts(s, told, x) ==
    /\ s.text = Pieces([i \in DOMAIN told |-> told[i].text], OwnOf(told, x))
    /\ s.reasoning = Pieces([i \in DOMAIN told |-> told[i].reasoning], OwnOf(told, x))
    /\ s.logprobs = Pieces([i \in DOMAIN told |-> told[i].logprobs], OwnOf(told, x))
HoldsWords(s, told, x) ==
    /\ s.role = LastOf([i \in DOMAIN told |-> told[i].role], OwnOf(told, x), "assistant")
    /\ s.finish = LastOf([i \in DOMAIN told |-> told[i].finish], OwnOf(told, x), "stop")
    /\ s.used <=> OwnOf(told, x) # {}
HoldsTools(s, told, x) ==
    \A t \in ToolIndexes :
        /\ s.tools[t].args = Pieces([i \in DOMAIN told |-> ArgsOf(told[i], t)], OwnOf(told, x))
        /\ s.tools[t].open <=> t \in CalledBy(told, x)

(* The steps of one choice.                                                *)
ChoiceSteps(told, x, st) ==
    /\ st \in [0..Len(told) -> ChoiceStates] /\ st[0] = FreshChoice
    /\ \A i \in 1..Len(told) : /\ Takes(st[i - 1], st[i], told[i], told[i].index = x)
                               /\ TakesTools(st[i - 1], st[i], told[i], told[i].index = x)

(* Absorbing the deltas of all choices is such a series for each of them.  *)
LEMMA ChoiceStepsExist ==
    ASSUME NEW told \in Seq(ChoiceDeltas), NEW x \in ChoiceIndexes
    PROVE  \E st : ChoiceSteps(told, x, st) /\ absorbAll(told)[x] = st[Len(told)]
<1> DEFINE n == Len(told)
<1>1. PICK all : Absorbs(told, all) /\ absorbAll(told) = all[n]
  BY AbsorbSteps
<1>2. n \in Nat /\ \A i \in 1..n : told[i] \in ChoiceDeltas
  OBVIOUS
<1> HIDE DEF n
<1>3. /\ all \in [0..n -> ChoiceTables] /\ all[0] = Fresh0
      /\ \A i \in 1..n : all[i] = absorbNext(all[i - 1], told[i])
  BY <1>1 DEF Absorbs, n
<1> DEFINE st == [i \in 0..n |-> all[i][x]]
<1>4. st \in [0..n -> ChoiceStates] /\ st[0] = FreshChoice /\ st[n] = absorbAll(told)[x]
  BY <1>1, <1>2, <1>3 DEF ChoiceTables, Fresh0
<1>5. ASSUME NEW i \in 1..n
      PROVE  /\ Takes(st[i - 1], st[i], told[i], told[i].index = x)
             /\ TakesTools(st[i - 1], st[i], told[i], told[i].index = x)
  <2> DEFINE a == all[i - 1]
             d == told[i]
  <2>1. a \in ChoiceTables /\ d \in ChoiceDeltas /\ all[i] = absorbNext(a, d)
    BY <1>2, <1>3
  <2>2. st[i - 1] = a[x] /\ st[i] = all[i][x]
    BY <1>2
  <2> HIDE DEF st, a, d
  <2>3. /\ Takes(a[x], absorbNext(a, d)[x], d, d.index = x)
        /\ TakesTools(a[x], absorbNext(a, d)[x], d, d.index = x)
    BY <2>1, AbsorbNextIs
  <2> QED
    BY <2>1, <2>2, <2>3 DEF d
<1> HIDE DEF st
<1>6. ChoiceSteps(told, x, st)
  BY <1>4, <1>5 DEF ChoiceSteps, n
<1> QED
  BY <1>4, <1>6 DEF n

(* A text of a choice: it starts empty and takes its own pieces.           *)
LEMMA TextHeld ==
    ASSUME NEW n \in Nat, NEW part \in [1..n -> Seq(Nat)], NEW own,
           NEW h \in [0..n -> Seq(Nat)], h[0] = << >>,
           \A i \in 1..n : h[i] = h[i - 1] \o Own(i \in own, part[i], << >>)
    PROVE  h[n] = Pieces(part, own)
<1>1. Gathers(n, part, own, h)
  BY DEF Gathers, Own
<1>2. Pieces(part, own) \in Seq(Nat) /\ h[n] = h[0] \o Pieces(part, own)
  BY <1>1, PiecesGathered
<1>3. << >> \o Pieces(part, own) = Pieces(part, own)
  BY <1>2
<1> QED
  BY <1>2, <1>3

(* At the end the texts of a choice are the pieces that were its own.      *)
LEMMA TextsHeld ==
    ASSUME NEW told \in Seq(ChoiceDeltas), NEW x \in ChoiceIndexes, NEW st, ChoiceSteps(told, x, st)
    PROVE  HoldsTexts(st[Len(told)], told, x)
<1> DEFINE n == Len(told)
           own == OwnOf(told, x)
<1>1. n \in Nat /\ DOMAIN told = 1..n /\ \A i \in 1..n : told[i] \in ChoiceDeltas
  OBVIOUS
<1>2. \A i \in 1..n : i \in own <=> told[i].index = x
  BY <1>1 DEF OwnOf
<1>3. st \in [0..n -> ChoiceStates] /\ st[0] = FreshChoice
  BY DEF ChoiceSteps
<1>4. \A i \in 1..n : Takes(st[i - 1], st[i], told[i], told[i].index = x)
  BY DEF ChoiceSteps
<1> HIDE DEF n, own
<1>5. \A i \in 0..n : /\ st[i].text \in Seq(Nat) /\ st[i].reasoning \in Seq(Nat)
                      /\ st[i].logprobs \in Seq(Nat)
  BY <1>3 DEF ChoiceStates
<1>6. \A i \in 1..n : /\ told[i].text \in Seq(Nat) /\ told[i].reasoning \in Seq(Nat)
                      /\ told[i].logprobs \in Seq(Nat)
  BY <1>1 DEF ChoiceDeltas
<1>7. ASSUME NEW i \in 1..n
      PROVE  /\ st[i].text = st[i - 1].text \o Own(i \in own, told[i].text, << >>)
             /\ st[i].reasoning = st[i - 1].reasoning \o Own(i \in own, told[i].reasoning, << >>)
             /\ st[i].logprobs = st[i - 1].logprobs \o Own(i \in own, told[i].logprobs, << >>)
             /\ i \in 0..n /\ i - 1 \in 0..n
  <2>1. (i \in own) = (told[i].index = x)
    BY <1>2
  <2>2. Takes(st[i - 1], st[i], told[i], i \in own)
    BY <1>4, <2>1, Zenon
  <2>3. i \in 0..n /\ i - 1 \in 0..n
    BY <1>1
  <2> QED
    BY <2>2, <2>3 DEF Takes
<1>8. st[n].text = Pieces([i \in 1..n |-> told[i].text], own)
  <2> DEFINE part == [i \in 1..n |-> told[i].text]
             h == [i \in 0..n |-> st[i].text]
  <2>1. part \in [1..n -> Seq(Nat)] /\ h \in [0..n -> Seq(Nat)]
    BY <1>5, <1>6
  <2>2. h[0] = << >> /\ h[n] = st[n].text
    BY <1>1, <1>3 DEF FreshChoice
  <2>3. \A i \in 1..n : h[i] = h[i - 1] \o Own(i \in own, part[i], << >>)
    BY <1>7
  <2> HIDE DEF part, h
  <2>4. h[n] = Pieces(part, own)
    BY <1>1, <2>1, <2>2, <2>3, TextHeld
  <2> QED
    BY <2>2, <2>4 DEF part
<1>9. st[n].reasoning = Pieces([i \in 1..n |-> told[i].reasoning], own)
  <2> DEFINE part == [i \in 1..n |-> told[i].reasoning]
             h == [i \in 0..n |-> st[i].reasoning]
  <2>1. part \in [1..n -> Seq(Nat)] /\ h \in [0..n -> Seq(Nat)]
    BY <1>5, <1>6
  <2>2. h[0] = << >> /\ h[n] = st[n].reasoning
    BY <1>1, <1>3 DEF FreshChoice
  <2>3. \A i \in 1..n : h[i] = h[i - 1] \o Own(i \in own, part[i], << >>)
    BY <1>7
  <2> HIDE DEF part, h
  <2>4. h[n] = Pieces(part, own)
    BY <1>1, <2>1, <2>2, <2>3, TextHeld
  <2> QED
    BY <2>2, <2>4 DEF part
<1>10. st[n].logprobs = Pieces([i \in 1..n |-> told[i].logprobs], own)
  <2> DEFINE part == [i \in 1..n |-> told[i].logprobs]
             h == [i \in 0..n |-> st[i].logprobs]
  <2>1. part \in [1..n -> Seq(Nat)] /\ h \in [0..n -> Seq(Nat)]
    BY <1>5, <1>6
  <2>2. h[0] = << >> /\ h[n] = st[n].logprobs
    BY <1>1, <1>3 DEF FreshChoice
  <2>3. \A i \in 1..n : h[i] = h[i - 1] \o Own(i \in own, part[i], << >>)
    BY <1>7
  <2> HIDE DEF part, h
  <2>4. h[n] = Pieces(part, own)
    BY <1>1, <2>1, <2>2, <2>3, TextHeld
  <2> QED
    BY <2>2, <2>4 DEF part
<1> QED
  BY <1>1, <1>8, <1>9, <1>10 DEF HoldsTexts, n, own

(* Its role and finish reason are the last ones told, and it is in use     *)
(* when a delta was its own.                                               *)
LEMMA WordsHeld ==
    ASSUME NEW told \in Seq(ChoiceDeltas), NEW x \in ChoiceIndexes, NEW st, ChoiceSteps(told, x, st)
    PROVE  HoldsWords(st[Len(told)], told, x)
<1> DEFINE n == Len(told)
           own == OwnOf(told, x)
<1>1. n \in Nat /\ DOMAIN told = 1..n
  OBVIOUS
<1>2. own \subseteq 1..n /\ \A i \in 1..n : i \in own <=> told[i].index = x
  BY <1>1 DEF OwnOf
<1>3. st[0] = FreshChoice
  BY DEF ChoiceSteps
<1>4. \A i \in 1..n : Takes(st[i - 1], st[i], told[i], told[i].index = x)
  BY DEF ChoiceSteps
<1> HIDE DEF n, own
<1>5. ASSUME NEW i \in 1..n
      PROVE  /\ st[i].role = LastSaid(Own(i \in own, told[i].role, ""), st[i - 1].role)
             /\ st[i].finish = LastSaid(Own(i \in own, told[i].finish, ""), st[i - 1].finish)
             /\ st[i].used <=> (st[i - 1].used \/ i \in own)
             /\ i \in 0..n /\ i - 1 \in 0..n
  <2>1. (i \in own) = (told[i].index = x)
    BY <1>2
  <2>2. Takes(st[i - 1], st[i], told[i], i \in own)
    BY <1>4, <2>1, Zenon
  <2>3. i \in 0..n /\ i - 1 \in 0..n
    BY <1>1
  <2> QED
    BY <2>2, <2>3 DEF Takes
<1>6. st[n].role = LastOf([i \in 1..n |-> told[i].role], own, "assistant")
  <2> DEFINE said == [i \in 1..n |-> told[i].role]
             h == [i \in 0..n |-> st[i].role]
  <2>1. h[0] = "assistant" /\ h[n] = st[n].role
    BY <1>1, <1>3 DEF FreshChoice
  <2>2. Repeats(n, said, own, h)
    BY <1>2, <1>5 DEF Repeats, Own
  <2> HIDE DEF said, h
  <2>3. h[n] = LastOf(said, own, h[0])
    BY <1>1, <2>2, LastSaidLast
  <2> QED
    BY <2>1, <2>3 DEF said
<1>7. st[n].finish = LastOf([i \in 1..n |-> told[i].finish], own, "stop")
  <2> DEFINE said == [i \in 1..n |-> told[i].finish]
             h == [i \in 0..n |-> st[i].finish]
  <2>1. h[0] = "stop" /\ h[n] = st[n].finish
    BY <1>1, <1>3 DEF FreshChoice
  <2>2. Repeats(n, said, own, h)
    BY <1>2, <1>5 DEF Repeats, Own
  <2> HIDE DEF said, h
  <2>3. h[n] = LastOf(said, own, h[0])
    BY <1>1, <2>2, LastSaidLast
  <2> QED
    BY <2>1, <2>3 DEF said
<1>8. st[n].used <=> own # {}
  <2> DEFINE h == [i \in 0..n |-> st[i].used]
  <2>1. h[0] = FALSE /\ h[n] = st[n].used
    BY <1>1, <1>3 DEF FreshChoice
  <2>2. Reaches(n, own, h)
    BY <1>5 DEF Reaches
  <2> HIDE DEF h
  <2>3. h[n] <=> (h[0] \/ \E i \in 1..n : i \in own)
    BY <1>1, <2>2, ReachedIs
  <2>4. (\E i \in 1..n : i \in own) <=> own # {}
    BY <1>2
  <2> QED
    BY <2>1, <2>3, <2>4
<1> QED
  BY <1>1, <1>6, <1>7, <1>8 DEF HoldsWords, n, own

(* The arguments that a delta has for a tool are a text.                   *)
LEMMA ArgsTyped ==
    ASSUME NEW delta \in ChoiceDeltas, NEW t \in ToolIndexes
    PROVE  ArgsOf(delta, t) \in Seq(Nat)
<1>1. delta.tools \in Seq(ToolCalls)
  BY DEF ChoiceDeltas
<1> DEFINE table == FreshChoice.tools
<1>2. table \in ToolTables
  BY FreshTyped, CompletionAssumption DEF Fresh0, ChoiceTables, ChoiceStates, ToolTables
<1> HIDE DEF table
<1>3. Called(table, mergeTools(table, delta.tools), delta)
  BY <1>1, <1>2, MergeToolsIs
<1> QED
  BY <1>3 DEF Called

(* Its tool calls are those its deltas call, with their arguments in       *)
(* order.                                                                  *)
LEMMA ToolsHeld ==
    ASSUME NEW told \in Seq(ChoiceDeltas), NEW x \in ChoiceIndexes, NEW st, ChoiceSteps(told, x, st)
    PROVE  HoldsTools(st[Len(told)], told, x)
<1> DEFINE n == Len(told)
           own == OwnOf(told, x)
<1>1. n \in Nat /\ DOMAIN told = 1..n /\ \A i \in 1..n : told[i] \in ChoiceDeltas
  OBVIOUS
<1>2. own \subseteq 1..n /\ \A i \in 1..n : i \in own <=> told[i].index = x
  BY <1>1 DEF OwnOf
<1>3. st \in [0..n -> ChoiceStates] /\ st[0] = FreshChoice
  BY DEF ChoiceSteps
<1>4. \A i \in 1..n : TakesTools(st[i - 1], st[i], told[i], told[i].index = x)
  BY DEF ChoiceSteps
<1> HIDE DEF n, own
<1> SUFFICES ASSUME NEW t \in ToolIndexes
             PROVE  /\ st[n].tools[t].args = Pieces([i \in 1..n |-> ArgsOf(told[i], t)], own)
                    /\ st[n].tools[t].open <=> t \in CalledBy(told, x)
  BY <1>1 DEF HoldsTools, n, own
<1> DEFINE Q == {i \in own : \E k \in DOMAIN told[i].tools : told[i].tools[k].index = t}
<1>5. ASSUME NEW i \in 1..n
      PROVE  /\ st[i].tools[t].args = st[i - 1].tools[t].args \o Own(i \in own, ArgsOf(told[i], t), << >>)
             /\ st[i].tools[t].open <=> (st[i - 1].tools[t].open \/ i \in Q)
             /\ i \in 0..n /\ i - 1 \in 0..n
  <2>1. (i \in own) = (told[i].index = x)
    BY <1>2
  <2>2. TakesTools(st[i - 1], st[i], told[i], i \in own)
    BY <1>4, <2>1, Zenon
  <2>3. i \in 0..n /\ i - 1 \in 0..n
    BY <1>1
  <2>4. st[i].tools[t].args = st[i - 1].tools[t].args \o Own(i \in own, ArgsOf(told[i], t), << >>)
    BY <2>2 DEF TakesTools
  <2>5. st[i].tools[t].open <=>
           (st[i - 1].tools[t].open \/ (i \in own /\ \E k \in DOMAIN told[i].tools : told[i].tools[k].index = t))
    BY <2>2 DEF TakesTools
  <2> QED
    BY <2>3, <2>4, <2>5
<1>6. st[n].tools[t].args = Pieces([i \in 1..n |-> ArgsOf(told[i], t)], own)
  <2> DEFINE part == [i \in 1..n |-> ArgsOf(told[i], t)]
             h == [i \in 0..n |-> st[i].tools[t].args]
  <2>1. \A i \in 1..n : ArgsOf(told[i], t) \in Seq(Nat)
    BY <1>1, ArgsTyped
  <2>2. \A i \in 0..n : st[i].tools[t].args \in Seq(Nat)
    BY <1>3 DEF ChoiceStates, Slots
  <2>3. part \in [1..n -> Seq(Nat)] /\ h \in [0..n -> Seq(Nat)]
    BY <2>1, <2>2
  <2>4. h[0] = << >> /\ h[n] = st[n].tools[t].args
    <3>1. h[0] = st[0].tools[t].args /\ h[n] = st[n].tools[t].args
      BY <1>1
    <3>2. FreshChoice.tools[t] = NoSlot
      BY DEF FreshChoice
    <3>3. NoSlot.args = << >>
      BY DEF NoSlot
    <3> HIDE DEF h
    <3> QED
      BY <1>3, <3>1, <3>2, <3>3
  <2>5. \A i \in 1..n : h[i] = h[i - 1] \o Own(i \in own, part[i], << >>)
    BY <1>5
  <2> HIDE DEF part, h
  <2>6. h[n] = Pieces(part, own)
    BY <1>1, <2>3, <2>4, <2>5, TextHeld
  <2> QED
    BY <2>4, <2>6 DEF part
<1>7. st[n].tools[t].open <=> \E i \in 1..n : i \in Q
  <2> DEFINE h == [i \in 0..n |-> st[i].tools[t].open]
  <2>1. h[0] = FALSE /\ h[n] = st[n].tools[t].open
    <3>1. h[0] = st[0].tools[t].open /\ h[n] = st[n].tools[t].open
      BY <1>1
    <3>2. FreshChoice.tools[t] = NoSlot
      BY DEF FreshChoice
    <3>3. NoSlot.open = FALSE
      BY DEF NoSlot
    <3> HIDE DEF h
    <3> QED
      BY <1>3, <3>1, <3>2, <3>3
  <2> HIDE DEF Q
  <2>2. Reaches(n, Q, h)
    BY <1>5 DEF Reaches
  <2> HIDE DEF h
  <2>3. h[n] <=> (h[0] \/ \E i \in 1..n : i \in Q)
    BY <1>1, <2>2, ReachedIs
  <2> QED
    BY <2>1, <2>3
<1>8. (\E i \in 1..n : i \in Q) <=> t \in CalledBy(told, x)
  BY <1>2 DEF CalledBy, own
<1> QED
  BY <1>6, <1>7, <1>8

(* Collecting any deltas gives every choice what they tell it.             *)
LEMMA StateHolds ==
    ASSUME NEW told \in Seq(ChoiceDeltas), NEW x \in ChoiceIndexes
    PROVE  /\ absorbAll(told)[x] \in ChoiceStates /\ HoldsTexts(absorbAll(told)[x], told, x)
           /\ HoldsWords(absorbAll(told)[x], told, x) /\ HoldsTools(absorbAll(told)[x], told, x)
<1>1. PICK st : ChoiceSteps(told, x, st) /\ absorbAll(told)[x] = st[Len(told)]
  BY ChoiceStepsExist
<1>2. st[Len(told)] \in ChoiceStates
  BY <1>1 DEF ChoiceSteps
<1> QED
  BY <1>1, <1>2, TextsHeld, WordsHeld, ToolsHeld

(* The choices of a completion: those with a delta, or choice 0.           *)
ChoicesOf(told) == IF told = << >> THEN {0} ELSE {told[i].index : i \in DOMAIN told}

(* The choice made of a state is what the deltas tell of it.               *)
LEMMA CollectedChoice ==
    ASSUME NEW told \in Seq(ChoiceDeltas), NEW x \in ChoiceIndexes
    PROVE  IsChoiceOf(choiceOf(absorbAll(told)[x]), told, x, TRUE)
<1> DEFINE s == absorbAll(told)[x]
           c == choiceOf(s)
           called == CalledBy(told, x)
<1>1. HoldsTexts(s, told, x) /\ HoldsWords(s, told, x) /\ HoldsTools(s, told, x)
  BY StateHolds
<1> HIDE DEF s
<1>2. called \subseteq ToolIndexes
  <2> SUFFICES ASSUME NEW i \in OwnOf(told, x), NEW k \in DOMAIN told[i].tools
               PROVE  told[i].tools[k].index \in ToolIndexes
    BY DEF CalledBy
  <2>1. told[i] \in ChoiceDeltas
    BY DEF OwnOf
  <2>2. told[i].tools \in Seq(ToolCalls)
    BY <2>1 DEF ChoiceDeltas
  <2>3. told[i].tools[k] \in ToolCalls
    BY <2>2
  <2> QED
    BY <2>3 DEF ToolCalls
<1>3. ToolsOf(s) = called
  BY <1>1, <1>2 DEF ToolsOf, HoldsTools
<1>4. /\ c.role = s.role /\ c.text = s.text /\ c.finish = s.finish
      /\ c.reasoning = s.reasoning /\ c.logprobs = s.logprobs
      /\ c.tools = [i \in called |-> s.tools[i]]
  BY <1>3 DEF choiceOf
<1>5. c.null = (s.text = << >> /\ called # {})
  BY <1>3 DEF choiceOf
<1> HIDE DEF c
<1>6. /\ c.text = Pieces([i \in DOMAIN told |-> told[i].text], OwnOf(told, x))
      /\ c.reasoning = Pieces([i \in DOMAIN told |-> told[i].reasoning], OwnOf(told, x))
      /\ c.logprobs = Pieces([i \in DOMAIN told |-> told[i].logprobs], OwnOf(told, x))
  BY <1>1, <1>4 DEF HoldsTexts
<1>7. /\ c.role = LastOf([i \in DOMAIN told |-> told[i].role], OwnOf(told, x), "assistant")
      /\ c.finish = LastOf([i \in DOMAIN told |-> told[i].finish], OwnOf(told, x), "stop")
  BY <1>1, <1>4 DEF HoldsWords
<1>8. DOMAIN c.tools = called
  BY <1>4
<1>9. \A t \in called :
         c.tools[t].args = Pieces([i \in DOMAIN told |-> ArgsOf(told[i], t)], OwnOf(told, x))
  <2> SUFFICES ASSUME NEW t \in called
               PROVE  c.tools[t].args = Pieces([i \in DOMAIN told |-> ArgsOf(told[i], t)], OwnOf(told, x))
    OBVIOUS
  <2>1. c.tools[t] = s.tools[t] /\ t \in ToolIndexes
    BY <1>2, <1>4
  <2> HIDE DEF called
  <2> QED
    BY <1>1, <2>1 DEF HoldsTools
<1>10. c.null <=> c.text = << >> /\ called # {}
  BY <1>4, <1>5
<1> HIDE DEF called
<1>11. OwnOf(told, x) = {i \in DOMAIN told : told[i].index = x}
  BY DEF OwnOf
<1>12. called = UNION {{told[i].tools[k].index : k \in DOMAIN told[i].tools} : i \in OwnOf(told, x)}
  BY DEF CalledBy, called
<1> QED
  BY <1>6, <1>7, <1>8, <1>9, <1>10, <1>11, <1>12, Zenon DEF IsChoiceOf, c, s

(* CollectCompletion has the choices that were told, and each is what was  *)
(* told.                                                                   *)
LEMMA CollectedIs ==
    ASSUME NEW told \in Seq(ChoiceDeltas)
    PROVE  /\ CollectCompletion(told).count = Len(told)
           /\ DOMAIN CollectCompletion(told).choices = ChoicesOf(told)
           /\ \A x \in ChoicesOf(told) :
                 /\ x \in ChoiceIndexes
                 /\ IsChoiceOf(CollectCompletion(told).choices[x], told, x, TRUE)
<1> DEFINE states == absorbAll(told)
           used == {x \in ChoiceIndexes : states[x].used}
           c == CollectCompletion(told)
<1>1. c.count = Len(told) /\ c.choices = [x \in (IF used = {} THEN {0} ELSE used) |-> choiceOf(states[x])]
  BY DEF CollectCompletion
<1>2. \A i \in DOMAIN told : told[i].index \in ChoiceIndexes
  <2> SUFFICES ASSUME NEW i \in DOMAIN told PROVE told[i].index \in ChoiceIndexes
    OBVIOUS
  <2>1. told[i] \in ChoiceDeltas
    OBVIOUS
  <2> QED
    BY <2>1 DEF ChoiceDeltas
<1>3. used = {told[i].index : i \in DOMAIN told}
  <2>1. \A x \in ChoiceIndexes : states[x].used <=> OwnOf(told, x) # {}
    BY StateHolds DEF HoldsWords
  <2> HIDE DEF states
  <2>2. \A x \in ChoiceIndexes : OwnOf(told, x) # {} <=> \E i \in DOMAIN told : told[i].index = x
    BY DEF OwnOf
  <2> QED
    BY <1>2, <2>1, <2>2
<1> HIDE DEF used, c, states
<1>4. used = {} <=> told = << >>
  <2>1. told = << >> <=> DOMAIN told = {}
    OBVIOUS
  <2> QED
    BY <1>3, <2>1
<1>5. (IF used = {} THEN {0} ELSE used) = ChoicesOf(told)
  BY <1>3, <1>4 DEF ChoicesOf
<1>6. ASSUME NEW x \in ChoicesOf(told)
      PROVE  x \in ChoiceIndexes /\ IsChoiceOf(c.choices[x], told, x, TRUE)
  <2>1. x \in ChoiceIndexes
    BY <1>2, <1>6, CompletionAssumption DEF ChoicesOf
  <2>2. c.choices[x] = choiceOf(states[x])
    BY <1>1, <1>5
  <2>3. IsChoiceOf(choiceOf(states[x]), told, x, TRUE)
    BY <2>1, CollectedChoice DEF states
  <2> QED
    BY <2>1, <2>2, <2>3
<1> QED
  BY <1>1, <1>5, <1>6 DEF c

(* Two series of deltas that differ in nested lists at most.               *)
SameBut(d, e) ==
    /\ d.index = e.index /\ d.role = e.role /\ d.text = e.text /\ d.tools = e.tools
    /\ d.finish = e.finish /\ d.reasoning = e.reasoning

Agree(a, b) == Len(a) = Len(b) /\ \A i \in 1..Len(a) : SameBut(a[i], b[i])

(* Pieces joined are a text of the elements of the pieces.                 *)
LEMMA PiecesAre ==
    ASSUME NEW n \in Nat, NEW part \in [1..n -> Seq(Nat)], NEW own \in SUBSET (1..n)
    PROVE  /\ Pieces(part, own) \in Seq(Nat)
           /\ ToSet(Pieces(part, own)) = UNION {ToSet(part[i]) : i \in own}
<1> DEFINE ss == [i \in 1..n |-> IF i \in own THEN part[i] ELSE << >>]
<1>1. ss \in [1..n -> Seq(Nat)]
  OBVIOUS
<1>2. ss \in Seq(Seq(Nat)) /\ DOMAIN ss = 1..n
  <2> HIDE DEF ss
  <2> QED
    BY <1>1
<1>3. Pieces(part, own) = FlattenSeq(ss)
  <2>1. DOMAIN part = 1..n
    OBVIOUS
  <2> QED
    BY <2>1 DEF Pieces
<1>4. \A i \in 1..n : ToSet(ss[i]) = IF i \in own THEN ToSet(part[i]) ELSE {}
  <2>1. ToSet(<< >>) = {}
    BY DEF ToSet
  <2> QED
    BY <2>1
<1> HIDE DEF ss
<1>5. FlattenSeq(ss) \in Seq(Nat) /\ ToSet(FlattenSeq(ss)) = UNION {ToSet(ss[i]) : i \in DOMAIN ss}
  BY <1>2, FlattenFacts
<1>6. UNION {ToSet(ss[i]) : i \in 1..n} = UNION {ToSet(part[i]) : i \in own}
  BY <1>4
<1> QED
  BY <1>2, <1>3, <1>5, <1>6

(* Without any piece that holds something nothing is joined.               *)
LEMMA PiecesEmpty ==
    ASSUME NEW n \in Nat, NEW part \in [1..n -> Seq(Nat)], NEW own \in SUBSET (1..n),
           \A i \in own : part[i] = << >>
    PROVE  Pieces(part, own) = << >>
<1> DEFINE h == [i \in 0..n |-> << >>]
<1>1. h \in [0..n -> Seq(Nat)] /\ h[0] = << >> /\ h[n] = << >>
  OBVIOUS
<1>2. \A i \in 1..n : h[i] = h[i - 1] \o Own(i \in own, part[i], << >>)
  <2>1. << >> \o << >> = << >>
    OBVIOUS
  <2>2. ASSUME NEW i \in 1..n PROVE h[i] = << >> /\ h[i - 1] = << >>
    OBVIOUS
  <2>3. ASSUME NEW i \in 1..n PROVE Own(i \in own, part[i], << >>) = << >>
    BY DEF Own
  <2> HIDE DEF h
  <2> QED
    BY <2>1, <2>2, <2>3
<1> HIDE DEF h
<1> QED
  BY <1>1, <1>2, TextHeld

(* n pieces, and f the first of those in `own` that may hold something.    *)
PiecesOf(n, part) == part \in [1..n -> Seq(Nat)]

FirstOf(n, part, own, f) ==
    /\ PiecesOf(n, part) /\ own \subseteq 1..n /\ f \in own
    /\ \A i \in own : i < f => part[i] = << >>

(* There is a series that gathers the pieces from any start.               *)
LEMMA GatheringExists ==
    ASSUME NEW n \in Nat, NEW part, NEW own, NEW a \in Seq(Nat), PiecesOf(n, part)
    PROVE  \E h : Gathers(n, part, own, h) /\ h[0] = a
<1> USE DEF PiecesOf
<1> DEFINE step == [p \in (1..n) \X Seq(Nat) |-> p[2] \o (IF p[1] \in own THEN part[p[1]] ELSE << >>)]
<1>1. ASSUME NEW i \in 1..n, NEW v \in Seq(Nat)
      PROVE  /\ step[<<i, v>>] = v \o (IF i \in own THEN part[i] ELSE << >>)
             /\ step[<<i, v>>] \in Seq(Nat)
  <2>1. <<i, v>> \in (1..n) \X Seq(Nat) /\ <<i, v>>[1] = i /\ <<i, v>>[2] = v
    OBVIOUS
  <2>2. step[<<i, v>>] = v \o (IF i \in own THEN part[i] ELSE << >>)
    BY <2>1
  <2>3. (IF i \in own THEN part[i] ELSE << >>) \in Seq(Nat)
    OBVIOUS
  <2> HIDE DEF step
  <2> QED
    BY <2>2, <2>3
<1> HIDE DEF step
<1>2. StepsWithin(n, Seq(Nat), step)
  BY <1>1 DEF StepsWithin
<1>3. PICK h : Iterates(n, Seq(Nat), a, step, h)
  BY <1>2, IterationExists
<1>4. h \in [0..n -> Seq(Nat)] /\ h[0] = a
  BY <1>3 DEF Iterates
<1>5. ASSUME NEW i \in 1..n PROVE h[i] = h[i - 1] \o (IF i \in own THEN part[i] ELSE << >>)
  <2>1. h[i] = step[<<i, h[i - 1]>>] /\ h[i - 1] \in Seq(Nat)
    <3>1. i - 1 \in 0..n
      OBVIOUS
    <3> QED
      BY <1>3, <1>4, <3>1 DEF Iterates
  <2> QED
    BY <1>1, <2>1
<1> QED
  BY <1>4, <1>5 DEF Gathers

(* The first piece that holds something comes first.                       *)
FirstJoined(part, own, f) == Pieces(part, own) = part[f] \o Pieces(part, own \ {f})

LEMMA FirstPiece ==
    ASSUME NEW n \in Nat, NEW part, NEW own, NEW f, FirstOf(n, part, own, f)
    PROVE  FirstJoined(part, own, f)
<1> DEFINE rest == own \ {f}
<1>0. /\ PiecesOf(n, part) /\ part \in [1..n -> Seq(Nat)] /\ own \subseteq 1..n /\ f \in own
      /\ \A i \in own : i < f => part[i] = << >>
  BY DEF FirstOf, PiecesOf
<1>1. f \in 1..n /\ f \in Nat /\ part[f] \in Seq(Nat) /\ \A i \in rest : i \in own /\ i # f
  BY <1>0
<1>10. \A i \in own : i # f => i \in rest
  OBVIOUS
<1> HIDE DEF rest
<1>2. PICK w : Gathers(n, part, rest, w) /\ w[0] = part[f]
  <2>1. \A a \in Seq(Nat) : \E h : Gathers(n, part, rest, h) /\ h[0] = a
    <3>1. PiecesOf(n, part)
      BY <1>0, Zenon
    <3> QED
      BY ONLY <3>1, n \in Nat, GatheringExists, Zenon
  <2>2. part[f] \in Seq(Nat)
    BY <1>1
  <2> QED
    BY <2>1, <2>2
<1>3. w[n] = part[f] \o Pieces(part, rest)
  <2>1. w[n] = w[0] \o Pieces(part, rest)
    BY <1>2, PiecesGathered
  <2> QED
    BY ONLY <1>2, <2>1
<1>4. /\ w \in [0..n -> Seq(Nat)]
      /\ \A i \in 1..n : w[i] = w[i - 1] \o (IF i \in rest THEN part[i] ELSE << >>)
  BY <1>2 DEF Gathers
<1>5. \A v \in Seq(Nat) : v \o << >> = v /\ << >> \o v = v
  OBVIOUS
<1>6. \A i \in 0..f : w[i] = part[f]
  <2> DEFINE T == {i \in 0..f : w[i] = part[f]}
  <2>1. 0 \in T
    BY <1>1, <1>2
  <2>2. ASSUME NEW i \in 1..f, i - 1 \in T PROVE i \in T
    <3>1. i \in 1..n /\ i \in 0..f /\ (i # f => i < f)
      BY <1>1
    <3>2. (IF i \in rest THEN part[i] ELSE << >>) = << >>
      BY <1>0, <1>1, <3>1
    <3>3. w[i - 1] = part[f]
      BY <2>2
    <3>4. w[i] = part[f] \o << >>
      BY <1>4, <3>1, <3>2, <3>3
    <3> QED
      BY <1>1, <1>5, <3>1, <3>4
  <2> HIDE DEF T
  <2>3. 0..f \subseteq T
    BY <1>1, <2>1, <2>2, IndexInduction
  <2> QED
    BY <2>3 DEF T
<1> DEFINE u == [i \in 0..n |-> IF i < f THEN << >> ELSE w[i]]
<1>7. u \in [0..n -> Seq(Nat)] /\ u[0] = << >> /\ u[n] = w[n]
  BY <1>1, <1>4
<1>8. ASSUME NEW i \in 1..n
      PROVE  u[i] = u[i - 1] \o Own(i \in own, part[i], << >>)
  <2>1. i \in 0..n /\ i - 1 \in 0..n /\ u[i] = (IF i < f THEN << >> ELSE w[i])
        /\ u[i - 1] = (IF i - 1 < f THEN << >> ELSE w[i - 1])
    OBVIOUS
  <2> HIDE DEF u
  <2>2. CASE i < f
    <3>1. i - 1 < f /\ Own(i \in own, part[i], << >>) = << >>
      BY <1>0, <1>1, <2>2 DEF Own
    <3>2. << >> \o << >> = << >>
      OBVIOUS
    <3> QED
      BY <2>1, <2>2, <3>1, <3>2
  <2>3. CASE i = f
    <3>1. f - 1 < f /\ ~(f < f) /\ f \in 0..f
      BY <1>1
    <3>2. u[i - 1] = << >> /\ u[i] = part[f]
      BY <2>1, <2>3, <3>1, <1>6
    <3>3. Own(i \in own, part[i], << >>) = part[f]
      BY <1>0, <2>3 DEF Own
    <3> QED
      BY <1>1, <1>5, <3>2, <3>3
  <2>4. CASE i > f
    <3>1. ~(i < f) /\ ~(i - 1 < f) /\ i # f
      BY <2>4, <1>1
    <3>2. Own(i \in own, part[i], << >>) = IF i \in rest THEN part[i] ELSE << >>
      BY <1>1, <1>10, <3>1 DEF Own
    <3> QED
      BY <1>4, <2>1, <3>1, <3>2
  <2>5. i < f \/ i = f \/ i > f
    BY <1>1
  <2> QED
    BY <2>2, <2>3, <2>4, <2>5
<1> HIDE DEF u
<1>9. u[n] = Pieces(part, own)
  BY <1>0, <1>7, <1>8, TextHeld
<1> QED
  BY <1>3, <1>7, <1>9 DEF rest, FirstJoined

(* Three texts joined; the one in the middle is between the others.        *)
LEMMA ThreeTexts ==
    ASSUME NEW a \in Seq(Nat), NEW b \in Seq(Nat), NEW c \in Seq(Nat)
    PROVE  /\ a \o b \o c = a \o (b \o c)
           /\ SubSeq(a \o b \o c, Len(a) + 1, Len(a \o b \o c) - Len(c)) = b
<1>1. Len(a) \in Nat /\ Len(b) \in Nat /\ Len(c) \in Nat
  OBVIOUS
<1>2. a \o b \o c = a \o (b \o c)
  OBVIOUS
<1> DEFINE u == a \o b \o c
           p == Len(a)
           q == Len(b)
           v == SubSeq(u, p + 1, p + q)
<1>3. u \in Seq(Nat) /\ Len(u) = p + q + Len(c) /\ Len(u) - Len(c) = p + q
  OBVIOUS
<1>4. \A i \in 1..q : u[p + i] = b[i]
  OBVIOUS
<1>5. p \in Nat /\ q \in Nat /\ p + q <= Len(u)
  BY <1>1, <1>3
<1> HIDE DEF u, p, q
<1>6. v \in Seq(Nat) /\ Len(v) = q
  BY <1>3, <1>5
<1>7. \A i \in 1..q : v[i] = u[p + i]
  <2>1. ASSUME NEW i \in 1..q PROVE v[i] = u[p + i]
    <3>1. (p + 1) + i - 1 = p + i /\ i \in 1..((p + q) - (p + 1) + 1)
      BY <1>5
    <3> QED
      BY <1>3, <1>5, <3>1
  <2> QED
    BY <2>1
<1> HIDE DEF v
<1>8. v = b
  <2>1. \A i \in 1..q : v[i] = b[i]
    BY <1>4, <1>7
  <2>2. Len(b) = q
    BY DEF q
  <2>3. v \in [1..q -> Nat]
    BY <1>6
  <2>4. b \in [1..q -> Nat]
    BY <2>2
  <2> QED
    BY <1>5, <2>1, <2>3, <2>4
<1> QED
  BY <1>2, <1>3, <1>8 DEF u, v, p, q

(* Delta i of `told` is the first of its choice with a nested list; what   *)
(* the lists of the others of its choice hold.                             *)
FirstCarrier(told, i) ==
    /\ told[i].logprobs # << >>
    /\ \A j \in OwnOf(told, told[i].index) : j < i => told[j].logprobs = << >>

OthersOf(told, i) == UNION {ToSet(told[j].logprobs) : j \in OwnOf(told, told[i].index) \ {i}}

(* Delta i has the list it was sent with, behind which a first carrier may *)
(* have got elements of the others.                                        *)
Grows(d, told, i) ==
    IF FirstCarrier(told, i)
    THEN \E r \in Seq(Nat) : d[i].logprobs = told[i].logprobs \o r /\ ToSet(r) \subseteq OthersOf(told, i)
    ELSE d[i].logprobs = told[i].logprobs

Grown(d, told) == \A i \in DOMAIN told : Grows(d, told, i)

ListParts(told) == [i \in DOMAIN told |-> told[i].logprobs]

(* The lists of a series of deltas.                                        *)
LEMMA ListPartsTyped ==
    ASSUME NEW told \in Seq(ChoiceDeltas)
    PROVE  /\ Len(told) \in Nat /\ DOMAIN told = 1..Len(told)
           /\ ListParts(told) \in [1..Len(told) -> Seq(Nat)]
           /\ \A i \in 1..Len(told) : ListParts(told)[i] = told[i].logprobs
<1> DEFINE n == Len(told)
<1>1. n \in Nat /\ DOMAIN told = 1..n /\ \A i \in 1..n : told[i] \in ChoiceDeltas
  OBVIOUS
<1> HIDE DEF n
<1>2. \A i \in 1..n : told[i].logprobs \in Seq(Nat)
  BY <1>1 DEF ChoiceDeltas
<1> QED
  BY <1>1, <1>2 DEF ListParts, n

(* A choice has one first carrier.                                         *)
LEMMA OneFirstCarrier ==
    ASSUME NEW told \in Seq(ChoiceDeltas), NEW f \in DOMAIN told, FirstCarrier(told, f),
           NEW i \in OwnOf(told, told[f].index), i # f
    PROVE  ~FirstCarrier(told, i)
<1>1. DOMAIN told = 1..Len(told) /\ Len(told) \in Nat
  OBVIOUS
<1>2. i \in DOMAIN told /\ told[i].index = told[f].index /\ f \in OwnOf(told, told[i].index)
  BY DEF OwnOf
<1>3. CASE i < f
  BY <1>2, <1>3 DEF FirstCarrier
<1>4. CASE f < i
  BY <1>2, <1>4 DEF FirstCarrier
<1> QED
  BY <1>1, <1>2, <1>3, <1>4

(* The lists of the choice of a first carrier join to its own, elements of *)
(* the others', and theirs.                                                *)
LEMMA CarrierLists ==
    ASSUME NEW d \in Seq(ChoiceDeltas), NEW told \in Seq(ChoiceDeltas), Agree(d, told), Grown(d, told),
           NEW f \in DOMAIN told, FirstCarrier(told, f)
    PROVE  LET own  == OwnOf(told, told[f].index)
               rest == Pieces(ListParts(told), own \ {f})
           IN  /\ rest \in Seq(Nat) /\ ToSet(rest) = OthersOf(told, f)
               /\ \E r \in Seq(Nat) : /\ Pieces(ListParts(d), own) = told[f].logprobs \o r \o rest
                                      /\ ToSet(r) \subseteq OthersOf(told, f)
<1> SUFFICES ASSUME NEW size, size = Len(told), NEW mine, mine = OwnOf(told, told[f].index),
                    NEW P, P = ListParts(told), NEW Q, Q = ListParts(d)
             PROVE  /\ Pieces(P, mine \ {f}) \in Seq(Nat)
                    /\ ToSet(Pieces(P, mine \ {f})) = OthersOf(told, f)
                    /\ \E r \in Seq(Nat) :
                          /\ Pieces(Q, mine) = told[f].logprobs \o r \o Pieces(P, mine \ {f})
                          /\ ToSet(r) \subseteq OthersOf(told, f)
  OBVIOUS
<1>1. /\ size \in Nat /\ DOMAIN told = 1..size /\ Len(d) = size
      /\ P \in [1..size -> Seq(Nat)] /\ Q \in [1..size -> Seq(Nat)]
      /\ \A i \in 1..size : P[i] = told[i].logprobs /\ Q[i] = d[i].logprobs
  BY ListPartsTyped DEF Agree
<1>2. mine \subseteq 1..size /\ f \in mine /\ mine \ {f} \subseteq 1..size
  BY <1>1 DEF OwnOf
<1>3. \A i \in mine : i < f => told[i].logprobs = << >>
  BY DEF FirstCarrier
<1>4. ASSUME NEW i \in mine, i # f PROVE d[i].logprobs = told[i].logprobs
  <2>1. ~FirstCarrier(told, i)
    BY <1>4, OneFirstCarrier
  <2>2. Grows(d, told, i)
    BY <1>1, <1>2 DEF Grown
  <2> QED
    BY <2>1, <2>2 DEF Grows
<1>5. PICK r \in Seq(Nat) : d[f].logprobs = told[f].logprobs \o r /\ ToSet(r) \subseteq OthersOf(told, f)
  <2>1. Grows(d, told, f)
    BY DEF Grown
  <2> QED
    BY <2>1 DEF Grows
<1>6. ToSet(Pieces(P, mine \ {f})) = OthersOf(told, f) /\ Pieces(P, mine \ {f}) \in Seq(Nat)
  <2>1. \A i \in mine \ {f} : P[i] = told[i].logprobs
    BY <1>1, <1>2
  <2>2. UNION {ToSet(P[i]) : i \in mine \ {f}} = UNION {ToSet(told[i].logprobs) : i \in mine \ {f}}
    BY <2>1
  <2>3. /\ ToSet(Pieces(P, mine \ {f})) = UNION {ToSet(P[i]) : i \in mine \ {f}}
        /\ Pieces(P, mine \ {f}) \in Seq(Nat)
    BY <1>1, <1>2, PiecesAre
  <2> QED
    BY <2>2, <2>3 DEF OthersOf
<1>7. Pieces(Q, mine) = Q[f] \o Pieces(Q, mine \ {f})
  <2>1. \A i \in mine : i < f => Q[i] = << >>
    <3> SUFFICES ASSUME NEW i \in mine, i < f PROVE Q[i] = << >>
      OBVIOUS
    <3>1. i \in 1..size /\ i # f
      BY <1>1, <1>2
    <3> QED
      BY <1>1, <1>3, <1>4, <3>1
  <2>2. size \in Nat /\ FirstOf(size, Q, mine, f)
    BY <1>1, <1>2, <2>1 DEF FirstOf, PiecesOf
  <2>3. FirstJoined(Q, mine, f)
    BY <2>2, FirstPiece
  <2> QED
    BY <2>3, Zenon DEF FirstJoined
<1>8. Pieces(Q, mine \ {f}) = Pieces(P, mine \ {f})
  <2>1. DOMAIN P = 1..size /\ DOMAIN Q = 1..size
    BY <1>1
  <2>2. \A i \in mine \ {f} : P[i] = Q[i]
    BY <1>1, <1>2, <1>4
  <2>3. [i \in DOMAIN Q |-> IF i \in mine \ {f} THEN Q[i] ELSE << >>]
          = [i \in DOMAIN P |-> IF i \in mine \ {f} THEN P[i] ELSE << >>]
    BY <2>1, <2>2
  <2> QED
    BY <2>3 DEF Pieces
<1>9. Pieces(Q, mine) = told[f].logprobs \o r \o Pieces(P, mine \ {f})
  BY <1>1, <1>2, <1>5, <1>7, <1>8
<1> QED
  BY <1>5, <1>6, <1>9

(* So the lists of any choice are those of the deltas that were sent, with *)
(* repetitions.                                                            *)
LEMMA GrownLists ==
    ASSUME NEW d \in Seq(ChoiceDeltas), NEW told \in Seq(ChoiceDeltas), Agree(d, told), Grown(d, told),
           NEW x
    PROVE  RepeatsPieces(Pieces(ListParts(d), OwnOf(d, x)), ListParts(told), OwnOf(told, x))
<1> DEFINE n == Len(told)
           own == OwnOf(told, x)
           P == ListParts(told)
           Q == ListParts(d)
<1>1. /\ n \in Nat /\ DOMAIN told = 1..n /\ Len(d) = n /\ DOMAIN d = 1..n
      /\ P \in [1..n -> Seq(Nat)] /\ Q \in [1..n -> Seq(Nat)]
      /\ \A i \in 1..n : P[i] = told[i].logprobs /\ Q[i] = d[i].logprobs
  BY ListPartsTyped DEF Agree
<1>2. own \subseteq 1..n /\ \A i \in own : told[i].index = x
  BY <1>1 DEF OwnOf
<1>3. OwnOf(d, x) = own
  BY <1>1 DEF OwnOf, Agree, SameBut
<1>4. CASE \A i \in own : P[i] = << >>
  <2>1. ASSUME NEW i \in own PROVE Q[i] = << >>
    <3>1. i \in 1..n /\ told[i].logprobs = << >> /\ Grows(d, told, i)
      BY <1>1, <1>2, <1>4 DEF Grown
    <3>2. ~FirstCarrier(told, i)
      BY <3>1 DEF FirstCarrier
    <3> QED
      BY <1>1, <3>1, <3>2 DEF Grows
  <2> HIDE DEF n, own, P, Q
  <2>2. Pieces(Q, own) = << >>
    BY <1>1, <1>2, <2>1, PiecesEmpty
  <2> QED
    BY <1>3, <1>4, <2>2 DEF RepeatsPieces, own, P, Q
<1>5. CASE ~\A i \in own : P[i] = << >>
  <2> DEFINE carriers == {i \in own : P[i] # << >>}
             f == Min(carriers)
  <2>1. f \in carriers /\ \A i \in carriers : f <= i
    <3>1. carriers # {} /\ carriers \subseteq Nat
      BY <1>1, <1>2, <1>5
    <3> HIDE DEF carriers
    <3> QED
      BY <3>1, MinIsLeast
  <2> HIDE DEF f
  <2>2. f \in 1..n /\ f \in own /\ told[f].index = x /\ P[f] = told[f].logprobs /\ P[f] # << >>
    BY <1>1, <1>2, <2>1
  <2>3. ASSUME NEW i \in own, i < f PROVE told[i].logprobs = << >>
    <3>1. i \in 1..n /\ ~(f <= i)
      BY <1>1, <1>2, <2>2, <2>3
    <3>2. i \notin carriers
      BY <2>1, <3>1
    <3> QED
      BY <1>1, <3>1, <3>2
  <2>4. FirstCarrier(told, f)
    BY <2>2, <2>3 DEF FirstCarrier
  <2> DEFINE rest == Pieces(P, own \ {f})
  <2>5. /\ rest \in Seq(Nat) /\ ToSet(rest) = OthersOf(told, f)
        /\ \E r \in Seq(Nat) : /\ Pieces(Q, own) = told[f].logprobs \o r \o rest
                               /\ ToSet(r) \subseteq OthersOf(told, f)
    BY <1>1, <2>2, <2>4, CarrierLists
  <2> HIDE DEF rest, n, own, P, Q
  <2>6. PICK r \in Seq(Nat) : /\ Pieces(Q, own) = P[f] \o r \o rest
                              /\ ToSet(r) \subseteq ToSet(rest)
    BY <2>2, <2>5
  <2> DEFINE list == P[f] \o r \o rest
  <2>7. SubSeq(list, Len(P[f]) + 1, Len(list) - Len(rest)) = r
    <3>1. P[f] \in Seq(Nat)
      BY <1>1, <2>2
    <3> QED
      BY <2>5, <2>6, <3>1, ThreeTexts
  <2>8. RepeatsPieces(list, P, own)
    <3> HIDE DEF list
    <3>1. list = P[f] \o SubSeq(list, Len(P[f]) + 1, Len(list) - Len(rest)) \o rest
      BY <2>7 DEF list
    <3>2. ToSet(SubSeq(list, Len(P[f]) + 1, Len(list) - Len(rest))) \subseteq ToSet(rest)
      BY <2>6, <2>7
    <3> QED
      BY <1>5, <3>1, <3>2, Zenon DEF RepeatsPieces, rest, f
  <2> QED
    BY <1>3, <2>6, <2>8 DEF P, Q, own
<1> QED
  BY <1>4, <1>5

(* A choice of deltas is the choice of those that agree with them.         *)
LEMMA ChoiceAgrees ==
    ASSUME NEW a \in Seq(ChoiceDeltas), NEW b \in Seq(ChoiceDeltas), Agree(a, b),
           NEW x, Grown(a, b), NEW c, IsChoiceOf(c, a, x, TRUE)
    PROVE  IsChoiceOf(c, b, x, FALSE)
<1> DEFINE n == Len(a)
<1>1. n \in Nat /\ DOMAIN a = 1..n /\ DOMAIN b = 1..n
  BY DEF Agree
<1>2. \A i \in 1..n : /\ a[i].index = b[i].index /\ a[i].role = b[i].role /\ a[i].text = b[i].text
                      /\ a[i].tools = b[i].tools /\ a[i].finish = b[i].finish
                      /\ a[i].reasoning = b[i].reasoning
  BY DEF Agree, SameBut
<1> HIDE DEF n
<1> DEFINE own == {i \in 1..n : a[i].index = x}
           called == UNION {{a[i].tools[k].index : k \in DOMAIN a[i].tools} : i \in own}
<1>3. own = {i \in DOMAIN a : a[i].index = x} /\ own = {i \in DOMAIN b : b[i].index = x}
  BY <1>1, <1>2
<1>4. own = OwnOf(a, x) /\ own = OwnOf(b, x)
  BY <1>3 DEF OwnOf
<1>5. called = UNION {{b[i].tools[k].index : k \in DOMAIN b[i].tools} : i \in own}
  BY <1>2
<1>6. /\ c.text = Pieces([i \in DOMAIN a |-> a[i].text], own)
      /\ c.reasoning = Pieces([i \in DOMAIN a |-> a[i].reasoning], own)
      /\ c.role = LastOf([i \in DOMAIN a |-> a[i].role], own, "assistant")
      /\ c.finish = LastOf([i \in DOMAIN a |-> a[i].finish], own, "stop")
      /\ DOMAIN c.tools = called
      /\ \A t \in called : c.tools[t].args = Pieces([i \in DOMAIN a |-> ArgsOf(a[i], t)], own)
      /\ c.logprobs = Pieces([i \in DOMAIN a |-> a[i].logprobs], own)
  <2> HIDE DEF own
  <2> QED
    BY <1>3 DEF IsChoiceOf
<1>7. c.null <=> c.text = << >> /\ called # {}
  <2> HIDE DEF own
  <2> QED
    BY <1>3 DEF IsChoiceOf
<1> HIDE DEF own, called
<1>8. /\ [i \in DOMAIN a |-> a[i].text] = [i \in DOMAIN b |-> b[i].text]
      /\ [i \in DOMAIN a |-> a[i].reasoning] = [i \in DOMAIN b |-> b[i].reasoning]
      /\ [i \in DOMAIN a |-> a[i].role] = [i \in DOMAIN b |-> b[i].role]
      /\ [i \in DOMAIN a |-> a[i].finish] = [i \in DOMAIN b |-> b[i].finish]
  BY <1>1, <1>2
<1>9. ASSUME NEW t PROVE [i \in DOMAIN a |-> ArgsOf(a[i], t)] = [i \in DOMAIN b |-> ArgsOf(b[i], t)]
  <2>1. \A i \in 1..n : ArgsOf(a[i], t) = ArgsOf(b[i], t)
    BY <1>2 DEF ArgsOf
  <2> QED
    BY <1>1, <2>1
<1>10. RepeatsPieces(c.logprobs, [i \in DOMAIN b |-> b[i].logprobs], own)
  <2>1. RepeatsPieces(Pieces(ListParts(a), OwnOf(a, x)), ListParts(b), OwnOf(b, x))
    BY GrownLists
  <2>2. c.logprobs = Pieces(ListParts(a), OwnOf(a, x))
    BY <1>4, <1>6 DEF ListParts
  <2> QED
    BY <1>4, <2>1, <2>2 DEF ListParts
<1>11. /\ c.text = Pieces([i \in DOMAIN b |-> b[i].text], own)
       /\ c.reasoning = Pieces([i \in DOMAIN b |-> b[i].reasoning], own)
       /\ c.role = LastOf([i \in DOMAIN b |-> b[i].role], own, "assistant")
       /\ c.finish = LastOf([i \in DOMAIN b |-> b[i].finish], own, "stop")
       /\ DOMAIN c.tools = called
       /\ \A t \in called : c.tools[t].args = Pieces([i \in DOMAIN b |-> ArgsOf(b[i], t)], own)
  BY <1>6, <1>8, <1>9
<1>12. own = {i \in DOMAIN b : b[i].index = x}
  BY <1>3
<1>13. called = UNION {{b[i].tools[k].index : k \in DOMAIN b[i].tools} : i \in own}
  BY <1>5
<1> QED
  BY <1>7, <1>10, <1>11, <1>12, <1>13, Zenon DEF IsChoiceOf

(* What collecting leaves in the chunks.                                   *)
After(d) == [i \in DOMAIN d |-> mergedInto(d, i)]

(* Collecting changes first carriers only, whose list becomes that of      *)
(* their choice.                                                           *)
LEMMA MergedIs ==
    ASSUME NEW d \in Seq(ChoiceDeltas), NEW i \in DOMAIN d
    PROVE  /\ mergedInto(d, i) \in ChoiceDeltas /\ SameBut(mergedInto(d, i), d[i])
           /\ mergedInto(d, i).logprobs = IF FirstCarrier(d, i)
                                          THEN Pieces(ListParts(d), OwnOf(d, d[i].index))
                                          ELSE d[i].logprobs
<1> DEFINE x == d[i].index
           n == Len(d)
           L == CollectCompletion(d).choices[x].logprobs
           own == Carriers(d, x)
           m == mergedInto(d, i)
<1>1. d[i] \in ChoiceDeltas /\ n \in Nat /\ DOMAIN d = 1..n
  OBVIOUS
<1>2. x \in ChoicesOf(d)
  BY DEF ChoicesOf
<1>3. IsChoiceOf(CollectCompletion(d).choices[x], d, x, TRUE)
  BY <1>2, CollectedIs
<1>4. L = Pieces(ListParts(d), OwnOf(d, x))
  BY <1>3 DEF IsChoiceOf, OwnOf, ListParts
<1>5. L \in Seq(Nat)
  <2>1. /\ ListParts(d) \in [1..n -> Seq(Nat)] /\ OwnOf(d, x) \in SUBSET (1..n)
    BY <1>1, ListPartsTyped DEF OwnOf
  <2> HIDE DEF n, x, L
  <2> QED
    BY <1>1, <1>4, <2>1, PiecesAre
<1>6. (own # {} /\ i = Min(own)) <=> FirstCarrier(d, i)
  <2>1. own = {j \in OwnOf(d, x) : d[j].logprobs # << >>} /\ own \subseteq 1..n
    BY <1>1 DEF Carriers, OwnOf
  <2>2. i \in OwnOf(d, x)
    BY DEF OwnOf
  <2> HIDE DEF own, n
  <2>3. ASSUME own # {}
        PROVE  Min(own) \in own /\ \A j \in own : Min(own) <= j
    <3>1. own \subseteq Nat
      BY <1>1, <2>1
    <3> QED
      BY <2>3, <3>1, MinIsLeast
  <2>4. ASSUME own # {}, i = Min(own) PROVE FirstCarrier(d, i)
    <3>1. i \in own /\ \A j \in own : i <= j
      BY <2>3, <2>4
    <3>2. ASSUME NEW j \in OwnOf(d, x), j < i PROVE d[j].logprobs = << >>
      <4>1. j \in 1..n /\ ~(i <= j)
        BY <1>1, <3>2 DEF OwnOf
      <4> QED
        BY <2>1, <3>1, <4>1
    <3> QED
      BY <2>1, <3>1, <3>2 DEF FirstCarrier
  <2>5. ASSUME FirstCarrier(d, i) PROVE own # {} /\ i = Min(own)
    <3>1. i \in own
      BY <2>1, <2>2, <2>5 DEF FirstCarrier
    <3>2. Min(own) \in own /\ Min(own) <= i
      BY <2>3, <3>1
    <3>3. ~(Min(own) < i)
      BY <2>1, <2>5, <3>2 DEF FirstCarrier
    <3>4. Min(own) \in Nat /\ i \in Nat
      BY <1>1, <2>1, <3>1, <3>2
    <3> QED
      BY <3>1, <3>2, <3>3, <3>4
  <2> QED
    BY <2>4, <2>5
<1>7. m = IF own # {} /\ i = Min(own) THEN [d[i] EXCEPT !.logprobs = L] ELSE d[i]
  BY DEF mergedInto
<1> HIDE DEF L, m, own
<1>8. CASE ~FirstCarrier(d, i)
  <2>1. m = d[i]
    BY <1>6, <1>7, <1>8, Zenon
  <2>2. SameBut(m, d[i])
    BY <2>1 DEF SameBut
  <2> QED
    BY <1>1, <1>8, <2>1, <2>2 DEF m
<1>9. CASE FirstCarrier(d, i)
  <2>1. m = [d[i] EXCEPT !.logprobs = L]
    BY <1>6, <1>7, <1>9, Zenon
  <2>2. m \in ChoiceDeltas /\ m.logprobs = L
    BY <1>1, <1>5, <2>1 DEF ChoiceDeltas
  <2>3. SameBut(m, d[i])
    BY <1>1, <2>1 DEF ChoiceDeltas, SameBut
  <2> QED
    BY <1>4, <1>9, <2>2, <2>3 DEF m
<1> QED
  BY <1>8, <1>9

(* So the chunks after a collection agree with those before it.            *)
LEMMA AfterAgrees ==
    ASSUME NEW d \in Seq(ChoiceDeltas)
    PROVE  After(d) \in Seq(ChoiceDeltas) /\ Agree(After(d), d)
<1> DEFINE n == Len(d)
           a == After(d)
<1>1. n \in Nat /\ DOMAIN d = 1..n
  OBVIOUS
<1>2. \A i \in 1..n : a[i] = mergedInto(d, i)
  BY <1>1 DEF After
<1>3. \A i \in 1..n : a[i] \in ChoiceDeltas /\ SameBut(a[i], d[i])
  BY <1>1, <1>2, MergedIs
<1>4. a \in [1..n -> ChoiceDeltas]
  BY <1>1, <1>2, <1>3 DEF After
<1> HIDE DEF a
<1>5. a \in Seq(ChoiceDeltas) /\ Len(a) = n
  BY <1>1, <1>4
<1>6. Agree(a, d)
  BY <1>3, <1>5 DEF Agree
<1> QED
  BY <1>5, <1>6 DEF a

(* A delta of the caller has a list when the one that was sent has one.    *)
LEMMA GrownCarriers ==
    ASSUME NEW d \in Seq(ChoiceDeltas), NEW told \in Seq(ChoiceDeltas), Agree(d, told), Grown(d, told),
           NEW i \in DOMAIN told
    PROVE  FirstCarrier(d, i) <=> FirstCarrier(told, i)
<1>1. /\ DOMAIN told = 1..Len(told) /\ DOMAIN d = 1..Len(told)
      /\ \A j \in DOMAIN told : d[j].index = told[j].index
  BY DEF Agree, SameBut
<1>2. ASSUME NEW j \in DOMAIN told PROVE d[j].logprobs = << >> <=> told[j].logprobs = << >>
  <2>1. Grows(d, told, j)
    BY DEF Grown
  <2>2. CASE FirstCarrier(told, j)
    <3>1. PICK r \in Seq(Nat) : d[j].logprobs = told[j].logprobs \o r
      BY <2>1, <2>2 DEF Grows
    <3>2. told[j].logprobs # << >> /\ told[j].logprobs \in Seq(Nat)
      BY <2>2, ListPartsTyped DEF FirstCarrier, ChoiceDeltas
    <3> DEFINE t == told[j].logprobs
    <3> HIDE DEF t
    <3>3. ASSUME t \in Seq(Nat), t # << >> PROVE t \o r # << >>
      <4>1. Len(t) # 0 /\ Len(t) \in Nat /\ Len(r) \in Nat
        BY <3>3
      <4>2. Len(t \o r) = Len(t) + Len(r)
        BY <3>3
      <4>3. Len(t \o r) # 0
        BY <4>1, <4>2
      <4>4. Len(<< >>) = 0
        OBVIOUS
      <4> QED
        BY <4>3, <4>4
    <3> QED
      BY <3>1, <3>2, <3>3 DEF t
  <2>3. CASE ~FirstCarrier(told, j)
    BY <2>1, <2>3 DEF Grows
  <2> QED
    BY <2>2, <2>3
<1>3. OwnOf(d, d[i].index) = OwnOf(told, told[i].index) /\ OwnOf(told, told[i].index) \subseteq DOMAIN told
  BY <1>1 DEF OwnOf
<1> QED
  BY <1>2, <1>3 DEF FirstCarrier

(* And the chunks after a collection have grown as they may.               *)
LEMMA AfterGrown ==
    ASSUME NEW d \in Seq(ChoiceDeltas), NEW told \in Seq(ChoiceDeltas), Agree(d, told), Grown(d, told)
    PROVE  Grown(After(d), told)
<1> SUFFICES ASSUME NEW i \in DOMAIN told PROVE Grows(After(d), told, i)
  BY DEF Grown
<1>1. i \in DOMAIN d /\ d[i].index = told[i].index /\ OwnOf(d, d[i].index) = OwnOf(told, told[i].index)
  BY DEF Agree, SameBut, OwnOf
<1>2. After(d)[i] = mergedInto(d, i)
  BY <1>1 DEF After
<1>3. FirstCarrier(d, i) <=> FirstCarrier(told, i)
  BY GrownCarriers
<1>4. CASE ~FirstCarrier(told, i)
  <2>1. After(d)[i].logprobs = d[i].logprobs
    BY <1>1, <1>2, <1>3, <1>4, MergedIs
  <2>2. Grows(d, told, i)
    BY DEF Grown
  <2> QED
    BY <1>4, <2>1, <2>2 DEF Grows
<1>5. CASE FirstCarrier(told, i)
  <2> DEFINE own == OwnOf(told, told[i].index)
             rest == Pieces(ListParts(told), own \ {i})
             t == told[i].logprobs
  <2>1. After(d)[i].logprobs = Pieces(ListParts(d), own)
    BY <1>1, <1>2, <1>3, <1>5, MergedIs
  <2>2. /\ rest \in Seq(Nat) /\ ToSet(rest) = OthersOf(told, i)
        /\ \E r \in Seq(Nat) : /\ Pieces(ListParts(d), own) = t \o r \o rest
                               /\ ToSet(r) \subseteq OthersOf(told, i)
    BY <1>5, CarrierLists
  <2>3. t \in Seq(Nat)
    BY ListPartsTyped
  <2> HIDE DEF own, rest, t
  <2>4. PICK r \in Seq(Nat) : /\ Pieces(ListParts(d), own) = t \o r \o rest
                              /\ ToSet(r) \subseteq OthersOf(told, i)
    BY <2>2
  <2>5. After(d)[i].logprobs = t \o (r \o rest)
    BY <2>1, <2>2, <2>3, <2>4, ThreeTexts
  <2>6. r \o rest \in Seq(Nat) /\ ToSet(r \o rest) \subseteq OthersOf(told, i)
    <3>1. ToSet(r \o rest) = ToSet(r) \cup ToSet(rest)
      BY <2>2, ToSetConcat
    <3> QED
      BY <2>2, <2>4, <3>1
  <2> QED
    BY <1>5, <2>5, <2>6 DEF Grows, t
<1> QED
  BY <1>4, <1>5

(* More deltas at the end of both.                                         *)
LEMMA ReceivedAgrees ==
    ASSUME NEW a \in Seq(ChoiceDeltas), NEW b \in Seq(ChoiceDeltas), Agree(a, b),
           NEW c \in Seq(ChoiceDeltas)
    PROVE  Agree(a \o c, b \o c)
<1> DEFINE n == Len(a)
           k == Len(c)
           u == a \o c
           v == b \o c
<1>1. n \in Nat /\ k \in Nat /\ Len(b) = n /\ \A i \in 1..n : SameBut(a[i], b[i])
  BY DEF Agree
<1>2. Joins(u, a, c) /\ Joins(v, b, c)
  BY ConcatJoins
<1> HIDE DEF n, k, u, v
<1>3. /\ Len(u) = n + k /\ Len(v) = n + k
      /\ \A i \in 1..n : u[i] = a[i] /\ v[i] = b[i]
      /\ \A i \in 1..k : u[n + i] = c[i] /\ v[n + i] = c[i]
  BY <1>1, <1>2 DEF Joins, n, k
<1>4. ASSUME NEW i \in 1..(n + k) PROVE SameBut(u[i], v[i])
  <2>1. CASE i \in 1..n
    BY <1>1, <1>3, <2>1
  <2>2. CASE i \notin 1..n
    <3> DEFINE j == i - n
    <3>1. j \in 1..k /\ i = n + j
      BY <1>1, <2>2
    <3> HIDE DEF j
    <3>2. u[i] = v[i]
      BY <1>3, <3>1
    <3> QED
      BY <3>2 DEF SameBut
  <2> QED
    BY <2>1, <2>2
<1> QED
  BY <1>3, <1>4 DEF Agree, u, v

(* And they have grown as before.                                          *)
LEMMA ReceivedGrown ==
    ASSUME NEW a \in Seq(ChoiceDeltas), NEW b \in Seq(ChoiceDeltas), Len(a) = Len(b), Grown(a, b),
           NEW c \in Seq(ChoiceDeltas)
    PROVE  Grown(a \o c, b \o c)
<1> DEFINE n == Len(b)
           k == Len(c)
           u == a \o c
           v == b \o c
<1>1. /\ n \in Nat /\ k \in Nat /\ DOMAIN b = 1..n /\ DOMAIN c = 1..k
      /\ u \in Seq(ChoiceDeltas) /\ v \in Seq(ChoiceDeltas)
  OBVIOUS
<1>2. Joins(u, a, c) /\ Joins(v, b, c)
  BY ConcatJoins
<1> HIDE DEF n, k, u, v
<1>3. /\ DOMAIN v = 1..(n + k)
      /\ \A i \in 1..n : u[i] = a[i] /\ v[i] = b[i]
      /\ \A i \in 1..k : u[n + i] = c[i] /\ v[n + i] = c[i]
  BY <1>1, <1>2 DEF Joins, n, k
<1> SUFFICES ASSUME NEW i \in DOMAIN v PROVE Grows(u, v, i)
  BY DEF Grown, u, v
<1>4. i \in 1..(n + k)
  BY <1>3
<1>5. CASE i \in 1..n
  <2>1. u[i] = a[i] /\ v[i] = b[i] /\ Grows(a, b, i)
    BY <1>1, <1>3, <1>5 DEF Grown
  <2>2. OwnOf(b, b[i].index) \subseteq OwnOf(v, v[i].index)
    BY <1>1, <1>3, <2>1 DEF OwnOf
  <2>3. ASSUME NEW j \in OwnOf(v, v[i].index), j < i
        PROVE  j \in OwnOf(b, b[i].index) /\ v[j] = b[j]
    <3>1. j \in 1..n
      BY <1>1, <1>3, <1>5, <2>3 DEF OwnOf
    <3> QED
      BY <1>1, <1>3, <2>1, <3>1 DEF OwnOf
  <2>4. \A j \in OwnOf(b, b[i].index) : v[j] = b[j]
    BY <1>1, <1>3 DEF OwnOf
  <2>5. FirstCarrier(v, i) <=> FirstCarrier(b, i)
    BY <2>1, <2>2, <2>3, <2>4 DEF FirstCarrier
  <2>6. OthersOf(b, i) \subseteq OthersOf(v, i)
    BY <2>2, <2>4 DEF OthersOf
  <2> QED
    BY <2>1, <2>5, <2>6 DEF Grows
<1>6. CASE i \notin 1..n
  <2> DEFINE j == i - n
  <2>1. j \in 1..k /\ i = n + j
    BY <1>1, <1>4, <1>6
  <2> HIDE DEF j
  <2>2. u[i] = v[i] /\ v[i] \in ChoiceDeltas
    <3>1. c[j] \in ChoiceDeltas
      BY <1>1, <2>1
    <3> QED
      BY <1>3, <2>1, <3>1
  <2>3. v[i].logprobs \in Seq(Nat)
    BY <2>2 DEF ChoiceDeltas
  <2>4. << >> \in Seq(Nat) /\ v[i].logprobs \o << >> = v[i].logprobs /\ ToSet(<< >>) = {}
    BY <2>3 DEF ToSet
  <2> QED
    BY <2>2, <2>4 DEF Grows
<1> QED
  BY <1>5, <1>6

(* The first deltas stay the first.                                        *)
LEMMA ReceivedPrefix ==
    ASSUME NEW s \in Seq(ChoiceDeltas), NEW c \in Seq(ChoiceDeltas), NEW k \in 0..Len(s)
    PROVE  SubSeq(s \o c, 1, k) = SubSeq(s, 1, k)
<1> DEFINE u == s \o c
           p == SubSeq(u, 1, k)
           q == SubSeq(s, 1, k)
<1>1. u \in Seq(ChoiceDeltas) /\ Joins(u, s, c) /\ Len(s) \in Nat /\ Len(c) \in Nat
  BY ConcatJoins
<1> HIDE DEF u
<1>2. Len(u) = Len(s) + Len(c) /\ \A i \in 1..Len(s) : u[i] = s[i]
  BY <1>1 DEF Joins
<1>3. k \in 0..Len(u) /\ k \in Nat
  BY <1>1, <1>2
<1>4. p \in Seq(ChoiceDeltas) /\ q \in Seq(ChoiceDeltas) /\ Len(p) = k /\ Len(q) = k
  BY <1>1, <1>3
<1>5. \A i \in 1..k : p[i] = u[i] /\ q[i] = s[i] /\ i \in 1..Len(s)
  BY <1>1, <1>3
<1> HIDE DEF p, q
<1>6. p = q
  BY <1>2, <1>3, <1>4, <1>5
<1> QED
  BY <1>6 DEF p, q, u

(* The deltas of the caller and those that were sent differ in nested      *)
(* lists at most, which have grown as they may, and not at all before the  *)
(* first collection.                                                       *)
CompletionInv ==
    /\ deltas \in Seq(ChoiceDeltas) /\ sent \in Seq(ChoiceDeltas) /\ Agree(deltas, sent)
    /\ Grown(deltas, sent)
    /\ collects \in Nat
    /\ collects = 0 => deltas = sent /\ completion = NoCompletion
    /\ completion # NoCompletion => completion.count \in 0..Len(sent)
    /\ CollectedIsStreamed

(* The invariant holds before the first chunk.                             *)
LEMMA CompletionStarts == CompletionInit => CompletionInv
<1> SUFFICES ASSUME CompletionInit PROVE CompletionInv
  OBVIOUS
<1>1. deltas = << >> /\ sent = << >> /\ collects = 0 /\ completion = NoCompletion
  BY DEF CompletionInit
<1>2. deltas \in Seq(ChoiceDeltas) /\ sent \in Seq(ChoiceDeltas) /\ Agree(deltas, sent)
      /\ Grown(deltas, sent)
  BY <1>1 DEF Agree, Grown
<1>3. CollectedIsStreamed
  BY <1>1 DEF CollectedIsStreamed
<1> QED
  BY <1>1, <1>2, <1>3 DEF CompletionInv

(* A chunk is added to both.                                               *)
LEMMA ReceiveKeeps ==
    ASSUME CompletionInv, NEW chunk \in Seq(ChoiceDeltas), Receive(chunk) PROVE CompletionInv'
<1>1. /\ deltas \in Seq(ChoiceDeltas) /\ sent \in Seq(ChoiceDeltas) /\ Agree(deltas, sent)
      /\ collects \in Nat /\ (collects = 0 => deltas = sent /\ completion = NoCompletion)
      /\ (completion # NoCompletion => completion.count \in 0..Len(sent))
  BY DEF CompletionInv
<1>2. Grown(deltas, sent) /\ Len(deltas) = Len(sent)
  BY <1>1 DEF CompletionInv, Agree
<1>3. deltas' = deltas \o chunk /\ sent' = sent \o chunk /\ collects' = collects /\ completion' = completion
  BY DEF Receive
<1>4. deltas' \in Seq(ChoiceDeltas) /\ sent' \in Seq(ChoiceDeltas)
  BY <1>1, <1>3
<1>5. Agree(deltas', sent')
  BY <1>1, <1>3, ReceivedAgrees
<1>6. Grown(deltas', sent')
  BY <1>1, <1>2, <1>3, ReceivedGrown
<1>7. completion' # NoCompletion => completion'.count \in 0..Len(sent')
  <2>1. Len(sent') = Len(sent) + Len(chunk) /\ Len(sent) \in Nat /\ Len(chunk) \in Nat
    BY <1>1, <1>3
  <2> QED
    BY <1>1, <1>3, <2>1
<1>8. CollectedIsStreamed'
  <2> SUFFICES ASSUME completion # NoCompletion PROVE CollectedIsStreamed'
    BY <1>3 DEF CollectedIsStreamed
  <2>1. SubSeq(sent', 1, completion.count) = SubSeq(sent, 1, completion.count)
    BY <1>1, <1>3, ReceivedPrefix
  <2>2. CollectedIsStreamed
    BY DEF CompletionInv
  <2> QED
    BY <1>3, <2>1, <2>2 DEF CollectedIsStreamed
<1> QED
  BY <1>1, <1>3, <1>4, <1>5, <1>6, <1>7, <1>8 DEF CompletionInv

(* A collection tells what the caller's deltas tell, which is what the     *)
(* sent ones tell; what it writes to them is in the lists only.            *)
LEMMA CollectKeeps ==
    ASSUME CompletionInv, Collect PROVE CompletionInv'
<1> DEFINE c == CollectCompletion(deltas)
<1>1. /\ deltas \in Seq(ChoiceDeltas) /\ sent \in Seq(ChoiceDeltas) /\ Agree(deltas, sent)
      /\ collects \in Nat /\ (collects = 0 => deltas = sent)
  BY DEF CompletionInv
<1>2. Grown(deltas, sent)
  BY DEF CompletionInv
<1>3. completion' = c /\ deltas' = After(deltas) /\ sent' = sent /\ collects' = collects + 1
  BY DEF Collect, After
<1>4. deltas' \in Seq(ChoiceDeltas) /\ Agree(deltas', deltas)
  BY <1>1, <1>3, AfterAgrees
<1>5. Grown(deltas', sent')
  BY <1>1, <1>2, <1>3, AfterGrown
<1>6. Agree(deltas', sent')
  <2>1. Len(deltas') = Len(deltas) /\ Len(deltas) = Len(sent) /\ Len(deltas) \in Nat
    BY <1>1, <1>4 DEF Agree
  <2>2. ASSUME NEW i \in 1..Len(deltas) PROVE SameBut(deltas'[i], sent[i])
    <3>1. SameBut(deltas'[i], deltas[i]) /\ SameBut(deltas[i], sent[i])
      BY <1>1, <1>4, <2>1 DEF Agree
    <3> QED
      BY <3>1 DEF SameBut
  <2> QED
    BY <1>3, <2>1, <2>2 DEF Agree
<1>7. c.count = Len(sent) /\ DOMAIN c.choices = ChoicesOf(deltas)
      /\ \A x \in ChoicesOf(deltas) : IsChoiceOf(c.choices[x], deltas, x, TRUE)
  BY <1>1, CollectedIs DEF Agree
<1> HIDE DEF c
<1>8. SubSeq(sent, 1, c.count) = sent
  BY <1>1, <1>7
<1>9. ChoicesOf(deltas) = ChoicesOf(sent)
  <2>1. Len(deltas) = Len(sent) /\ \A i \in 1..Len(deltas) : deltas[i].index = sent[i].index
    BY <1>1 DEF Agree, SameBut
  <2>2. DOMAIN deltas = 1..Len(sent) /\ DOMAIN sent = 1..Len(sent)
    BY <1>1, <2>1
  <2>3. deltas = << >> <=> sent = << >>
    BY <1>1, <2>1
  <2>4. {deltas[i].index : i \in DOMAIN deltas} = {sent[i].index : i \in DOMAIN sent}
    BY <2>1, <2>2
  <2> QED
    BY <2>3, <2>4 DEF ChoicesOf
<1>10. ASSUME NEW x \in ChoicesOf(sent) PROVE IsChoiceOf(c.choices[x], sent, x, collects' = 1)
  <2>1. IsChoiceOf(c.choices[x], deltas, x, TRUE)
    BY <1>7, <1>9
  <2>2. CASE collects = 0
    <3>1. IsChoiceOf(c.choices[x], sent, x, TRUE)
      BY <1>1, <2>1, <2>2
    <3>2. (collects' = 1) = TRUE
      BY <1>3, <2>2
    <3> QED
      BY <3>1, <3>2, Zenon
  <2>3. CASE collects # 0
    <3>1. IsChoiceOf(c.choices[x], sent, x, FALSE)
      BY <1>1, <1>2, <2>1, ChoiceAgrees
    <3>2. (collects' = 1) = FALSE
      BY <1>1, <1>3, <2>3
    <3> QED
      BY <3>1, <3>2, Zenon
  <2> QED
    BY <2>2, <2>3
<1>11. CollectedIsStreamed'
  <2>1. DOMAIN c.choices = ChoicesOf(sent)
    BY <1>7, <1>9
  <2>2. DOMAIN c.choices = IF sent = << >> THEN {0} ELSE {sent[i].index : i \in DOMAIN sent}
    BY <2>1 DEF ChoicesOf
  <2>3. \A x \in DOMAIN c.choices : IsChoiceOf(c.choices[x], sent, x, collects' = 1)
    BY <1>10, <2>1
  <2>4. completion'.choices = c.choices /\ SubSeq(sent', 1, completion'.count) = sent
    BY <1>3, <1>8
  <2> QED
    BY <2>2, <2>3, <2>4, Zenon DEF CollectedIsStreamed
<1>12. completion'.count \in 0..Len(sent')
  BY <1>1, <1>3, <1>7
<1>13. collects' \in Nat /\ collects' # 0
  BY <1>1, <1>3
<1> QED
  BY <1>1, <1>3, <1>4, <1>5, <1>6, <1>11, <1>12, <1>13 DEF CompletionInv

(* For any chunks of any choices and tools, in any interleaving, and       *)
(* however often the caller collects on the way: CollectCompletion gives   *)
(* every choice the texts, tool calls, role and finish reason sent to it,  *)
(* in order, and nothing else.  Its nested lists are exact on the first    *)
(* collection; on a later one, which meets what the first has merged, they *)
(* are what was sent, in order, with entries of the later chunks repeated  *)
(* after those of the first that holds any.                                *)
THEOREM CollectingLosesNothing == CompletionSpec => []CollectedIsStreamed
<1>1. CompletionInit => CompletionInv
  BY CompletionStarts
<1>2. CompletionInv /\ [CompletionNext]_completionVars => CompletionInv'
  <2> SUFFICES ASSUME CompletionInv, [CompletionNext]_completionVars PROVE CompletionInv'
    OBVIOUS
  <2>1. CASE Collect
    BY <2>1, CollectKeeps
  <2>2. CASE \E chunk \in Seq(ChoiceDeltas) : Receive(chunk)
    BY <2>2, ReceiveKeeps
  <2>3. CASE UNCHANGED completionVars
    BY <2>3 DEF completionVars, CompletionInv, CollectedIsStreamed
  <2> QED
    BY <2>1, <2>2, <2>3 DEF CompletionNext
<1>3. CompletionInv => CollectedIsStreamed
  BY DEF CompletionInv
<1> QED
  BY <1>1, <1>2, <1>3, PTL DEF CompletionSpec
=============================================================================
