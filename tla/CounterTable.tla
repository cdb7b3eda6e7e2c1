---------------------------- MODULE CounterTable ----------------------------
(***************************************************************************)
(* The counter rows of the current minute (telemetry_reporter.go): an      *)
(* insertion-ordered table of at most MaxWindowKeys keys, and the fold     *)
(* ladder that places a new key when the table is full.                    *)
(*                                                                         *)
(* A key is its endpoint, its error class, and `rest`: the level, host,    *)
(* outcome and the other fields, which folding never touches.  Invalid     *)
(* increments are dropped before this point (modelled in Reporter), and a  *)
(* minute counts far less than telemetryMaxCount.                          *)
(***************************************************************************)
EXTENDS Integers, SequencesExt

CONSTANTS
    MaxWindowKeys,  \* telemetryMaxWindowKeys
    Endpoints,      \* with "inference_other"
    ErrorClasses,   \* with "unknown"; "" for none
    Rests,
    MaxMerges       \* bound on the increments of one minute

ASSUME CounterTableAssumption ==
    /\ MaxWindowKeys \in Nat \ {0} /\ MaxMerges \in Nat
    /\ "inference_other" \in Endpoints /\ "unknown" \in ErrorClasses

Keys == [endpoint : Endpoints, errorClass : ErrorClasses, rest : Rests]

VARIABLES
    rows,   \* sequence of [key, count], in order of insertion
    seen    \* history: how often each key was merged

tableVars == <<rows, seen>>

-----------------------------------------------------------------------------
(* telemetryCounterTable.                                                  *)

has(table, key) == \E i \in DOMAIN table : table[i].key = key

remove(table, i) == RemoveAt(table, i)

(* put: replaces the value of a key it has, else appends.                  *)
put(table, key, count) ==
    IF has(table, key)
    THEN [i \in DOMAIN table |-> IF table[i].key = key THEN [key |-> key, count |-> count] ELSE table[i]]
    ELSE Append(table, [key |-> key, count |-> count])

-----------------------------------------------------------------------------
telemetryFoldedCounterKey(key, endpoint) ==
    [endpoint |-> IF endpoint THEN "inference_other" ELSE key.endpoint,
     errorClass |-> "unknown", rest |-> key.rest]

(* Equal but for the error class, or for the endpoint as well.             *)
Match(a, b, endpoint) == a.rest = b.rest /\ (endpoint \/ a.endpoint = b.endpoint)

(* The first row that can be folded together with `key`.                   *)
Compatible(table, key, endpoint) == {i \in DOMAIN table : Match(table[i].key, key, endpoint)}

(* Re-key a row, which moves it to the end of the table.                   *)
Rekeyed(table, i, endpoint) ==
    put(remove(table, i), telemetryFoldedCounterKey(table[i].key, endpoint), table[i].count)

Target(table, key) == [rows |-> table, key |-> key]

(* A mutant: the ladder does not look for the folded key first.            *)
RungRekeysAtOnce(table, key, endpoint) ==
    LET matching == Compatible(table, key, endpoint)
    IN  IF matching # {} THEN { Target(Rekeyed(table, Min(matching), endpoint),
                                    telemetryFoldedCounterKey(table[Min(matching)].key, endpoint)) }
        ELSE {}

(* One rung: the folded key if the table has it, else a compatible row     *)
(* re-keyed to it, else nothing.                                           *)
Rung(table, key, endpoint) ==
    LET folded   == telemetryFoldedCounterKey(key, endpoint)
        matching == Compatible(table, key, endpoint)
    IN  CASE has(table, folded) -> { Target(table, folded) }
          [] ~has(table, folded) /\ matching # {} ->
               { Target(Rekeyed(table, Min(matching), endpoint),
                        telemetryFoldedCounterKey(table[Min(matching)].key, endpoint)) }
          [] OTHER -> {}

(* counterTargetLocked: the table and the key to count under.  The last    *)
(* resort is the first row.                                                *)
counterTargetLocked(table, key) ==
    CASE has(table, key) \/ Len(table) < MaxWindowKeys -> Target(table, key)
      [] OTHER ->
           LET errorRung    == Rung(table, key, FALSE)
               endpointRung == Rung(table, key, TRUE)
           IN  CASE errorRung # {} -> CHOOSE t \in errorRung : TRUE
                 [] errorRung = {} /\ endpointRung # {} -> CHOOSE t \in endpointRung : TRUE
                 [] OTHER -> Target(table, table[1].key)

countOf(table, key) ==
    IF has(table, key) THEN table[CHOOSE i \in DOMAIN table : table[i].key = key].count ELSE 0

(* mergeCountersLocked, one increment.                                     *)
mergeCounters(key) ==
    LET target == counterTargetLocked(rows, key)
    IN  /\ rows' = put(target.rows, target.key, countOf(target.rows, target.key) + 1)
        /\ seen' = [seen EXCEPT ![key] = @ + 1]

-----------------------------------------------------------------------------
Counted == {k \in Keys : seen[k] > 0}
Merged  == SumFunctionOnSet(seen, Counted)

TableInit == rows = << >> /\ seen = [k \in Keys |-> 0]

TableNext == Merged < MaxMerges /\ \E key \in Keys : mergeCounters(key)

TableSpec == TableInit /\ [][TableNext]_tableVars

RowCounts(table) == [i \in DOMAIN table |-> table[i].count]
RowKeys(table)   == {table[i].key : i \in DOMAIN table}

DistinctKeys(table) == \A i, j \in DOMAIN table : table[i].key = table[j].key => i = j

(* k was merged itself, or is what a merged key folds to.                  *)
FoldOfCounted(k) ==
    \E c \in Counted :
        k \in {c, telemetryFoldedCounterKey(c, FALSE), telemetryFoldedCounterKey(c, TRUE)}

(* Folding makes the counts coarser and never wrong: no count is lost or   *)
(* doubled when a row is re-keyed, no key has two rows, the table keeps to *)
(* its limit; as long as the keys fit every key has a row of its own, and  *)
(* afterwards every row is of a key that was seen or of a fold of one.     *)
FoldedCountsExact ==
    /\ SumFunction(RowCounts(rows)) = Merged
    /\ Len(rows) <= MaxWindowKeys
    /\ DistinctKeys(rows)
    /\ Cardinality(Counted) <= MaxWindowKeys => \A k \in Counted : countOf(rows, k) = seen[k]
    /\ \A k \in RowKeys(rows) : FoldOfCounted(k)

(* The table's inductive invariant: as long as the keys fit, the rows are  *)
(* of merged keys only, so there is room for the next one.                 *)
TableInv ==
    /\ rows \in Seq([key : Keys, count : Nat]) /\ seen \in [Keys -> Nat]
    /\ IsFiniteSet(Counted)
    /\ FoldedCountsExact
    /\ Cardinality(Counted) <= MaxWindowKeys => RowKeys(rows) \subseteq Counted
=============================================================================
