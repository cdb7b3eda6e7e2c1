---------------------------- MODULE ReportBuffer ----------------------------
(***************************************************************************)
(* What the beacon reporter (telemetry_reporter.go) keeps under its mutex: *)
(* the sampled events and the exact counter rows of each client minute,    *)
(* as pure transformers of one record.  Every operator here is a function  *)
(* the code calls with the mutex held.                                     *)
(*                                                                         *)
(* Sizes are in rows and events (each weighs one), times in client         *)
(* minutes: a window knows how many minutes ago it started.                *)
(***************************************************************************)
EXTENDS Integers, Sequences, FiniteSets, SequencesExt

CONSTANTS
    MaxEvents,          \* telemetryMaxEvents
    MaxBatchEvents,     \* telemetryMaxBatchEvents
    MaxBatchCounters,   \* telemetryMaxBatchCounters
    MaxBatchBytes,      \* telemetryMaxBatchBytes, in items
    RetentionMinutes,   \* telemetryRetentionSeconds
    RetentionBytes      \* telemetryRetentionBytes, in rows

ASSUME BufferAssumption ==
    /\ MaxEvents \in Nat \ {0} /\ MaxBatchEvents \in Nat \ {0}
    /\ MaxBatchCounters \in Nat \ {0} /\ MaxBatchBytes \in Nat \ {0}
    /\ RetentionMinutes \in Nat /\ RetentionBytes \in Nat

(* A buffer.  nextWindow numbers the windows, which the code tells apart   *)
(* by their address.                                                       *)
NewBuffer ==
    [events |-> << >>, current |-> << >>, hasWindow |-> FALSE, windowAge |-> 0,
     closedWindows |-> << >>, retainedWindowBytes |-> 0, droppedSinceLast |-> 0,
     nextWindow |-> 1]

(* The buffer of a disabled reporter: everything is released.              *)
Emptied(b) ==
    [events |-> << >>, current |-> << >>, hasWindow |-> b.hasWindow, windowAge |-> b.windowAge,
     closedWindows |-> << >>, retainedWindowBytes |-> 0, droppedSinceLast |-> 0,
     nextWindow |-> b.nextWindow]

(* A new minute begins; ages past the retention are all alike.             *)
Older(age) == IF age > RetentionMinutes THEN age ELSE age + 1
AgedWindow(w) == [w EXCEPT !.age = Older(w.age)]
AgedMinute(b) == [b EXCEPT !.windowAge = IF b.hasWindow THEN Older(b.windowAge) ELSE b.windowAge]
Aged(b) == [AgedMinute(b) EXCEPT
                !.closedWindows = [i \in DOMAIN b.closedWindows |-> AgedWindow(b.closedWindows[i])]]

(* An item is an event or a row of a closed window.                        *)
EventItem(id) == <<0, id>>
RowItems(window) == {<<window.id, window.rows[i]>> : i \in DOMAIN window.rows}
EventItems(events) == {EventItem(events[i].id) : i \in DOMAIN events}

Buffered(b) ==
    EventItems(b.events) \cup UNION {RowItems(b.closedWindows[i]) : i \in DOMAIN b.closedWindows}

RowsIn(windows) == SumFunction([i \in DOMAIN windows |-> Len(windows[i].rows)])
BytesIn(windows) == SumFunction([i \in DOMAIN windows |-> windows[i].sizeBytes])

(* The elements of a sequence at the given positions, in order: the loops  *)
(* that compact a slice in place.                                          *)
Kept(s, positions) ==
    LET upTo[i \in 0..Len(s)] ==
            IF i = 0 THEN << >>
            ELSE IF i \in positions THEN Append(upTo[i - 1], s[i]) ELSE upTo[i - 1]
    IN  upTo[Len(s)]

-----------------------------------------------------------------------------
(* dropBufferedEventLocked: the oldest success goes first, or the oldest   *)
(* event when there is none.                                               *)
DropBufferedEvent(b) ==
    LET successes == {i \in DOMAIN b.events : b.events[i].ok}
    IN  [b EXCEPT !.events = RemoveAt(@, IF successes = {} THEN 1 ELSE Min(successes)),
                  !.droppedSinceLast = @ + 1]

(* appendEventLocked.                                                      *)
AppendEvent(b, event) ==
    LET room == IF Len(b.events) >= MaxEvents THEN DropBufferedEvent(b) ELSE b
    IN  [room EXCEPT !.events = Append(@, event)]

(* pruneWindowsLocked with dropWindowLocked: windows past the retention    *)
(* go, then the oldest until the byte cap holds.  Windows are in order of  *)
(* age, so both loops together drop the shortest prefix that satisfies     *)
(* both bounds.                                                            *)
PruneWindows(b) ==
    LET ws   == b.closedWindows
        enough(k) == k < Len(ws) => /\ ws[k + 1].age <= RetentionMinutes
                                    /\ b.retainedWindowBytes - BytesIn(SubSeq(ws, 1, k))
                                            <= RetentionBytes
        gone == Min({k \in 0..Len(ws) : enough(k)})
    IN  [b EXCEPT !.closedWindows = SubSeq(ws, gone + 1, Len(ws)),
                  !.retainedWindowBytes = @ - BytesIn(SubSeq(ws, 1, gone)),
                  !.droppedSinceLast = @ + RowsIn(SubSeq(ws, 1, gone))]

(* The current minute becomes a closed window, unless it is empty.         *)
ShelveCurrent(b) ==
    IF b.current = << >> \/ ~b.hasWindow THEN b
    ELSE [b EXCEPT !.closedWindows = Append(@,
                        [id |-> b.nextWindow, age |-> b.windowAge, rows |-> b.current,
                         sizeBytes |-> Len(b.current)]),
                   !.retainedWindowBytes = @ + Len(b.current),
                   !.current = << >>, !.nextWindow = @ + 1]

(* rollWindowLocked with closeCurrentWindowLocked: a new minute closes the *)
(* window of the last one.                                                 *)
RollWindow(b) ==
    IF ~b.hasWindow THEN [b EXCEPT !.hasWindow = TRUE, !.windowAge = 0]
    ELSE IF b.windowAge = 0 THEN b
    ELSE [(IF b.current = << >> THEN b ELSE PruneWindows(ShelveCurrent(b))) EXCEPT !.windowAge = 0]

(* A key that normaliseTelemetryCounterKey rejects.                        *)
RejectedKey == 0

(* mergeCountersLocked, below the cap of the fold ladder: an increment     *)
(* with a rejected key is dropped and counted, the others share one row    *)
(* per key.                                                                *)
MergeCounters(b, keys) ==
    LET rejected == {i \in DOMAIN keys : keys[i] = RejectedKey}
        merged   == {i \in DOMAIN keys : \/ keys[i] \in ToSet(b.current)
                                         \/ \E j \in 1..(i - 1) : keys[j] = keys[i]}
    IN  [b EXCEPT !.current = @ \o Kept(keys, DOMAIN keys \ (rejected \cup merged)),
                  !.droppedSinceLast = @ + Cardinality(rejected)]

-----------------------------------------------------------------------------
(* selectBatchLocked.  The rows of the closed windows, oldest first.       *)
RowRefs(window) == [i \in DOMAIN window.rows |-> <<window.id, window.rows[i]>>]
AllRows(windows) == FlattenSeq([i \in DOMAIN windows |-> RowRefs(windows[i])])

Prefix(s, n) == SubSeq(s, 1, IF n < Len(s) THEN n ELSE Len(s))

(* Its first three lines: roll, close and prune.  Whether or not a minute  *)
(* has passed, the current window is closed and the buffer pruned.         *)
BeforeSelect(b) == [PruneWindows(ShelveCurrent(b)) EXCEPT !.hasWindow = TRUE, !.windowAge = 0]

(* The batch of a prepared buffer: trimmed from the tail, events first,    *)
(* until it fits.  The windows it refers to are carried along, because     *)
(* the batch holds pointers to them.                                       *)
SelectBatch(b) ==
    LET events   == Prefix(b.events, MaxBatchEvents)
        counters == Prefix(AllRows(b.closedWindows), MaxBatchCounters)
        rows     == Prefix(counters, MaxBatchBytes)
    IN  [events |-> Prefix(events, MaxBatchBytes - Len(rows)),
         counters |-> rows,
         windows |-> Kept(b.closedWindows, {i \in DOMAIN b.closedWindows :
                            RowItems(b.closedWindows[i]) \cap ToSet(rows) # {}}),
         dropped |-> b.droppedSinceLast]

NothingToSend(b) == b.events = << >> /\ b.closedWindows = << >>

ItemsOf(batch) == EventItems(batch.events) \cup ToSet(batch.counters)

(* A window without the rows of the batch.                                 *)
Without(window, batch) ==
    LET rows == Kept(window.rows, {i \in DOMAIN window.rows :
                        <<window.id, window.rows[i]>> \notin ToSet(batch.counters)})
    IN  [window EXCEPT !.rows = rows, !.sizeBytes = Len(rows)]

(* removeSelectedLocked.  The byte count is adjusted for every window of   *)
(* the batch, whether or not it is still retained.                         *)
RemoveSelected(b, batch) ==
    LET shrunk == [i \in DOMAIN batch.windows |-> Without(batch.windows[i], batch)]
        left   == [i \in DOMAIN b.closedWindows |-> Without(b.closedWindows[i], batch)]
    IN  [b EXCEPT !.events = Kept(@, {i \in DOMAIN b.events :
                                EventItem(b.events[i].id) \notin EventItems(batch.events)}),
                  !.closedWindows = Kept(left, {i \in DOMAIN left : left[i].rows # << >>}),
                  !.retainedWindowBytes = @ - BytesIn(batch.windows) + BytesIn(shrunk)]
=============================================================================
