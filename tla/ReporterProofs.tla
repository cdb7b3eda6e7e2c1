--------------------------- MODULE ReporterProofs ---------------------------
(***************************************************************************)
(* What the reporter guarantees for any number of calls, any answers and   *)
(* any bounds.                                                             *)
(*                                                                         *)
(* A refused reporter stays off (OffInv): disabling happens at the end of  *)
(* a flush, so the argument needs flushMu - while one flush is posting no  *)
(* other is, hence nothing is in flight once the reporter is disabled.     *)
(*                                                                         *)
(* The books balance (LedgerInv): each function of ReportBuffer is shown   *)
(* to account for what it takes in and gives up, and a step of the         *)
(* reporter is such a function followed by bookkeeping.                    *)
(*                                                                         *)
(* The schedule stays within its bounds (ScheduleInv).                     *)
(***************************************************************************)
EXTENDS Reporter, DataLemmas

(* flushMu admits one flush.                                               *)
OneFlush == \A f, g \in Flushers : pc[f] = "posting" /\ pc[g] = "posting" => f = g

(* Where the flushers may be.                                              *)
PCShape == pc \in [Flushers -> {"none", "loop", "waiting", "lock", "posting", "done"}]

(* What a disabled reporter holds: only the place of its current minute.   *)
Nothing(hasWindow, windowAge, nextWindow) ==
    [events |-> << >>, current |-> << >>, hasWindow |-> hasWindow, windowAge |-> windowAge,
     closedWindows |-> << >>, retainedWindowBytes |-> 0, droppedSinceLast |-> 0,
     nextWindow |-> nextWindow]

(* The buffer is empty.                                                    *)
HoldsNothing == \E h, w, n : buf = Nothing(h, w, n)

(* One flush at a time, and after a refusal nothing is held or posted.     *)
OffInv == PCShape /\ OneFlush /\ (disabled => HoldsNothing /\ ~Posting)

(* A minute passing keeps an empty buffer empty.                           *)
LEMMA NothingAges ==
    ASSUME NEW h, NEW w, NEW n
    PROVE  \E v : Aged(Nothing(h, w, n)) = Nothing(h, v, n)
<1> DEFINE b == Nothing(h, w, n)
           v == IF h THEN Older(w) ELSE w
<1>1. b.hasWindow = h /\ b.windowAge = w /\ b.closedWindows = << >>
  BY DEF Nothing
<1>2. [b EXCEPT !.windowAge = v] = Nothing(h, v, n)
  BY DEF Nothing
<1>3. AgedMinute(b) = Nothing(h, v, n)
  BY <1>1, <1>2 DEF AgedMinute
<1>4. [i \in DOMAIN b.closedWindows |-> AgedWindow(b.closedWindows[i])] = << >>
  BY <1>1
<1>5. [Nothing(h, v, n) EXCEPT !.closedWindows = << >>] = Nothing(h, v, n)
  BY DEF Nothing
<1>6. Aged(b) = Nothing(h, v, n)
  BY <1>3, <1>4, <1>5 DEF Aged
<1> QED
  BY <1>6

(* Steps that touch neither the buffer nor the flushers' posting.          *)
LEMMA Unrelated ==
    ASSUME OffInv, UNCHANGED <<buf, disabled>>,
           \/ pc' = pc
           \/ \E f \in Flushers, p \in {"loop", "waiting", "lock", "done"} :
                 pc' = [pc EXCEPT ![f] = p]
    PROVE  OffInv'
<1>1. PCShape'
  BY DEF OffInv, PCShape
<1>2. \A f \in Flushers : pc'[f] = "posting" => pc[f] = "posting"
  BY DEF OffInv, PCShape
<1> QED
  BY <1>1, <1>2 DEF OffInv, OneFlush, HoldsNothing, Posting

(* Time passing keeps OffInv.                                              *)
LEMMA TickStep == ASSUME OffInv, Tick PROVE OffInv'
<1>1. pc' = pc /\ disabled' = disabled /\ buf' = Aged(buf)
  BY DEF Tick, flags
<1>2. HoldsNothing => HoldsNothing'
  BY <1>1, NothingAges DEF HoldsNothing
<1> QED
  BY <1>1, <1>2 DEF OffInv, PCShape, OneFlush, Posting

(* An emptied buffer is an empty one.                                      *)
LEMMA EmptiedHoldsNothing ==
    ASSUME NEW b
    PROVE  Emptied(b) = Nothing(b.hasWindow, b.windowAge, b.nextWindow)
  BY DEF Emptied, Nothing

(* The steps of calls: a disabled reporter refuses what they bring.        *)
LEMMA RequestStep == ASSUME OffInv, OnRequest PROVE OffInv'
<1>1. disabled' = disabled
  BY DEF OnRequest, flags
<1>2. CASE RefusesRequests
  BY <1>1, <1>2, Unrelated DEF OnRequest
<1>3. CASE ~RefusesRequests
  <2>1. ~disabled'
    BY <1>1, <1>3 DEF RefusesRequests
  <2>2. pc' = pc \/ pc' = [pc EXCEPT !["worker"] = "loop"]
    BY <1>3 DEF OnRequest
  <2>3. PCShape' /\ \A f \in Flushers : pc'[f] = "posting" => pc[f] = "posting"
    BY <2>2 DEF OffInv, PCShape, Flushers
  <2> QED
    BY <2>1, <2>3 DEF OffInv, OneFlush
<1> QED
  BY <1>2, <1>3

(* The worker's steps keep OffInv.                                         *)
LEMMA WorkerStep == ASSUME OffInv, Worker PROVE OffInv'
<1>1. UNCHANGED <<buf, disabled>>
  BY DEF Worker, WorkerDecides, WorkerWakes, WorkerUnchanged, flags
<1>2. \E p \in {"loop", "waiting", "lock", "done"} : pc' = [pc EXCEPT !["worker"] = p]
  BY DEF Worker, WorkerDecides, WorkerWakes
<1> QED
  BY <1>1, <1>2, Unrelated DEF Flushers

(* Creating and closing keep OffInv.                                       *)
LEMMA CloseStep ==
    ASSUME OffInv, CreateReporter \/ ClientClose \/ CloseDeadline \/ CloseAdvances
    PROVE  OffInv'
<1>1. UNCHANGED <<buf, disabled>>
  BY DEF CreateReporter, ClientClose, CloseDeadline, CloseAdvances, flags
<1>2. pc' = pc \/ pc' = [pc EXCEPT !["final"] = "lock"]
  BY DEF CreateReporter, ClientClose, CloseDeadline, CloseAdvances
<1> QED
  BY <1>1, <1>2, Unrelated DEF Flushers

(* A flush starts: only with flushMu free and the reporter enabled.        *)
LEMMA FlushStep == ASSUME OffInv, NEW f \in Flushers, Flush(f) PROVE OffInv'
<1>1. CASE FlushSkipped(f)
  <2>1. disabled' = disabled /\ AfterFlush(f) \in {"loop", "done"}
    BY <1>1 DEF FlushSkipped, flags, AfterFlush
  <2>2. pc' = [pc EXCEPT ![f] = AfterFlush(f)]
    BY <1>1 DEF FlushSkipped
  <2>3. disabled => UNCHANGED buf
    BY <1>1 DEF FlushSkipped, HeldBack
  <2>4. PCShape' /\ \A g \in Flushers : pc'[g] = "posting" => pc[g] = "posting"
    BY <2>1, <2>2 DEF OffInv, PCShape
  <2> QED
    BY <2>1, <2>3, <2>4 DEF OffInv, OneFlush, HoldsNothing, Posting
<1>2. CASE FlushBegins(f)
  <2>1. ~disabled' /\ FlushMuFree /\ pc' = [pc EXCEPT ![f] = "posting"]
    BY <1>2 DEF FlushBegins, HeldBack, flags
  <2>2. PCShape' /\ \A g \in Flushers : pc'[g] = "posting" => g = f
    BY <2>1 DEF OffInv, PCShape, FlushMuFree, Posting
  <2> QED
    BY <2>1, <2>2 DEF OffInv, OneFlush
<1> QED
  BY <1>1, <1>2 DEF Flush

(* A POST ends: no flush is posting after it, whatever the answer.         *)
LEMMA PostStep == ASSUME OffInv, NEW f \in Flushers, Post(f) PROVE OffInv'
<1>1. pc[f] = "posting" /\ PostEnds(f)
  BY DEF Post, PostFails, PostAnswered
<1>2. pc' = [pc EXCEPT ![f] = AfterFlush(f)] /\ AfterFlush(f) \in {"loop", "done"}
  BY <1>1 DEF PostEnds, AfterFlush
<1>3. PCShape'
  BY <1>2 DEF OffInv, PCShape
<1>4. \A g \in Flushers : pc'[g] # "posting"
  BY <1>1, <1>2 DEF OffInv, PCShape, OneFlush
<1>5. ~disabled
  BY <1>1 DEF OffInv, Posting
<1>6. disabled' => Disable
  BY <1>5 DEF Post, PostFails, PostAnswered, SetBackoff, Accepted, TooLarge
<1>7. Disable => HoldsNothing'
  BY EmptiedHoldsNothing DEF Disable, HoldsNothing
<1> QED
  BY <1>3, <1>4, <1>6, <1>7 DEF OffInv, OneFlush, Posting

(* Every step keeps OffInv.                                                *)
LEMMA OffInductive == OffInv /\ [Next]_vars => OffInv'
<1> SUFFICES ASSUME OffInv, [Next]_vars PROVE OffInv'
  OBVIOUS
<1>1. CASE UNCHANGED vars
  BY <1>1, Unrelated DEF vars, flags
<1>2. CASE Next
  BY <1>2, TickStep, RequestStep, WorkerStep, CloseStep, FlushStep, PostStep DEF Next
<1> QED
  BY <1>1, <1>2

(* An empty buffer has no events, rows, windows or drop count.             *)
LEMMA NothingIsEmpty ==
    HoldsNothing => /\ buf.events = << >> /\ buf.current = << >>
                    /\ buf.closedWindows = << >> /\ buf.droppedSinceLast = 0
  BY DEF HoldsNothing, Nothing

(* "turns the reporter off for the rest of the process" (disableLocked):   *)
(* for any number of calls, any answers and any bounds, a disabled         *)
(* reporter holds nothing and posts nothing.                               *)
THEOREM DisabledForGood == Spec => []DisabledStaysEmpty
<1>1. Init => OffInv
  BY DEF Init, OffInv, PCShape, OneFlush, Flushers
<1>2. OffInv => DisabledStaysEmpty
  BY NothingIsEmpty DEF OffInv, DisabledStaysEmpty
<1> QED
  BY <1>1, <1>2, OffInductive, PTL DEF Spec

(* flushMu: no two flushes are ever in flight together.                    *)
THEOREM FlushesExclude == Spec => []OneFlush
<1>1. Init => OffInv
  BY DEF Init, OffInv, PCShape, OneFlush, Flushers
<1>2. OffInv => OneFlush
  BY DEF OffInv
<1> QED
  BY <1>1, <1>2, OffInductive, PTL DEF Spec

-----------------------------------------------------------------------------
(* The buffer.                                                             *)

(* The types of the buffer's parts.                                        *)
Event == [id : Nat, ok : BOOLEAN]
Window == [id : Nat \ {0}, age : Nat, rows : Seq(Nat), sizeBytes : Nat]
Ref == (Nat \ {0}) \X Nat
Buffer ==
    [events : Seq(Event), current : Seq(Nat), hasWindow : BOOLEAN, windowAge : Nat,
     closedWindows : Seq(Window), retainedWindowBytes : Int, droppedSinceLast : Nat,
     nextWindow : Nat \ {0}]
Batch == [events : Seq(Event), counters : Seq(Ref), windows : Seq(Window), dropped : Nat]

(* Kept holds the elements at the positions, and no others.                *)
LEMMA KeptFacts ==
    ASSUME NEW S, NEW s \in Seq(S), NEW I
    PROVE  /\ Kept(s, I) \in Seq(S) /\ Len(Kept(s, I)) <= Len(s)
           /\ ToSet(Kept(s, I)) = {s[i] : i \in DOMAIN s \cap I}
<1> DEFINE n == Len(s)
           Body(h, i) == IF i = 0 THEN << >>
                         ELSE IF i \in I THEN Append(h[i - 1], s[i]) ELSE h[i - 1]
           Eq(h) == h = [i \in 0..n |-> Body(h, i)]
           step == [p \in (1..n) \X Seq(S) |-> IF p[1] \in I THEN Append(p[2], s[p[1]]) ELSE p[2]]
<1>1. n \in Nat /\ DOMAIN s = 1..n /\ \A i \in 1..n : s[i] \in S
  OBVIOUS
<1> HIDE DEF n
<1>2. StepsWithin(n, Seq(S), step)
  <2> SUFFICES ASSUME NEW i \in 1..n, NEW v \in Seq(S) PROVE step[<<i, v>>] \in Seq(S)
    BY DEF StepsWithin
  <2>1. s[i] \in S /\ step[<<i, v>>] = IF i \in I THEN Append(v, s[i]) ELSE v
    BY <1>1
  <2> QED
    BY <2>1
<1>3. PICK f : Iterates(n, Seq(S), << >>, step, f)
  <2>1. << >> \in Seq(S)
    OBVIOUS
  <2> HIDE DEF step
  <2> QED
    BY <1>1, <1>2, <2>1, IterationExists
<1>4. Eq(f)
  <2>1. f = [i \in 0..n |-> f[i]] /\ f[0] = << >>
    BY <1>3 DEF Iterates
  <2>2. ASSUME NEW i \in 0..n PROVE f[i] = Body(f, i)
    <3>1. CASE i = 0
      BY <2>1, <3>1
    <3>2. CASE i # 0
      <4>1. i \in 1..n /\ i - 1 \in 0..n
        BY <1>1, <3>2
      <4>2. f[i] = step[<<i, f[i - 1]>>] /\ f[i - 1] \in Seq(S)
        BY <1>3, <4>1 DEF Iterates
      <4> QED
        BY <3>2, <4>1, <4>2
    <3> QED
      BY <3>1, <3>2
  <2> HIDE DEF Body
  <2> QED
    BY <2>1, <2>2
<1>5. PICK h : h = (CHOOSE k : Eq(k)) /\ Eq(h)
  BY <1>4
<1>6. Kept(s, I) = h[n]
  BY <1>5 DEF Kept, n
<1>7. \A i \in 0..n : h[i] = Body(h, i)
  <2> HIDE DEF Body
  <2> QED
    BY <1>5
<1> HIDE DEF Eq, step
<1> DEFINE K(i) == {s[j] : j \in (1..i) \cap I}
           T == {i \in 0..n : h[i] \in Seq(S) /\ Len(h[i]) <= i /\ ToSet(h[i]) = K(i)}
<1>8. 0 \in T
  <2>1. h[0] = << >> /\ 0 \in 0..n /\ 1..0 = {}
    BY <1>1, <1>7
  <2>2. K(0) = {}
    BY <2>1
  <2>3. << >> \in Seq(S) /\ Len(<< >>) = 0 /\ ToSet(<< >>) = {}
    BY DEF ToSet
  <2>4. h[0] \in Seq(S) /\ Len(h[0]) <= 0
    BY <2>1
  <2>5. ToSet(h[0]) = K(0)
    BY <2>1, <2>2, <2>3
  <2> HIDE DEF K
  <2> QED
    BY <2>1, <2>4, <2>5
<1>9. \A i \in 1..n : i - 1 \in T => i \in T
  <2> SUFFICES ASSUME NEW i \in 1..n, i - 1 \in T PROVE i \in T
    OBVIOUS
  <2>1. i \in 0..n /\ s[i] \in S /\ i # 0 /\ i \in Int
    BY <1>1
  <2>2. h[i - 1] \in Seq(S) /\ Len(h[i - 1]) <= i - 1 /\ ToSet(h[i - 1]) = K(i - 1)
    OBVIOUS
  <2>3. h[i] = IF i \in I THEN Append(h[i - 1], s[i]) ELSE h[i - 1]
    BY <1>7, <2>1
  <2>4. 1..i = (1..(i - 1)) \cup {i}
    BY <2>1
  <2>5. CASE i \in I
    <3>1. K(i) = K(i - 1) \cup {s[i]}
      BY <2>4, <2>5
    <3>2. h[i] = Append(h[i - 1], s[i])
      BY <2>3, <2>5
    <3>3. h[i] \in Seq(S) /\ Len(h[i]) = Len(h[i - 1]) + 1 /\ ToSet(h[i]) = ToSet(h[i - 1]) \cup {s[i]}
      BY <2>1, <2>2, <3>2, ToSetAppend
    <3>4. Len(h[i]) <= i
      BY <2>1, <2>2, <3>3
    <3>5. ToSet(h[i]) = K(i)
      BY <2>2, <3>1, <3>3
    <3> HIDE DEF K
    <3> QED
      BY <2>1, <3>3, <3>4, <3>5
  <2>6. CASE i \notin I
    <3>1. K(i) = K(i - 1)
      BY <2>4, <2>6
    <3>2. h[i] = h[i - 1] /\ Len(h[i]) <= i
      BY <2>1, <2>2, <2>3, <2>6
    <3> HIDE DEF K
    <3> QED
      BY <2>1, <2>2, <3>1, <3>2
  <2> QED
    BY <2>5, <2>6
<1>10. n \in T
  <2> HIDE DEF T
  <2>1. 0..n \subseteq T
    BY <1>1, <1>8, <1>9, IndexInduction
  <2> QED
    BY <1>1, <2>1
<1> QED
  BY <1>1, <1>6, <1>10 DEF n

(* The items of the closed windows.                                        *)
Rows(windows) == UNION {RowItems(windows[i]) : i \in DOMAIN windows}

(* What is buffered is the events and the rows of the closed windows.      *)
LEMMA BufferedParts ==
    ASSUME NEW b
    PROVE  Buffered(b) = EventItems(b.events) \cup Rows(b.closedWindows)
  BY DEF Buffered, Rows

(* Items as images of the elements of events and windows.                  *)
LEMMA ItemSets ==
    /\ \A events : EventItems(events) = {EventItem(e.id) : e \in ToSet(events)}
    /\ \A windows : Rows(windows) = UNION {RowItems(w) : w \in ToSet(windows)}
  BY DEF EventItems, Rows, ToSet

(* A window has no more items than rows, an event list no more than events.*)
LEMMA ItemBounds ==
    /\ \A events \in Seq(Event) :
          IsFiniteSet(EventItems(events)) /\ Cardinality(EventItems(events)) <= Len(events)
    /\ \A w \in Window : IsFiniteSet(RowItems(w)) /\ Cardinality(RowItems(w)) <= Len(w.rows)
    /\ \A refs \in Seq(Ref) : IsFiniteSet(ToSet(refs)) /\ Cardinality(ToSet(refs)) <= Len(refs)
<1>1. ASSUME NEW events \in Seq(Event)
      PROVE  IsFiniteSet(EventItems(events)) /\ Cardinality(EventItems(events)) <= Len(events)
  <2> DEFINE h == [i \in 1..Len(events) |-> EventItem(events[i].id)]
  <2>1. EventItems(events) = {h[i] : i \in 1..Len(events)}
    BY DEF EventItems
  <2>2. Len(events) \in Nat
    OBVIOUS
  <2> HIDE DEF h
  <2> QED
    BY <2>1, <2>2, ImageBound
<1>2. ASSUME NEW w \in Window
      PROVE  IsFiniteSet(RowItems(w)) /\ Cardinality(RowItems(w)) <= Len(w.rows)
  <2> DEFINE h == [i \in 1..Len(w.rows) |-> <<w.id, w.rows[i]>>]
  <2>1. w.rows \in Seq(Nat)
    BY DEF Window
  <2>2. DOMAIN w.rows = 1..Len(w.rows) /\ Len(w.rows) \in Nat
    BY <2>1
  <2>3. RowItems(w) = {h[i] : i \in 1..Len(w.rows)}
    BY <2>2 DEF RowItems
  <2> HIDE DEF h
  <2> QED
    BY <2>2, <2>3, ImageBound
<1>3. ASSUME NEW refs \in Seq(Ref)
      PROVE  IsFiniteSet(ToSet(refs)) /\ Cardinality(ToSet(refs)) <= Len(refs)
  <2>1. ToSet(refs) = {refs[i] : i \in 1..Len(refs)} /\ Len(refs) \in Nat
    BY DEF ToSet
  <2> QED
    BY <2>1, ImageBound
<1> QED
  BY <1>1, <1>2, <1>3

(* Windows hold finitely many rows, at most as many as they count.         *)
LEMMA RowsBound ==
    ASSUME NEW windows \in Seq(Window)
    PROVE  /\ RowsIn(windows) \in Nat /\ BytesIn(windows) \in Nat
           /\ IsFiniteSet(Rows(windows)) /\ Cardinality(Rows(windows)) <= RowsIn(windows)
<1> DEFINE D == DOMAIN windows
           f == [i \in D |-> Len(windows[i].rows)]
           g == [i \in D |-> windows[i].sizeBytes]
           R == [i \in D |-> RowItems(windows[i])]
<1>1. IsFiniteSet(D)
  <2>1. D = 1..Len(windows) /\ Len(windows) \in Nat
    OBVIOUS
  <2> QED
    BY <2>1, FS_Interval
<1>2. ASSUME NEW i \in D
      PROVE  /\ f[i] \in Nat /\ g[i] \in Nat
             /\ IsFiniteSet(R[i]) /\ Cardinality(R[i]) <= f[i]
  <2>1. windows[i] \in Window
    OBVIOUS
  <2>2. Len(windows[i].rows) \in Nat /\ windows[i].sizeBytes \in Nat
    BY <2>1 DEF Window
  <2> QED
    BY <2>1, <2>2, ItemBounds
<1>3. /\ RowsIn(windows) = SumFunctionOnSet(f, D) /\ BytesIn(windows) = SumFunctionOnSet(g, D)
      /\ Rows(windows) = UNION {R[i] : i \in D}
  BY DEF RowsIn, BytesIn, SumFunction, Rows
<1> HIDE DEF D, f, g, R
<1>4. SumFunctionOnSet(f, D) \in Nat /\ SumFunctionOnSet(g, D) \in Nat
  BY <1>1, <1>2, SumType
<1>5. /\ IsFiniteSet(UNION {R[i] : i \in D})
      /\ Cardinality(UNION {R[i] : i \in D}) <= SumFunctionOnSet(f, D)
  BY <1>1, <1>2, UnionBound
<1> QED
  BY <1>3, <1>4, <1>5

(* The buffer c follows b, having taken in the items of new: nothing else  *)
(* came in, and what went missing is counted.                              *)
Counted(b, c, new, lost) ==
    /\ IsFiniteSet(lost)
    /\ Buffered(b) \cup new \subseteq Buffered(c) \cup lost
    /\ b.droppedSinceLast + Cardinality(lost) <= c.droppedSinceLast

(* From b to c nothing left the buffer uncounted, and only `new` came in.  *)
Accounted(b, c, new) ==
    /\ c \in Buffer /\ b.nextWindow <= c.nextWindow
    /\ Buffered(c) \subseteq Buffered(b) \cup new
    /\ \E lost : Counted(b, c, new, lost)

(* The fields of a buffer have their types.                                *)
LEMMA BufferFields ==
    ASSUME NEW b \in Buffer
    PROVE  /\ b.events \in Seq(Event) /\ b.current \in Seq(Nat) /\ b.hasWindow \in BOOLEAN
           /\ b.windowAge \in Nat /\ b.closedWindows \in Seq(Window)
           /\ b.retainedWindowBytes \in Int /\ b.droppedSinceLast \in Nat
           /\ b.nextWindow \in Nat \ {0}
  BY DEF Buffer

(* Two accounted changes in a row are accounted for.                       *)
LEMMA AccountedTwice ==
    ASSUME NEW b \in Buffer, NEW c, NEW d, NEW m, NEW n, Accounted(b, c, m), Accounted(c, d, n)
    PROVE  Accounted(b, d, m \cup n)
<1>1. PICK k : Counted(b, c, m, k)
  BY DEF Accounted
<1>2. PICK l : Counted(c, d, n, l)
  BY DEF Accounted
<1>3. c \in Buffer /\ d \in Buffer
  BY DEF Accounted
<1>4. IsFiniteSet(k) /\ IsFiniteSet(l) /\ IsFiniteSet(k \cup l) /\ IsFiniteSet(k \cap l)
  BY <1>1, <1>2, FS_Union, FS_Intersection DEF Counted
<1>5. Cardinality(k \cup l) = Cardinality(k) + Cardinality(l) - Cardinality(k \cap l)
  BY <1>4, FS_Union
<1>6. /\ Cardinality(k) \in Nat /\ Cardinality(l) \in Nat /\ Cardinality(k \cap l) \in Nat
      /\ Cardinality(k \cup l) \in Nat
  BY <1>4, FS_CardinalityType
<1>7. /\ b.droppedSinceLast \in Nat /\ c.droppedSinceLast \in Nat /\ d.droppedSinceLast \in Nat
      /\ b.nextWindow \in Nat /\ c.nextWindow \in Nat /\ d.nextWindow \in Nat
  BY <1>3, BufferFields
<1>8. b.droppedSinceLast + Cardinality(k \cup l) <= d.droppedSinceLast
  BY <1>1, <1>2, <1>5, <1>6, <1>7 DEF Counted
<1>9. Buffered(b) \cup (m \cup n) \subseteq Buffered(d) \cup (k \cup l)
  BY <1>1, <1>2 DEF Counted
<1>10. Counted(b, d, m \cup n, k \cup l)
  BY <1>4, <1>8, <1>9 DEF Counted
<1> QED
  BY <1>3, <1>7, <1>10 DEF Accounted

(* Same items, nothing taken in: nothing to account for.                   *)
LEMMA AccountedSame ==
    ASSUME NEW b \in Buffer, NEW c \in Buffer, c.events = b.events,
           c.closedWindows = b.closedWindows, c.droppedSinceLast = b.droppedSinceLast,
           c.nextWindow = b.nextWindow
    PROVE  Accounted(b, c, {})
<1>1. Buffered(c) = Buffered(b)
  BY DEF Buffered
<1>2. b.droppedSinceLast \in Nat /\ b.nextWindow \in Nat
  BY BufferFields
<1>3. IsFiniteSet({}) /\ Cardinality({}) = 0
  BY FS_EmptySet
<1>4. Counted(b, c, {}, {})
  BY <1>1, <1>2, <1>3 DEF Counted
<1> QED
  BY <1>1, <1>2, <1>4 DEF Accounted

(* pruneWindowsLocked: the rows of the windows it drops are counted.       *)
LEMMA PruneAccounts ==
    ASSUME NEW b \in Buffer
    PROVE  /\ Accounted(b, PruneWindows(b), {})
           /\ PruneWindows(b).events = b.events /\ PruneWindows(b).nextWindow = b.nextWindow
           /\ PruneWindows(b).current = b.current
<1> DEFINE ws == b.closedWindows
           enough(k) == k < Len(ws) => /\ ws[k + 1].age <= RetentionMinutes
                                       /\ b.retainedWindowBytes - BytesIn(SubSeq(ws, 1, k))
                                                <= RetentionBytes
           gone == Min({k \in 0..Len(ws) : enough(k)})
           old == SubSeq(ws, 1, gone)
           rest == SubSeq(ws, gone + 1, Len(ws))
           c == [b EXCEPT !.closedWindows = rest,
                          !.retainedWindowBytes = @ - BytesIn(old),
                          !.droppedSinceLast = @ + RowsIn(old)]
<1>1. PruneWindows(b) = c
  BY DEF PruneWindows
<1>2. ws \in Seq(Window) /\ Len(ws) \in Nat
  BY BufferFields
<1>3. gone \in 0..Len(ws)
  <2> HIDE DEF ws
  <2>1. Len(ws) \in {k \in 0..Len(ws) : enough(k)}
    BY <1>2
  <2>2. {k \in 0..Len(ws) : enough(k)} \subseteq Nat
    BY <1>2
  <2>3. {k \in 0..Len(ws) : enough(k)} \subseteq 0..Len(ws)
    OBVIOUS
  <2> HIDE DEF enough
  <2> QED
    BY <2>1, <2>2, <2>3, MinIsLeast
<1> HIDE DEF gone, ws
<1>4. /\ old \in Seq(Window) /\ rest \in Seq(Window)
      /\ ToSet(ws) = ToSet(old) \cup ToSet(rest)
  BY <1>2, <1>3, SplitFacts
<1> HIDE DEF old, rest
<1>5. /\ RowsIn(old) \in Nat /\ BytesIn(old) \in Nat
      /\ IsFiniteSet(Rows(old)) /\ Cardinality(Rows(old)) <= RowsIn(old)
  BY <1>4, RowsBound
<1>6. c \in Buffer
  <2>1. /\ b.retainedWindowBytes - BytesIn(old) \in Int
        /\ b.droppedSinceLast + RowsIn(old) \in Nat
    BY <1>5, BufferFields
  <2> QED
    BY <1>4, <2>1 DEF Buffer
<1>7. /\ c.events = b.events /\ c.nextWindow = b.nextWindow /\ c.closedWindows = rest
      /\ c.droppedSinceLast = b.droppedSinceLast + RowsIn(old) /\ c.current = b.current
  BY DEF Buffer
<1>8. Rows(ws) = Rows(old) \cup Rows(rest)
  BY <1>4, ItemSets
<1> HIDE DEF c
<1>9. Buffered(c) \subseteq Buffered(b) /\ Buffered(b) \subseteq Buffered(c) \cup Rows(old)
  BY <1>7, <1>8, BufferedParts DEF ws
<1>10. b.droppedSinceLast \in Nat /\ b.nextWindow \in Nat /\ Cardinality(Rows(old)) \in Nat
  BY <1>5, BufferFields, FS_CardinalityType
<1>11. Counted(b, c, {}, Rows(old))
  BY <1>5, <1>7, <1>9, <1>10 DEF Counted
<1>12. Accounted(b, c, {})
  BY <1>6, <1>7, <1>9, <1>10, <1>11 DEF Accounted
<1> QED
  BY <1>1, <1>7, <1>12

(* closeCurrentWindowLocked: the rows of the minute become a window's.     *)
LEMMA ShelveAccounts ==
    ASSUME NEW b \in Buffer
    PROVE  LET c == ShelveCurrent(b)
           IN  Accounted(b, c, ClosedRows(b, c)) /\ c.events = b.events
<1> DEFINE c == ShelveCurrent(b)
<1>1. CASE b.current = << >> \/ ~b.hasWindow
  <2>1. c = b
    BY <1>1 DEF ShelveCurrent
  <2>2. ClosedRows(b, c) = {}
    BY <2>1 DEF ClosedRows
  <2> HIDE DEF c
  <2> QED
    BY <2>1, <2>2, AccountedSame DEF c
<1>2. CASE ~(b.current = << >> \/ ~b.hasWindow)
  <2> DEFINE w == [id |-> b.nextWindow, age |-> b.windowAge, rows |-> b.current,
                   sizeBytes |-> Len(b.current)]
             d == [b EXCEPT !.closedWindows = Append(@, w),
                            !.retainedWindowBytes = @ + Len(b.current),
                            !.current = << >>, !.nextWindow = @ + 1]
  <2>1. c = d
    BY <1>2 DEF ShelveCurrent
  <2>2. /\ b.current \in Seq(Nat) /\ Len(b.current) \in Nat /\ b.windowAge \in Nat
        /\ b.nextWindow \in Nat \ {0} /\ b.closedWindows \in Seq(Window)
        /\ b.droppedSinceLast \in Nat
    BY BufferFields
  <2>3. w \in Window
    BY <2>2 DEF Window
  <2>4. RowItems(w) = {<<b.nextWindow, b.current[i]>> : i \in DOMAIN b.current}
    BY DEF RowItems
  <2> HIDE DEF w
  <2>5. /\ Append(b.closedWindows, w) \in Seq(Window)
        /\ ToSet(Append(b.closedWindows, w)) = ToSet(b.closedWindows) \cup {w}
    BY <2>2, <2>3, ToSetAppend
  <2>6. d \in Buffer
    <3>1. b.retainedWindowBytes + Len(b.current) \in Int /\ b.nextWindow + 1 \in Nat \ {0}
      BY <2>2, BufferFields
    <3>2. << >> \in Seq(Nat)
      OBVIOUS
    <3> QED
      BY <2>5, <3>1, <3>2 DEF Buffer
  <2>7. /\ d.events = b.events /\ d.nextWindow = b.nextWindow + 1
        /\ d.closedWindows = Append(b.closedWindows, w)
        /\ d.droppedSinceLast = b.droppedSinceLast
    BY DEF Buffer
  <2> HIDE DEF d, c
  <2>8. Rows(d.closedWindows) = Rows(b.closedWindows) \cup RowItems(w)
    BY <2>5, <2>7, ItemSets
  <2>9. ClosedRows(b, d) = RowItems(w)
    BY <2>2, <2>4, <2>7 DEF ClosedRows
  <2>10. Buffered(d) = Buffered(b) \cup RowItems(w)
    BY <2>7, <2>8, BufferedParts
  <2>11. Counted(b, d, RowItems(w), {})
    BY <2>2, <2>7, <2>10, FS_EmptySet DEF Counted
  <2>12. Accounted(b, d, RowItems(w))
    BY <2>2, <2>6, <2>7, <2>10, <2>11 DEF Accounted
  <2> QED
    BY <2>1, <2>7, <2>9, <2>12 DEF c
<1> QED
  BY <1>1, <1>2

(* Nothing is taken in but what leaves the current minute, and the events  *)
(* stay.                                                                   *)
Rolls(b, c) == Accounted(b, c, ClosedRows(b, c)) /\ c.events = b.events

(* A roll and then a change that adds nothing is a roll.                   *)
LEMMA RollsThenSame ==
    ASSUME NEW b \in Buffer, NEW c, NEW d, Rolls(b, c), Accounted(c, d, {}),
           d.events = c.events, d.nextWindow = c.nextWindow
    PROVE  Rolls(b, d)
<1>1. Accounted(b, d, ClosedRows(b, c) \cup {})
  BY AccountedTwice DEF Rolls
<1>2. ClosedRows(b, c) \cup {} = ClosedRows(b, d)
  BY DEF ClosedRows
<1> QED
  BY <1>1, <1>2 DEF Rolls

(* Opening or restarting the minute changes no item.                       *)
LEMMA MinuteAccounts ==
    ASSUME NEW b \in Buffer, NEW h \in BOOLEAN, NEW a \in Nat
    PROVE  LET c == [b EXCEPT !.hasWindow = h, !.windowAge = a]
           IN  /\ Accounted(b, c, {}) /\ c.events = b.events /\ c.nextWindow = b.nextWindow
<1> DEFINE c == [b EXCEPT !.hasWindow = h, !.windowAge = a]
<1>1. c \in Buffer
  BY DEF Buffer
<1>2. /\ c.events = b.events /\ c.closedWindows = b.closedWindows
      /\ c.droppedSinceLast = b.droppedSinceLast /\ c.nextWindow = b.nextWindow
  BY DEF Buffer
<1> HIDE DEF c
<1>3. Accounted(b, c, {})
  BY <1>1, <1>2, AccountedSame
<1> QED
  BY <1>2, <1>3 DEF c

(* Shelving the current window and pruning is a roll.                      *)
LEMMA ShelvePruneRolls ==
    ASSUME NEW b \in Buffer
    PROVE  Rolls(b, PruneWindows(ShelveCurrent(b)))
<1> DEFINE c == ShelveCurrent(b)
           d == PruneWindows(c)
<1>1. Rolls(b, c) /\ c \in Buffer
  BY ShelveAccounts DEF Rolls, Accounted
<1> HIDE DEF c
<1>2. Accounted(c, d, {}) /\ d.events = c.events /\ d.nextWindow = c.nextWindow
  BY <1>1, PruneAccounts
<1> HIDE DEF d
<1>3. Rolls(b, d)
  BY <1>1, <1>2, RollsThenSame
<1> QED
  BY <1>3 DEF c, d

(* Changing nothing is a roll.                                             *)
LEMMA SameRolls ==
    ASSUME NEW b \in Buffer
    PROVE  Rolls(b, b)
<1>1. ClosedRows(b, b) = {}
  BY DEF ClosedRows
<1> QED
  BY <1>1, AccountedSame DEF Rolls

(* So is restarting the clock of the current window.                       *)
LEMMA RestartRolls ==
    ASSUME NEW b \in Buffer, NEW c, Rolls(b, c), NEW h \in BOOLEAN, NEW a \in Nat
    PROVE  Rolls(b, [c EXCEPT !.hasWindow = h, !.windowAge = a])
<1> DEFINE d == [c EXCEPT !.hasWindow = h, !.windowAge = a]
<1>1. c \in Buffer
  BY DEF Rolls, Accounted
<1>2. Accounted(c, d, {}) /\ d.events = c.events /\ d.nextWindow = c.nextWindow
  BY <1>1, MinuteAccounts
<1> HIDE DEF d
<1>3. Rolls(b, d)
  BY <1>2, RollsThenSame
<1> QED
  BY <1>3 DEF d

(* rollWindowLocked, and the first lines of selectBatchLocked.             *)
LEMMA BeforeSelectRolls ==
    ASSUME NEW b \in Buffer
    PROVE  Rolls(b, BeforeSelect(b))
<1>1. Rolls(b, PruneWindows(ShelveCurrent(b)))
  BY ShelvePruneRolls
<1>2. TRUE \in BOOLEAN /\ 0 \in Nat
  OBVIOUS
<1> QED
  BY <1>1, <1>2, RestartRolls DEF BeforeSelect

(* RollWindow is a roll.                                                   *)
LEMMA RollWindowRolls ==
    ASSUME NEW b \in Buffer
    PROVE  Rolls(b, RollWindow(b))
<1>1. CASE ~b.hasWindow
  <2>1. Rolls(b, [b EXCEPT !.hasWindow = TRUE, !.windowAge = 0])
    BY SameRolls, RestartRolls
  <2> QED
    BY <1>1, <2>1 DEF RollWindow
<1>2. CASE b.hasWindow /\ b.windowAge = 0
  BY <1>2, SameRolls DEF RollWindow
<1>3. CASE b.hasWindow /\ b.windowAge # 0
  <2> DEFINE c == IF b.current = << >> THEN b ELSE PruneWindows(ShelveCurrent(b))
  <2>1. Rolls(b, c) /\ c \in Buffer
    BY SameRolls, ShelvePruneRolls DEF Rolls, Accounted
  <2>2. RollWindow(b) = [c EXCEPT !.windowAge = 0]
    BY <1>3 DEF RollWindow
  <2> HIDE DEF c
  <2>3. [c EXCEPT !.windowAge = 0] = [c EXCEPT !.hasWindow = c.hasWindow, !.windowAge = 0]
        /\ c.hasWindow \in BOOLEAN
    BY <2>1 DEF Buffer
  <2>4. Rolls(b, [c EXCEPT !.hasWindow = c.hasWindow, !.windowAge = 0])
    BY <2>1, <2>3, RestartRolls
  <2> QED
    BY <2>2, <2>3, <2>4
<1> QED
  BY <1>1, <1>2, <1>3, BufferFields

(* mergeCountersLocked adds to the current minute, and to the drop count   *)
(* for every increment with a rejected key.                                *)
LEMMA MergeAccounts ==
    ASSUME NEW b \in Buffer, NEW keys \in Seq(Nat)
    PROVE  LET c == MergeCounters(b, keys)
           IN  Accounted(b, c, {}) /\ c.events = b.events /\ c.nextWindow = b.nextWindow
<1> DEFINE rejected == {i \in DOMAIN keys : keys[i] = RejectedKey}
           merged == {i \in DOMAIN keys : \/ keys[i] \in ToSet(b.current)
                                          \/ \E j \in 1..(i - 1) : keys[j] = keys[i]}
           new == Kept(keys, DOMAIN keys \ (rejected \cup merged))
           n == Cardinality(rejected)
           c == [b EXCEPT !.current = @ \o new, !.droppedSinceLast = @ + n]
<1>1. new \in Seq(Nat) /\ b.current \in Seq(Nat) /\ b.droppedSinceLast \in Nat /\ b.nextWindow \in Nat
  BY KeptFacts, BufferFields
<1>2. MergeCounters(b, keys) = c
  BY DEF MergeCounters
<1>3. n \in Nat
  <2>1. DOMAIN keys = 1..Len(keys) /\ Len(keys) \in Nat /\ rejected \subseteq 1..Len(keys)
    OBVIOUS
  <2> HIDE DEF rejected
  <2>2. IsFiniteSet(1..Len(keys))
    BY <2>1, FS_Interval
  <2> QED
    BY <2>1, <2>2, FS_Subset, FS_CardinalityType
<1> HIDE DEF new, n
<1>4. b.current \o new \in Seq(Nat) /\ b.droppedSinceLast + n \in Nat
      /\ b.droppedSinceLast <= b.droppedSinceLast + n
  BY <1>1, <1>3
<1>5. c \in Buffer
  BY <1>4 DEF Buffer
<1>6. /\ c.events = b.events /\ c.closedWindows = b.closedWindows
      /\ c.droppedSinceLast = b.droppedSinceLast + n /\ c.nextWindow = b.nextWindow
  BY DEF Buffer
<1> HIDE DEF c
<1>7. Buffered(c) = Buffered(b)
  BY <1>6 DEF Buffered
<1>8. IsFiniteSet({}) /\ Cardinality({}) = 0
  BY FS_EmptySet
<1>9. Counted(b, c, {}, {})
  BY <1>1, <1>4, <1>6, <1>7, <1>8 DEF Counted
<1>10. Accounted(b, c, {})
  BY <1>1, <1>5, <1>6, <1>7, <1>9 DEF Accounted
<1> QED
  BY <1>2, <1>6, <1>10

(* An event that is refused or pushed out adds one to the count.           *)
LEMMA InvalidAccounts ==
    ASSUME NEW b \in Buffer, NEW x
    PROVE  LET c == [b EXCEPT !.droppedSinceLast = @ + 1]
           IN  Accounted(b, c, {x}) /\ c.events = b.events /\ c.nextWindow = b.nextWindow
<1> DEFINE c == [b EXCEPT !.droppedSinceLast = @ + 1]
<1>1. b.droppedSinceLast \in Nat /\ b.droppedSinceLast + 1 \in Nat /\ b.nextWindow \in Nat
  BY BufferFields
<1>2. c \in Buffer
  BY <1>1 DEF Buffer
<1>3. /\ c.events = b.events /\ c.closedWindows = b.closedWindows
      /\ c.droppedSinceLast = b.droppedSinceLast + 1 /\ c.nextWindow = b.nextWindow
  BY DEF Buffer
<1> HIDE DEF c
<1>4. Buffered(c) = Buffered(b)
  BY <1>3 DEF Buffered
<1>5. IsFiniteSet({x}) /\ Cardinality({x}) = 1
  BY FS_Singleton
<1>6. Counted(b, c, {x}, {x})
  BY <1>1, <1>3, <1>4, <1>5 DEF Counted
<1> QED
  BY <1>1, <1>2, <1>3, <1>4, <1>6 DEF Accounted, c

(* An evicted event is counted as dropped.                                 *)
LEMMA DropAccounts ==
    ASSUME NEW b \in Buffer, b.events # << >>
    PROVE  LET c == DropBufferedEvent(b)
           IN  /\ Accounted(b, c, {}) /\ c.nextWindow = b.nextWindow
               /\ Len(c.events) = Len(b.events) - 1
<1> DEFINE ok == {i \in DOMAIN b.events : b.events[i].ok}
           k == IF ok = {} THEN 1 ELSE Min(ok)
           left == RemoveAt(b.events, k)
           c == [b EXCEPT !.events = left, !.droppedSinceLast = @ + 1]
           x == EventItem(b.events[k].id)
<1>1. /\ b.droppedSinceLast \in Nat /\ b.droppedSinceLast + 1 \in Nat /\ b.nextWindow \in Nat
      /\ b.events \in Seq(Event)
  BY BufferFields
<1>2. DropBufferedEvent(b) = c
  BY DEF DropBufferedEvent
<1>3. k \in 1..Len(b.events)
  <2>1. ok \subseteq Nat /\ ok \subseteq 1..Len(b.events) /\ 1 \in 1..Len(b.events)
    BY <1>1
  <2> HIDE DEF ok
  <2> QED
    BY <2>1, MinIsLeast
<1> HIDE DEF k
<1>4. /\ left \in Seq(Event) /\ Len(left) = Len(b.events) - 1
      /\ ToSet(b.events) = ToSet(left) \cup {b.events[k]}
  BY <1>1, <1>3, RemoveAtFacts
<1> HIDE DEF left
<1>5. c \in Buffer
  BY <1>1, <1>4 DEF Buffer
<1>6. /\ c.events = left /\ c.closedWindows = b.closedWindows
      /\ c.droppedSinceLast = b.droppedSinceLast + 1 /\ c.nextWindow = b.nextWindow
  BY DEF Buffer
<1> HIDE DEF c
<1>7. EventItems(b.events) = EventItems(left) \cup {x}
  BY <1>4, ItemSets
<1>8. Buffered(b) = Buffered(c) \cup {x}
  BY <1>6, <1>7, BufferedParts
<1>9. IsFiniteSet({x}) /\ Cardinality({x}) = 1
  BY FS_Singleton
<1>10. Counted(b, c, {}, {x})
  BY <1>1, <1>6, <1>8, <1>9 DEF Counted
<1>11. Accounted(b, c, {})
  BY <1>1, <1>5, <1>6, <1>8, <1>10 DEF Accounted
<1> QED
  BY <1>2, <1>4, <1>6, <1>11

(* Appending an event, with the eviction it may need, is accounted for.    *)
LEMMA AppendAccounts ==
    ASSUME NEW b \in Buffer, Len(b.events) <= MaxEvents, NEW e \in Event
    PROVE  LET c == AppendEvent(b, e)
           IN  /\ Accounted(b, c, {EventItem(e.id)}) /\ c.nextWindow = b.nextWindow
               /\ Len(c.events) <= MaxEvents
<1> DEFINE room == IF Len(b.events) >= MaxEvents THEN DropBufferedEvent(b) ELSE b
           c == [room EXCEPT !.events = Append(@, e)]
           x == EventItem(e.id)
<1>1. AppendEvent(b, e) = c
  BY DEF AppendEvent
<1>2. /\ Accounted(b, room, {}) /\ room.nextWindow = b.nextWindow
      /\ Len(room.events) < MaxEvents
  <2>1. CASE Len(b.events) >= MaxEvents
    <3>1. b.events # << >> /\ b.events \in Seq(Event) /\ Len(b.events) \in Nat /\ MaxEvents \in Nat
      BY <2>1, BufferFields, BufferAssumption
    <3>2. Accounted(b, DropBufferedEvent(b), {}) /\ DropBufferedEvent(b).nextWindow = b.nextWindow
          /\ Len(DropBufferedEvent(b).events) = Len(b.events) - 1
      BY <3>1, DropAccounts
    <3> QED
      BY <2>1, <3>1, <3>2
  <2>2. CASE ~(Len(b.events) >= MaxEvents)
    <3>1. b.events \in Seq(Event) /\ Len(b.events) \in Nat /\ MaxEvents \in Nat
      BY BufferFields, BufferAssumption
    <3>2. Accounted(b, b, {})
      BY AccountedSame
    <3> QED
      BY <2>2, <3>1, <3>2
  <2> QED
    BY <2>1, <2>2
<1> HIDE DEF room
<1>3. room \in Buffer /\ room.events \in Seq(Event) /\ room.droppedSinceLast \in Nat
      /\ room.nextWindow \in Nat
  BY <1>2, BufferFields DEF Accounted
<1>4. /\ Append(room.events, e) \in Seq(Event)
      /\ Len(Append(room.events, e)) = Len(room.events) + 1
      /\ ToSet(Append(room.events, e)) = ToSet(room.events) \cup {e}
  BY <1>3, ToSetAppend
<1>5. c \in Buffer
  BY <1>3, <1>4 DEF Buffer
<1>6. /\ c.events = Append(room.events, e) /\ c.closedWindows = room.closedWindows
      /\ c.droppedSinceLast = room.droppedSinceLast /\ c.nextWindow = room.nextWindow
  BY <1>3 DEF Buffer
<1> HIDE DEF c
<1>7. EventItems(c.events) = EventItems(room.events) \cup {x}
  BY <1>4, <1>6, ItemSets
<1>8. Buffered(c) = Buffered(room) \cup {x}
  BY <1>6, <1>7, BufferedParts
<1>9. Counted(room, c, {x}, {})
  BY <1>3, <1>6, <1>8, FS_EmptySet DEF Counted
<1>10. Accounted(room, c, {x})
  BY <1>3, <1>5, <1>6, <1>8, <1>9 DEF Accounted
<1>11. Accounted(b, c, {} \cup {x})
  BY <1>2, <1>10, AccountedTwice
<1>12. {} \cup {x} = {x}
  OBVIOUS
<1>13. Len(c.events) <= MaxEvents
  <2>1. Len(room.events) \in Nat /\ MaxEvents \in Nat
    BY <1>3, BufferAssumption
  <2> QED
    BY <1>2, <1>4, <1>6, <2>1
<1> QED
  BY <1>1, <1>2, <1>6, <1>11, <1>12, <1>13

(* A prefix has no other elements, and at most as many as asked for.       *)
LEMMA PrefixFacts ==
    ASSUME NEW S, NEW s \in Seq(S), NEW n \in Nat
    PROVE  /\ Prefix(s, n) \in Seq(S) /\ ToSet(Prefix(s, n)) \subseteq ToSet(s)
           /\ Len(Prefix(s, n)) <= n
<1> DEFINE k == IF n < Len(s) THEN n ELSE Len(s)
<1>1. k \in 0..Len(s) /\ k <= n
  OBVIOUS
<1> HIDE DEF k
<1>2. SubSeq(s, 1, k) \in Seq(S) /\ ToSet(SubSeq(s, 1, k)) \subseteq ToSet(s)
      /\ Len(SubSeq(s, 1, k)) = k
  BY <1>1, SplitFacts
<1> QED
  BY <1>1, <1>2 DEF Prefix, k

(* The rows offered for a batch are the items of the closed windows.       *)
LEMMA AllRowsFacts ==
    ASSUME NEW windows \in Seq(Window)
    PROVE  AllRows(windows) \in Seq(Ref) /\ ToSet(AllRows(windows)) = Rows(windows)
<1> DEFINE ss == [i \in DOMAIN windows |-> RowRefs(windows[i])]
<1>1. ASSUME NEW i \in DOMAIN windows
      PROVE  RowRefs(windows[i]) \in Seq(Ref) /\ ToSet(RowRefs(windows[i])) = RowItems(windows[i])
  <2> DEFINE w == windows[i]
  <2>1. w \in Window
    OBVIOUS
  <2> HIDE DEF w
  <2>2. w.id \in Nat \ {0} /\ w.rows \in Seq(Nat)
    BY <2>1 DEF Window
  <2>3. RowRefs(w) \in Seq(Ref)
    <3>1. RowRefs(w) \in [DOMAIN w.rows -> Ref]
      BY <2>2 DEF RowRefs, Ref
    <3> QED
      BY <2>2, <3>1, SameIndices
  <2>4. ToSet(RowRefs(w)) = RowItems(w)
    BY DEF RowRefs, RowItems, ToSet
  <2> QED
    BY <2>3, <2>4 DEF w
<1>2. ss \in Seq(Seq(Ref)) /\ DOMAIN ss = DOMAIN windows
  BY <1>1, SameIndices
<1>3. FlattenSeq(ss) \in Seq(Ref) /\ ToSet(FlattenSeq(ss)) = UNION {ToSet(ss[i]) : i \in DOMAIN ss}
  <2> HIDE DEF ss
  <2> QED
    BY <1>2, FlattenFacts
<1>4. UNION {ToSet(ss[i]) : i \in DOMAIN ss} = Rows(windows)
  BY <1>1 DEF Rows
<1> QED
  BY <1>3, <1>4 DEF AllRows

(* selectBatchLocked takes what is buffered, and leaves it buffered.       *)
LEMMA SelectFacts ==
    ASSUME NEW b \in Buffer
    PROVE  /\ SelectBatch(b) \in Batch /\ ItemsOf(SelectBatch(b)) \subseteq Buffered(b)
           /\ SelectBatch(b).dropped = b.droppedSinceLast
<1> DEFINE all == AllRows(b.closedWindows)
           counters == Prefix(all, MaxBatchCounters)
           rows == Prefix(counters, MaxBatchBytes)
           some == Prefix(b.events, MaxBatchEvents)
           events == Prefix(some, MaxBatchBytes - Len(rows))
           refs == {i \in DOMAIN b.closedWindows : RowItems(b.closedWindows[i]) \cap ToSet(rows) # {}}
           windows == Kept(b.closedWindows, refs)
<1>1. /\ b.events \in Seq(Event) /\ b.closedWindows \in Seq(Window) /\ b.droppedSinceLast \in Nat
      /\ MaxBatchCounters \in Nat /\ MaxBatchEvents \in Nat /\ MaxBatchBytes \in Nat
  BY BufferFields, BufferAssumption
<1>2. SelectBatch(b) = [events |-> events, counters |-> rows, windows |-> windows,
                        dropped |-> b.droppedSinceLast]
  BY DEF SelectBatch
<1>3. all \in Seq(Ref) /\ ToSet(all) = Rows(b.closedWindows)
  BY <1>1, AllRowsFacts
<1> HIDE DEF all
<1>4. counters \in Seq(Ref) /\ ToSet(counters) \subseteq ToSet(all)
  BY <1>1, <1>3, PrefixFacts
<1> HIDE DEF counters
<1>5. rows \in Seq(Ref) /\ ToSet(rows) \subseteq ToSet(counters) /\ Len(rows) <= MaxBatchBytes
  BY <1>1, <1>4, PrefixFacts
<1>6. some \in Seq(Event) /\ ToSet(some) \subseteq ToSet(b.events)
  BY <1>1, PrefixFacts
<1> HIDE DEF rows, some
<1>7. MaxBatchBytes - Len(rows) \in Nat
  <2>1. Len(rows) \in Nat
    BY <1>5
  <2> QED
    BY <1>1, <1>5, <2>1
<1>8. events \in Seq(Event) /\ ToSet(events) \subseteq ToSet(some)
  BY <1>6, <1>7, PrefixFacts
<1> HIDE DEF events, refs
<1>9. windows \in Seq(Window)
  BY <1>1, KeptFacts
<1> HIDE DEF windows
<1>10. SelectBatch(b) \in Batch
  BY <1>1, <1>2, <1>5, <1>8, <1>9 DEF Batch
<1>11. ItemsOf(SelectBatch(b)) = EventItems(events) \cup ToSet(rows)
  BY <1>2 DEF ItemsOf
<1>12. EventItems(events) \subseteq EventItems(b.events)
  BY <1>6, <1>8, ItemSets
<1>13. Buffered(b) = EventItems(b.events) \cup Rows(b.closedWindows)
  BY BufferedParts
<1> QED
  BY <1>2, <1>3, <1>4, <1>5, <1>10, <1>11, <1>12, <1>13

(* A window loses the rows of the batch and no others.                     *)
LEMMA WithoutFacts ==
    ASSUME NEW w \in Window, NEW t \in Batch
    PROVE  /\ Without(w, t) \in Window
           /\ RowItems(Without(w, t)) = RowItems(w) \ ToSet(t.counters)
<1> DEFINE I == {i \in DOMAIN w.rows : <<w.id, w.rows[i]>> \notin ToSet(t.counters)}
           rows == Kept(w.rows, I)
           c == [w EXCEPT !.rows = rows, !.sizeBytes = Len(rows)]
<1>1. Without(w, t) = c
  BY DEF Without
<1>2. w.rows \in Seq(Nat)
  BY DEF Window
<1>3. rows \in Seq(Nat) /\ ToSet(rows) = {w.rows[i] : i \in DOMAIN w.rows \cap I}
  BY <1>2, KeptFacts
<1>4. {w.rows[i] : i \in DOMAIN w.rows \cap I} = {w.rows[i] : i \in I}
  OBVIOUS
<1> HIDE DEF rows
<1>5. Len(rows) \in Nat
  BY <1>3
<1>6. c \in Window /\ c.id = w.id /\ c.rows = rows
  BY <1>3, <1>5 DEF Window
<1>7. RowItems(c) = {<<w.id, k>> : k \in ToSet(rows)}
  BY <1>6 DEF RowItems, ToSet
<1>8. RowItems(w) = {<<w.id, w.rows[i]>> : i \in DOMAIN w.rows}
  BY DEF RowItems
<1>9. RowItems(c) = {<<w.id, w.rows[i]>> : i \in I}
  BY <1>3, <1>4, <1>7
<1> HIDE DEF c
<1>10. RowItems(c) = RowItems(w) \ ToSet(t.counters)
  BY <1>8, <1>9
<1> QED
  BY <1>1, <1>6, <1>10

(* Events and rows have different items.                                   *)
LEMMA EventsAreNotRows ==
    /\ \A events \in Seq(Event), refs \in Seq(Ref) : EventItems(events) \cap ToSet(refs) = {}
    /\ \A events \in Seq(Event), windows \in Seq(Window) : EventItems(events) \cap Rows(windows) = {}
<1>1. \A events : \A x \in EventItems(events) : x[1] = 0
  BY DEF EventItems, EventItem
<1>2. ASSUME NEW refs \in Seq(Ref), NEW x \in ToSet(refs) PROVE x[1] # 0
  BY DEF ToSet, Ref
<1>3. ASSUME NEW windows \in Seq(Window), NEW x \in Rows(windows) PROVE x[1] # 0
  <2>1. PICK i \in DOMAIN windows : x \in RowItems(windows[i])
    BY DEF Rows
  <2>2. windows[i] \in Window
    OBVIOUS
  <2>3. windows[i].id # 0
    BY <2>2 DEF Window
  <2> QED
    BY <2>1, <2>3 DEF RowItems
<1> QED
  BY <1>1, <1>2, <1>3

(* removeSelectedLocked takes out the batch and nothing else.              *)
LEMMA RemoveFacts ==
    ASSUME NEW b \in Buffer, NEW t \in Batch
    PROVE  LET c == RemoveSelected(b, t)
           IN  /\ c \in Buffer /\ Len(c.events) <= Len(b.events)
               /\ c.nextWindow = b.nextWindow /\ c.droppedSinceLast = b.droppedSinceLast
               /\ Buffered(c) = Buffered(b) \ ItemsOf(t)
<1> DEFINE shrunk == [i \in DOMAIN t.windows |-> Without(t.windows[i], t)]
           left == [i \in DOMAIN b.closedWindows |-> Without(b.closedWindows[i], t)]
           E == {i \in DOMAIN b.events : EventItem(b.events[i].id) \notin EventItems(t.events)}
           W == {i \in DOMAIN left : left[i].rows # << >>}
           events == Kept(b.events, E)
           windows == Kept(left, W)
           bytes == b.retainedWindowBytes - BytesIn(t.windows) + BytesIn(shrunk)
           c == [b EXCEPT !.events = events, !.closedWindows = windows,
                          !.retainedWindowBytes = bytes]
<1>1. /\ b.events \in Seq(Event) /\ b.closedWindows \in Seq(Window) /\ b.retainedWindowBytes \in Int
      /\ t.windows \in Seq(Window) /\ t.events \in Seq(Event) /\ t.counters \in Seq(Ref)
  BY BufferFields DEF Batch
<1>2. RemoveSelected(b, t) = c
  BY DEF RemoveSelected
<1>3. shrunk \in Seq(Window) /\ left \in Seq(Window) /\ DOMAIN left = DOMAIN b.closedWindows
  <2>1. \A i \in DOMAIN t.windows : Without(t.windows[i], t) \in Window
    BY <1>1, WithoutFacts
  <2>2. \A i \in DOMAIN b.closedWindows : Without(b.closedWindows[i], t) \in Window
    BY <1>1, WithoutFacts
  <2>3. shrunk \in Seq(Window)
    BY <1>1, <2>1, SameIndices
  <2>4. left \in Seq(Window)
    BY <1>1, <2>2, SameIndices
  <2> QED
    BY <2>3, <2>4
<1>4. \A i \in DOMAIN left : RowItems(left[i]) = RowItems(b.closedWindows[i]) \ ToSet(t.counters)
  BY <1>1, WithoutFacts
<1> HIDE DEF shrunk, left
<1>5. bytes \in Int
  BY <1>1, <1>3, RowsBound
<1>6. /\ events \in Seq(Event) /\ Len(events) <= Len(b.events)
      /\ ToSet(events) = {b.events[i] : i \in DOMAIN b.events \cap E}
  BY <1>1, KeptFacts
<1>7. windows \in Seq(Window) /\ ToSet(windows) = {left[i] : i \in DOMAIN left \cap W}
  BY <1>3, KeptFacts
<1> HIDE DEF events, windows, bytes
<1>8. c \in Buffer
  BY <1>5, <1>6, <1>7 DEF Buffer
<1>9. /\ c.events = events /\ c.closedWindows = windows /\ c.nextWindow = b.nextWindow
      /\ c.droppedSinceLast = b.droppedSinceLast
  BY DEF Buffer
<1>10. EventItems(events) = EventItems(b.events) \ EventItems(t.events)
  <2>1. EventItems(events) = {EventItem(e.id) : e \in ToSet(events)}
    BY ItemSets
  <2>2. EventItems(events) = {EventItem(b.events[i].id) : i \in DOMAIN b.events \cap E}
    BY <1>6, <2>1
  <2>3. EventItems(b.events) = {EventItem(b.events[i].id) : i \in DOMAIN b.events}
    BY DEF EventItems
  <2> QED
    BY <2>2, <2>3
<1>11. Rows(windows) = Rows(b.closedWindows) \ ToSet(t.counters)
  <2>1. Rows(windows) = UNION {RowItems(w) : w \in ToSet(windows)}
    BY ItemSets
  <2>2. Rows(windows) = UNION {RowItems(left[i]) : i \in DOMAIN left \cap W}
    BY <1>7, <2>1
  <2>3. \A i \in DOMAIN left : i \notin W => RowItems(left[i]) = {}
    BY DEF RowItems
  <2>4. Rows(b.closedWindows) = UNION {RowItems(b.closedWindows[i]) : i \in DOMAIN b.closedWindows}
    BY DEF Rows
  <2>5. Rows(windows) = UNION {RowItems(left[i]) : i \in DOMAIN left}
    BY <2>2, <2>3
  <2> QED
    BY <1>3, <1>4, <2>4, <2>5
<1> HIDE DEF c
<1>12. Buffered(c) = EventItems(events) \cup Rows(windows)
  BY <1>9, BufferedParts
<1>13. Buffered(b) = EventItems(b.events) \cup Rows(b.closedWindows)
  BY BufferedParts
<1>14. ItemsOf(t) = EventItems(t.events) \cup ToSet(t.counters)
  BY DEF ItemsOf
<1>15. /\ EventItems(b.events) \cap ToSet(t.counters) = {}
       /\ EventItems(t.events) \cap Rows(b.closedWindows) = {}
  BY <1>1, EventsAreNotRows
<1>16. Buffered(c) = Buffered(b) \ ItemsOf(t)
  BY <1>10, <1>11, <1>12, <1>13, <1>14, <1>15
<1> QED
  BY <1>2, <1>6, <1>8, <1>9, <1>16

(* A minute passing changes no item.                                       *)
LEMMA AgedFacts ==
    ASSUME NEW b \in Buffer
    PROVE  LET c == Aged(b)
           IN  /\ Accounted(b, c, {}) /\ c.nextWindow = b.nextWindow /\ c.events = b.events
<1> DEFINE ws == [i \in DOMAIN b.closedWindows |-> AgedWindow(b.closedWindows[i])]
           age == IF b.hasWindow THEN Older(b.windowAge) ELSE b.windowAge
           c == [b EXCEPT !.windowAge = age, !.closedWindows = ws]
<1>1. b.closedWindows \in Seq(Window) /\ b.windowAge \in Nat /\ RetentionMinutes \in Nat
  BY BufferFields, BufferAssumption
<1>2. Aged(b) = c
  BY DEF Aged, AgedMinute, Buffer
<1>3. \A n \in Nat : Older(n) \in Nat
  BY <1>1 DEF Older
<1>4. ASSUME NEW i \in DOMAIN b.closedWindows
      PROVE  ws[i] \in Window /\ RowItems(ws[i]) = RowItems(b.closedWindows[i])
  <2> DEFINE w == b.closedWindows[i]
  <2>1. w \in Window /\ ws[i] = AgedWindow(w)
    BY <1>1
  <2> HIDE DEF w, ws
  <2>2. w \in Window /\ ws[i] = AgedWindow(w) /\ w.age \in Nat
    BY <2>1 DEF Window
  <2>3. Older(w.age) \in Nat
    BY <1>3, <2>2
  <2>4. AgedWindow(w) \in Window /\ AgedWindow(w).id = w.id /\ AgedWindow(w).rows = w.rows
    BY <2>2, <2>3 DEF AgedWindow, Window
  <2>5. RowItems(AgedWindow(w)) = RowItems(w)
    BY <2>4 DEF RowItems
  <2> QED
    BY <2>2, <2>4, <2>5 DEF w
<1>5. ws \in Seq(Window) /\ DOMAIN ws = DOMAIN b.closedWindows
  BY <1>1, <1>4, SameIndices
<1>6. Rows(ws) = Rows(b.closedWindows)
  BY <1>4, <1>5 DEF Rows
<1>7. age \in Nat
  BY <1>1, <1>3
<1> HIDE DEF ws, age
<1>8. c \in Buffer
  BY <1>5, <1>7 DEF Buffer
<1>9. /\ c.events = b.events /\ c.closedWindows = ws /\ c.nextWindow = b.nextWindow
      /\ c.droppedSinceLast = b.droppedSinceLast
  BY DEF Buffer
<1> HIDE DEF c
<1>10. Buffered(c) = Buffered(b)
  BY <1>6, <1>9, BufferedParts
<1>11. b.droppedSinceLast \in Nat /\ b.nextWindow \in Nat
  BY BufferFields
<1>12. Counted(b, c, {}, {})
  BY <1>9, <1>10, <1>11, FS_EmptySet DEF Counted
<1>13. Accounted(b, c, {})
  BY <1>8, <1>9, <1>10, <1>11, <1>12 DEF Accounted
<1> QED
  BY <1>2, <1>9, <1>13

(* onRequest: what a finished call does to the buffer is accounted for.    *)
LEMMA RecordedAccounts ==
    ASSUME buf \in Buffer, Len(buf.events) <= MaxEvents,
           NEW kind \in Kinds, NEW keys \in Seq(Nat), NEW id \in Nat
    PROVE  LET c == Recorded(kind, keys, id)
               new == ClosedRows(buf, c) \cup (IF kind = "unsampled" THEN {} ELSE {EventItem(id)})
           IN  Accounted(buf, c, new) /\ Len(c.events) <= MaxEvents
<1> DEFINE r == RollWindow(buf)
           m == MergeCounters(r, keys)
           k == IF kind = "invalid" THEN [m EXCEPT !.droppedSinceLast = @ + 1] ELSE m
           e == [id |-> id, ok |-> kind # "failure"]
           c == IF Sampled(kind) THEN AppendEvent(k, e) ELSE k
           x == EventItem(id)
<1>1. Recorded(kind, keys, id) = c
  BY DEF Recorded
<1>2. Rolls(buf, r) /\ r \in Buffer
  BY RollWindowRolls DEF Rolls, Accounted
<1> HIDE DEF r
<1>3. Rolls(buf, m) /\ m \in Buffer
  <2>1. Accounted(r, m, {}) /\ m.events = r.events /\ m.nextWindow = r.nextWindow
    BY <1>2, MergeAccounts
  <2> HIDE DEF m
  <2> QED
    BY <1>2, <2>1, RollsThenSame DEF Accounted
<1> HIDE DEF m
<1>4. Accounted(buf, m, ClosedRows(buf, m)) /\ Len(m.events) <= MaxEvents
  BY <1>3 DEF Rolls
<1>5. CASE kind = "unsampled"
  <2>1. c = m
    BY <1>5 DEF Sampled
  <2>2. ClosedRows(buf, m) \cup {} = ClosedRows(buf, m)
    OBVIOUS
  <2> QED
    BY <1>1, <1>4, <1>5, <2>1, <2>2
<1>6. CASE kind = "invalid"
  <2>1. c = [m EXCEPT !.droppedSinceLast = @ + 1]
    BY <1>6 DEF Sampled
  <2>2. Accounted(m, c, {x}) /\ c.events = m.events /\ c.nextWindow = m.nextWindow
    BY <1>3, <2>1, InvalidAccounts
  <2> HIDE DEF c, x
  <2>3. Accounted(buf, c, ClosedRows(buf, m) \cup {x})
    BY <1>4, <2>2, AccountedTwice
  <2>4. ClosedRows(buf, m) = ClosedRows(buf, c)
    BY <2>2 DEF ClosedRows
  <2> QED
    BY <1>1, <1>4, <1>6, <2>2, <2>3, <2>4 DEF x
<1>7. CASE Sampled(kind)
  <2>1. c = AppendEvent(m, e) /\ e \in Event /\ e.id = id /\ kind # "unsampled"
    BY <1>7 DEF Sampled, Event
  <2>2. Accounted(m, c, {x}) /\ c.nextWindow = m.nextWindow /\ Len(c.events) <= MaxEvents
    BY <1>3, <1>4, <2>1, AppendAccounts
  <2> HIDE DEF c, x
  <2>3. Accounted(buf, c, ClosedRows(buf, m) \cup {x})
    BY <1>4, <2>2, AccountedTwice
  <2>4. ClosedRows(buf, m) = ClosedRows(buf, c)
    BY <2>2 DEF ClosedRows
  <2> QED
    BY <1>1, <2>1, <2>2, <2>3, <2>4 DEF x
<1> QED
  BY <1>5, <1>6, <1>7 DEF Kinds, Sampled

(* The number of an item was given out: events are numbered by the calls   *)
(* that finished, windows by the buffer.                                   *)
Known(x, nextWindow, finished) ==
    IF x[1] = 0 THEN x[2] <= finished ELSE x[1] < nextWindow

(* The rows of a window that is closed are new: they carry its number.     *)
LEMMA ClosedRowsNew ==
    ASSUME NEW b \in Buffer, NEW c \in Buffer, b.nextWindow <= c.nextWindow, NEW n
    PROVE  LET new == ClosedRows(b, c)
           IN  /\ IsFiniteSet(new) /\ new \subseteq Nat \X Nat
               /\ \A x \in new : Known(x, c.nextWindow, n) /\ ~Known(x, b.nextWindow, n)
<1>1. b.current \in Seq(Nat) /\ b.nextWindow \in Nat \ {0} /\ c.nextWindow \in Nat \ {0}
  BY BufferFields
<1>2. CASE c.nextWindow = b.nextWindow
  BY <1>2, FS_EmptySet DEF ClosedRows
<1>3. CASE c.nextWindow # b.nextWindow
  <2> DEFINE h == [i \in 1..Len(b.current) |-> <<b.nextWindow, b.current[i]>>]
  <2>1. DOMAIN b.current = 1..Len(b.current) /\ Len(b.current) \in Nat
    BY <1>1
  <2>2. ClosedRows(b, c) = {h[i] : i \in 1..Len(b.current)}
    BY <1>3, <2>1 DEF ClosedRows
  <2>3. IsFiniteSet({h[i] : i \in 1..Len(b.current)})
    <3> HIDE DEF h
    <3> QED
      BY <2>1, ImageBound
  <2>4. ASSUME NEW x \in ClosedRows(b, c)
        PROVE  x \in Nat \X Nat /\ x[1] = b.nextWindow
    <3>1. PICK i \in 1..Len(b.current) : x = h[i]
      BY <2>2
    <3>2. x = <<b.nextWindow, b.current[i]>>
      BY <3>1
    <3>3. b.current[i] \in Nat
      BY <1>1, <2>1
    <3> QED
      BY <1>1, <3>2, <3>3
  <2>5. b.nextWindow < c.nextWindow /\ b.nextWindow # 0 /\ ~(b.nextWindow < b.nextWindow)
    BY <1>1, <1>3
  <2> QED
    BY <2>2, <2>3, <2>4, <2>5 DEF Known
<1> QED
  BY <1>2, <1>3

-----------------------------------------------------------------------------
(* The books.                                                              *)

(* The state of the books has its types.                                   *)
LedgerTypes ==
    /\ buf \in Buffer /\ Len(buf.events) <= MaxEvents
    /\ batch \in [Flushers -> Batch]
    /\ acked \in Nat /\ requests \in Nat
    /\ IsFiniteSet(taken) /\ taken \subseteq Nat \X Nat

(* What is buffered, in flight or accepted has been taken charge of; the   *)
(* numbers of the next event and of the next window are new.               *)
Charge ==
    /\ Buffered(buf) \subseteq taken /\ served \subseteq taken
    /\ \A f \in Flushers : pc[f] = "posting" => ItemsOf(batch[f]) \subseteq taken
    /\ \A x \in taken : Known(x, buf.nextWindow, requests)

(* While no reply was lost, nothing accepted is still to be sent.          *)
SentOnce ==
    ~replyLost =>
        /\ served \cap Buffered(buf) = {}
        /\ \A f \in Flushers : pc[f] = "posting" => served \cap ItemsOf(batch[f]) = {}

(* The invariant.  NoSilentLoss needs the types for its counting, Charge   *)
(* so that a flush gives back only what was taken, and SentOnce rests on   *)
(* the freshness in Charge.                                                *)
LedgerInv == LedgerTypes /\ Charge /\ SentOnce /\ NoSilentLoss

(* A step that changes the buffer as accounted, takes charge of new items, *)
(* and perhaps begins a flush with what is buffered.                       *)
LEMMA BufferStep ==
    ASSUME LedgerInv, NEW new, Accounted(buf, buf', new), Len(buf'.events) <= MaxEvents,
           IsFiniteSet(new), new \subseteq Nat \X Nat,
           \A x \in new : Known(x, buf'.nextWindow, requests') /\ ~Known(x, buf.nextWindow, requests),
           taken' = taken \cup new, UNCHANGED <<served, acked, replyLost, disabled>>,
           requests' \in Nat, requests <= requests', batch' \in [Flushers -> Batch],
           \A f \in Flushers : pc'[f] = "posting" =>
                \/ pc[f] = "posting" /\ batch'[f] = batch[f]
                \/ ItemsOf(batch'[f]) \subseteq Buffered(buf')
    PROVE  LedgerInv'
<1>1. /\ buf \in Buffer /\ buf' \in Buffer /\ buf.nextWindow <= buf'.nextWindow
      /\ Buffered(buf') \subseteq Buffered(buf) \cup new
  BY DEF LedgerInv, LedgerTypes, Accounted
<1>2. /\ buf.nextWindow \in Nat /\ buf'.nextWindow \in Nat /\ requests \in Nat
      /\ buf.droppedSinceLast \in Nat /\ buf'.droppedSinceLast \in Nat /\ acked \in Nat
  BY <1>1, BufferFields DEF LedgerInv, LedgerTypes
<1>3. IsFiniteSet(taken') /\ taken' \subseteq Nat \X Nat
  BY FS_Union DEF LedgerInv, LedgerTypes
<1>4. LedgerTypes'
  BY <1>1, <1>2, <1>3 DEF LedgerTypes
<1>5. new \cap taken = {}
  BY DEF LedgerInv, Charge
<1>6. Charge'
  <2>1. \A x \in taken : Known(x, buf'.nextWindow, requests')
    <3> SUFFICES ASSUME NEW x \in taken PROVE Known(x, buf'.nextWindow, requests')
      OBVIOUS
    <3>1. Known(x, buf.nextWindow, requests) /\ x[1] \in Nat /\ x[2] \in Nat
      BY DEF LedgerInv, LedgerTypes, Charge
    <3> QED
      BY <1>1, <1>2, <3>1 DEF Known
  <2>2. Buffered(buf') \subseteq taken' /\ served' \subseteq taken'
    BY <1>1 DEF LedgerInv, Charge
  <2>3. \A f \in Flushers : pc'[f] = "posting" => ItemsOf(batch'[f]) \subseteq taken'
    BY <2>2 DEF LedgerInv, Charge
  <2>4. \A x \in taken' : Known(x, buf'.nextWindow, requests')
    BY <2>1
  <2> QED
    BY <2>2, <2>3, <2>4 DEF Charge
<1>7. SentOnce'
  <2> SUFFICES ASSUME ~replyLost
               PROVE  /\ served \cap Buffered(buf') = {}
                      /\ \A f \in Flushers : pc'[f] = "posting" => served \cap ItemsOf(batch'[f]) = {}
    BY DEF SentOnce
  <2>1. /\ served \cap Buffered(buf) = {} /\ served \subseteq taken
        /\ \A f \in Flushers : pc[f] = "posting" => served \cap ItemsOf(batch[f]) = {}
    BY DEF LedgerInv, SentOnce, Charge
  <2>2. served \cap Buffered(buf') = {}
    BY <1>1, <1>5, <2>1
  <2> QED
    BY <2>1, <2>2
<1>8. NoSilentLoss'
  <2> SUFFICES ASSUME ~disabled
               PROVE  Cardinality(Lost') <= acked + buf'.droppedSinceLast
    BY DEF NoSilentLoss
  <2>1. PICK lost : Counted(buf, buf', new, lost)
    BY DEF Accounted
  <2>2. Lost' \subseteq Lost \cup lost
    BY <2>1 DEF Lost, Counted
  <2>3. IsFiniteSet(Lost) /\ IsFiniteSet(lost)
    BY <2>1, FS_Subset DEF Lost, Counted, LedgerInv, LedgerTypes
  <2>4. Cardinality(Lost) <= acked + buf.droppedSinceLast
    BY DEF LedgerInv, NoSilentLoss
  <2>5. buf.droppedSinceLast + Cardinality(lost) <= buf'.droppedSinceLast
    BY <2>1 DEF Counted
  <2>6. Cardinality(Lost') <= Cardinality(Lost) + Cardinality(lost)
        /\ Cardinality(Lost) \in Nat /\ Cardinality(lost) \in Nat /\ Cardinality(Lost') \in Nat
    BY <2>2, <2>3, UnionAtMost
  <2> QED
    BY <1>2, <2>4, <2>5, <2>6
<1> QED
  BY <1>4, <1>6, <1>7, <1>8 DEF LedgerInv

(* Steps that leave the buffer and the ledger alone and begin no flush.    *)
LEMMA LedgerUnrelated ==
    ASSUME LedgerInv, UNCHANGED <<buf, taken, served, acked, replyLost, disabled, batch>>,
           requests' \in Nat, requests <= requests',
           \A f \in Flushers : pc'[f] = "posting" => pc[f] = "posting"
    PROVE  LedgerInv'
<1>1. buf \in Buffer /\ Len(buf.events) <= MaxEvents /\ batch \in [Flushers -> Batch]
  BY DEF LedgerInv, LedgerTypes
<1>2. Accounted(buf, buf', {})
  BY <1>1, AccountedSame
<1>3. IsFiniteSet({}) /\ {} \subseteq Nat \X Nat /\ taken' = taken \cup {}
  BY FS_EmptySet
<1> QED
  BY <1>1, <1>2, <1>3, BufferStep

(* Time passing keeps the ledger.                                          *)
LEMMA LedgerTick == ASSUME LedgerInv, Tick PROVE LedgerInv'
<1>1. /\ UNCHANGED <<taken, served, acked, replyLost, disabled, batch, pc, requests>>
      /\ buf' = Aged(buf)
  BY DEF Tick, flags, ledger
<1>2. /\ buf \in Buffer /\ Len(buf.events) <= MaxEvents /\ batch \in [Flushers -> Batch]
      /\ requests \in Nat
  BY DEF LedgerInv, LedgerTypes
<1>3. Accounted(buf, buf', {}) /\ buf'.events = buf.events
  BY <1>1, <1>2, AgedFacts
<1>4. IsFiniteSet({}) /\ {} \subseteq Nat \X Nat /\ taken' = taken \cup {}
  BY <1>1, FS_EmptySet
<1>5. requests' \in Nat /\ requests <= requests'
  BY <1>1, <1>2
<1> QED
  BY <1>1, <1>2, <1>3, <1>4, <1>5, BufferStep

(* A reported call enters the ledger.                                      *)
LEMMA LedgerRequest == ASSUME LedgerInv, OffInv, OnRequest PROVE LedgerInv'
<1>1. /\ buf \in Buffer /\ Len(buf.events) <= MaxEvents /\ batch \in [Flushers -> Batch]
      /\ requests \in Nat
  BY DEF LedgerInv, LedgerTypes
<1>2. /\ UNCHANGED <<served, acked, replyLost, disabled, batch>>
      /\ requests' = requests + 1 /\ requests' \in Nat /\ requests <= requests'
  BY <1>1 DEF OnRequest, flags
<1>3. \A f \in Flushers : pc'[f] = "posting" => pc[f] = "posting"
  <2>1. pc' = pc \/ pc' = [pc EXCEPT !["worker"] = "loop"]
    BY DEF OnRequest
  <2> QED
    BY <2>1 DEF OffInv, PCShape
<1>4. CASE RefusesRequests
  <2>1. UNCHANGED <<buf, taken>>
    BY <1>4 DEF OnRequest
  <2> QED
    BY <1>2, <1>3, <2>1, LedgerUnrelated
<1>5. CASE ~RefusesRequests
  <2>1. PICK k \in Finishes :
              /\ buf' = Recorded(k.kind, k.keys, requests + 1)
              /\ taken' = taken \cup ClosedRows(buf, buf')
                            \cup (IF k.kind = "unsampled" THEN {} ELSE {EventItem(requests + 1)})
    BY <1>5 DEF OnRequest
  <2>2. k.kind \in Kinds /\ k.keys \in Seq(Nat)
    BY ReporterAssumption
  <2> DEFINE x == EventItem(requests + 1)
             own == IF k.kind = "unsampled" THEN {} ELSE {x}
             new == ClosedRows(buf, buf') \cup own
  <2>3. Accounted(buf, buf', new) /\ Len(buf'.events) <= MaxEvents
    <3>1. requests + 1 \in Nat
      BY <1>1
    <3> QED
      BY <1>1, <2>1, <2>2, <3>1, RecordedAccounts
  <2>4. buf' \in Buffer /\ buf.nextWindow <= buf'.nextWindow
    BY <2>3 DEF Accounted
  <2>5. LET rows == ClosedRows(buf, buf')
        IN  /\ IsFiniteSet(rows) /\ rows \subseteq Nat \X Nat
            /\ \A y \in rows : /\ Known(y, buf'.nextWindow, requests')
                               /\ ~Known(y, buf.nextWindow, requests')
            /\ \A y \in rows : /\ Known(y, buf'.nextWindow, requests)
                               /\ ~Known(y, buf.nextWindow, requests)
    BY <1>1, <2>4, ClosedRowsNew
  <2>6. /\ IsFiniteSet(own) /\ x \in Nat \X Nat
        /\ Known(x, buf'.nextWindow, requests') /\ ~Known(x, buf.nextWindow, requests)
    <3>1. IsFiniteSet(own)
      BY FS_EmptySet, FS_Singleton
    <3>2. x = <<0, requests + 1>> /\ requests + 1 \in Nat /\ ~(requests + 1 <= requests)
      BY <1>1 DEF EventItem
    <3> QED
      BY <1>2, <3>1, <3>2 DEF Known
  <2>7. IsFiniteSet(new) /\ new \subseteq Nat \X Nat /\ taken' = taken \cup new
    <3>1. IsFiniteSet(new)
      BY <2>5, <2>6, FS_Union
    <3>2. own \subseteq {x}
      OBVIOUS
    <3> HIDE DEF x
    <3>3. taken' = taken \cup new
      BY <2>1 DEF x
    <3> HIDE DEF own
    <3> QED
      BY <2>5, <2>6, <3>1, <3>2, <3>3
  <2>8. \A y \in new : Known(y, buf'.nextWindow, requests') /\ ~Known(y, buf.nextWindow, requests)
    <3>1. own \subseteq {x}
      OBVIOUS
    <3> HIDE DEF own, x
    <3> QED
      BY <2>5, <2>6, <3>1
  <2>9. batch' \in [Flushers -> Batch]
    BY <1>1, <1>2
  <2> HIDE DEF new
  <2> QED
    BY <1>2, <1>3, <2>3, <2>7, <2>8, <2>9, BufferStep
<1> QED
  BY <1>4, <1>5

(* The worker's own steps keep the ledger.                                 *)
LEMMA LedgerWorker == ASSUME LedgerInv, OffInv, Worker PROVE LedgerInv'
<1>1. UNCHANGED <<buf, taken, served, acked, replyLost, disabled, batch, requests>>
  BY DEF Worker, WorkerDecides, WorkerWakes, WorkerUnchanged, flags, ledger
<1>2. \E p \in {"loop", "waiting", "lock", "done"} : pc' = [pc EXCEPT !["worker"] = p]
  BY DEF Worker, WorkerDecides, WorkerWakes
<1>3. \A f \in Flushers : pc'[f] = "posting" => pc[f] = "posting"
  BY <1>2 DEF OffInv, PCShape
<1>4. requests' \in Nat /\ requests <= requests'
  BY <1>1 DEF LedgerInv, LedgerTypes
<1> QED
  BY <1>1, <1>3, <1>4, LedgerUnrelated

(* Creating and closing the reporter keep the ledger.                      *)
LEMMA LedgerClose ==
    ASSUME LedgerInv, OffInv, CreateReporter \/ ClientClose \/ CloseDeadline \/ CloseAdvances
    PROVE  LedgerInv'
<1>1. UNCHANGED <<buf, taken, served, acked, replyLost, disabled, batch, requests>>
  BY DEF CreateReporter, ClientClose, CloseDeadline, CloseAdvances, flags, ledger
<1>2. pc' = pc \/ pc' = [pc EXCEPT !["final"] = "lock"]
  BY DEF CreateReporter, ClientClose, CloseDeadline, CloseAdvances
<1>3. \A f \in Flushers : pc'[f] = "posting" => pc[f] = "posting"
  BY <1>2 DEF OffInv, PCShape
<1>4. requests' \in Nat /\ requests <= requests'
  BY <1>1 DEF LedgerInv, LedgerTypes
<1> QED
  BY <1>1, <1>3, <1>4, LedgerUnrelated

(* A flush closes the current minute; its batch is what is then buffered.  *)
LEMMA LedgerFlush == ASSUME LedgerInv, OffInv, NEW f \in Flushers, Flush(f) PROVE LedgerInv'
<1>1. /\ buf \in Buffer /\ Len(buf.events) <= MaxEvents /\ batch \in [Flushers -> Batch]
      /\ requests \in Nat
  BY DEF LedgerInv, LedgerTypes
<1>2. /\ UNCHANGED <<served, acked, replyLost, disabled, requests>>
      /\ requests' \in Nat /\ requests <= requests'
  BY <1>1 DEF Flush, FlushSkipped, FlushBegins, flags
<1>3. ASSUME buf' = BeforeSelect(buf)
      PROVE  LET rows == ClosedRows(buf, buf')
             IN  /\ Accounted(buf, buf', rows) /\ Len(buf'.events) <= MaxEvents
                 /\ IsFiniteSet(rows) /\ rows \subseteq Nat \X Nat
                 /\ \A y \in rows : /\ Known(y, buf'.nextWindow, requests')
                                    /\ ~Known(y, buf.nextWindow, requests)
  <2>1. Rolls(buf, buf')
    BY <1>1, <1>3, BeforeSelectRolls
  <2>2. buf' \in Buffer /\ buf.nextWindow <= buf'.nextWindow /\ buf'.events = buf.events
    BY <2>1 DEF Rolls, Accounted
  <2> QED
    BY <1>1, <1>2, <2>1, <2>2, ClosedRowsNew DEF Rolls
<1>4. CASE FlushSkipped(f)
  <2>1. batch' = batch /\ \A g \in Flushers : pc'[g] = "posting" => pc[g] = "posting"
    BY <1>4 DEF FlushSkipped, AfterFlush, OffInv, PCShape
  <2>2. CASE UNCHANGED <<buf, taken>>
    BY <1>2, <2>1, <2>2, LedgerUnrelated
  <2>3. CASE buf' = BeforeSelect(buf) /\ taken' = taken \cup ClosedRows(buf, buf')
    BY <1>1, <1>2, <1>3, <2>1, <2>3, BufferStep
  <2> QED
    BY <1>4, <2>2, <2>3 DEF FlushSkipped
<1>5. CASE FlushBegins(f)
  <2>1. /\ buf' = BeforeSelect(buf) /\ taken' = taken \cup ClosedRows(buf, buf')
        /\ batch' = [batch EXCEPT ![f] = SelectBatch(buf')]
        /\ pc' = [pc EXCEPT ![f] = "posting"]
    BY <1>5 DEF FlushBegins
  <2>2. buf' \in Buffer
    BY <1>3, <2>1 DEF Accounted
  <2>3. SelectBatch(buf') \in Batch /\ ItemsOf(SelectBatch(buf')) \subseteq Buffered(buf')
    BY <2>2, SelectFacts
  <2>4. batch' \in [Flushers -> Batch]
    BY <1>1, <2>1, <2>3
  <2>5. ASSUME NEW g \in Flushers, pc'[g] = "posting"
        PROVE  \/ pc[g] = "posting" /\ batch'[g] = batch[g]
               \/ ItemsOf(batch'[g]) \subseteq Buffered(buf')
    BY <1>1, <2>1, <2>3, <2>5 DEF OffInv, PCShape
  <2> QED
    BY <1>2, <1>3, <2>1, <2>4, <2>5, BufferStep
<1> QED
  BY <1>4, <1>5 DEF Flush

(* No batch is a batch of nothing.                                         *)
LEMMA NoBatchType == NoBatch \in Batch
<1>1. << >> \in Seq(Event) /\ << >> \in Seq(Ref) /\ << >> \in Seq(Window)
  OBVIOUS
<1> QED
  BY <1>1 DEF NoBatch, Batch

(* An emptied buffer is a buffer without items.                            *)
LEMMA EmptiedFacts ==
    ASSUME NEW b \in Buffer
    PROVE  /\ Emptied(b) \in Buffer /\ Buffered(Emptied(b)) = {}
           /\ Emptied(b).nextWindow = b.nextWindow /\ Emptied(b).events = << >>
<1>1. << >> \in Seq(Event) /\ << >> \in Seq(Nat) /\ << >> \in Seq(Window)
  OBVIOUS
<1>2. Emptied(b) \in Buffer
  BY <1>1, BufferFields DEF Emptied, Buffer
<1>3. /\ Emptied(b).events = << >> /\ Emptied(b).closedWindows = << >>
      /\ Emptied(b).nextWindow = b.nextWindow
  BY DEF Emptied
<1>4. Buffered(Emptied(b)) = {}
  BY <1>3 DEF Buffered, EventItems
<1> QED
  BY <1>2, <1>3, <1>4

(* The end of a POST, whatever the answer: no flush is left in flight.     *)
LEMMA PostLeavesNone ==
    ASSUME OffInv, NEW f \in Flushers, Post(f)
    PROVE  ~disabled /\ pc[f] = "posting" /\ PostEnds(f) /\ \A g \in Flushers : pc'[g] # "posting"
<1>1. pc[f] = "posting" /\ PostEnds(f)
  BY DEF Post, PostFails, PostAnswered
<1>2. pc' = [pc EXCEPT ![f] = AfterFlush(f)] /\ AfterFlush(f) \in {"loop", "done"}
  BY <1>1 DEF PostEnds, AfterFlush
<1>3. \A g \in Flushers : pc'[g] # "posting"
  BY <1>1, <1>2 DEF OffInv, PCShape, OneFlush
<1>4. ~disabled
  BY <1>1 DEF OffInv, Posting
<1> QED
  BY <1>1, <1>3, <1>4

(* What the end of a POST has to establish about the buffer.               *)
LEMMA LedgerAfterPost ==
    ASSUME LedgerInv, OffInv, NEW f \in Flushers, Post(f),
           buf' \in Buffer, Len(buf'.events) <= MaxEvents, buf'.nextWindow = buf.nextWindow,
           Buffered(buf') \subseteq Buffered(buf), acked' \in Nat,
           served' \in {served, served \cup ItemsOf(batch[f])},
           ~replyLost' => ~replyLost /\ served' \cap Buffered(buf') = {},
           NoSilentLoss'
    PROVE  LedgerInv'
<1>1. /\ pc[f] = "posting" /\ PostEnds(f) /\ \A g \in Flushers : pc'[g] # "posting"
  BY PostLeavesNone
<1>2. taken' = taken /\ requests' = requests /\ batch' = [batch EXCEPT ![f] = NoBatch]
  BY <1>1 DEF PostEnds
<1>3. LedgerTypes'
  BY <1>2, NoBatchType DEF LedgerTypes, LedgerInv
<1>4. served' \subseteq taken'
  BY <1>1, <1>2 DEF LedgerInv, Charge
<1>5. Charge'
  BY <1>1, <1>2, <1>4 DEF LedgerInv, Charge
<1>6. SentOnce'
  BY <1>1 DEF SentOnce
<1> QED
  BY <1>3, <1>5, <1>6 DEF LedgerInv

(* What is lost can only shrink when more is served.                       *)
LEMMA LostShrinks ==
    ASSUME LedgerInv, taken' = taken, Lost' \subseteq Lost
    PROVE  /\ Cardinality(Lost') <= Cardinality(Lost)
           /\ Cardinality(Lost) \in Nat /\ Cardinality(Lost') \in Nat
<1>1. IsFiniteSet(Lost)
  BY FS_Subset DEF Lost, LedgerInv, LedgerTypes
<1>2. IsFiniteSet(Lost') /\ Cardinality(Lost') <= Cardinality(Lost)
  BY <1>1, FS_Subset
<1> QED
  BY <1>1, <1>2, FS_CardinalityType

(* The reply to a POST, or that it failed, is entered in the ledger.       *)
LEMMA LedgerPost == ASSUME LedgerInv, OffInv, NEW f \in Flushers, Post(f) PROVE LedgerInv'
<1>1. /\ ~disabled /\ pc[f] = "posting" /\ PostEnds(f) /\ taken' = taken
      /\ \A g \in Flushers : pc'[g] # "posting"
  BY PostLeavesNone DEF PostEnds
<1> DEFINE t == batch[f]
<1>2. /\ buf \in Buffer /\ Len(buf.events) <= MaxEvents /\ t \in Batch /\ acked \in Nat
      /\ buf.droppedSinceLast \in Nat /\ t.dropped \in Nat
      /\ Cardinality(Lost) <= acked + buf.droppedSinceLast
  BY <1>1, BufferFields DEF LedgerInv, LedgerTypes, NoSilentLoss, Batch
<1>3. ~replyLost => /\ served \cap Buffered(buf) = {} /\ served \cap ItemsOf(t) = {}
  BY <1>1 DEF LedgerInv, SentOnce
<1>4. MaxEvents \in Nat /\ buf.events \in Seq(Event)
  BY <1>2, BufferFields, BufferAssumption
<1>5. CASE PostFails(f)
  <2>1. /\ buf' = buf /\ acked' = acked /\ served' \in {served, served \cup ItemsOf(t)}
        /\ ~replyLost' => ~replyLost /\ served' = served
    BY <1>5 DEF PostFails, SetBackoff
  <2>2. Lost' \subseteq Lost
    BY <1>1, <2>1 DEF Lost
  <2>3. NoSilentLoss'
    BY <1>1, <1>2, <2>1, <2>2, LostShrinks DEF NoSilentLoss
  <2> QED
    BY <1>2, <1>3, <2>1, <2>3, LedgerAfterPost
<1>6. CASE PostAnswered(f)
  <2>1. replyLost' = replyLost
    BY <1>6 DEF PostAnswered
  <2>2. PICK status \in Statuses, off \in BOOLEAN :
            /\ served' = IF status = 202 THEN served \cup ItemsOf(t) ELSE served
            /\ \/ (off \/ status \in DisablingStatuses) /\ Disable
               \/ ~off /\ status = 202 /\ Accepted(f)
               \/ ~off /\ status = 413 /\ TooLarge(f)
               \/ /\ ~off /\ status \notin DisablingStatuses \cup {202, 413}
                  /\ \E retryAfter \in RetryAfters : SetBackoff(retryAfter)
    BY <1>6 DEF PostAnswered
  <2>3. served' \in {served, served \cup ItemsOf(t)}
    BY <2>2
  <2>4. CASE Disable
    <3>1. disabled' /\ buf' = Emptied(buf) /\ acked' = acked
      BY <2>4 DEF Disable
    <3>2. /\ buf' \in Buffer /\ Buffered(buf') = {} /\ buf'.nextWindow = buf.nextWindow
          /\ buf'.events = << >>
      BY <1>2, <3>1, EmptiedFacts
    <3>3. NoSilentLoss' /\ Len(buf'.events) <= MaxEvents
      BY <1>4, <3>1, <3>2 DEF NoSilentLoss
    <3> QED
      BY <1>2, <2>1, <2>3, <3>1, <3>2, <3>3, LedgerAfterPost
  <2>5. CASE status = 202 /\ Accepted(f)
    <3> DEFINE kept == RemoveSelected(buf, t)
               left == DropsAfterAck(kept.droppedSinceLast, t.dropped)
    <3>1. /\ kept \in Buffer /\ Len(kept.events) <= Len(buf.events)
          /\ kept.nextWindow = buf.nextWindow /\ kept.droppedSinceLast = buf.droppedSinceLast
          /\ Buffered(kept) = Buffered(buf) \ ItemsOf(t)
      BY <1>2, RemoveFacts
    <3>2. buf' = [kept EXCEPT !.droppedSinceLast = left] /\ acked' = acked + t.dropped
      BY <2>5 DEF Accepted
    <3> HIDE DEF kept
    <3>3. left \in Nat /\ buf.droppedSinceLast - t.dropped <= left
      BY <1>2, <3>1 DEF DropsAfterAck, AtLeast
    <3> HIDE DEF left
    <3>4. /\ buf' \in Buffer /\ buf'.events = kept.events /\ buf'.nextWindow = buf.nextWindow
          /\ buf'.closedWindows = kept.closedWindows /\ buf'.droppedSinceLast = left
      BY <3>1, <3>2, <3>3 DEF Buffer
    <3>5. Buffered(buf') = Buffered(buf) \ ItemsOf(t)
      BY <3>1, <3>4 DEF Buffered
    <3>6. served' = served \cup ItemsOf(t)
      BY <2>2, <2>5
    <3>7. Lost' \subseteq Lost
      BY <1>1, <3>5, <3>6 DEF Lost
    <3>8. NoSilentLoss'
      <4>1. Cardinality(Lost') <= Cardinality(Lost) /\ Cardinality(Lost) \in Nat
            /\ Cardinality(Lost') \in Nat
        BY <1>1, <3>7, LostShrinks
      <4>2. Cardinality(Lost') <= acked' + buf'.droppedSinceLast
        BY <1>2, <3>2, <3>3, <3>4, <4>1
      <4> QED
        BY <4>2 DEF NoSilentLoss
    <3>9. Len(buf'.events) <= MaxEvents /\ acked' \in Nat
      <4>1. Len(buf.events) \in Nat /\ Len(kept.events) \in Nat
        BY <1>4, <3>1, BufferFields
      <4> QED
        BY <1>2, <1>4, <3>1, <3>2, <3>4, <4>1
    <3> QED
      BY <1>3, <2>1, <2>3, <3>4, <3>5, <3>6, <3>8, <3>9, LedgerAfterPost
  <2>6. CASE status # 202 /\ TooLarge(f)
    <3> DEFINE kept == RemoveSelected(buf, t)
               total == kept.droppedSinceLast + Len(t.events) + Len(t.counters)
    <3>1. /\ kept \in Buffer /\ Len(kept.events) <= Len(buf.events)
          /\ kept.nextWindow = buf.nextWindow /\ kept.droppedSinceLast = buf.droppedSinceLast
          /\ Buffered(kept) = Buffered(buf) \ ItemsOf(t)
      BY <1>2, RemoveFacts
    <3>2. buf' = [kept EXCEPT !.droppedSinceLast = total] /\ acked' = acked
      BY <2>6 DEF TooLarge
    <3>a. t.events \in Seq(Event) /\ t.counters \in Seq(Ref)
      BY <1>2 DEF Batch
    <3>b. Len(t.events) \in Nat /\ Len(t.counters) \in Nat
      BY <3>a
    <3> HIDE DEF kept, t
    <3>3. total \in Nat /\ total = buf.droppedSinceLast + Len(t.events) + Len(t.counters)
      BY <1>2, <3>1, <3>b
    <3> HIDE DEF total
    <3>4. /\ buf' \in Buffer /\ buf'.events = kept.events /\ buf'.nextWindow = buf.nextWindow
          /\ buf'.closedWindows = kept.closedWindows /\ buf'.droppedSinceLast = total
      BY <3>1, <3>2, <3>3 DEF Buffer
    <3>5. Buffered(buf') = Buffered(buf) \ ItemsOf(t)
      BY <3>1, <3>4 DEF Buffered
    <3>6. served' = served
      BY <2>2, <2>6
    <3>7. Lost' \subseteq Lost \cup ItemsOf(t)
      BY <1>1, <3>5, <3>6 DEF Lost
    <3>8. IsFiniteSet(ItemsOf(t)) /\ Cardinality(ItemsOf(t)) <= Len(t.events) + Len(t.counters)
          /\ Cardinality(ItemsOf(t)) \in Nat
      <4>1. /\ IsFiniteSet(EventItems(t.events)) /\ Cardinality(EventItems(t.events)) <= Len(t.events)
            /\ IsFiniteSet(ToSet(t.counters)) /\ Cardinality(ToSet(t.counters)) <= Len(t.counters)
        BY <3>a, ItemBounds
      <4>2. ItemsOf(t) \subseteq EventItems(t.events) \cup ToSet(t.counters)
        BY DEF ItemsOf
      <4>3. /\ IsFiniteSet(ItemsOf(t)) /\ Cardinality(ItemsOf(t)) \in Nat
            /\ Cardinality(ItemsOf(t)) <= Cardinality(EventItems(t.events)) + Cardinality(ToSet(t.counters))
            /\ Cardinality(EventItems(t.events)) \in Nat /\ Cardinality(ToSet(t.counters)) \in Nat
        BY <4>1, <4>2, UnionAtMost
      <4>4. ASSUME NEW a \in Nat, NEW b \in Nat, NEW c \in Nat, NEW m \in Nat, NEW n \in Nat,
                   a <= m, b <= n, c <= a + b
            PROVE  c <= m + n
        BY <4>4
      <4>5. Cardinality(ItemsOf(t)) <= Len(t.events) + Len(t.counters)
        BY <3>b, <4>1, <4>3, <4>4
      <4> QED
        BY <4>3, <4>5
    <3>9. NoSilentLoss'
      <4>1. IsFiniteSet(Lost)
        BY FS_Subset DEF Lost, LedgerInv, LedgerTypes
      <4>2. /\ Cardinality(Lost') <= Cardinality(Lost) + Cardinality(ItemsOf(t))
            /\ Cardinality(Lost) \in Nat /\ Cardinality(Lost') \in Nat
        BY <3>7, <3>8, <4>1, UnionAtMost
      <4>a. ASSUME NEW a \in Nat, NEW b \in Nat, NEW c \in Nat, NEW d \in Nat, NEW e \in Nat,
                   NEW m \in Nat, NEW n \in Nat, c <= a + b, a <= d + e, b <= m + n
            PROVE  c <= d + (e + m + n)
        BY <4>a
      <4>3. Cardinality(Lost') <= acked + (buf.droppedSinceLast + Len(t.events) + Len(t.counters))
        BY <1>2, <3>8, <3>b, <4>2, <4>a
      <4>4. Cardinality(Lost') <= acked' + buf'.droppedSinceLast
        BY <3>2, <3>3, <3>4, <4>3
      <4> QED
        BY <4>4 DEF NoSilentLoss
    <3>10. Len(buf'.events) <= MaxEvents /\ acked' \in Nat
      <4>1. Len(buf.events) \in Nat /\ Len(kept.events) \in Nat
        BY <1>4, <3>1, BufferFields
      <4> QED
        BY <1>2, <1>4, <3>1, <3>2, <3>4, <4>1
    <3>11. ~replyLost' => ~replyLost /\ served' \cap Buffered(buf') = {}
      BY <1>3, <2>1, <3>5, <3>6
    <3> QED
      BY <2>3, <3>4, <3>5, <3>9, <3>10, <3>11, LedgerAfterPost DEF t
  <2>7. CASE status # 202 /\ \E retryAfter \in RetryAfters : SetBackoff(retryAfter)
    <3>1. buf' = buf /\ acked' = acked /\ served' = served
      BY <2>2, <2>7 DEF SetBackoff
    <3>2. NoSilentLoss'
      BY <1>1, <1>2, <3>1 DEF NoSilentLoss, Lost
    <3> QED
      BY <1>2, <1>3, <2>1, <2>3, <3>1, <3>2, LedgerAfterPost
  <2> QED
    BY <2>2, <2>4, <2>5, <2>6, <2>7
<1> QED
  BY <1>5, <1>6 DEF Post

(* Every step keeps the ledger.                                            *)
LEMMA LedgerInductive == OffInv /\ LedgerInv /\ [Next]_vars => LedgerInv'
<1> SUFFICES ASSUME OffInv, LedgerInv, [Next]_vars PROVE LedgerInv'
  OBVIOUS
<1>1. CASE UNCHANGED vars
  <2>1. UNCHANGED <<buf, taken, served, acked, replyLost, disabled, batch, requests, pc>>
    BY <1>1 DEF vars, flags, ledger
  <2>2. requests' \in Nat /\ requests <= requests'
    BY <2>1 DEF LedgerInv, LedgerTypes
  <2> QED
    BY <2>1, <2>2, LedgerUnrelated
<1>2. CASE Next
  BY <1>2, LedgerTick, LedgerRequest, LedgerWorker, LedgerClose, LedgerFlush, LedgerPost DEF Next
<1> QED
  BY <1>1, <1>2

(* The ledger holds initially.                                             *)
LEMMA LedgerInit == Init => LedgerInv
<1> SUFFICES ASSUME Init PROVE LedgerInv
  OBVIOUS
<1>1. << >> \in Seq(Event) /\ << >> \in Seq(Nat) /\ << >> \in Seq(Window)
  OBVIOUS
<1>2. buf \in Buffer /\ buf.events = << >> /\ buf.closedWindows = << >>
  BY <1>1 DEF Init, NewBuffer, Buffer
<1>3. Buffered(buf) = {}
  BY <1>2 DEF Buffered, EventItems
<1>4. LedgerTypes
  BY <1>2, NoBatchType, BufferAssumption, FS_EmptySet DEF Init, LedgerTypes
<1>5. Charge /\ SentOnce
  BY <1>3 DEF Init, Charge, SentOnce
<1>6. NoSilentLoss
  <2>1. Lost = {} /\ acked = 0 /\ buf.droppedSinceLast \in Nat
    BY <1>2, BufferFields DEF Init, Lost
  <2> QED
    BY <2>1, FS_EmptySet DEF NoSilentLoss
<1> QED
  BY <1>4, <1>5, <1>6 DEF LedgerInv

-----------------------------------------------------------------------------
(* The deadlines stay within their bounds, and the flushers and Close      *)
(* where they can be.                                                      *)
ScheduleInv ==
    /\ flushInterval \in FlushInterval..BackoffMax /\ flushIn \in 0..flushInterval
    /\ backoff \in BackoffMin..BackoffMax /\ backoffIn \in 0..BackoffMax
    /\ pc["final"] \in {"none", "lock", "posting", "done"}
    /\ closer \in {"none", "waitFinal", "waitWorker", "returned"}

(* What the assumptions say of the schedule's constants.                   *)
LEMMA Bounds ==
    /\ FlushInterval \in Nat \ {0} /\ BackoffMin \in Nat \ {0} /\ BackoffMax \in Nat
    /\ FlushInterval <= BackoffMax /\ BackoffMin <= BackoffMax
    /\ RetryAfters \subseteq Nat
    /\ \A p \in Policies : p.flush \in Int
  BY ReporterAssumption DEF NoChange

(* setBackoffLocked keeps the delays below the cap.                        *)
LEMMA BackoffBounded ==
    ASSUME backoff \in BackoffMin..BackoffMax, NEW r \in Nat, SetBackoff(r)
    PROVE  backoff' \in BackoffMin..BackoffMax /\ backoffIn' \in 0..BackoffMax
<1>1. backoffIn' \in 0..BackoffMax
  BY Bounds DEF SetBackoff, AtMost, AtLeast
<1>2. backoff' \in BackoffMin..BackoffMax
  BY Bounds DEF SetBackoff, NextBackoff, AtMost, AtLeast
<1> QED
  BY <1>1, <1>2

(* Every step keeps the schedule's types and bounds.                       *)
LEMMA ScheduleInductive == OffInv /\ ScheduleInv /\ [Next]_vars => ScheduleInv'
<1> SUFFICES ASSUME OffInv, ScheduleInv, [Next]_vars PROVE ScheduleInv'
  OBVIOUS
<1> USE DEF ScheduleInv
<1>1. "final" \in Flushers /\ "worker" \in Flushers /\ "final" # "worker"
  BY DEF Flushers
<1>2. CASE UNCHANGED vars
  BY <1>2 DEF vars, schedule
<1>3. CASE Tick
  <2>1. /\ flushIn' = Down(flushIn) /\ backoffIn' = Down(backoffIn)
        /\ UNCHANGED <<flushInterval, backoff, pc, closer>>
    BY <1>3 DEF Tick
  <2>2. flushIn' \in 0..flushInterval /\ backoffIn' \in 0..BackoffMax
    BY <2>1, Bounds DEF Down
  <2> QED
    BY <2>1, <2>2
<1>4. CASE OnRequest
  <2>1. /\ UNCHANGED <<flushInterval, backoff, backoffIn, closer>>
        /\ flushIn' \in {flushIn, flushInterval}
    BY <1>4 DEF OnRequest
  <2>2. pc' = pc \/ pc' = [pc EXCEPT !["worker"] = "loop"]
    BY <1>4 DEF OnRequest
  <2>3. pc'["final"] = pc["final"]
    BY <1>1, <2>2 DEF OffInv, PCShape
  <2> QED
    BY <2>1, <2>3, Bounds
<1>5. CASE Worker
  <2>1. /\ UNCHANGED <<schedule, closer>>
        /\ \E p \in {"loop", "waiting", "lock", "done"} : pc' = [pc EXCEPT !["worker"] = p]
    BY <1>5 DEF Worker, WorkerDecides, WorkerWakes, WorkerUnchanged
  <2>2. pc'["final"] = pc["final"]
    BY <1>1, <2>1 DEF OffInv, PCShape
  <2> QED
    BY <2>1, <2>2 DEF schedule
<1>6. CASE CreateReporter \/ ClientClose \/ CloseDeadline \/ CloseAdvances
  <2>1. /\ UNCHANGED schedule
        /\ pc' = pc \/ pc' = [pc EXCEPT !["final"] = "lock"]
        /\ closer' \in {closer, "waitFinal", "waitWorker", "returned"}
    BY <1>6 DEF CreateReporter, ClientClose, CloseDeadline, CloseAdvances
  <2>2. pc'["final"] \in {pc["final"], "lock"}
    BY <1>1, <2>1 DEF OffInv, PCShape
  <2> QED
    BY <2>1, <2>2 DEF schedule
<1>7. ASSUME NEW f \in Flushers, Flush(f) PROVE ScheduleInv'
  <2>1. /\ UNCHANGED <<flushInterval, backoff, backoffIn, closer>>
        /\ flushIn' \in {flushIn, flushInterval}
    BY <1>7 DEF Flush, FlushSkipped, FlushBegins, Reschedules, schedule
  <2>2. pc' = [pc EXCEPT ![f] = "posting"] \/ pc' = [pc EXCEPT ![f] = AfterFlush(f)]
    BY <1>7 DEF Flush, FlushSkipped, FlushBegins
  <2>3. pc'["final"] \in {pc["final"], "posting", "done"}
    BY <1>1, <2>2 DEF OffInv, PCShape, AfterFlush
  <2> QED
    BY <2>1, <2>3, Bounds
<1>8. ASSUME NEW f \in Flushers, Post(f) PROVE ScheduleInv'
  <2>1. /\ closer' = closer /\ flushIn' \in {flushIn, flushInterval'}
        /\ pc' = [pc EXCEPT ![f] = AfterFlush(f)]
    BY <1>8 DEF Post, PostFails, PostAnswered, PostEnds, Reschedules
  <2>2. pc'["final"] \in {pc["final"], "done"}
    BY <1>1, <2>1 DEF OffInv, PCShape, AfterFlush
  <2>3. /\ flushInterval' \in FlushInterval..BackoffMax /\ flushInterval <= flushInterval'
        /\ backoff' \in BackoffMin..BackoffMax /\ backoffIn' \in 0..BackoffMax
    <3>1. CASE \E r \in RetryAfters \cup {0} : SetBackoff(r)
      <4>1. backoff' \in BackoffMin..BackoffMax /\ backoffIn' \in 0..BackoffMax
        BY <3>1, BackoffBounded, Bounds
      <4>2. flushInterval' = flushInterval
        BY <3>1 DEF SetBackoff
      <4> QED
        BY <4>1, <4>2, Bounds
    <3>2. CASE Disable \/ TooLarge(f)
      <4>1. UNCHANGED <<flushInterval, backoff, backoffIn>>
        BY <3>2 DEF Disable, TooLarge
      <4> QED
        BY <4>1, Bounds
    <3>3. CASE Accepted(f)
      <4>1. backoff' = BackoffMin /\ backoffIn' = 0 /\ \E p \in Policies : ApplyPolicy(p)
        BY <3>3 DEF Accepted
      <4>2. PICK p \in Policies : ApplyPolicy(p)
        BY <4>1
      <4>3. flushInterval' = IF p.flush > flushInterval THEN AtMost(p.flush, BackoffMax)
                             ELSE flushInterval
        BY <4>2 DEF ApplyPolicy
      <4>4. p.flush \in Int
        BY Bounds
      <4>5. flushInterval' \in FlushInterval..BackoffMax /\ flushInterval <= flushInterval'
        BY <4>3, <4>4, Bounds DEF AtMost
      <4> QED
        BY <4>1, <4>5, Bounds
    <3> QED
      BY <1>8, <3>1, <3>2, <3>3 DEF Post, PostFails, PostAnswered
  <2> QED
    BY <2>1, <2>2, <2>3, Bounds
<1> QED
  BY <1>2, <1>3, <1>4, <1>5, <1>6, <1>7, <1>8 DEF Next

(* The three invariants of the reporter hold always.                       *)
LEMMA ReporterInvariant == Spec => [](OffInv /\ LedgerInv /\ ScheduleInv)
<1>1. Init => OffInv /\ LedgerInv /\ ScheduleInv
  <2>1. Init => OffInv
    BY DEF Init, OffInv, PCShape, OneFlush, Flushers
  <2>2. Init => ScheduleInv
    BY Bounds DEF Init, ScheduleInv, Flushers
  <2> QED
    BY <2>1, <2>2, LedgerInit
<1>2. (OffInv /\ LedgerInv /\ ScheduleInv) /\ [Next]_vars => (OffInv /\ LedgerInv /\ ScheduleInv)'
  BY OffInductive, LedgerInductive, ScheduleInductive
<1> QED
  BY <1>1, <1>2, PTL DEF Spec

(* For any calls, answers, caps and interleavings of flushes and calls:    *)
(* what onRequest took charge of and pruneWindowsLocked,                   *)
(* dropBufferedEventLocked or a 413 gave up never exceeds the drops that   *)
(* were acknowledged or are yet to be told.                                *)
THEOREM NothingIsLostSilently == Spec => []NoSilentLoss
<1>1. LedgerInv => NoSilentLoss
  BY DEF LedgerInv
<1> QED
  BY <1>1, ReporterInvariant, PTL

(* For any calls and answers, the worker's flush and Close's send an item  *)
(* the control plane accepted before only after a lost reply: flushMu and  *)
(* removeSelectedLocked keep an acknowledged batch out of the next one.    *)
THEOREM RepeatsFollowALostReply == Spec => []RepeatsNeedALostReply
<1>1. LedgerInv => RepeatsNeedALostReply
  BY DEF LedgerInv, SentOnce, RepeatsNeedALostReply
<1> QED
  BY <1>1, ReporterInvariant, PTL

(* setBackoffLocked, applyPolicyLocked and appendEventLocked keep the      *)
(* schedule and the buffer within their bounds, and the control plane      *)
(* accepts only what the reporter took charge of.                          *)
THEOREM ReporterTypes == Spec => []TypeOK
<1>1. OffInv /\ LedgerInv /\ ScheduleInv => TypeOK
  <2> SUFFICES ASSUME OffInv, LedgerInv, ScheduleInv PROVE TypeOK
    OBVIOUS
  <2>1. pc["worker"] \in {"none", "loop", "waiting", "lock", "posting", "done"}
    BY DEF OffInv, PCShape, Flushers
  <2>2. Len(buf.events) <= MaxEvents /\ buf.droppedSinceLast \in Nat /\ served \subseteq taken
    BY BufferFields DEF LedgerInv, LedgerTypes, Charge
  <2> QED
    BY <2>1, <2>2 DEF TypeOK, ScheduleInv
<1> QED
  BY <1>1, ReporterInvariant, PTL
=============================================================================
