------------------------- MODULE EventStreamProofs -------------------------
(***************************************************************************)
(* What is proved of the event log and its streams, for any connections,   *)
(* any retention and any batch size.                                       *)
(***************************************************************************)
EXTENDS EventStream, FiniteSetTheorems, TLAPS

---------------------------------------------------------------------------
(* The operators of EventStream.                                           *)

\* A minimum exists.
LEMMA MinFacts ==
  ASSUME NEW S \in SUBSET Nat, S # {}
  PROVE  Min(S) \in S /\ \A y \in S : Min(S) <= y
<1>1. \E x \in S : \A y \in S : ~(<<y, x>> \in OpToRel(<, Nat))
  BY WFMin, NatLessThanWellFounded, Zenon
<1>2. \E x \in S : \A y \in S : ~(y < x)
  BY <1>1, Zenon DEF OpToRel
<1>3. \E x \in S : \A y \in S : x <= y
  BY <1>2
<1> QED BY <1>3 DEF Min

\* The log is the newest MaxEventRows events.
LogKept == log = {e \in 1..newest : e > newest - MaxEventRows}

LEMMA RetainedKept ==
  ASSUME newest \in Nat, MaxEventRows \in Nat \ {0}, LogKept
  PROVE  Retained(log \cup {newest + 1})
         = {e \in 1..(newest + 1) : e > newest + 1 - MaxEventRows}
<1> DEFINE rows == log \cup {newest + 1}
<1>1. rows = {e \in 1..(newest + 1) : e > newest - MaxEventRows}
  BY DEF LogKept
<1> HIDE DEF rows
<1>2. ASSUME NEW e \in rows
      PROVE  Cardinality({f \in rows : f > e}) = newest + 1 - e
  <2>1. {f \in rows : f > e} = (e + 1)..(newest + 1)
    BY <1>1, <1>2
  <2>2. e + 1 \in Int /\ newest + 1 \in Int /\ e <= newest + 1 /\ e \in Int
    BY <1>1, <1>2
  <2>3. Cardinality((e + 1)..(newest + 1))
        = IF e + 1 > newest + 1 THEN 0 ELSE (newest + 1) - (e + 1) + 1
    BY <2>2, FS_Interval
  <2>4. Cardinality((e + 1)..(newest + 1)) = newest + 1 - e
    BY <2>2, <2>3
  <2> QED BY <2>1, <2>4
<1>3. Retained(rows) = {e \in rows : newest + 1 - e < MaxEventRows}
  BY <1>2 DEF Retained
<1>4. Retained(rows) = {e \in 1..(newest + 1) : e > newest + 1 - MaxEventRows}
  BY <1>1, <1>3
<1> QED BY <1>4 DEF rows

\* What LatestCursor and OldestCursor are.
LEMMA LatestIsNewest ==
  ASSUME newest \in Nat, MaxEventRows \in Nat \ {0}, LogKept
  PROVE  LatestCursor = newest
<1>1. CASE newest = 0
  BY <1>1 DEF LogKept, LatestCursor
<1>2. CASE newest > 0
  <2>1. newest \in log /\ \A y \in log : y \in Nat /\ newest >= y
    BY <1>2 DEF LogKept
  <2>2. Max(log) \in log /\ \A y \in log : Max(log) >= y
    BY <2>1 DEF Max
  <2>3. log # {} /\ Max(log) \in Nat /\ newest >= Max(log) /\ Max(log) >= newest
    BY <2>1, <2>2
  <2> QED BY <2>3 DEF LatestCursor
<1> QED BY <1>1, <1>2

LEMMA OldestIsFirst ==
  ASSUME newest \in Nat, MaxEventRows \in Nat \ {0}, LogKept
  PROVE  /\ newest = 0 => OldestCursor = 0
         /\ newest > 0 => /\ OldestCursor \in 1..newest
                          /\ \A e \in 1..newest : e \in log <=> e >= OldestCursor
<1>1. CASE newest = 0
  BY <1>1 DEF LogKept, OldestCursor
<1>2. CASE newest > 0
  <2>1. log # {} /\ log \in SUBSET Nat
    BY <1>2 DEF LogKept
  <2>2. Min(log) \in log /\ \A y \in log : Min(log) <= y
    BY <2>1, MinFacts
  <2>3. OldestCursor = Min(log)
    BY <2>1 DEF OldestCursor
  <2> QED BY <1>2, <2>2, <2>3 DEF LogKept
<1> QED BY <1>1, <1>2

\* A batch lies after the cursor and leaves no gap.
LEMMA RowsAfterFacts ==
  ASSUME newest \in Nat, log \subseteq 1..newest, NEW at \in Nat, BatchSize \in Nat
  PROVE  /\ RowsAfter(at) \subseteq log
         /\ \A b \in RowsAfter(at) : b > at
         /\ \A b \in RowsAfter(at) : \A d \in log :
              at < d /\ d < b => d \in RowsAfter(at)
<1>1. RowsAfter(at) \subseteq log /\ \A b \in RowsAfter(at) : b > at
  BY DEF RowsAfter
<1>2. ASSUME NEW b \in RowsAfter(at), NEW d \in log, at < d, d < b
      PROVE  d \in RowsAfter(at)
  <2> DEFINE S == {f \in log : at < f /\ f < b}
             T == {f \in log : at < f /\ f < d}
  <2>1. IsFiniteSet(S) /\ IsFiniteSet(log)
    <3>1. IsFiniteSet(1..newest)
      BY FS_Interval
    <3> QED BY <3>1, FS_Subset
  <2>2. T \in SUBSET S
    <3> HIDE DEF S, T
    <3>0. \A f \in log : f \in Nat
      OBVIOUS
    <3>1. (\A f \in log : f \in Nat) /\ b \in Nat /\ d \in Nat /\ d < b
      BY <3>0, <1>1, <1>2
    <3>2. \A f \in log : f < d => f < b
      BY <3>1
    <3> QED BY <3>2 DEF S, T
  <2>3. Cardinality(T) <= Cardinality(S) /\ IsFiniteSet(T)
    BY <2>1, <2>2, FS_Subset
  <2>4. Cardinality(S) \in Nat /\ Cardinality(T) \in Nat
    BY <2>1, <2>3, FS_CardinalityType
  <2>5. Cardinality(S) < BatchSize
    BY <1>2 DEF RowsAfter
  <2>6. Cardinality(T) < BatchSize
    BY <2>3, <2>4, <2>5
  <2> QED BY <1>2, <2>6 DEF RowsAfter
<1> QED BY <1>1, <1>2

---------------------------------------------------------------------------
(* The invariant.                                                          *)

\* Any cursor at all may be asked for.
StreamTypes ==
  /\ newest \in Nat
  /\ LogKept
  /\ pc \in [Connections -> {"none", "ended"} \cup Working]
  /\ requested \in [Connections -> Nat \cup {None}]
  /\ latest \in [Connections -> Nat]
  /\ cursor \in [Connections -> Nat]
  /\ batch \in [Connections -> SUBSET (1..newest)]
  /\ wire \in [Connections -> Seq(Frames)]
  /\ began \in [Connections -> Nat]
  /\ sent \in [Connections -> SUBSET (1..newest)]

\* What a stream read is not newer than the log; the newest id it read for its
\* snapshot is no older than its connection.
Reads(s) ==
  /\ latest[s] <= newest /\ began[s] <= newest
  /\ pc[s] = "send_snapshot" \/ Started(s) => began[s] <= latest[s]

\* It goes forward, and beyond the log only where it was asked to start.
Reached(s) ==
  Started(s) => /\ StartCursor(s) <= cursor[s]
                /\ cursor[s] <= newest \/ cursor[s] = StartCursor(s)

\* A batch at work has something to send, and holds all that is still in the
\* log up to its last event.
BatchWhole(s) ==
  pc[s] = "emit" =>
    /\ \E b \in batch[s] : b > cursor[s]
    /\ \A b \in batch[s], d \in log : cursor[s] < d /\ d < b => d \in batch[s]

PassedOverNone(s) ==
  Started(s) =>
    \A e \in log : StartCursor(s) < e /\ e <= cursor[s] => e \in sent[s]

SentSince(s) ==
  requested[s] = None => \A e \in sent[s] : e > began[s]

Fits(s) ==
  Reads(s) /\ Reached(s) /\ BatchWhole(s) /\ PassedOverNone(s) /\ SentSince(s)

StreamInv == StreamTypes /\ \A s \in Connections : Fits(s)

LEMMA StreamInit ==
  ASSUME EventStreamAssumption, Init
  PROVE  StreamInv
<1>1. Working = {"read_latest", "send_snapshot", "fetch", "emit", "idle"}
  BY DEF Working
<1>2. LogKept
  BY DEF Init, LogKept
<1>3. StreamTypes
  BY <1>2 DEF Init, StreamTypes
<1>4. ASSUME NEW s \in Connections PROVE Fits(s)
  BY DEF Init, Fits, Reads, Reached, BatchWhole, PassedOverNone, SentSince, Started
<1> QED BY <1>3, <1>4 DEF StreamInv

\* Events are appended, and trimmed; a stream nobody touches stays fit.
LEMMA Elsewhere ==
  ASSUME EventStreamAssumption, StreamInv, NEW t \in Connections,
         newest' \in Nat, newest <= newest',
         \A e \in log' : e \in log \/ (e \in Nat /\ e > newest),
         pc'[t] = pc[t], requested'[t] = requested[t], latest'[t] = latest[t],
         cursor'[t] = cursor[t], batch'[t] = batch[t], began'[t] = began[t],
         sent'[t] = sent[t]
  PROVE  Fits(t)'
<1> USE DEF StreamInv
<1>0. /\ newest \in Nat /\ latest[t] \in Nat /\ cursor[t] \in Nat
      /\ began[t] \in Nat /\ requested[t] \in Nat \cup {None}
      /\ batch[t] \subseteq 1..newest /\ log \subseteq 1..newest
      /\ StartCursor(t) \in Nat
  BY DEF StreamTypes, LogKept, StartCursor
<1>1. StartCursor(t)' = StartCursor(t) /\ Started(t)' = Started(t)
  BY DEF StartCursor, Started
<1>2. Reads(t)'
  BY <1>0, <1>1 DEF Fits, Reads
<1>3. Reached(t)'
  <2>1. Reached(t)
    BY DEF Fits
  <2>2. cursor[t] <= newest => cursor[t] <= newest'
    BY <1>0
  <2> QED BY <1>1, <2>1, <2>2 DEF Reached
<1>4. BatchWhole(t)'
  <2> SUFFICES ASSUME pc[t] = "emit", NEW b \in batch[t], NEW d \in log',
                      cursor[t] < d, d < b
               PROVE  d \in batch[t]
    BY DEF Fits, BatchWhole
  <2>1. d \in log
    BY <1>0
  <2> QED BY <2>1 DEF Fits, BatchWhole
<1>5. PassedOverNone(t)'
  <2> SUFFICES ASSUME Started(t), NEW e \in log',
                      StartCursor(t) < e, e <= cursor[t]
               PROVE  e \in sent[t]
    BY <1>1 DEF PassedOverNone
  <2>1. e \in log
    BY <1>0 DEF Fits, Reached
  <2> QED BY <2>1 DEF Fits, PassedOverNone
<1>6. SentSince(t)'
  BY DEF Fits, SentSince
<1> QED BY <1>2, <1>3, <1>4, <1>5, <1>6 DEF Fits

---------------------------------------------------------------------------
(* The steps.                                                              *)

\* A stream moves and the log stays.
LEMMA OthersFit ==
  ASSUME EventStreamAssumption, StreamInv, NEW s \in Connections,
         UNCHANGED <<newest, log>>,
         \A t \in Connections \ {s} :
           /\ pc'[t] = pc[t] /\ requested'[t] = requested[t]
           /\ latest'[t] = latest[t] /\ cursor'[t] = cursor[t]
           /\ batch'[t] = batch[t] /\ began'[t] = began[t] /\ sent'[t] = sent[t],
         StreamTypes', Fits(s)'
  PROVE  StreamInv'
<1>1. newest' \in Nat /\ newest <= newest'
  BY DEF StreamInv, StreamTypes
<1>2. ASSUME NEW t \in Connections \ {s} PROVE Fits(t)'
  BY <1>1, Elsewhere
<1> QED BY <1>2 DEF StreamInv

LEMMA RecordKeeps ==
  ASSUME EventStreamAssumption, StreamInv, RecordEvent
  PROVE  StreamInv'
<1>0. newest \in Nat /\ MaxEventRows \in Nat \ {0} /\ newest' = newest + 1
  BY DEF StreamInv, StreamTypes, EventStreamAssumption, RecordEvent
<1>1. log' = {e \in 1..(newest + 1) : e > newest + 1 - MaxEventRows}
  BY <1>0, RetainedKept DEF StreamInv, StreamTypes, RecordEvent
<1>2. LogKept'
  <2>1. \A e : e \in log' <=> e \in 1..newest' /\ e > newest' - MaxEventRows
    BY <1>0, <1>1
  <2>2. log' = {e \in 1..newest' : e > newest' - MaxEventRows}
    BY <2>1
  <2> QED BY <2>2 DEF LogKept
<1>3. StreamTypes'
  <2>1. newest' \in Nat /\ 1..newest \subseteq 1..newest'
    BY <1>0
  <2> QED BY <1>2, <2>1 DEF StreamInv, StreamTypes, RecordEvent, streams
<1>4. \A e \in log' : e \in log \/ (e \in Nat /\ e > newest)
  <2> SUFFICES ASSUME NEW e \in log' PROVE e \in log \/ (e \in Nat /\ e > newest)
    OBVIOUS
  <2>1. e \in 1..(newest + 1) /\ e > newest + 1 - MaxEventRows
    BY <1>1
  <2>2. e > newest - MaxEventRows /\ e \in Nat
    BY <1>0, <2>1
  <2>3. CASE e = newest + 1
    BY <1>0, <2>3
  <2>4. CASE e # newest + 1
    BY <1>0, <2>1, <2>2, <2>4 DEF StreamInv, StreamTypes, LogKept
  <2> QED BY <2>3, <2>4
<1>5. ASSUME NEW t \in Connections PROVE Fits(t)'
  <2>1. newest' \in Nat /\ newest <= newest'
    BY <1>0
  <2>2. /\ pc'[t] = pc[t] /\ requested'[t] = requested[t]
        /\ latest'[t] = latest[t] /\ cursor'[t] = cursor[t]
        /\ batch'[t] = batch[t] /\ began'[t] = began[t] /\ sent'[t] = sent[t]
    BY DEF RecordEvent, streams
  <2> QED BY <2>1, <2>2, <1>4, Elsewhere
<1> QED BY <1>3, <1>5 DEF StreamInv

LEMMA AcceptKeeps ==
  ASSUME EventStreamAssumption, StreamInv, NEW s \in Connections,
         NEW after \in Nat \cup {None}, Accept(s, after)
  PROVE  StreamInv'
<1> USE DEF Accept, GoTo
<1>1. StreamTypes'
  BY DEF StreamInv, StreamTypes, LogKept, Working
<1>2. pc'[s] = "read_latest" /\ sent'[s] = {} /\ began'[s] = newest
  BY DEF StreamInv, StreamTypes
<1>3. Fits(s)'
  BY <1>2 DEF StreamInv, StreamTypes, Fits, Reads, Reached, BatchWhole,
              PassedOverNone, SentSince, Started
<1> QED BY <1>1, <1>3, OthersFit

LEMMA ReadLatestKeeps ==
  ASSUME EventStreamAssumption, StreamInv, NEW s \in Connections, ReadLatest(s)
  PROVE  StreamInv'
<1> USE DEF ReadLatest, GoTo
<1>0. LatestCursor = newest /\ newest \in Nat
  BY LatestIsNewest DEF StreamInv, StreamTypes, EventStreamAssumption
<1>1. StreamTypes'
  BY <1>0 DEF StreamInv, StreamTypes, LogKept, Working
<1>2. pc'[s] = "send_snapshot" /\ latest'[s] = newest
  BY <1>0 DEF StreamInv, StreamTypes
<1>3. Fits(s)'
  BY <1>0, <1>2 DEF StreamInv, StreamTypes, Fits, Reads, Reached, BatchWhole,
                    PassedOverNone, SentSince, Started
<1> QED BY <1>1, <1>3, OthersFit

\* A frame joins those on their way.
LEMMA SendType ==
  ASSUME StreamTypes, NEW s \in Connections, NEW frame \in Frames, Send(s, frame)
  PROVE  wire' \in [Connections -> Seq(Frames)]
BY DEF StreamTypes, Send

LEMMA SendSnapshotKeeps ==
  ASSUME EventStreamAssumption, StreamInv, NEW s \in Connections, SendSnapshot(s)
  PROVE  StreamInv'
<1> USE DEF SendSnapshot, GoTo
<1>0. /\ latest[s] \in Nat /\ requested[s] \in Nat \cup {None}
      /\ StartCursor(s) \in Nat /\ newest \in Nat /\ latest[s] <= newest
  BY DEF StreamInv, StreamTypes, StartCursor, Fits, Reads
<1>1. StreamTypes'
  <2>1. Frame("snapshot", StartCursor(s), HistoryGap(requested[s], OldestCursor),
              CursorAhead(requested[s], latest[s])) \in Frames
    BY <1>0 DEF Frame, Frames, HistoryGap, CursorAhead
  <2>2. wire' \in [Connections -> Seq(Frames)]
    BY <2>1, SendType DEF StreamInv
  <2> QED BY <1>0, <2>2 DEF StreamInv, StreamTypes, LogKept, Working
<1>2. pc'[s] = "fetch" /\ cursor'[s] = StartCursor(s)
  BY DEF StreamInv, StreamTypes
<1>3. StartCursor(s)' = StartCursor(s)
  BY DEF StartCursor
<1>4. Fits(s)'
  BY <1>0, <1>2, <1>3 DEF StreamInv, StreamTypes, LogKept, Fits, Reads, Reached,
                          BatchWhole, PassedOverNone, SentSince, Started
<1> QED BY <1>1, <1>4, OthersFit

LEMMA FetchKeeps ==
  ASSUME EventStreamAssumption, StreamInv, NEW s \in Connections, Fetch(s)
  PROVE  StreamInv'
<1> USE DEF Fetch, GoTo
<1>0. /\ newest \in Nat /\ log \subseteq 1..newest /\ cursor[s] \in Nat
      /\ BatchSize \in Nat
  BY DEF StreamInv, StreamTypes, LogKept, EventStreamAssumption
<1> DEFINE rows == RowsAfter(cursor[s])
<1>1. /\ rows \subseteq log
      /\ \A b \in rows : b > cursor[s]
      /\ \A b \in rows : \A d \in log : cursor[s] < d /\ d < b => d \in rows
  BY <1>0, RowsAfterFacts
<1> HIDE DEF rows
<1>2. StreamTypes'
  <2>1. rows \subseteq 1..newest
    BY <1>0, <1>1
  <2> QED BY <2>1 DEF StreamInv, StreamTypes, LogKept, Working, rows
<1>3. /\ pc'[s] = IF rows = {} THEN "idle" ELSE "emit"
      /\ batch'[s] = rows
  BY DEF StreamInv, StreamTypes, rows
<1>4. Started(s) /\ Started(s)' /\ StartCursor(s)' = StartCursor(s)
  BY <1>3 DEF Started, StartCursor
<1>5. BatchWhole(s)'
  BY <1>1, <1>3 DEF BatchWhole
<1>6. Reads(s)' /\ Reached(s)' /\ PassedOverNone(s)' /\ SentSince(s)'
  BY <1>3, <1>4 DEF StreamInv, Fits, Reads, Reached, PassedOverNone, SentSince
<1> QED BY <1>2, <1>5, <1>6, OthersFit DEF Fits

\* What Emit yields: the next event of the batch, before which the log holds
\* nothing the stream has not passed.
LEMMA EmitNext ==
  ASSUME StreamTypes, NEW s \in Connections, BatchWhole(s), pc[s] = "emit"
  PROVE  LET e == Min(Pending(s))
         IN /\ e \in batch[s] /\ e \in 1..newest /\ e > cursor[s]
            /\ \A d \in log : d <= cursor[s] \/ d >= e
            /\ Pending(s) # {e} => \E b \in batch[s] : b > e
<1> DEFINE e == Min(Pending(s))
<1>0. newest \in Nat /\ cursor[s] \in Nat /\ batch[s] \subseteq 1..newest
      /\ log \subseteq 1..newest
  BY DEF StreamTypes, LogKept
<1>1. Pending(s) \in SUBSET Nat /\ Pending(s) # {}
  BY <1>0 DEF Pending, BatchWhole
<1>2. e \in Pending(s) /\ \A y \in Pending(s) : e <= y
  BY <1>1, MinFacts
<1> HIDE DEF e
<1>3. e \in batch[s] /\ e \in 1..newest /\ e > cursor[s]
  BY <1>0, <1>2 DEF Pending
<1>4. ASSUME NEW d \in log, ~(d <= cursor[s]), ~(d >= e) PROVE FALSE
  <2>1. cursor[s] < d /\ d < e
    BY <1>0, <1>3, <1>4
  <2>2. d \in Pending(s)
    BY <1>3, <2>1 DEF BatchWhole, Pending
  <2> QED BY <1>0, <1>2, <1>3, <2>1, <2>2
<1>5. ASSUME Pending(s) # {e} PROVE \E b \in batch[s] : b > e
  <2>1. PICK b \in Pending(s) : b # e
    BY <1>2, <1>5
  <2>2. e <= b /\ b \in Nat /\ b \in batch[s]
    BY <1>0, <1>2 DEF Pending
  <2> QED BY <1>3, <2>1, <2>2
<1>6. \A d \in log : d <= cursor[s] \/ d >= e
  BY <1>4
<1> QED BY <1>3, <1>5, <1>6 DEF e

LEMMA EmitKeeps ==
  ASSUME EventStreamAssumption, StreamInv, NEW s \in Connections, Emit(s)
  PROVE  StreamInv'
<1> DEFINE e == Min(Pending(s))
<1>0. /\ newest \in Nat /\ log \subseteq 1..newest /\ cursor[s] \in Nat
      /\ began[s] \in Nat /\ latest[s] \in Nat /\ StartCursor(s) \in Nat
      /\ sent[s] \subseteq 1..newest
  BY DEF StreamInv, StreamTypes, LogKept, StartCursor
<1>1. /\ e \in batch[s] /\ e \in 1..newest /\ e > cursor[s]
      /\ \A d \in log : d <= cursor[s] \/ d >= e
      /\ Pending(s) # {e} => \E b \in batch[s] : b > e
  BY EmitNext DEF StreamInv, Fits, Emit
<1>2. /\ pc[s] = "emit"
      /\ pc'[s] \in {"emit", "fetch", "idle"}
      /\ pc' = [pc EXCEPT ![s] = pc'[s]]
      /\ pc'[s] = "emit" => Pending(s) # {e}
      /\ cursor' = [cursor EXCEPT ![s] = e] /\ cursor'[s] = e
      /\ sent' = [sent EXCEPT ![s] = @ \cup {e}] /\ sent'[s] = sent[s] \cup {e}
      /\ Send(s, Frame("audit", e, FALSE, FALSE))
      /\ UNCHANGED <<newest, log, requested, latest, batch, began>>
  BY DEF StreamInv, StreamTypes, Emit, GoTo
<1> HIDE DEF e
<1>3. StreamTypes'
  <2>1. Frame("audit", e, FALSE, FALSE) \in Frames
    BY <1>0, <1>1 DEF Frame, Frames
  <2>2. wire' \in [Connections -> Seq(Frames)]
    BY <1>2, <2>1, SendType DEF StreamInv
  <2>3. sent' \in [Connections -> SUBSET (1..newest)]
    BY <1>0, <1>1, <1>2 DEF StreamInv, StreamTypes
  <2>4. cursor' \in [Connections -> Nat]
    BY <1>0, <1>1, <1>2 DEF StreamInv, StreamTypes
  <2>5. pc' \in [Connections -> {"none", "ended"} \cup Working]
    BY <1>2 DEF StreamInv, StreamTypes, Working
  <2> QED BY <1>2, <2>2, <2>3, <2>4, <2>5 DEF StreamInv, StreamTypes, LogKept
<1>4. Started(s) /\ Started(s)' /\ StartCursor(s)' = StartCursor(s)
  BY <1>2 DEF Started, StartCursor
<1>5. Reads(s) /\ Reached(s) /\ BatchWhole(s) /\ PassedOverNone(s) /\ SentSince(s)
  BY DEF StreamInv, Fits
<1>6. Reads(s)'
  BY <1>2, <1>4, <1>5 DEF Reads
<1>7. Reached(s)'
  BY <1>0, <1>1, <1>2, <1>4, <1>5 DEF Reached
<1>8. BatchWhole(s)'
  <2> SUFFICES ASSUME pc'[s] = "emit"
      PROVE  /\ \E b \in batch[s] : b > e
             /\ \A b \in batch[s], d \in log : e < d /\ d < b => d \in batch[s]
    BY <1>2 DEF BatchWhole
  <2>1. \A d \in log : e < d => cursor[s] < d
    <3>1. newest \in Nat /\ e \in 1..newest /\ cursor[s] \in Nat /\ e > cursor[s]
      BY <1>0, <1>1, Zenon
    <3>2. log \subseteq 1..newest
      BY <1>0, Zenon
    <3>3. ASSUME NEW d \in 1..newest, e < d PROVE cursor[s] < d
      BY <3>1, <3>3
    <3> QED BY <3>2, <3>3
  <2> QED BY <1>1, <1>2, <1>5, <2>1 DEF BatchWhole
<1>9. PassedOverNone(s)'
  <2> SUFFICES ASSUME NEW d \in log, StartCursor(s) < d, d <= e
               PROVE  d \in sent'[s]
    BY <1>2, <1>4 DEF PassedOverNone
  <2>1. CASE d <= cursor[s]
    BY <1>2, <1>4, <1>5, <2>1 DEF PassedOverNone
  <2>2. CASE d >= e
    BY <1>0, <1>1, <1>2, <2>2
  <2> QED BY <1>1, <2>1, <2>2
<1>10. SentSince(s)'
  <2> SUFFICES ASSUME requested[s] = None PROVE e > began[s]
    BY <1>2, <1>5 DEF SentSince
  <2>1. StartCursor(s) = latest[s] /\ began[s] <= latest[s] /\ latest[s] <= cursor[s]
    BY <1>4, <1>5 DEF StartCursor, Reads, Reached
  <2> QED BY <1>0, <1>1, <2>1
<1>11. Fits(s)'
  BY <1>6, <1>7, <1>8, <1>9, <1>10 DEF Fits
<1>12. \A t \in Connections \ {s} :
         /\ pc'[t] = pc[t] /\ requested'[t] = requested[t]
         /\ latest'[t] = latest[t] /\ cursor'[t] = cursor[t]
         /\ batch'[t] = batch[t] /\ began'[t] = began[t] /\ sent'[t] = sent[t]
  BY <1>2 DEF StreamInv, StreamTypes
<1> QED BY <1>2, <1>3, <1>11, <1>12, OthersFit

\* A heartbeat, a look at the log, the end of a stream, a frame that is taken.
LEMMA RestKeeps ==
  ASSUME EventStreamAssumption, StreamInv, NEW s \in Connections,
         Heartbeat(s) \/ Poll(s) \/ Stop(s) \/ Take(s)
  PROVE  StreamInv'
<1>0. cursor[s] \in Nat /\ newest \in Nat
  BY DEF StreamInv, StreamTypes
<1>1. CASE Heartbeat(s)
  <2>1. wire' \in [Connections -> Seq(Frames)]
    <3>1. Frame("heartbeat", cursor[s], FALSE, FALSE) \in Frames
      BY <1>0 DEF Frame, Frames
    <3> QED BY <1>1, <3>1, SendType DEF StreamInv, Heartbeat
  <2>2. StreamTypes'
    BY <1>1, <2>1 DEF Heartbeat, GoTo, StreamInv, StreamTypes, LogKept, Working
  <2>3. Fits(s)'
    BY <1>1 DEF Heartbeat, GoTo, StreamInv, StreamTypes, Fits, Reads, Reached,
                BatchWhole, PassedOverNone, SentSince, Started, StartCursor
  <2> QED BY <1>1, <2>2, <2>3, OthersFit DEF Heartbeat, GoTo
<1>2. CASE Poll(s)
  <2>1. StreamTypes'
    BY <1>2 DEF Poll, GoTo, StreamInv, StreamTypes, LogKept, Working
  <2>2. Fits(s)'
    BY <1>2 DEF Poll, GoTo, StreamInv, StreamTypes, Fits, Reads, Reached,
                BatchWhole, PassedOverNone, SentSince, Started, StartCursor
  <2> QED BY <1>2, <2>1, <2>2, OthersFit DEF Poll, GoTo
<1>3. CASE Stop(s)
  <2>1. StreamTypes'
    BY <1>3 DEF Stop, GoTo, StreamInv, StreamTypes, LogKept, Working
  <2>2. Fits(s)'
    BY <1>0, <1>3 DEF Stop, GoTo, StreamInv, StreamTypes, Fits, Reads, Reached,
                BatchWhole, PassedOverNone, SentSince, Started, StartCursor
  <2> QED BY <1>3, <2>1, <2>2, OthersFit DEF Stop, GoTo
<1>4. CASE Take(s)
  <2>1. wire' \in [Connections -> Seq(Frames)]
    BY <1>4 DEF Take, StreamInv, StreamTypes
  <2>2. StreamTypes'
    BY <1>4, <2>1 DEF Take, StreamInv, StreamTypes, LogKept
  <2>3. Fits(s)'
    BY <1>4 DEF Take, StreamInv, Fits, Reads, Reached,
                BatchWhole, PassedOverNone, SentSince, Started, StartCursor
  <2> QED BY <1>4, <2>2, <2>3, OthersFit DEF Take
<1> QED BY <1>1, <1>2, <1>3, <1>4

\* A step with any cursor at all asked for.
AnyStep ==
  \/ RecordEvent
  \/ \E s \in Connections :
       \/ \E after \in Nat \cup {None} : Accept(s, after)
       \/ StreamStep(s)
       \/ Stop(s)
       \/ Take(s)

LEMMA NextIsAnyStep ==
  ASSUME EventStreamAssumption PROVE Next => AnyStep
BY DEF EventStreamAssumption, Next, AnyStep

LEMMA StepKeepsStreams ==
  ASSUME EventStreamAssumption, StreamInv, [AnyStep]_vars
  PROVE  StreamInv'
<1>1. CASE UNCHANGED vars
  BY <1>1 DEF vars, streams, StreamInv, StreamTypes, LogKept, Fits, Reads, Reached,
              BatchWhole, PassedOverNone, SentSince, Started, StartCursor
<1>2. CASE RecordEvent
  BY <1>2, RecordKeeps
<1>3. ASSUME NEW s \in Connections, NEW after \in Nat \cup {None}, Accept(s, after)
      PROVE  StreamInv'
  BY <1>3, AcceptKeeps
<1>4. ASSUME NEW s \in Connections, StreamStep(s)
      PROVE  StreamInv'
  BY <1>4, ReadLatestKeeps, SendSnapshotKeeps, FetchKeeps, EmitKeeps, RestKeeps
     DEF StreamStep
<1>5. ASSUME NEW s \in Connections, Stop(s) \/ Take(s)
      PROVE  StreamInv'
  BY <1>5, RestKeeps
<1> QED BY <1>1, <1>2, <1>3, <1>4, <1>5 DEF AnyStep

---------------------------------------------------------------------------
(* The theorems.                                                           *)

LEMMA StreamsAlways ==
  ASSUME EventStreamAssumption
  PROVE  Spec => []StreamInv
<1>1. Init => StreamInv
  BY StreamInit
<1>2. StreamInv /\ [Next]_vars => StreamInv'
  BY StepKeepsStreams, NextIsAnyStep
<1> QED BY <1>1, <1>2, PTL DEF Spec

\* What stream_events yields between the cursor it started from and the one it
\* has reached leaves out nothing that is still in the log.
THEOREM PassesOverNothing ==
  ASSUME EventStreamAssumption
  PROVE  Spec => []NothingPassedOver
<1>1. StreamInv => NothingPassedOver
  BY DEF StreamInv, Fits, PassedOverNone, NothingPassedOver
<1> QED BY <1>1, StreamsAlways, PTL

\* A connection without after= is given only what was recorded since it was
\* accepted, although initial_snapshot reads the newest id later.
THEOREM FreshMeansNow ==
  ASSUME EventStreamAssumption
  PROVE  Spec => []FreshStartsNow
<1>1. StreamInv => FreshStartsNow
  BY DEF StreamInv, Fits, SentSince, FreshStartsNow
<1> QED BY <1>1, StreamsAlways, PTL

\* Only SendSnapshot takes a stream from its snapshot to its first fetch.
LEMMA SnapshotStep ==
  ASSUME StreamInv, [Next]_vars, NEW s \in Connections,
         pc[s] = "send_snapshot", pc'[s] = "fetch"
  PROVE  SendSnapshot(s)
<1>1. pc'[s] # pc[s]
  OBVIOUS
<1>2. ASSUME NEW t \in Connections, NEW after, Accept(t, after) PROVE FALSE
  BY <1>1, <1>2 DEF Accept, GoTo, StreamInv, StreamTypes
<1>3. ASSUME NEW t \in Connections, StreamStep(t) PROVE SendSnapshot(s)
  <2>1. t = s
    BY <1>1, <1>3 DEF StreamInv, StreamTypes, StreamStep, ReadLatest, SendSnapshot,
                      Fetch, Emit, Heartbeat, Poll, GoTo
  <2> QED
    BY <1>3, <2>1 DEF StreamStep, ReadLatest, Fetch, Emit, Heartbeat, Poll, GoTo
<1>4. ASSUME NEW t \in Connections, Stop(t) PROVE FALSE
  BY <1>1, <1>4 DEF Stop, GoTo, StreamInv, StreamTypes
<1> QED
  BY <1>1, <1>2, <1>3, <1>4 DEF Next, RecordEvent, Take, streams, vars

\* The boundary HistoryGap computes is that of what retention removed.
LEMMA GapMeansRemoved ==
  ASSUME newest \in Nat, MaxEventRows \in Nat \ {0}, LogKept, None \notin Nat,
         NEW after \in Nat
  PROVE  HistoryGap(after, OldestCursor)
         <=> \E e \in 1..newest : e > after /\ e \notin log
<1> DEFINE oldest == OldestCursor
<1>1. CASE newest = 0
  BY <1>1, OldestIsFirst DEF HistoryGap
<1>2. CASE newest > 0
  <2>1. oldest \in 1..newest /\ \A e \in 1..newest : e \in log <=> e >= oldest
    BY <1>2, OldestIsFirst
  <2> HIDE DEF oldest
  <2>2. HistoryGap(after, oldest) <=> after < oldest - 1
    BY <2>1 DEF HistoryGap
  <2>3. ASSUME after < oldest - 1
        PROVE  \E e \in 1..newest : e > after /\ e \notin log
    <3>1. oldest - 1 \in 1..newest /\ oldest - 1 > after /\ ~(oldest - 1 >= oldest)
      BY <2>1, <2>3
    <3> QED BY <2>1, <3>1
  <2>4. ASSUME NEW e \in 1..newest, e > after, e \notin log
        PROVE  after < oldest - 1
    BY <2>1, <2>4
  <2> QED BY <2>2, <2>3, <2>4 DEF oldest
<1> QED BY <1>1, <1>2

\* The snapshot says that history is missing exactly when retention removed an
\* event after the cursor the client asked to resume from.
THEOREM GapIsExact ==
  ASSUME EventStreamAssumption
  PROVE  Spec => HistoryGapExact
<1>1. ASSUME StreamInv, [Next]_vars, NEW s \in Connections,
             pc[s] = "send_snapshot", pc'[s] = "fetch", requested[s] # None
      PROVE  wire'[s][Len(wire'[s])].gap
             <=> \E e \in 1..newest : e > requested[s] /\ e \notin log
  <2> DEFINE frame == Frame("snapshot", StartCursor(s),
                            HistoryGap(requested[s], OldestCursor),
                            CursorAhead(requested[s], latest[s]))
  <2>1. requested[s] \in Nat /\ wire[s] \in Seq(Frames)
    BY <1>1 DEF StreamInv, StreamTypes
  <2>2. wire'[s] = Append(wire[s], frame)
    BY <1>1, SnapshotStep DEF SendSnapshot, Send, StreamInv, StreamTypes
  <2>3. frame.gap <=> HistoryGap(requested[s], OldestCursor)
    BY DEF Frame
  <2> HIDE DEF frame
  <2>4. wire'[s][Len(wire'[s])] = frame
    BY <2>1, <2>2
  <2>5. HistoryGap(requested[s], OldestCursor)
        <=> \E e \in 1..newest : e > requested[s] /\ e \notin log
    BY <1>1, <2>1, GapMeansRemoved
       DEF EventStreamAssumption, StreamInv, StreamTypes
  <2> QED BY <2>3, <2>4, <2>5
<1>2. StreamInv /\ [Next]_vars
      => [\A s \in Connections :
            pc[s] = "send_snapshot" /\ pc'[s] = "fetch" /\ requested[s] # None =>
              (wire'[s][Len(wire'[s])].gap
               <=> \E e \in 1..newest : e > requested[s] /\ e \notin log)]_vars
  BY <1>1
<1> QED BY <1>2, StreamsAlways, PTL DEF Spec, HistoryGapExact

=============================================================================
