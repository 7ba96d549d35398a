------------------------ MODULE EventDeliveryProofs ------------------------
(***************************************************************************)
(* What is proved of the log and of a subscription alone holds of the two  *)
(* together, and what only the two together promise: over connections that *)
(* break, a subscription misses nothing, rejects nothing and implements    *)
(* the abstract feed.                                                      *)
(***************************************************************************)
EXTENDS EventDelivery, TLAPS

Alone == INSTANCE EventSubscriptionProofs WITH
  Cursors <- 0..(InitialCursor + MaxEvents)

\* Every step of the composition is a callback of the subscription or leaves
\* it alone.
LEMMA ClientSteps == [Next]_vars => [Alone!AnyStep]_(Alone!vars)
<1> SUFFICES ASSUME [Next]_vars PROVE Alone!AnyStep \/ UNCHANGED client
  BY DEF Alone!vars, client
<1>1. CASE RecordEvent
  BY <1>1 DEF RecordEvent
<1>2. ASSUME NEW closes \in BOOLEAN, ConnectFails(closes) PROVE Alone!AnyStep
  <2>1. Alone!ConnectFails(closes)
    BY <1>2 DEF ConnectFails, Client!ConnectFails, Alone!ConnectFails,
                Client!ScheduleReconnect, Alone!ScheduleReconnect
  <2> QED BY <2>1 DEF Alone!AnyStep
<1>3. ASSUME NEW closes \in BOOLEAN, NEW s \in Sockets, Connect(s, closes)
      PROVE  Alone!AnyStep
  <2>1. Alone!Connect(s, closes)
    BY <1>3 DEF Connect, Client!Connect, Alone!Connect
  <2> QED BY <2>1 DEF Alone!AnyStep
<1>4. ASSUME NEW closes \in BOOLEAN, NEW s \in Sockets,
             Break(s, closes) \/ HangUp(s, closes)
      PROVE  Alone!AnyStep
  <2>1. Alone!Closes(s, closes)
    BY <1>4 DEF Break, HangUp, Client!Closes, Alone!Closes,
                Client!ScheduleReconnect, Alone!ScheduleReconnect
  <2> QED BY <2>1 DEF Alone!AnyStep
<1>5. CASE TimerAfterStop
  BY <1>5 DEF TimerAfterStop, Client!TimerAfterStop, Alone!TimerAfterStop,
              Alone!AnyStep
<1>6. ASSUME NEW s \in Sockets, Open(s) PROVE Alone!AnyStep
  <2>1. Alone!Opens(s)
    BY <1>6 DEF Open, Client!Opens, Alone!Opens
  <2> QED BY <2>1 DEF Alone!AnyStep
<1>7. ASSUME NEW s \in Sockets, Deliver(s) PROVE Alone!AnyStep
  <2> DEFINE frame == Head(wire[s])
  <2>1. Alone!Message(s, frame)
    BY <1>7 DEF Deliver, Client!Message, Alone!Message, Client!Fresh,
                Alone!Fresh, Client!Level, Alone!Level, Client!Invalid,
                Alone!Invalid
  <2> HIDE DEF frame
  <2> QED BY <2>1 DEF Alone!AnyStep
<1>8. ASSUME NEW s \in Sockets, StreamStep(s) \/ Fail(s) \/ Notice(s)
      PROVE  UNCHANGED client
  BY <1>8 DEF StreamStep, Fail, Notice
<1>9. CASE Close
  BY <1>9 DEF Close, Client!Close, Alone!Close, Alone!AnyStep
<1>10. CASE UNCHANGED vars
  BY <1>10 DEF vars
<1> QED
  BY <1>1, <1>2, <1>3, <1>4, <1>5, <1>6, <1>7, <1>8, <1>9, <1>10 DEF Next

LEMMA ConstantsFit == Alone!SubscriptionAssumption
BY DeliveryAssumption
   DEF DeliveryAssumption, Client!SubscriptionAssumption,
       Alone!SubscriptionAssumption

\* Against the server, over a network that breaks connections and loses frames,
\* a subscription that goes on has one socket or one pending reconnect.
THEOREM DeliveryNeverStuck == Spec => []SocketOrTimer
<1>1. Init => Alone!Inv
  <2>1. Init => Alone!Init
    BY DEF Init, Client!Init, Alone!Init
  <2> QED BY <2>1, ConstantsFit, Alone!InitInv
<1>2. Alone!Inv /\ [Next]_vars => Alone!Inv'
  BY ClientSteps, ConstantsFit, Alone!StepKeepsInv
<1>3. Alone!Inv => SocketOrTimer
  BY DEF Alone!Inv, Alone!SocketOrTimer, Alone!Live, SocketOrTimer,
         Client!SocketOrTimer, Client!Live
<1> QED BY <1>1, <1>2, <1>3, PTL DEF Spec

\* Once it has stopped it handles nothing and makes no connection, whatever is
\* still on the wire.
THEOREM DeliveryStops == Spec => StopIsFinal
<1>1. [Next]_vars
      => [stopped => /\ stopped'
                     /\ handled' = handled
                     /\ Client!Live' \subseteq Client!Live]_(Client!vars)
  BY ClientSteps, Alone!StepKeepsStop DEF Alone!Live, Client!Live
<1> QED BY <1>1, PTL DEF Spec, StopIsFinal, Client!StopIsFinal

---------------------------------------------------------------------------
(* The server's side, by the same token.                                   *)

Streams == INSTANCE EventStreamProofs WITH
  Connections <- Sockets, Afters <- 0..(InitialCursor + MaxEvents)

LEMMA StreamConstantsFit == Streams!EventStreamAssumption
BY DeliveryAssumption
   DEF DeliveryAssumption, Server!EventStreamAssumption,
       Streams!EventStreamAssumption

\* Both instances of the server name the same operators.
LEMMA SameCardinality ==
  ASSUME NEW S PROVE Server!Cardinality(S) = Streams!Cardinality(S)
BY Zenon DEF Server!Cardinality, Streams!Cardinality

LEMMA SameMin ==
  ASSUME NEW S PROVE Server!Min(S) = Streams!Min(S)
BY Zenon DEF Server!Min, Streams!Min

LEMMA SameReads ==
  /\ Server!LatestCursor = Streams!LatestCursor
  /\ Server!OldestCursor = Streams!OldestCursor
  /\ \A at : Server!RowsAfter(at) = Streams!RowsAfter(at)
<1>1. Server!LatestCursor = Streams!LatestCursor
  BY Zenon DEF Server!LatestCursor, Streams!LatestCursor, Server!Max, Streams!Max
<1>2. Server!OldestCursor = Streams!OldestCursor
  BY SameMin, Zenon DEF Server!OldestCursor, Streams!OldestCursor
<1>3. ASSUME NEW at PROVE Server!RowsAfter(at) = Streams!RowsAfter(at)
  BY SameCardinality, Zenon DEF Server!RowsAfter, Streams!RowsAfter
<1> QED BY <1>1, <1>2, <1>3

LEMMA SameEmit ==
  ASSUME NEW s \in Sockets PROVE Server!Emit(s) <=> Streams!Emit(s)
<1>1. Server!Pending(s) = Streams!Pending(s)
  BY DEF Server!Pending, Streams!Pending
<1>2. Server!Min(Server!Pending(s)) = Streams!Min(Streams!Pending(s))
  BY <1>1, SameMin
<1>3. Server!Cardinality(batch[s]) = Streams!Cardinality(batch[s])
  BY SameCardinality
<1> QED
  BY <1>1, <1>2, <1>3
     DEF Server!Emit, Streams!Emit, Server!GoTo, Streams!GoTo, Server!Send,
         Streams!Send, Server!Frame, Streams!Frame, Server!CanSend, Streams!CanSend

LEMMA StreamSteps ==
  ASSUME NEW s \in Sockets
  PROVE  /\ Server!StreamStep(s) => Streams!StreamStep(s)
         /\ Server!Stop(s) => Streams!Stop(s)
         /\ Server!Take(s) => Streams!Take(s)
         /\ \A after : Server!Accept(s, after) => Streams!Accept(s, after)
<1> USE SameReads
        DEF Server!GoTo, Streams!GoTo, Server!Send, Streams!Send, Server!Frame,
            Streams!Frame, Server!CanSend, Streams!CanSend
<1>1. Server!ReadLatest(s) => Streams!ReadLatest(s)
  BY DEF Server!ReadLatest, Streams!ReadLatest
<1>2. Server!SendSnapshot(s) => Streams!SendSnapshot(s)
  BY DEF Server!SendSnapshot, Streams!SendSnapshot, Server!StartCursor,
         Streams!StartCursor, Server!HistoryGap, Streams!HistoryGap,
         Server!CursorAhead, Streams!CursorAhead
<1>3. Server!Fetch(s) => Streams!Fetch(s)
  BY DEF Server!Fetch, Streams!Fetch
<1>4. Server!Emit(s) => Streams!Emit(s)
  BY SameEmit
<1>5. Server!Heartbeat(s) => Streams!Heartbeat(s)
  BY DEF Server!Heartbeat, Streams!Heartbeat
<1>6. Server!Poll(s) => Streams!Poll(s)
  BY DEF Server!Poll, Streams!Poll
<1>7. Server!Stop(s) => Streams!Stop(s)
  BY DEF Server!Stop, Streams!Stop, Server!Working, Streams!Working
<1>8. Server!Take(s) => Streams!Take(s)
  BY DEF Server!Take, Streams!Take
<1>9. ASSUME NEW after, Server!Accept(s, after) PROVE Streams!Accept(s, after)
  BY <1>9 DEF Server!Accept, Streams!Accept
<1> QED
  BY <1>1, <1>2, <1>3, <1>4, <1>5, <1>6, <1>7, <1>8, <1>9
     DEF Server!StreamStep, Streams!StreamStep

LEMMA SameRecord == Server!RecordEvent => Streams!RecordEvent
<1>1. ASSUME NEW rows PROVE Server!Retained(rows) = Streams!Retained(rows)
  BY SameCardinality, Zenon DEF Server!Retained, Streams!Retained
<1> QED
  BY <1>1 DEF Server!RecordEvent, Streams!RecordEvent, Server!streams, Streams!streams

---------------------------------------------------------------------------
(* Frames in flight.                                                       *)

\* A frame fits one who has come to a cursor: an audit frame is the next event
\* the log holds, any other frame repeats the cursor.
Follows(frame, at) ==
  IF frame.type = "audit"
    THEN /\ at < frame.cursor /\ frame.cursor <= newest
         /\ \A d \in log : d <= at \/ d >= frame.cursor
    ELSE frame.cursor = at

\* The cursor before the i-th frame, and after the last.
Before(w, from, i) == IF i = 1 THEN from ELSE w[i - 1].cursor
Tip(w, from) == Before(w, from, Len(w) + 1)

InOrder(w, from) == \A i \in 1..Len(w) : Follows(w[i], Before(w, from, i))

LEMMA OrderEmpty ==
  ASSUME NEW from
  PROVE  InOrder(<<>>, from) /\ Tip(<<>>, from) = from
BY DEF InOrder, Tip, Before

LEMMA OrderAppend ==
  ASSUME NEW w \in Seq(Streams!Frames), NEW from, InOrder(w, from),
         NEW frame \in Streams!Frames, Follows(frame, Tip(w, from))
  PROVE  InOrder(Append(w, frame), from) /\ Tip(Append(w, frame), from) = frame.cursor
<1> DEFINE v == Append(w, frame)
<1>1. /\ Len(v) = Len(w) + 1 /\ Len(w) \in Nat
      /\ \A i \in 1..Len(w) : v[i] = w[i]
      /\ v[Len(w) + 1] = frame
  OBVIOUS
<1> HIDE DEF v
<1>2. ASSUME NEW i \in 1..Len(v) PROVE Follows(v[i], Before(v, from, i))
  <2>1. CASE i = Len(w) + 1
    <3>1. Before(v, from, i) = Tip(w, from)
      BY <1>1, <2>1 DEF Before, Tip
    <3> QED BY <1>1, <2>1, <3>1
  <2>2. CASE i # Len(w) + 1
    <3>1. i \in 1..Len(w) /\ (i # 1 => i - 1 \in 1..Len(w))
      BY <1>1, <2>2
    <3>2. Before(v, from, i) = Before(w, from, i) /\ v[i] = w[i]
      BY <1>1, <3>1 DEF Before
    <3> QED BY <3>1, <3>2 DEF InOrder
  <2> QED BY <2>1, <2>2
<1>3. Tip(v, from) = frame.cursor
  <2>1. Len(v) + 1 # 1 /\ (Len(v) + 1) - 1 = Len(w) + 1
    BY <1>1
  <2> QED BY <1>1, <2>1 DEF Tip, Before
<1> QED BY <1>2, <1>3 DEF InOrder, v

LEMMA OrderTail ==
  ASSUME NEW w \in Seq(Streams!Frames), w # <<>>, NEW from, InOrder(w, from)
  PROVE  /\ Follows(Head(w), from) /\ Head(w) \in Streams!Frames
         /\ InOrder(Tail(w), Head(w).cursor)
         /\ Tip(Tail(w), Head(w).cursor) = Tip(w, from)
<1> DEFINE v == Tail(w)
           at == Head(w).cursor
<1>1. /\ Len(w) \in Nat /\ Len(w) >= 1 /\ Len(v) = Len(w) - 1
      /\ \A i \in 1..Len(v) : v[i] = w[i + 1]
      /\ Head(w) = w[1] /\ at = w[1].cursor
  OBVIOUS
<1>2. Head(w) \in Streams!Frames
  OBVIOUS
<1> HIDE DEF v, at
<1>3. Follows(Head(w), from)
  <2>1. 1 \in 1..Len(w) /\ Before(w, from, 1) = from
    BY <1>1 DEF Before
  <2>2. Follows(w[1], Before(w, from, 1))
    BY <2>1 DEF InOrder
  <2> QED BY <1>1, <2>1, <2>2
<1>4. ASSUME NEW i \in 1..(Len(v) + 1)
      PROVE  Before(v, at, i) = Before(w, from, i + 1)
  <2>1. CASE i = 1
    BY <1>1, <2>1 DEF Before
  <2>2. CASE i # 1
    <3>1. /\ i - 1 \in 1..Len(v) /\ (i - 1) + 1 = i /\ i + 1 # 1
          /\ (i + 1) - 1 = i
      BY <1>1, <2>2
    <3> QED BY <1>1, <2>2, <3>1 DEF Before
  <2> QED BY <2>1, <2>2
<1>5. ASSUME NEW i \in 1..Len(v) PROVE Follows(v[i], Before(v, at, i))
  <2>1. i + 1 \in 1..Len(w) /\ i \in 1..(Len(v) + 1)
    BY <1>1
  <2>2. Follows(w[i + 1], Before(w, from, i + 1))
    BY <2>1 DEF InOrder
  <2> QED BY <1>1, <1>4, <2>1, <2>2
<1>6. Tip(v, at) = Tip(w, from)
  <2>1. Len(v) + 1 \in 1..(Len(v) + 1) /\ (Len(v) + 1) + 1 = Len(w) + 1
    BY <1>1
  <2> QED BY <1>4, <2>1 DEF Tip
<1> QED BY <1>2, <1>3, <1>5, <1>6 DEF InOrder, v, at

\* What is recorded later comes after every frame in flight.
LEMMA OrderLater ==
  ASSUME NEW w \in Seq(Streams!Frames), NEW from \in Nat, InOrder(w, from),
         newest \in Nat, newest' \in Nat, newest <= newest',
         \A e \in log' : e \in log \/ (e \in Nat /\ e > newest)
  PROVE  InOrder(w, from)'
<1>1. ASSUME NEW i \in 1..Len(w)
      PROVE  Follows(w[i], Before(w, from, i))'
  <2> DEFINE at == Before(w, from, i)
  <2>1. w[i] \in Streams!Frames /\ Follows(w[i], at)
    BY DEF InOrder
  <2>2. w[i].cursor \in Nat
    BY <2>1 DEF Streams!Frames
  <2>3. w[i].cursor <= newest => w[i].cursor <= newest'
    BY <2>2
  <2>4. ASSUME w[i].cursor <= newest, \A d \in log : d <= at \/ d >= w[i].cursor
        PROVE  \A d \in log' : d <= at \/ d >= w[i].cursor
    BY <2>2, <2>4
  <2>5. Follows(w[i], at)'
    <3> HIDE DEF at
    <3> QED BY <2>1, <2>3, <2>4 DEF Follows
  <2> QED BY <2>5 DEF Before
<1> QED BY <1>1 DEF InOrder

---------------------------------------------------------------------------
(* The invariant of the composition.                                       *)

CursorFits ==
  /\ url \in [Sockets -> Nat]
  /\ lastCursor \in Nat /\ InitialCursor <= lastCursor
  /\ lastCursor <= newest \/ lastCursor = InitialCursor

\* A stream the subscription listens to continues where the subscription is:
\* what is on its way joins the cursor of the one to that of the other.
Flowing(s) ==
  /\ pc[s] \in Server!Working \cup {"ended"}
  /\ pc[s] \in {"read_latest", "send_snapshot"} =>
       wire[s] = <<>> /\ requested[s] = lastCursor
  /\ InOrder(wire[s], lastCursor)
  /\ pc[s] \in {"fetch", "emit", "idle"} => cursor[s] = Tip(wire[s], lastCursor)

Listening(s) ==
  active = s /\ ~stopped =>
    /\ socket[s] = "connecting" => url[s] = lastCursor
    /\ socket[s] = "open" => Flowing(s)

FlowInv ==
  /\ CursorFits
  /\ \A s \in Sockets : Listening(s)
  /\ NothingMissed
  /\ NoneRejected

DeliveryInv == Alone!Inv /\ Streams!StreamInv /\ FlowInv

LEMMA DeliveryTypes ==
  ASSUME Streams!StreamInv
  PROVE  /\ newest \in Nat /\ log \subseteq 1..newest
         /\ \A s \in Sockets :
              /\ wire[s] \in Seq(Streams!Frames)
              /\ requested[s] \in Nat \cup {None}
              /\ cursor[s] \in Nat /\ latest[s] \in Nat
BY DEF Streams!StreamInv, Streams!StreamTypes, Streams!LogKept

LEMMA FlowInit == Init => FlowInv
BY DeliveryAssumption
   DEF Init, Client!Init, Server!Init, FlowInv, CursorFits, Listening,
       NothingMissed, NoneRejected, DeliveryAssumption,
       Client!SubscriptionAssumption

\* The subscription stays as it is and the log does too, or grows.
LEMMA FlowServer ==
  ASSUME FlowInv, Streams!StreamInv, UNCHANGED client,
         newest' \in Nat, newest <= newest',
         \A e \in log' : e \in log \/ (e \in Nat /\ e > newest),
         \A s \in Sockets :
           Listening(s) /\ active = s /\ ~stopped /\ socket[s] = "open"
           => Flowing(s)'
  PROVE  FlowInv'
<1> USE DEF FlowInv, client
<1>1. CursorFits'
  <2>1. lastCursor <= newest => lastCursor <= newest'
    BY DeliveryTypes DEF CursorFits
  <2> QED BY <2>1 DEF CursorFits
<1>2. ASSUME NEW s \in Sockets PROVE Listening(s)'
  BY DEF Listening
<1>3. NothingMissed'
  <2> SUFFICES ASSUME NEW e \in log', InitialCursor < e, e <= lastCursor
               PROVE  e \in handled
    BY DEF NothingMissed
  <2>1. e \in log
    BY DeliveryTypes, DeliveryAssumption
       DEF CursorFits, DeliveryAssumption, Client!SubscriptionAssumption
  <2> QED BY <2>1 DEF NothingMissed
<1>4. NoneRejected'
  BY DEF NoneRejected
<1> QED BY <1>1, <1>2, <1>3, <1>4

LEMMA FlowRecord ==
  ASSUME FlowInv, Streams!StreamInv, RecordEvent
  PROVE  FlowInv'
<1>1. Streams!RecordEvent
  BY SameRecord DEF RecordEvent
<1>2. /\ newest' \in Nat /\ newest <= newest'
      /\ \A e \in log' : e \in log \/ (e \in Nat /\ e > newest)
      /\ UNCHANGED <<pc, requested, cursor, wire>>
  <2>1. newest' = newest + 1 /\ UNCHANGED Streams!streams
    BY <1>1 DEF Streams!RecordEvent
  <2>2. log' \subseteq log \cup {newest + 1}
    BY <1>1 DEF Streams!RecordEvent, Streams!Retained
  <2> QED BY <2>1, <2>2, DeliveryTypes DEF Streams!streams
<1>3. ASSUME NEW s \in Sockets, Flowing(s) PROVE Flowing(s)'
  <2>1. InOrder(wire[s], lastCursor)'
    BY <1>2, <1>3, DeliveryTypes, OrderLater
       DEF FlowInv, CursorFits, Flowing, RecordEvent, client
  <2> QED BY <1>2, <1>3, <2>1 DEF Flowing, RecordEvent, client, Tip, Before
<1> QED BY <1>2, <1>3, FlowServer DEF RecordEvent, Listening

\* A frame the stream sends is the next one for a subscription that listens.
LEMMA SendFlows ==
  ASSUME FlowInv, Streams!StreamInv, NEW s \in Sockets, UNCHANGED <<newest, log>>,
         UNCHANGED lastCursor, NEW frame \in Streams!Frames, Streams!Send(s, frame),
         InOrder(wire[s], lastCursor),
         Follows(frame, Tip(wire[s], lastCursor)),
         pc'[s] \in {"fetch", "emit", "idle"},
         cursor'[s] = frame.cursor
  PROVE  Flowing(s)'
<1>1. wire'[s] = Append(wire[s], frame) /\ wire[s] \in Seq(Streams!Frames)
  BY DEF Streams!Send, Streams!StreamInv, Streams!StreamTypes
<1> DEFINE w == wire[s]
<1>2. InOrder(Append(w, frame), lastCursor) /\ Tip(Append(w, frame), lastCursor) = frame.cursor
  BY <1>1, OrderAppend
<1>3. InOrder(wire[s], lastCursor)'
  BY <1>1, <1>2 DEF InOrder, Before, Follows
<1>4. Tip(wire[s], lastCursor)' = frame.cursor
  BY <1>1, <1>2 DEF Tip, Before
<1> QED BY <1>3, <1>4 DEF Flowing, Server!Working

LEMMA FlowStream ==
  ASSUME FlowInv, Streams!StreamInv, NEW s \in Sockets, StreamStep(s)
  PROVE  FlowInv'
<1>0. Streams!StreamStep(s) /\ UNCHANGED client
  BY StreamSteps DEF StreamStep
<1>1. UNCHANGED <<newest, log>>
  BY <1>0 DEF Streams!StreamStep, Streams!ReadLatest, Streams!SendSnapshot,
              Streams!Fetch, Streams!Emit, Streams!Heartbeat, Streams!Poll
<1>2. ASSUME NEW t \in Sockets, t # s, Flowing(t) PROVE Flowing(t)'
  <2>1. /\ pc'[t] = pc[t] /\ requested'[t] = requested[t]
        /\ cursor'[t] = cursor[t] /\ wire'[t] = wire[t]
    BY <1>0, <1>2
       DEF Streams!StreamStep, Streams!ReadLatest, Streams!SendSnapshot,
           Streams!Fetch, Streams!Emit, Streams!Heartbeat, Streams!Poll,
           Streams!GoTo, Streams!Send, Streams!StreamInv, Streams!StreamTypes
  <2> QED BY <1>0, <1>1, <1>2, <2>1
          DEF client, Flowing, InOrder, Follows, Tip, Before
<1>3. ASSUME Flowing(s) PROVE Flowing(s)'
  <2>0. /\ cursor[s] \in Nat /\ lastCursor \in Nat /\ wire[s] \in Seq(Streams!Frames)
        /\ UNCHANGED lastCursor /\ None \notin Nat
    BY <1>0, DeliveryTypes, StreamConstantsFit
       DEF FlowInv, CursorFits, client, Streams!EventStreamAssumption
  <2>1. CASE Streams!ReadLatest(s)
    <3>1. /\ pc[s] = "read_latest" /\ pc'[s] = "send_snapshot"
          /\ UNCHANGED <<requested, wire>>
      BY <2>1 DEF Streams!ReadLatest, Streams!GoTo, Streams!StreamInv,
                  Streams!StreamTypes
    <3> QED BY <1>1, <1>3, <2>0, <3>1
            DEF Flowing, Server!Working, InOrder, Follows, Before
  <2>2. CASE Streams!SendSnapshot(s)
    <3> DEFINE frame == Streams!Frame("snapshot", Streams!StartCursor(s),
                 Streams!HistoryGap(requested[s], Streams!OldestCursor),
                 Streams!CursorAhead(requested[s], latest[s]))
    <3>1. wire[s] = <<>> /\ requested[s] = lastCursor
      BY <1>3, <2>2 DEF Flowing, Streams!SendSnapshot
    <3>2. Streams!StartCursor(s) = lastCursor
      BY <2>0, <3>1 DEF Streams!StartCursor
    <3>3. /\ pc'[s] = "fetch" /\ cursor'[s] = lastCursor
          /\ Streams!Send(s, frame)
      BY <2>2, <3>2 DEF Streams!SendSnapshot, Streams!GoTo, Streams!StreamInv,
                        Streams!StreamTypes
    <3>4. frame \in Streams!Frames /\ frame.type = "snapshot" /\ frame.cursor = lastCursor
      BY <2>0, <3>2 DEF Streams!Frame, Streams!Frames, Streams!HistoryGap,
                        Streams!CursorAhead
    <3> HIDE DEF frame
    <3>5. Tip(wire[s], lastCursor) = lastCursor
      BY <3>1, OrderEmpty
    <3>6. Follows(frame, Tip(wire[s], lastCursor))
      BY <3>4, <3>5 DEF Follows
    <3>7. InOrder(wire[s], lastCursor)
      BY <1>3 DEF Flowing
    <3> QED BY <1>1, <2>0, <3>3, <3>4, <3>6, <3>7, SendFlows
  <2>3. CASE Streams!Fetch(s) \/ Streams!Poll(s)
    <3>1. /\ pc[s] \in {"fetch", "emit", "idle"} /\ pc'[s] \in {"fetch", "emit", "idle"}
          /\ UNCHANGED <<requested, wire, cursor>>
      BY <2>3 DEF Streams!Fetch, Streams!Poll, Streams!GoTo, Streams!StreamInv,
                  Streams!StreamTypes
    <3> QED BY <1>1, <1>3, <2>0, <3>1
            DEF Flowing, Server!Working, InOrder, Follows, Before, Tip
  <2>4. CASE Streams!Emit(s)
    <3> DEFINE e == Streams!Min(Streams!Pending(s))
               frame == Streams!Frame("audit", e, FALSE, FALSE)
    <3>1. /\ e \in 1..newest /\ e > cursor[s]
          /\ \A d \in log : d <= cursor[s] \/ d >= e
      BY <2>4, Streams!EmitNext DEF Streams!Emit, Streams!StreamInv, Streams!Fits
    <3>2. /\ pc[s] = "emit" /\ pc'[s] \in {"fetch", "emit", "idle"}
          /\ cursor'[s] = e /\ Streams!Send(s, frame)
      BY <2>4 DEF Streams!Emit, Streams!GoTo, Streams!StreamInv, Streams!StreamTypes
    <3> HIDE DEF e
    <3>3. e \in Nat /\ e <= newest /\ cursor[s] < e
      BY <2>0, <3>1, DeliveryTypes
    <3>4. frame \in Streams!Frames /\ frame.type = "audit" /\ frame.cursor = e
      BY <3>3 DEF Streams!Frame, Streams!Frames
    <3> HIDE DEF frame
    <3>5. InOrder(wire[s], lastCursor) /\ cursor[s] = Tip(wire[s], lastCursor)
      BY <1>3, <3>2 DEF Flowing
    <3>6. Follows(frame, cursor[s])
      BY <3>1, <3>3, <3>4 DEF Follows
    <3> QED BY <1>1, <2>0, <3>2, <3>4, <3>5, <3>6, SendFlows
  <2>5. CASE Streams!Heartbeat(s)
    <3> DEFINE frame == Streams!Frame("heartbeat", cursor[s], FALSE, FALSE)
    <3>1. /\ pc[s] = "idle" /\ pc'[s] = "fetch"
          /\ cursor'[s] = cursor[s] /\ Streams!Send(s, frame)
      BY <2>5 DEF Streams!Heartbeat, Streams!GoTo, Streams!StreamInv,
                  Streams!StreamTypes
    <3>2. /\ frame \in Streams!Frames /\ frame.type = "heartbeat"
          /\ frame.cursor = cursor[s]
      BY <2>0 DEF Streams!Frame, Streams!Frames
    <3> HIDE DEF frame
    <3>3. InOrder(wire[s], lastCursor) /\ cursor[s] = Tip(wire[s], lastCursor)
      BY <1>3, <3>1 DEF Flowing
    <3>4. Follows(frame, cursor[s])
      BY <3>2 DEF Follows
    <3> QED BY <1>1, <2>0, <3>1, <3>2, <3>3, <3>4, SendFlows
  <2> QED BY <1>0, <2>1, <2>2, <2>3, <2>4, <2>5 DEF Streams!StreamStep
<1>4. newest' \in Nat /\ newest <= newest'
  BY <1>1, DeliveryTypes
<1> QED BY <1>0, <1>1, <1>2, <1>3, <1>4, FlowServer DEF Listening

\* A stream that ends, of itself or as the client has gone, sends nothing more.
LEMMA FlowStop ==
  ASSUME FlowInv, Streams!StreamInv, NEW s \in Sockets, Fail(s) \/ Notice(s)
  PROVE  FlowInv'
<1>0. Streams!Stop(s) /\ UNCHANGED client
  BY StreamSteps DEF Fail, Notice
<1>1. /\ UNCHANGED <<newest, log, requested, wire>>
      /\ newest' \in Nat /\ newest <= newest'
  BY <1>0, DeliveryTypes DEF Streams!Stop
<1>2. ASSUME NEW t \in Sockets, Flowing(t) PROVE Flowing(t)'
  <2>1. pc'[t] = "ended" \/ (pc'[t] = pc[t] /\ cursor'[t] = cursor[t])
    BY <1>0 DEF Streams!Stop, Streams!GoTo, Streams!StreamInv, Streams!StreamTypes
  <2> QED BY <1>0, <1>1, <1>2, <2>1
          DEF client, Flowing, Server!Working, InOrder, Follows, Before, Tip
<1> QED BY <1>0, <1>1, <1>2, FlowServer DEF Listening

\* A stream starts where the subscription is.
LEMMA FlowOpen ==
  ASSUME FlowInv, Streams!StreamInv, NEW s \in Sockets, Open(s)
  PROVE  FlowInv'
<1>0. Streams!Accept(s, url[s]) /\ Client!Opens(s)
  BY StreamSteps DEF Open
<1>1. /\ UNCHANGED <<newest, log, url, active, lastCursor, stopped, handled, rejected>>
      /\ socket[s] = "connecting" /\ socket' = [socket EXCEPT ![s] = "open"]
  BY <1>0 DEF Streams!Accept, Client!Opens
<1>2. /\ pc'[s] = "read_latest" /\ requested'[s] = url[s] /\ wire'[s] = <<>>
      /\ \A t \in Sockets \ {s} :
           /\ pc'[t] = pc[t] /\ requested'[t] = requested[t]
           /\ cursor'[t] = cursor[t] /\ wire'[t] = wire[t]
  BY <1>0 DEF Streams!Accept, Streams!GoTo, Streams!StreamInv, Streams!StreamTypes
<1>3. ASSUME NEW t \in Sockets PROVE Listening(t)'
  <2>1. CASE t = s
    BY <1>1, <1>2, <2>1, OrderEmpty
       DEF FlowInv, Listening, Flowing, Server!Working, InOrder
  <2>2. CASE t # s
    <3>1. socket'[t] = socket[t]
      BY <1>1, <2>2
    <3>2. Flowing(t) => Flowing(t)'
      BY <1>1, <1>2, <2>2 DEF Flowing, InOrder, Follows, Before, Tip
    <3> QED BY <1>1, <3>1, <3>2 DEF FlowInv, Listening
  <2> QED BY <2>1, <2>2
<1>4. CursorFits' /\ NothingMissed' /\ NoneRejected'
  BY <1>1 DEF FlowInv, CursorFits, NothingMissed, NoneRejected
<1> QED BY <1>3, <1>4 DEF FlowInv

\* The subscription connects, fails, loses its socket or is closed.
LEMMA FlowClient ==
  ASSUME FlowInv, Alone!Inv, NEW closes \in BOOLEAN, NEW s \in Sockets,
         \/ Connect(s, closes) \/ ConnectFails(closes) \/ TimerAfterStop
         \/ Break(s, closes) \/ HangUp(s, closes) \/ Close
  PROVE  FlowInv'
<1>0. UNCHANGED <<server, lastCursor, handled, rejected>>
  BY DEF Connect, Client!Connect, ConnectFails, Client!ConnectFails, TimerAfterStop,
         Client!TimerAfterStop, Break, HangUp, Client!Closes, Close, Client!Close
<1>1. url' \in [Sockets -> Nat]
  BY DEF FlowInv, CursorFits, Connect, Client!Connect, ConnectFails,
         Client!ConnectFails, TimerAfterStop, Client!TimerAfterStop, Break, HangUp,
         Client!Closes, Close, Client!Close
<1>2. CursorFits' /\ NothingMissed' /\ NoneRejected'
  BY <1>0, <1>1 DEF server, FlowInv, CursorFits, NothingMissed, NoneRejected
<1>3. ASSUME NEW t \in Sockets PROVE Listening(t)'
  <2>0. None \notin Sockets
    BY DeliveryAssumption DEF DeliveryAssumption, Client!SubscriptionAssumption
  <2>1. CASE Connect(s, closes)
    BY <2>1 DEF Connect, Client!Connect, FlowInv, CursorFits, Listening,
                Alone!Inv, Alone!ControlTypes
  <2>2. CASE ConnectFails(closes)
    <3>1. active = None /\ active' = active
      BY <2>2 DEF ConnectFails, Client!ConnectFails, Alone!Inv, Alone!SocketOrTimer
    <3> QED BY <2>0, <3>1 DEF Listening
  <2>3. CASE TimerAfterStop
    BY <2>3 DEF TimerAfterStop, Client!TimerAfterStop, Listening
  <2>4. CASE Break(s, closes) \/ HangUp(s, closes)
    <3>1. s = active /\ active' = None
      BY <2>4 DEF Break, HangUp, Client!Closes, Alone!Inv, Alone!SocketOrTimer,
                  Alone!Live
    <3> QED BY <2>0, <3>1 DEF Listening
  <2>5. CASE Close
    BY <2>5 DEF Close, Client!Close, Listening
  <2> QED BY <2>1, <2>2, <2>3, <2>4, <2>5
<1> QED BY <1>2, <1>3 DEF FlowInv

\* A socket that delivers is the active one.
LEMMA OpenIsActive ==
  ASSUME Alone!Inv, NEW s \in Sockets, socket[s] = "open"
  PROVE  active = s
BY DEF Alone!Inv, Alone!SocketOrTimer, Alone!Live

\* What the subscription finds when a frame arrives, until it stops: the next
\* event, or its own cursor.
LEMMA Arrives ==
  ASSUME FlowInv, Alone!Inv, Streams!StreamInv, NEW s \in Sockets, Deliver(s), ~stopped
  PROVE  LET frame == Head(wire[s])
         IN /\ active = s /\ frame \in Streams!Frames /\ Follows(frame, lastCursor)
            /\ frame.type = "audit" =>
                 /\ Client!Fresh(frame) /\ ~Client!Invalid(frame)
                 /\ lastCursor' = frame.cursor /\ handled' = handled \cup {frame.cursor}
            /\ frame.type # "audit" =>
                 /\ ~Client!Fresh(frame) /\ ~Client!Invalid(frame)
                 /\ UNCHANGED <<lastCursor, handled>>
            /\ frame.cursor = lastCursor'
            /\ ~rejected'
<1> DEFINE frame == Head(wire[s])
<1>0. wire[s] # <<>> /\ Client!Message(s, frame)
  BY DEF Deliver
<1>1. active = s
  BY <1>0, OpenIsActive DEF Client!Message
<1>2. InOrder(wire[s], lastCursor) /\ wire[s] \in Seq(Streams!Frames)
  BY <1>0, <1>1, DeliveryTypes DEF FlowInv, Listening, Flowing, Client!Message
<1>3. frame \in Streams!Frames /\ Follows(frame, lastCursor)
  BY <1>0, <1>2, OrderTail
<1> HIDE DEF frame
<1>4. frame.type = "audit" => Client!Fresh(frame) /\ ~Client!Invalid(frame)
  BY <1>3 DEF Follows, Client!Fresh, Client!Invalid, FlowInv, CursorFits, Streams!Frames
<1>5. frame.type # "audit" => ~Client!Fresh(frame) /\ ~Client!Invalid(frame)
  BY <1>3 DEF Follows, Client!Fresh, Client!Invalid, Streams!Frames
<1>6. /\ Client!Fresh(frame) => lastCursor' = frame.cursor /\ handled' = handled \cup {frame.cursor}
      /\ ~Client!Fresh(frame) => UNCHANGED <<lastCursor, handled>>
      /\ rejected' = (rejected \/ Client!Invalid(frame))
  BY <1>0, <1>1 DEF Client!Message
<1>7. frame.cursor = lastCursor'
  BY <1>3, <1>4, <1>5, <1>6 DEF Follows
<1>8. ~rejected'
  BY <1>4, <1>5, <1>6 DEF FlowInv, NoneRejected
<1> QED BY <1>1, <1>3, <1>4, <1>5, <1>6, <1>7, <1>8 DEF frame

LEMMA FlowDeliver ==
  ASSUME FlowInv, Alone!Inv, Streams!StreamInv, NEW s \in Sockets, Deliver(s)
  PROVE  FlowInv'
<1> DEFINE frame == Head(wire[s])
<1>0. /\ wire[s] # <<>> /\ socket[s] = "open"
      /\ UNCHANGED <<socket, url, active, timer, stopped>>
      /\ UNCHANGED <<newest, log, pc, requested, latest, cursor>>
      /\ wire' = [wire EXCEPT ![s] = Tail(@)]
      /\ stopped => UNCHANGED <<lastCursor, handled>> /\ ~rejected'
  BY DEF Deliver, Client!Message, Server!Take, FlowInv, NoneRejected
<1>1. CASE stopped
  BY <1>0, <1>1 DEF FlowInv, CursorFits, Listening, NothingMissed, NoneRejected
<1>2. CASE ~stopped
  <2>0. newest \in Nat /\ lastCursor \in Nat /\ wire[s] \in Seq(Streams!Frames)
        /\ log \subseteq 1..newest /\ InitialCursor \in Nat
    BY DeliveryTypes, DeliveryAssumption
       DEF FlowInv, CursorFits, DeliveryAssumption, Client!SubscriptionAssumption
  <2>1. /\ active = s /\ frame \in Streams!Frames /\ Follows(frame, lastCursor)
        /\ frame.type = "audit" =>
             lastCursor' = frame.cursor /\ handled' = handled \cup {frame.cursor}
        /\ frame.type # "audit" => UNCHANGED <<lastCursor, handled>>
        /\ frame.cursor = lastCursor'
        /\ ~rejected'
    BY <1>2, Arrives
  <2>2. Flowing(s)
    BY <1>0, <1>2, <2>1 DEF FlowInv, Listening
  <2>3. /\ wire'[s] = Tail(wire[s])
        /\ InOrder(Tail(wire[s]), lastCursor')
        /\ Tip(Tail(wire[s]), lastCursor') = Tip(wire[s], lastCursor)
    BY <1>0, <2>0, <2>1, <2>2, OrderTail
       DEF Flowing, Streams!StreamInv, Streams!StreamTypes
  <2> HIDE DEF frame
  <2>4. Flowing(s)'
    <3>1. pc[s] \notin {"read_latest", "send_snapshot"}
      BY <1>0, <2>2 DEF Flowing
    <3>2. InOrder(wire[s], lastCursor)' /\ Tip(wire[s], lastCursor)' = Tip(wire[s], lastCursor)
      BY <1>0, <2>3 DEF InOrder, Follows, Before, Tip
    <3> QED BY <1>0, <2>2, <3>1, <3>2 DEF Flowing
  <2>5. ASSUME NEW t \in Sockets PROVE Listening(t)'
    BY <1>0, <2>1, <2>4 DEF Listening
  <2>6. /\ lastCursor' \in Nat /\ lastCursor <= lastCursor'
        /\ lastCursor' = lastCursor \/ lastCursor' <= newest
        /\ \A d \in log : d <= lastCursor \/ d >= lastCursor'
    BY <2>0, <2>1 DEF Follows, Streams!Frames
  <2>7. CursorFits'
    BY <1>0, <2>0, <2>6 DEF FlowInv, CursorFits
  <2>8. NothingMissed'
    <3> SUFFICES ASSUME NEW d \in log, InitialCursor < d, d <= lastCursor'
                 PROVE  d \in handled'
      BY <1>0 DEF NothingMissed
    <3>1. CASE d <= lastCursor
      BY <2>1, <3>1 DEF FlowInv, NothingMissed
    <3>2. CASE ~(d <= lastCursor)
      <4>1. d = lastCursor' /\ lastCursor' # lastCursor
        BY <2>0, <2>6, <3>2
      <4> QED BY <2>1, <4>1
    <3> QED BY <3>1, <3>2
  <2> QED BY <2>1, <2>5, <2>7, <2>8 DEF FlowInv, NoneRejected
<1> QED BY <1>1, <1>2

---------------------------------------------------------------------------
(* Every step keeps the invariant.                                         *)

\* Every step of the composition is a step of the server with some cursor
\* asked for, or leaves it alone.
LEMMA ServerSteps ==
  ASSUME CursorFits, [Next]_vars
  PROVE  [Streams!AnyStep]_(Streams!vars)
<1>1. CASE RecordEvent
  BY <1>1, SameRecord DEF RecordEvent, Streams!AnyStep
<1>2. ASSUME NEW s \in Sockets,
             StreamStep(s) \/ Deliver(s) \/ Fail(s) \/ Notice(s)
      PROVE  Streams!AnyStep
  <2>1. Streams!StreamStep(s) \/ Streams!Stop(s) \/ Streams!Take(s)
    BY <1>2, StreamSteps DEF StreamStep, Deliver, Fail, Notice
  <2> QED BY <2>1 DEF Streams!AnyStep
<1>3. ASSUME NEW s \in Sockets, Open(s) PROVE Streams!AnyStep
  <2>1. Streams!Accept(s, url[s]) /\ url[s] \in Nat \cup {None}
    BY <1>3, StreamSteps DEF Open, CursorFits
  <2> QED BY <2>1 DEF Streams!AnyStep
<1>4. ASSUME \/ \E closes \in BOOLEAN :
                  \/ ConnectFails(closes)
                  \/ \E s \in Sockets :
                       Connect(s, closes) \/ Break(s, closes) \/ HangUp(s, closes)
             \/ TimerAfterStop \/ Close \/ UNCHANGED vars
      PROVE  UNCHANGED server
  BY <1>4 DEF ConnectFails, Connect, Break, HangUp, TimerAfterStop, Close, vars
<1>5. UNCHANGED server => UNCHANGED Streams!vars
  BY DEF server, Streams!vars, Streams!streams
<1> QED BY <1>1, <1>2, <1>3, <1>4, <1>5 DEF Next

LEMMA DeliveryInit == Init => DeliveryInv
<1> SUFFICES ASSUME Init PROVE DeliveryInv
  OBVIOUS
<1>1. Alone!Inv
  <2>1. Alone!Init
    BY DEF Init, Client!Init, Alone!Init
  <2> QED BY <2>1, ConstantsFit, Alone!InitInv
<1>2. Streams!StreamInv
  <2>1. Streams!Init
    BY DEF Init, Server!Init, Streams!Init
  <2> QED BY <2>1, StreamConstantsFit, Streams!StreamInit
<1> QED BY <1>1, <1>2, FlowInit DEF DeliveryInv

LEMMA DeliveryStep == DeliveryInv /\ [Next]_vars => DeliveryInv'
<1> SUFFICES ASSUME DeliveryInv, [Next]_vars PROVE DeliveryInv'
  OBVIOUS
<1> USE DEF DeliveryInv
<1>1. Alone!Inv'
  BY ClientSteps, ConstantsFit, Alone!StepKeepsInv
<1>2. Streams!StreamInv'
  BY ServerSteps, StreamConstantsFit, Streams!StepKeepsStreams DEF FlowInv
<1>3. FlowInv'
  <2>1. CASE RecordEvent
    BY <2>1, FlowRecord
  <2>2. ASSUME NEW s \in Sockets,
               StreamStep(s) \/ Open(s) \/ Deliver(s) \/ Fail(s) \/ Notice(s)
        PROVE  FlowInv'
    BY <2>2, FlowStream, FlowOpen, FlowDeliver, FlowStop
  <2>3. ASSUME NEW closes \in BOOLEAN, NEW s \in Sockets,
               Connect(s, closes) \/ Break(s, closes) \/ HangUp(s, closes)
        PROVE  FlowInv'
    BY <2>3, FlowClient
  <2>4. ASSUME NEW closes \in BOOLEAN,
               ConnectFails(closes) \/ TimerAfterStop \/ Close
        PROVE  FlowInv'
    <3>1. CASE Sockets = {}
      <4>1. UNCHANGED <<newest, log, url, lastCursor, handled, rejected>>
        BY <2>4 DEF ConnectFails, Client!ConnectFails, TimerAfterStop,
                    Client!TimerAfterStop, Close, Client!Close, server
      <4> QED BY <3>1, <4>1 DEF FlowInv, CursorFits, NothingMissed, NoneRejected
    <3>2. CASE Sockets # {}
      BY <2>4, <3>2, FlowClient
    <3> QED BY <3>1, <3>2
  <2>5. CASE UNCHANGED vars
    BY <2>5 DEF vars, server, client, FlowInv, CursorFits, Listening, Flowing,
                InOrder, Follows, Before, Tip, NothingMissed, NoneRejected
  <2> QED BY <2>1, <2>2, <2>3, <2>4, <2>5 DEF Next
<1> QED BY <1>1, <1>2, <1>3

LEMMA DeliveryAlways == Spec => []DeliveryInv
BY DeliveryInit, DeliveryStep, PTL DEF Spec

---------------------------------------------------------------------------
(* The theorems.                                                           *)

\* However often the connection breaks and whatever frames are lost with it,
\* an event the log still holds and the cursor has passed was handled.
THEOREM MissesNothing == Spec => []NothingMissed
<1>1. DeliveryInv => NothingMissed
  BY DEF DeliveryInv, FlowInv
<1> QED BY <1>1, DeliveryAlways, PTL

\* acceptMessage rejects nothing an honest server sends: each snapshot and
\* heartbeat arrives at the cursor it carries.
THEOREM RejectsNothing == Spec => []NoneRejected
<1>1. DeliveryInv => NoneRejected
  BY DEF DeliveryInv, FlowInv
<1> QED BY <1>1, DeliveryAlways, PTL

---------------------------------------------------------------------------
(* Reconnects, lost frames, batches and trims amount to the abstract feed. *)

\* Until the subscription stops, a step of the composition that it notices is
\* an event given or its end.
LEMMA FeedStep ==
  ASSUME DeliveryInv, [Next]_vars
  PROVE  [Feed!Next]_(Feed!vars)
<1> USE DEF DeliveryInv
<1>1. CASE RecordEvent
  <2>1. newest' = newest + 1 /\ UNCHANGED client
    BY <1>1 DEF RecordEvent, Server!RecordEvent
  <2>2. Streams!LogKept' /\ newest \in Nat /\ MaxEventRows \in Nat
        /\ Streams!LogKept
    BY DeliveryStep, StreamConstantsFit
       DEF Streams!StreamInv, Streams!StreamTypes, Streams!EventStreamAssumption
  <2>3. log' = {e \in log \cup {newest'} : e > newest' - MaxEventRows}
    BY <2>1, <2>2 DEF Streams!LogKept
  <2> QED BY <2>1, <2>3 DEF client, Feed!Next, Feed!Append
<1>2. ASSUME NEW s \in Sockets, Deliver(s) PROVE [Feed!Next]_(Feed!vars)
  <2>1. UNCHANGED <<newest, log, stopped>>
    BY <1>2 DEF Deliver, Server!Take, Client!Message
  <2>2. CASE stopped
    BY <1>2, <2>1, <2>2 DEF Deliver, Client!Message, Feed!vars
  <2>3. CASE ~stopped
    <3> DEFINE frame == Head(wire[s])
    <3>1. /\ frame \in Streams!Frames /\ Follows(frame, lastCursor)
          /\ frame.type = "audit" =>
               lastCursor' = frame.cursor /\ handled' = handled \cup {frame.cursor}
          /\ frame.type # "audit" => UNCHANGED <<lastCursor, handled>>
      BY <1>2, <2>3, Arrives
    <3> HIDE DEF frame
    <3>2. CASE frame.type = "audit"
      <4> DEFINE e == frame.cursor
      <4>1. /\ lastCursor < e /\ e <= newest
            /\ \A d \in log : d <= lastCursor \/ d >= e
        BY <3>1, <3>2 DEF Follows
      <4>2. e \in 1..newest
        BY <3>1, <4>1, DeliveryTypes DEF Streams!Frames, FlowInv, CursorFits
      <4>3. Feed!Give(e)
        BY <2>1, <2>3, <3>1, <3>2, <4>1 DEF Feed!Give
      <4> QED BY <4>2, <4>3 DEF Feed!Next
    <3>3. CASE frame.type # "audit"
      BY <2>1, <3>1, <3>3 DEF Feed!vars
    <3> QED BY <3>2, <3>3
  <2> QED BY <2>2, <2>3
<1>3. ASSUME NEW s \in Sockets,
             StreamStep(s) \/ Open(s) \/ Fail(s) \/ Notice(s)
      PROVE  UNCHANGED Feed!vars
  BY <1>3 DEF StreamStep, Server!StreamStep, Server!ReadLatest,
              Server!SendSnapshot, Server!Fetch, Server!Emit, Server!Heartbeat,
              Server!Poll, Open, Server!Accept, Client!Opens, Fail, Notice,
              Server!Stop, client, Feed!vars
<1>4. ASSUME \/ \E closes \in BOOLEAN :
                  \/ ConnectFails(closes)
                  \/ \E s \in Sockets :
                       Connect(s, closes) \/ Break(s, closes) \/ HangUp(s, closes)
             \/ TimerAfterStop \/ Close \/ UNCHANGED vars
      PROVE  [Feed!Next]_(Feed!vars)
  <2>1. UNCHANGED <<newest, log, lastCursor, handled>>
    BY <1>4 DEF ConnectFails, Client!ConnectFails, Connect, Client!Connect, Break,
                HangUp, Client!Closes, TimerAfterStop, Client!TimerAfterStop,
                Close, Client!Close, vars, server, client
  <2>2. stopped' = stopped \/ (~stopped /\ stopped' = TRUE)
    <3>1. Alone!Inv'
      BY DeliveryStep
    <3>2. stopped \in BOOLEAN /\ stopped' \in BOOLEAN
      BY <3>1 DEF Alone!Inv, Alone!ControlTypes
    <3>3. stopped => stopped'
      BY ClientSteps, Alone!StepKeepsStop
    <3> QED BY <3>2, <3>3
  <2> QED BY <2>1, <2>2 DEF Feed!Next, Feed!End, Feed!vars
<1> QED BY <1>1, <1>2, <1>3, <1>4 DEF Next

\* What a subscriber is promised of the event stream is what subscribeEvents
\* over stream_events does: events in order, each once, passing over only what
\* the log no longer holds.
THEOREM DeliversTheFeed == Spec => ImplementsFeed
<1>1. Init => Feed!Init
  BY DEF Init, Server!Init, Client!Init, Feed!Init
<1>2. DeliveryInv /\ [Next]_vars => [Feed!Next]_(Feed!vars)
  BY FeedStep
<1> QED BY <1>1, <1>2, DeliveryAlways, PTL DEF Spec, ImplementsFeed, Feed!Spec

---------------------------------------------------------------------------
(* Cursors the server gave.                                                *)

\* A subscription that began at 0 only asks for what was recorded, and what it
\* asks for is no newer than what the snapshot of its stream compares it with.
Known(s) ==
  /\ url[s] <= newest
  /\ pc[s] \in {"read_latest", "send_snapshot"} =>
       requested[s] \in Nat /\ requested[s] <= newest
  /\ pc[s] = "send_snapshot" => requested[s] <= latest[s]
  /\ \A i \in DOMAIN wire[s] : ~wire[s][i].ahead

KnownInv == InitialCursor = 0 => \A s \in Sockets : Known(s)

LEMMA AppendNoneAhead ==
  ASSUME NEW w \in Seq(Streams!Frames), NEW frame \in Streams!Frames, ~frame.ahead,
         \A i \in DOMAIN w : ~w[i].ahead
  PROVE  \A i \in DOMAIN Append(w, frame) : ~Append(w, frame)[i].ahead
<1> SUFFICES ASSUME NEW i \in DOMAIN Append(w, frame)
             PROVE  ~Append(w, frame)[i].ahead
  OBVIOUS
<1>1. i \in 1..(Len(w) + 1) /\ Len(w) \in Nat /\ DOMAIN w = 1..Len(w)
  OBVIOUS
<1>2. CASE i = Len(w) + 1
  BY <1>2
<1>3. CASE i # Len(w) + 1
  <2>1. i \in 1..Len(w) /\ Append(w, frame)[i] = w[i]
    BY <1>1, <1>3
  <2> QED BY <1>1, <2>1
<1> QED BY <1>2, <1>3

LEMMA TailNoneAhead ==
  ASSUME NEW w \in Seq(Streams!Frames), w # <<>>, \A i \in DOMAIN w : ~w[i].ahead
  PROVE  \A i \in DOMAIN Tail(w) : ~Tail(w)[i].ahead
<1> SUFFICES ASSUME NEW i \in DOMAIN Tail(w) PROVE ~Tail(w)[i].ahead
  OBVIOUS
<1>1. i + 1 \in DOMAIN w /\ Tail(w)[i] = w[i + 1]
  OBVIOUS
<1> QED BY <1>1

\* The steps of a stream.
LEMMA KnownStream ==
  ASSUME Streams!StreamInv, NEW s \in Sockets, Known(s), Streams!StreamStep(s),
         UNCHANGED url
  PROVE  Known(s)'
<1>0. /\ newest \in Nat /\ newest' = newest
      /\ wire[s] \in Seq(Streams!Frames) /\ cursor[s] \in Nat
      /\ \A i \in DOMAIN wire[s] : ~wire[s][i].ahead
      /\ None \notin Nat /\ MaxEventRows \in Nat \ {0} /\ Streams!LogKept
  BY DeliveryTypes, StreamConstantsFit
     DEF Known, Streams!StreamStep, Streams!ReadLatest, Streams!SendSnapshot,
         Streams!Fetch, Streams!Emit, Streams!Heartbeat, Streams!Poll,
         Streams!EventStreamAssumption, Streams!StreamInv, Streams!StreamTypes
<1>1. CASE Streams!ReadLatest(s)
  <2>1. latest'[s] = newest
    BY <1>0, <1>1, Streams!LatestIsNewest
       DEF Streams!ReadLatest, Streams!StreamInv, Streams!StreamTypes
  <2>2. /\ pc[s] = "read_latest" /\ pc'[s] = "send_snapshot"
        /\ UNCHANGED <<requested, wire>>
    BY <1>1 DEF Streams!ReadLatest, Streams!GoTo, Streams!StreamInv,
                Streams!StreamTypes
  <2> QED BY <1>0, <2>1, <2>2 DEF Known
<1>2. CASE Streams!SendSnapshot(s)
  <2> DEFINE frame == Streams!Frame("snapshot", Streams!StartCursor(s),
               Streams!HistoryGap(requested[s], Streams!OldestCursor),
               Streams!CursorAhead(requested[s], latest[s]))
  <2>1. requested[s] \in Nat /\ requested[s] <= latest[s] /\ latest[s] \in Nat
    BY <1>2, DeliveryTypes DEF Known, Streams!SendSnapshot
  <2>2. frame \in Streams!Frames /\ ~frame.ahead
    <3>1. Streams!StartCursor(s) \in Nat
      BY <1>0, <2>1 DEF Streams!StartCursor
    <3>2. Streams!HistoryGap(requested[s], Streams!OldestCursor) \in BOOLEAN
      BY DEF Streams!HistoryGap
    <3>3. Streams!CursorAhead(requested[s], latest[s]) = FALSE
      BY <2>1 DEF Streams!CursorAhead
    <3> QED BY <3>1, <3>2, <3>3 DEF Streams!Frame, Streams!Frames
  <2>3. pc'[s] = "fetch" /\ wire'[s] = Append(wire[s], frame)
    BY <1>2 DEF Streams!SendSnapshot, Streams!GoTo, Streams!Send,
                Streams!StreamInv, Streams!StreamTypes
  <2> HIDE DEF frame
  <2> QED BY <1>0, <2>2, <2>3, AppendNoneAhead DEF Known
<1>3. CASE Streams!Fetch(s) \/ Streams!Poll(s)
  <2>1. pc'[s] \in {"fetch", "emit", "idle"} /\ UNCHANGED wire
    BY <1>3 DEF Streams!Fetch, Streams!Poll, Streams!GoTo, Streams!StreamInv,
                Streams!StreamTypes
  <2> QED BY <1>0, <2>1 DEF Known
<1>4. CASE Streams!Emit(s) \/ Streams!Heartbeat(s)
  <2>1. PICK frame \in Streams!Frames :
          /\ ~frame.ahead /\ wire'[s] = Append(wire[s], frame)
          /\ pc'[s] \in {"fetch", "emit", "idle"}
    <3>1. CASE Streams!Emit(s)
      <4> DEFINE e == Streams!Min(Streams!Pending(s))
      <4>1. e \in Nat
        BY <3>1, <1>0, Streams!EmitNext
           DEF Streams!Emit, Streams!StreamInv, Streams!Fits
      <4>2. /\ wire'[s] = Append(wire[s], Streams!Frame("audit", e, FALSE, FALSE))
            /\ pc'[s] \in {"fetch", "emit", "idle"}
        BY <3>1 DEF Streams!Emit, Streams!GoTo, Streams!Send, Streams!StreamInv,
                    Streams!StreamTypes
      <4> HIDE DEF e
      <4> DEFINE frame == Streams!Frame("audit", e, FALSE, FALSE)
      <4>3. frame \in Streams!Frames /\ ~frame.ahead
        BY <4>1 DEF Streams!Frame, Streams!Frames
      <4> HIDE DEF frame
      <4> QED BY <4>2, <4>3 DEF frame
    <3>2. CASE Streams!Heartbeat(s)
      <4> DEFINE frame == Streams!Frame("heartbeat", cursor[s], FALSE, FALSE)
      <4>1. wire'[s] = Append(wire[s], frame) /\ pc'[s] = "fetch"
        BY <3>2 DEF Streams!Heartbeat, Streams!GoTo, Streams!Send,
                    Streams!StreamInv, Streams!StreamTypes
      <4>2. frame \in Streams!Frames /\ ~frame.ahead
        BY <1>0 DEF Streams!Frame, Streams!Frames
      <4> HIDE DEF frame
      <4> QED BY <4>1, <4>2
    <3> QED BY <1>4, <3>1, <3>2
  <2> QED BY <1>0, <2>1, AppendNoneAhead DEF Known
<1> QED BY <1>1, <1>2, <1>3, <1>4 DEF Streams!StreamStep

LEMMA KnownStep ==
  ASSUME DeliveryInv, KnownInv, [Next]_vars
  PROVE  KnownInv'
<1> SUFFICES ASSUME InitialCursor = 0, NEW s \in Sockets PROVE Known(s)'
  BY DEF KnownInv
<1> USE DEF DeliveryInv
<1>0. /\ Known(s) /\ newest \in Nat /\ wire[s] \in Seq(Streams!Frames)
      /\ lastCursor \in Nat /\ lastCursor <= newest
      /\ url[s] \in Nat /\ requested[s] \in Nat \cup {None} /\ None \notin Nat
  BY DeliveryTypes, StreamConstantsFit
     DEF KnownInv, FlowInv, CursorFits, Streams!EventStreamAssumption
<1>1. CASE RecordEvent
  <2>1. newest' = newest + 1 /\ UNCHANGED <<url, pc, requested, latest, wire>>
    BY <1>1 DEF RecordEvent, Server!RecordEvent, Server!streams, client
  <2> QED BY <1>0, <2>1 DEF Known
<1>2. ASSUME NEW t \in Sockets, t # s,
             \/ StreamStep(t) \/ Open(t) \/ Deliver(t) \/ Fail(t) \/ Notice(t)
      PROVE  Known(s)'
  <2>1. CASE StreamStep(t)
    <3>1. Streams!StreamStep(t) /\ UNCHANGED url
      BY <2>1, StreamSteps DEF StreamStep, client
    <3> QED BY <1>0, <1>2, <3>1
            DEF Known, Streams!StreamStep, Streams!ReadLatest, Streams!SendSnapshot,
                Streams!Fetch, Streams!Emit, Streams!Heartbeat, Streams!Poll,
                Streams!GoTo, Streams!Send, Streams!StreamInv, Streams!StreamTypes
  <2>2. CASE Open(t)
    <3>1. Streams!Accept(t, url[t]) /\ UNCHANGED url
      BY <2>2, StreamSteps DEF Open, Client!Opens
    <3> QED BY <1>0, <1>2, <3>1 DEF Known, Streams!Accept, Streams!GoTo,
                                    Streams!StreamInv, Streams!StreamTypes
  <2>3. CASE Deliver(t)
    BY <1>0, <1>2, <2>3 DEF Known, Deliver, Client!Message, Server!Take
  <2>4. CASE Fail(t) \/ Notice(t)
    BY <1>0, <1>2, <2>4
       DEF Known, Fail, Notice, Server!Stop, Server!GoTo, client,
           Streams!StreamInv, Streams!StreamTypes
  <2> QED BY <1>2, <2>1, <2>2, <2>3, <2>4
<1>3. CASE StreamStep(s)
  <2>1. Streams!StreamStep(s) /\ UNCHANGED url
    BY <1>3, StreamSteps DEF StreamStep, client
  <2> QED BY <1>0, <2>1, KnownStream
<1>4. CASE Open(s)
  <2>1. Streams!Accept(s, url[s]) /\ UNCHANGED url
    BY <1>4, StreamSteps DEF Open, Client!Opens
  <2>2. /\ pc'[s] = "read_latest" /\ requested'[s] = url[s] /\ wire'[s] = <<>>
        /\ newest' = newest
    BY <2>1 DEF Streams!Accept, Streams!GoTo, Streams!StreamInv,
                Streams!StreamTypes
  <2> QED BY <1>0, <2>1, <2>2 DEF Known
<1>5. CASE Deliver(s)
  <2>1. /\ wire[s] # <<>> /\ wire'[s] = Tail(wire[s])
        /\ UNCHANGED <<newest, pc, requested, latest, url>>
    BY <1>5 DEF Deliver, Client!Message, Server!Take, Streams!StreamInv,
                Streams!StreamTypes
  <2> QED BY <1>0, <2>1, TailNoneAhead DEF Known
<1>6. CASE Fail(s) \/ Notice(s)
  <2>1. /\ pc'[s] = "ended"
        /\ UNCHANGED <<newest, requested, wire, url>>
    BY <1>6 DEF Fail, Notice, Server!Stop, Server!GoTo, client,
                Streams!StreamInv, Streams!StreamTypes
  <2> QED BY <1>0, <2>1 DEF Known
<1>7. ASSUME NEW t \in Sockets, NEW closes \in BOOLEAN, Connect(t, closes)
      PROVE  Known(s)'
  <2>1. url' = [url EXCEPT ![t] = lastCursor] /\ UNCHANGED server
    BY <1>7 DEF Connect, Client!Connect
  <2>2. url'[s] <= newest
    BY <1>0, <2>1 DEF FlowInv, CursorFits, Known
  <2> QED BY <1>0, <2>1, <2>2 DEF server, Known
<1>8. ASSUME NEW closes \in BOOLEAN, NEW t \in Sockets,
             Break(t, closes) \/ HangUp(t, closes)
      PROVE  Known(s)'
  <2>1. UNCHANGED server /\ UNCHANGED url
    BY <1>8 DEF Break, HangUp, Client!Closes
  <2> QED BY <1>0, <2>1 DEF server, Known
<1>9. ASSUME \/ \E closes \in BOOLEAN : ConnectFails(closes)
             \/ TimerAfterStop \/ Close \/ UNCHANGED vars
      PROVE  Known(s)'
  <2>1. UNCHANGED server /\ UNCHANGED url
    BY <1>9 DEF ConnectFails, Client!ConnectFails, TimerAfterStop,
                Client!TimerAfterStop, Close, Client!Close, vars, client
  <2> QED BY <1>0, <2>1 DEF server, Known
<1>10. ASSUME NEW t \in Sockets,
              \/ StreamStep(t) \/ Open(t) \/ Deliver(t) \/ Fail(t) \/ Notice(t)
       PROVE  Known(s)'
  <2>1. CASE t = s
    BY <1>10, <2>1, <1>3, <1>4, <1>5, <1>6
  <2>2. CASE t # s
    BY <1>10, <2>2, <1>2
  <2> QED BY <2>1, <2>2
<1> QED BY <1>1, <1>7, <1>8, <1>9, <1>10 DEF Next

\* initial_snapshot never tells a client that resumes from this database's own
\* cursors that it is ahead, although it reads the newest id before the oldest
\* and the client's cursor goes on while it does.
THEOREM ToldNeverAhead == Spec => []NeverAhead
<1>1. Init => KnownInv
  BY DEF Init, Server!Init, Client!Init, KnownInv, Known
<1>2. DeliveryInv /\ KnownInv /\ [Next]_vars => KnownInv'
  BY KnownStep
<1>3. KnownInv => NeverAhead
  BY DEF KnownInv, Known, NeverAhead
<1> QED BY <1>1, <1>2, <1>3, DeliveryAlways, PTL DEF Spec

=============================================================================
