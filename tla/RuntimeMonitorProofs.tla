------------------------ MODULE RuntimeMonitorProofs ------------------------
(***************************************************************************)
(* Proofs about RuntimeMonitor, for any requests, chats and faults.        *)
(***************************************************************************)
EXTENDS RuntimeMonitor, FiniteSetTheorems, TLAPS

Frame == [chat : BOOLEAN, previous : BOOLEAN, answer : BOOLEAN]
Labels ==
  Refreshing \cup {"sleep", "idle", "begin", "sync", "metric", "compare",
                   "warn", "remember", "infer", "count", "finish"}

MonitorTypes ==
  /\ runtime \in BOOLEAN /\ threshold \in BOOLEAN
  /\ up \in BOOLEAN /\ high \in BOOLEAN /\ sample \in BOOLEAN
  /\ announced \in BOOLEAN /\ warned \in BOOLEAN /\ disturbed \in BOOLEAN
  /\ bot \in [running : BOOLEAN, tasks : Nat]
  /\ chats \in Nat /\ replies \in Nat
  /\ pc \in [Refreshers -> Labels]
  /\ frame \in [Refreshers -> Frame]

LEMMA TypesInit == Init => MonitorTypes
<1> SUFFICES ASSUME Init PROVE MonitorTypes
  OBVIOUS
<1>1. pc \in [Refreshers -> Labels]
  BY DEF Init, Rest, Labels
<1>2. frame \in [Refreshers -> Frame]
  BY DEF Init, NoFrame, Frame
<1> QED BY <1>1, <1>2 DEF Init, MonitorTypes

LEMMA EndsTypes ==
  ASSUME MonitorTypes, NEW a \in Refreshers, NEW from, Ends(a, from)
  PROVE  /\ pc' \in [Refreshers -> Labels] /\ frame' \in [Refreshers -> Frame]
         /\ sample' \in BOOLEAN
BY DEF Ends, Goes, Rest, NoFrame, MonitorTypes, Frame, Labels

LEMMA GoesTypes ==
  ASSUME MonitorTypes, NEW a \in Refreshers, NEW from, NEW to \in Labels,
         Goes(a, from, to)
  PROVE  pc' \in [Refreshers -> Labels]
BY DEF Goes, MonitorTypes

LEMMA RaisesTypes ==
  ASSUME MonitorTypes, NEW a \in Refreshers, NEW from, Raises(a, from)
  PROVE  MonitorTypes'
BY EndsTypes DEF Raises, MonitorTypes, host, state, log

LEMMA RefreshTypes ==
  ASSUME MonitorTypes, NEW a \in Refreshers, Refresh(a)
  PROVE  MonitorTypes'
<1> USE DEF host, state, log, bounds
<1>1. CASE BeginRefresh(a)
  <2>1. frame' \in [Refreshers -> Frame] /\ disturbed' \in BOOLEAN
    BY <1>1 DEF BeginRefresh, MonitorTypes, Frame
  <2>2. pc' \in [Refreshers -> Labels]
    BY <1>1, GoesTypes DEF BeginRefresh, Labels, Refreshing
  <2> QED BY <1>1, <2>1, <2>2 DEF BeginRefresh, MonitorTypes
<1>2. CASE Probe(a)
  <2>1. frame' \in [Refreshers -> Frame]
    BY <1>2 DEF Probe, MonitorTypes, Frame
  <2>2. pc' \in [Refreshers -> Labels]
    BY <1>2, GoesTypes DEF Probe, Labels, Refreshing
  <2> QED BY <1>2, <2>1, <2>2 DEF Probe, MonitorTypes
<1>3. CASE Store(a)
  <2>1. frame[a] \in Frame
    BY DEF MonitorTypes
  <2>2. runtime' \in BOOLEAN
    BY <1>3, <2>1 DEF Store, Frame
  <2>3. pc' \in [Refreshers -> Labels]
    BY <1>3, GoesTypes DEF Store, AfterStore, Labels, Refreshing
  <2> QED BY <1>3, <2>2, <2>3 DEF Store, MonitorTypes
<1>4. CASE RecordTransition(a)
  <2>1. CASE Raises(a, "record")
    BY <2>1, RaisesTypes
  <2>2. CASE ~Raises(a, "record")
    <3>1. frame[a] \in Frame
      BY DEF MonitorTypes
    <3>2. announced' \in BOOLEAN
      BY <1>4, <2>2, <3>1 DEF RecordTransition, Frame
    <3>3. pc' \in [Refreshers -> Labels]
      BY <1>4, <2>2, GoesTypes DEF RecordTransition, Labels
    <3> QED BY <1>4, <2>2, <3>2, <3>3 DEF RecordTransition, MonitorTypes
  <2> QED BY <2>1, <2>2
<1>5. CASE SyncBots(a)
  <2>1. CASE Raises(a, "sync")
    BY <2>1, RaisesTypes
  <2>2. CASE Ends(a, "sync") /\ UNCHANGED <<host, state, bot, log, bounds, replies, disturbed>>
    BY <2>2, EndsTypes DEF MonitorTypes
  <2>3. CASE /\ Goes(a, "sync", IF a = Collector THEN "metric" ELSE "infer")
             /\ UNCHANGED <<frame, sample>>
             /\ UNCHANGED <<host, state, bot, log, bounds, replies, disturbed>>
    <3>1. pc' \in [Refreshers -> Labels]
      BY <2>3, GoesTypes DEF Labels
    <3> QED BY <2>3, <3>1 DEF MonitorTypes
  <2> QED BY <1>5, <2>1, <2>2, <2>3 DEF SyncBots
<1> QED BY <1>1, <1>2, <1>3, <1>4, <1>5 DEF Refresh

LEMMA CollectTypes ==
  ASSUME MonitorTypes, Collect
  PROVE  MonitorTypes'
<1> USE DEF host, state, log, bounds
<1>1. Collector \in Refreshers
  BY DEF Refreshers
<1>2. CASE \E from : Raises(Collector, from)
  BY <1>1, <1>2, RaisesTypes
<1>3. CASE Remember
  BY <1>1, <1>3, EndsTypes DEF Remember, MonitorTypes
<1>4. CASE (Sweep \/ RecordMetric \/ Compare \/ RecordCrossing)
           /\ ~\E from : Raises(Collector, from)
  <2>1. \E from : \E to \in Labels : Goes(Collector, from, to)
    BY <1>4 DEF Sweep, RecordMetric, Compare, RecordCrossing, Labels
  <2>2. pc' \in [Refreshers -> Labels]
    BY <1>1, <2>1, GoesTypes
  <2> QED
    BY <1>4, <2>2
       DEF Sweep, RecordMetric, Compare, RecordCrossing, MonitorTypes
<1> QED BY <1>2, <1>3, <1>4 DEF Collect

LEMMA RequestTypes ==
  ASSUME MonitorTypes, NEW a \in Callers,
         RequestStatus(a) \/ RequestChat(a) \/ Infer(a) \/ CountTask(a)
         \/ FinishChat(a)
  PROVE  MonitorTypes'
<1> USE DEF host, state, log, bounds
<1>1. a \in Refreshers
  BY DEF Refreshers
<1>2. CASE \E from : Raises(a, from)
  BY <1>1, <1>2, RaisesTypes
<1>3. CASE RequestStatus(a)
  BY <1>1, <1>3, GoesTypes DEF RequestStatus, MonitorTypes, Labels
<1>4. CASE RequestChat(a)
  <2>1. frame' \in [Refreshers -> Frame]
    <3>1. [frame[a] EXCEPT !.chat = TRUE] \in Frame
      BY <1>1 DEF MonitorTypes, Frame
    <3>2. frame' = [frame EXCEPT ![a] = [frame[a] EXCEPT !.chat = TRUE]]
      BY <1>4 DEF RequestChat
    <3> QED BY <1>1, <3>1, <3>2 DEF MonitorTypes
  <2>2. pc' \in [Refreshers -> Labels]
    BY <1>1, <1>4, GoesTypes DEF RequestChat, Labels
  <2>3. chats' \in Nat
    BY <1>4 DEF RequestChat, MonitorTypes
  <2> QED BY <1>4, <2>1, <2>2, <2>3 DEF RequestChat, MonitorTypes
<1>5. CASE Infer(a)
  <2>1. CASE Ends(a, "infer")
    BY <1>1, <1>5, <2>1, EndsTypes DEF Infer, MonitorTypes
  <2>2. CASE Goes(a, "infer", "count") /\ UNCHANGED <<frame, sample>>
    <3>1. pc' \in [Refreshers -> Labels]
      BY <1>1, <2>2, GoesTypes DEF Labels
    <3> QED BY <1>5, <2>2, <3>1 DEF Infer, MonitorTypes
  <2> QED BY <1>5, <2>1, <2>2 DEF Infer
<1>6. CASE CountTask(a) /\ ~\E from : Raises(a, from)
  <2>1. bot' \in [running : BOOLEAN, tasks : Nat]
    BY <1>6 DEF CountTask, MonitorTypes
  <2>2. pc' \in [Refreshers -> Labels]
    BY <1>1, <1>6, GoesTypes DEF CountTask, Labels
  <2> QED BY <1>6, <2>1, <2>2 DEF CountTask, MonitorTypes
<1>7. CASE FinishChat(a) /\ ~\E from : Raises(a, from)
  BY <1>1, <1>7, EndsTypes DEF FinishChat, MonitorTypes
<1> QED BY <1>2, <1>3, <1>4, <1>5, <1>6, <1>7

LEMMA TypesStep == MonitorTypes /\ [Next]_vars => MonitorTypes'
<1> SUFFICES ASSUME MonitorTypes, [Next]_vars PROVE MonitorTypes'
  OBVIOUS
<1>1. CASE Environment
  BY <1>1 DEF Environment, MonitorTypes, state, log, bounds
<1>2. ASSUME NEW running \in BOOLEAN, UpdateBot(running) PROVE MonitorTypes'
  BY <1>2 DEF UpdateBot, MonitorTypes, host, state, log, bounds
<1>3. CASE UNCHANGED vars
  BY <1>3 DEF vars, MonitorTypes, host, state, log, bounds
<1> QED
  BY <1>1, <1>2, <1>3, RefreshTypes, CollectTypes, RequestTypes DEF Next

\* A step of one coroutine leaves the others where they are.
Others(a) ==
  \A b \in Refreshers \ {a} : pc'[b] = pc[b] /\ frame'[b] = frame[b]

LEMMA EndsEffect ==
  ASSUME MonitorTypes, NEW a \in Refreshers, NEW from, Ends(a, from)
  PROVE  /\ Others(a) /\ pc[a] = from /\ pc'[a] = Rest(a)
         /\ frame'[a] = NoFrame
         /\ a # Collector => sample' = sample
BY DEF Ends, Goes, Others, MonitorTypes

LEMMA GoesEffect ==
  ASSUME MonitorTypes, NEW a \in Refreshers, NEW from, NEW to,
         Goes(a, from, to), frame' = frame
  PROVE  Others(a) /\ pc[a] = from /\ pc'[a] = to
BY DEF Goes, Others, MonitorTypes

LEMMA RaisesEffect ==
  ASSUME MonitorTypes, NEW a \in Refreshers, NEW from, Raises(a, from)
  PROVE  /\ Others(a) /\ pc[a] = from /\ pc'[a] = Rest(a)
         /\ frame'[a] = NoFrame
         /\ a # Collector => sample' = sample
         /\ UNCHANGED <<runtime, threshold, announced, warned, bot, chats, replies>>
         /\ ~disturbed' => ~disturbed /\ from # "record"
BY EndsEffect DEF Raises, host, state, log

LEMMA ProbeEffect ==
  ASSUME MonitorTypes, NEW a \in Refreshers, BeginRefresh(a) \/ Probe(a)
  PROVE  /\ Others(a) /\ frame'[a].chat = frame[a].chat
         /\ BeginRefresh(a) =>
              pc[a] = "begin" /\ pc'[a] = "probe" /\ frame'[a].previous = runtime
         /\ Probe(a) =>
              /\ pc[a] = "probe" /\ pc'[a] = "store"
              /\ frame'[a].previous = frame[a].previous
<1>1. frame[a] \in Frame /\ frame \in [Refreshers -> Frame]
  BY DEF MonitorTypes
<1>2. CASE BeginRefresh(a)
  <2>1. frame' = [frame EXCEPT ![a] = [frame[a] EXCEPT !.previous = runtime]]
    BY <1>2 DEF BeginRefresh
  <2>2. Others(a) /\ frame'[a] = [frame[a] EXCEPT !.previous = runtime]
        /\ pc[a] = "begin" /\ pc'[a] = "probe"
    BY <1>1, <1>2, <2>1 DEF BeginRefresh, Goes, Others, MonitorTypes
  <2>3. frame'[a].chat = frame[a].chat /\ frame'[a].previous = runtime
    BY <1>1, <2>2 DEF Frame
  <2> QED BY <2>2, <2>3 DEF Probe, Goes
<1>3. CASE Probe(a)
  <2>1. PICK answer : frame' = [frame EXCEPT ![a] = [frame[a] EXCEPT !.answer = answer]]
    BY <1>3 DEF Probe
  <2>2. Others(a) /\ frame'[a] = [frame[a] EXCEPT !.answer = answer]
        /\ pc[a] = "probe" /\ pc'[a] = "store"
    BY <1>1, <1>3, <2>1 DEF Probe, Goes, Others, MonitorTypes
  <2>3. frame'[a].chat = frame[a].chat /\ frame'[a].previous = frame[a].previous
    BY <1>1, <2>2 DEF Frame
  <2> QED BY <2>2, <2>3 DEF BeginRefresh, Goes
<1> QED BY <1>2, <1>3

LEMMA ChatEffect ==
  ASSUME MonitorTypes, NEW a \in Refreshers, RequestChat(a)
  PROVE  /\ Others(a) /\ pc[a] = "idle" /\ pc'[a] = "begin"
         /\ frame'[a].chat
<1>1. frame' = [frame EXCEPT ![a] = [frame[a] EXCEPT !.chat = TRUE]]
  BY DEF RequestChat
<1>2. frame[a] \in Frame /\ frame \in [Refreshers -> Frame]
  BY DEF MonitorTypes
<1>3. frame'[a] = [frame[a] EXCEPT !.chat = TRUE]
  BY <1>1, <1>2
<1>4. frame'[a].chat
  BY <1>2, <1>3 DEF Frame
<1>5. Others(a) /\ pc[a] = "idle" /\ pc'[a] = "begin"
  BY <1>1, <1>2 DEF RequestChat, Goes, Others, MonitorTypes
<1> QED BY <1>4, <1>5

---------------------------------------------------------------------------
(* Crossings.  The collector comes to remember a crossing only past the    *)
(* event that records it.                                                  *)

WarnedInv ==
  /\ threshold => warned
  /\ pc[Collector] = "remember" /\ sample => warned

LEMMA WarnedKept ==
  ASSUME WarnedInv, UNCHANGED <<threshold, warned>>,
         \/ pc'[Collector] # "remember"
         \/ pc'[Collector] = pc[Collector] /\ sample' = sample
  PROVE  WarnedInv'
BY DEF WarnedInv

LEMMA WarnedStep ==
  ASSUME MonitorTypes, WarnedInv, [Next]_vars
  PROVE  WarnedInv'
<1> USE DEF host, state, log, bounds
<1>1. Collector \in Refreshers /\ Collector \notin Callers
  BY MonitorAssumption DEF Refreshers
<1>2. CASE Environment \/ UNCHANGED vars \/ \E r \in BOOLEAN : UpdateBot(r)
  BY <1>2, WarnedKept DEF Environment, vars, UpdateBot
<1>3. ASSUME NEW a \in Refreshers, Refresh(a) PROVE WarnedInv'
  <2>1. UNCHANGED <<threshold, warned>>
    BY <1>3
       DEF Refresh, BeginRefresh, Probe, Store, RecordTransition, SyncBots, Raises
  <2>2. \E from, to : Goes(a, from, to) /\ to # "remember"
    BY <1>3
       DEF Refresh, BeginRefresh, Probe, Store, AfterStore, RecordTransition,
           SyncBots, Raises, Ends, Rest
  <2>3. a = Collector => pc'[Collector] # "remember"
    BY <1>1, <2>2 DEF Goes, MonitorTypes
  <2>4. a # Collector => pc'[Collector] = pc[Collector] /\ sample' = sample
    <3>1. a # Collector => pc'[Collector] = pc[Collector]
      BY <1>1, <2>2 DEF Goes, MonitorTypes
    <3>2. a # Collector => sample' = sample
      BY <1>3, EndsEffect, RaisesEffect
         DEF Refresh, BeginRefresh, Probe, Store, RecordTransition, SyncBots
    <3> QED BY <3>1, <3>2
  <2> QED BY <2>1, <2>3, <2>4, WarnedKept
<1>4. CASE \E from : Raises(Collector, from)
  BY <1>1, <1>4, RaisesEffect, WarnedKept DEF Rest
<1>5. CASE (Sweep \/ RecordMetric) /\ ~\E from : Raises(Collector, from)
  <2>1. /\ UNCHANGED <<threshold, warned>>
        /\ \E from : \E to \in {"begin", "compare"} : Goes(Collector, from, to)
    BY <1>5 DEF Sweep, RecordMetric
  <2>2. pc'[Collector] # "remember"
    BY <1>1, <2>1 DEF Goes, MonitorTypes
  <2> QED BY <2>1, <2>2, WarnedKept
<1>6. CASE Compare
  <2>1. /\ UNCHANGED <<threshold, warned, sample>>
        /\ pc'[Collector] = IF sample /\ ~threshold THEN "warn" ELSE "remember"
    BY <1>1, <1>6 DEF Compare, Goes, MonitorTypes
  <2> QED BY <2>1 DEF WarnedInv
<1>7. CASE RecordCrossing /\ ~\E from : Raises(Collector, from)
  <2>1. warned' = TRUE
    BY <1>7 DEF RecordCrossing
  <2> QED BY <2>1 DEF WarnedInv
<1>8. CASE Remember
  <2>1. /\ pc[Collector] = "remember" /\ pc'[Collector] = "sleep"
        /\ threshold' = sample /\ warned' = (warned /\ sample)
    BY <1>1, <1>8, EndsEffect DEF Remember, Rest
  <2>2. sample => warned'
    BY <2>1 DEF WarnedInv
  <2>3. threshold' => warned'
    BY <2>1, <2>2
  <2> QED BY <2>1, <2>3 DEF WarnedInv
<1>9. ASSUME NEW a \in Callers,
             \/ RequestStatus(a) \/ RequestChat(a) \/ Infer(a) \/ CountTask(a)
             \/ FinishChat(a)
      PROVE  WarnedInv'
  <2>1. UNCHANGED <<threshold, warned>>
    BY <1>9 DEF RequestStatus, RequestChat, Infer, CountTask, FinishChat, Raises
  <2>2. a \in Refreshers /\ a # Collector
    BY <1>1 DEF Refreshers
  <2>3. pc'[Collector] = pc[Collector]
    BY <1>1, <1>9, <2>2
       DEF RequestStatus, RequestChat, Infer, CountTask, FinishChat, Raises, Ends,
           Goes, MonitorTypes
  <2>4. sample' = sample
    BY <1>9, <2>2, EndsEffect, RaisesEffect
       DEF RequestStatus, RequestChat, Infer, CountTask, FinishChat
  <2> QED BY <2>1, <2>3, <2>4, WarnedKept
<1> QED
  BY <1>2, <1>3, <1>4, <1>5, <1>6, <1>7, <1>8, <1>9 DEF Next, Collect

---------------------------------------------------------------------------
(* Transitions.  While refreshes have not overlapped, at most one is under *)
(* way, and the runtime it started from is the one that is announced.      *)

LoggedInv ==
  ~disturbed =>
    /\ \A a, b \in Refreshers :
         pc[a] \in Refreshing /\ pc[b] \in Refreshing => a = b
    /\ runtime = announced \/ \E a \in Refreshers : pc[a] = "record"
    /\ \A a \in Refreshers :
         /\ pc[a] \in {"probe", "store"} =>
              frame[a].previous = runtime /\ runtime = announced
         /\ pc[a] = "record" => frame[a].answer = runtime

\* A step outside the refresh.
Aside(a) ==
  /\ Others(a) /\ pc[a] \notin Refreshing /\ pc'[a] \notin Refreshing
  /\ UNCHANGED <<runtime, announced>>
  /\ ~disturbed' => ~disturbed

LEMMA AsideKeeps ==
  ASSUME LoggedInv, NEW a \in Refreshers, Aside(a)
  PROVE  LoggedInv'
BY DEF LoggedInv, Aside, Others, Refreshing

LEMMA RaisesAside ==
  ASSUME MonitorTypes, LoggedInv, NEW a \in Refreshers, NEW from, Raises(a, from)
  PROVE  LoggedInv'
<1>1. CASE from = "record" \/ from \in Refreshing
  <2>1. ~disturbed' => ~disturbed /\ from # "record"
    BY RaisesEffect
  <2>2. pc[a] = from /\ pc'[a] \notin Refreshing /\ Others(a)
        /\ UNCHANGED <<runtime, announced>>
    BY RaisesEffect DEF Rest, Refreshing
  <2> QED BY <2>1, <2>2 DEF LoggedInv, Others, Refreshing
<1>2. CASE from \notin Refreshing
  BY <1>2, RaisesEffect, AsideKeeps DEF Aside, Rest, Refreshing
<1> QED BY <1>1, <1>2

LEMMA RefreshLogs ==
  ASSUME MonitorTypes, LoggedInv, NEW a \in Refreshers, Refresh(a)
  PROVE  LoggedInv'
<1> USE DEF host, state, log, bounds
<1>1. CASE \E from : Raises(a, from)
  BY <1>1, RaisesAside
<1>2. CASE BeginRefresh(a)
  <2>1. /\ Others(a) /\ pc[a] = "begin" /\ pc'[a] = "probe"
        /\ frame'[a].previous = runtime
    BY <1>2, ProbeEffect
  <2>2. UNCHANGED <<runtime, announced>>
    BY <1>2 DEF BeginRefresh
  <2>3. ~disturbed' =>
          ~disturbed /\ \A b \in Refreshers \ {a} : pc[b] \notin Refreshing
    BY <1>2 DEF BeginRefresh
  <2> QED BY <2>1, <2>2, <2>3 DEF LoggedInv, Others, Refreshing
<1>3. CASE Probe(a)
  <2>1. /\ Others(a) /\ pc[a] = "probe" /\ pc'[a] = "store"
        /\ frame'[a].previous = frame[a].previous
    BY <1>3, ProbeEffect
  <2>2. UNCHANGED <<runtime, announced, disturbed>>
    BY <1>3 DEF Probe
  <2> QED BY <2>1, <2>2 DEF LoggedInv, Others, Refreshing
<1>4. CASE Store(a)
  <2>1. /\ Others(a) /\ pc[a] = "store" /\ pc'[a] = AfterStore(a)
        /\ frame'[a] = frame[a]
    BY <1>4, GoesEffect DEF Store
  <2>2. runtime' = frame[a].answer /\ UNCHANGED <<announced, disturbed>>
    BY <1>4 DEF Store
  <2>3. CASE pc'[a] = "record"
    BY <2>1, <2>2, <2>3 DEF LoggedInv, Others, Refreshing
  <2>4. CASE pc'[a] = "sync" /\ frame[a].previous = frame[a].answer
    BY <2>1, <2>2, <2>4 DEF LoggedInv, Others, Refreshing
  <2> QED BY <2>1, <2>3, <2>4 DEF AfterStore
<1>5. CASE RecordTransition(a) /\ ~\E from : Raises(a, from)
  <2>1. Others(a) /\ pc[a] = "record" /\ pc'[a] = "sync"
    BY <1>5, GoesEffect DEF RecordTransition
  <2>2. announced' = frame[a].answer /\ UNCHANGED <<runtime, disturbed>>
    BY <1>5 DEF RecordTransition
  <2> QED BY <2>1, <2>2 DEF LoggedInv, Others, Refreshing
<1>6. CASE SyncBots(a) /\ ~\E from : Raises(a, from)
  <2>1. UNCHANGED <<runtime, announced, disturbed>>
    BY <1>6 DEF SyncBots
  <2>2. /\ Others(a) /\ pc[a] = "sync"
        /\ pc'[a] \in {"metric", "infer", "sleep", "idle"}
    BY <1>6, GoesEffect, EndsEffect DEF SyncBots, Rest
  <2> QED BY <2>1, <2>2, AsideKeeps DEF Aside, Refreshing
<1> QED BY <1>1, <1>2, <1>3, <1>4, <1>5, <1>6 DEF Refresh

LEMMA LoggedStep ==
  ASSUME MonitorTypes, LoggedInv, [Next]_vars
  PROVE  LoggedInv'
<1> USE DEF host, state, log, bounds
<1>1. Collector \in Refreshers /\ \A a \in Callers : a \in Refreshers
  BY DEF Refreshers
<1>2. CASE Environment \/ UNCHANGED vars \/ \E r \in BOOLEAN : UpdateBot(r)
  <2>1. UNCHANGED <<pc, frame, runtime, announced, disturbed>>
    BY <1>2 DEF Environment, vars, UpdateBot
  <2> QED BY <2>1 DEF LoggedInv
<1>3. CASE Collect
  <2>1. CASE \E from : Raises(Collector, from)
    BY <1>1, <2>1, RaisesAside
  <2>2. CASE ~\E from : Raises(Collector, from)
    <3>1. UNCHANGED <<runtime, announced, disturbed>>
      BY <1>3, <2>2
         DEF Collect, Sweep, RecordMetric, Compare, RecordCrossing, Remember
    <3>2. \/ /\ frame' = frame
             /\ \E from, to \in Labels \ Refreshing : Goes(Collector, from, to)
          \/ Ends(Collector, "remember")
      BY <1>3, <2>2
         DEF Collect, Sweep, RecordMetric, Compare, RecordCrossing, Remember,
             Labels, Refreshing
    <3>3. /\ Others(Collector) /\ pc[Collector] \notin Refreshing
          /\ pc'[Collector] \notin Refreshing
      BY <1>1, <3>2, GoesEffect, EndsEffect DEF Rest, Refreshing
    <3> QED BY <1>1, <3>1, <3>3, AsideKeeps DEF Aside
  <2> QED BY <2>1, <2>2
<1>4. ASSUME NEW a \in Callers,
             \/ RequestStatus(a) \/ RequestChat(a) \/ Infer(a) \/ CountTask(a)
             \/ FinishChat(a)
      PROVE  LoggedInv'
  <2>1. CASE \E from : Raises(a, from)
    BY <1>1, <2>1, RaisesAside
  <2>2. CASE ~\E from : Raises(a, from)
    <3>1. UNCHANGED <<runtime, announced, disturbed>>
      BY <1>4, <2>2 DEF RequestStatus, RequestChat, Infer, CountTask, FinishChat
    <3>2. \/ /\ frame' = frame
             /\ \E from, to \in Labels \ Refreshing : Goes(a, from, to)
          \/ Ends(a, "infer") \/ Ends(a, "finish")
          \/ RequestChat(a)
      BY <1>4, <2>2
         DEF RequestStatus, Infer, CountTask, FinishChat, Labels, Refreshing
    <3>3. /\ Others(a) /\ pc[a] \notin Refreshing /\ pc'[a] \notin Refreshing
      BY <1>1, <3>2, GoesEffect, EndsEffect, ChatEffect DEF Rest, Refreshing
    <3> QED BY <1>1, <3>1, <3>3, AsideKeeps DEF Aside
  <2> QED BY <2>1, <2>2
<1> QED BY <1>2, <1>3, <1>4, RefreshLogs DEF Next

\* What the backend remembers of the host and of Lemonade is in the event log:
\* a crossing always, a transition unless refreshes overlapped or recording one
\* failed.
THEOREM RemembersWhatIsLogged == Spec => []RememberedIsLogged
<1>1. Init => WarnedInv /\ LoggedInv
  BY DEF Init, WarnedInv, LoggedInv, Rest, Refreshing
<1>2. WarnedInv /\ LoggedInv => RememberedIsLogged
  BY DEF WarnedInv, LoggedInv, RememberedIsLogged
<1> QED
  BY <1>1, <1>2, TypesInit, TypesStep, WarnedStep, LoggedStep, PTL DEF Spec

---------------------------------------------------------------------------
(* Chats.  A reply is preceded by its count, a count by its chat.          *)

Finishing == {a \in Callers : pc[a] = "finish"}
Counting == {a \in Callers : frame[a].chat /\ pc[a] # "finish"}

ChatFits(a) ==
  /\ pc[a] \in {"infer", "count", "finish"} => frame[a].chat
  /\ pc[a] = "idle" => ~frame[a].chat

CountInv ==
  /\ \A a \in Callers : ChatFits(a)
  /\ IsFiniteSet(Finishing) /\ IsFiniteSet(Counting)
  /\ replies + Cardinality(Finishing) <= bot.tasks
  /\ bot.tasks + Cardinality(Counting) <= chats

\* A request comes no nearer to a count or a reply.
Recedes(a) ==
  /\ ChatFits(a)'
  /\ pc'[a] = "finish" => pc[a] = "finish"
  /\ frame'[a].chat /\ pc'[a] # "finish" => frame[a].chat /\ pc[a] # "finish"

LEMMA RecedingCounts ==
  ASSUME MonitorTypes, CountInv, \A a \in Callers : Recedes(a),
         UNCHANGED <<bot.tasks, replies, chats>>
  PROVE  CountInv'
<1>1. Finishing' \subseteq Finishing /\ Counting' \subseteq Counting
  BY DEF Finishing, Counting, Recedes
<1>2. IsFiniteSet(Finishing) /\ IsFiniteSet(Counting)
  BY DEF CountInv
<1>3. /\ IsFiniteSet(Finishing') /\ Cardinality(Finishing') <= Cardinality(Finishing)
      /\ IsFiniteSet(Counting') /\ Cardinality(Counting') <= Cardinality(Counting)
  BY <1>1, <1>2, FS_Subset
<1>4. /\ Cardinality(Finishing') \in Nat /\ Cardinality(Finishing) \in Nat
      /\ Cardinality(Counting') \in Nat /\ Cardinality(Counting) \in Nat
      /\ replies \in Nat /\ bot.tasks \in Nat /\ chats \in Nat
  BY <1>2, <1>3, FS_CardinalityType DEF MonitorTypes
<1>5. /\ replies + Cardinality(Finishing) <= bot.tasks
      /\ bot.tasks + Cardinality(Counting) <= chats
  BY DEF CountInv
<1> HIDE DEF Finishing, Counting
<1>6. /\ replies' + Cardinality(Finishing') <= bot'.tasks
      /\ bot'.tasks + Cardinality(Counting') <= chats'
  BY <1>3, <1>4, <1>5
<1> QED BY <1>3, <1>6 DEF CountInv, Recedes

\* The other requests, whoever moves.
LEMMA OthersRecede ==
  ASSUME CountInv, NEW a, Others(a)
  PROVE  \A b \in Callers \ {a} : Recedes(b)
BY DEF CountInv, Others, Recedes, ChatFits, Refreshers

LEMMA EndingRecedes ==
  ASSUME NEW a \in Callers, pc'[a] = "idle", frame'[a] = NoFrame
  PROVE  Recedes(a)
BY DEF Recedes, ChatFits, NoFrame

LEMMA RaisesCounts ==
  ASSUME MonitorTypes, CountInv, NEW a \in Refreshers, NEW from, Raises(a, from)
  PROVE  CountInv'
<1>1. /\ Others(a) /\ pc'[a] = Rest(a) /\ frame'[a] = NoFrame
      /\ UNCHANGED <<bot, chats, replies>>
  BY RaisesEffect
<1>2. a \in Callers => Recedes(a)
  BY <1>1, EndingRecedes, MonitorAssumption DEF Rest
<1> QED BY <1>1, <1>2, OthersRecede, RecedingCounts

LEMMA RefreshCounts ==
  ASSUME MonitorTypes, CountInv, NEW a \in Refreshers, Refresh(a)
  PROVE  CountInv'
<1> USE DEF host, state, log, bounds
<1>1. CASE \E from : Raises(a, from)
  BY <1>1, RaisesCounts
<1>2. CASE ~\E from : Raises(a, from)
  <2>1. UNCHANGED <<bot, chats, replies>>
    BY <1>2
       DEF Refresh, BeginRefresh, Probe, Store, RecordTransition, SyncBots
  <2>2. CASE BeginRefresh(a) \/ Probe(a) \/ Store(a) \/ RecordTransition(a)
    <3>1. /\ Others(a) /\ frame'[a].chat = frame[a].chat
          /\ pc[a] # "finish" /\ pc'[a] \in Refreshing \cup {"sync"}
      BY <1>2, <2>2, ProbeEffect, GoesEffect
         DEF Store, AfterStore, RecordTransition, Refreshing
    <3>2. a \in Callers => Recedes(a)
      BY <3>1 DEF Recedes, ChatFits, Refreshing
    <3> QED BY <2>1, <3>1, <3>2, OthersRecede, RecedingCounts
  <2>3. CASE SyncBots(a)
    <3>1. CASE Ends(a, "sync")
      <4>1. Others(a) /\ pc'[a] = Rest(a) /\ frame'[a] = NoFrame
        BY <3>1, EndsEffect
      <4>2. a \in Callers => Recedes(a)
        BY <4>1, EndingRecedes, MonitorAssumption DEF Rest
      <4> QED BY <2>1, <4>1, <4>2, OthersRecede, RecedingCounts
    <3>2. CASE ~Ends(a, "sync")
      <4>1. /\ GoesOn(a) /\ frame' = frame
            /\ Goes(a, "sync", IF a = Collector THEN "metric" ELSE "infer")
        BY <1>2, <2>3, <3>2 DEF SyncBots
      <4>2. /\ Others(a) /\ pc[a] = "sync"
            /\ pc'[a] = IF a = Collector THEN "metric" ELSE "infer"
        BY <4>1, GoesEffect
      <4>3. a \in Callers => frame[a].chat
        BY <4>1, MonitorAssumption DEF GoesOn
      <4>4. a \in Callers => Recedes(a)
        BY <4>1, <4>2, <4>3, MonitorAssumption DEF Recedes, ChatFits
      <4> QED BY <2>1, <4>2, <4>4, OthersRecede, RecedingCounts
    <3> QED BY <3>1, <3>2
  <2> QED BY <1>2, <2>2, <2>3 DEF Refresh
<1> QED BY <1>1, <1>2

LEMMA CollectCounts ==
  ASSUME MonitorTypes, CountInv, Collect
  PROVE  CountInv'
<1> USE DEF host, state, log, bounds
<1>1. Collector \in Refreshers /\ Collector \notin Callers
  BY MonitorAssumption DEF Refreshers
<1>2. CASE \E from : Raises(Collector, from)
  BY <1>1, <1>2, RaisesCounts
<1>3. CASE ~\E from : Raises(Collector, from)
  <2>1. UNCHANGED <<bot, chats, replies>>
    BY <1>3 DEF Collect, Sweep, RecordMetric, Compare, RecordCrossing, Remember
  <2>2. \/ frame' = frame /\ \E from, to : Goes(Collector, from, to)
        \/ Ends(Collector, "remember")
    BY <1>3 DEF Collect, Sweep, RecordMetric, Compare, RecordCrossing, Remember
  <2>3. Others(Collector)
    BY <1>1, <2>2, GoesEffect, EndsEffect
  <2> QED BY <1>1, <2>1, <2>3, OthersRecede, RecedingCounts
<1> QED BY <1>2, <1>3

\* A chat begins.
LEMMA RequestCounts ==
  ASSUME MonitorTypes, CountInv, NEW a \in Callers, RequestChat(a)
  PROVE  CountInv'
<1>1. /\ Others(a) /\ pc[a] = "idle" /\ pc'[a] = "begin" /\ frame'[a].chat
  BY ChatEffect DEF Refreshers
<1>2. chats' = chats + 1 /\ UNCHANGED <<bot, replies>>
  BY DEF RequestChat
<1>3. ~frame[a].chat
  BY <1>1 DEF CountInv, ChatFits
<1>4. \A b \in Callers \ {a} : Recedes(b) /\ pc'[b] = pc[b] /\ frame'[b] = frame[b]
  BY <1>1, OthersRecede DEF Others, Refreshers
<1>5. Finishing' = Finishing
  BY <1>1, <1>4 DEF Finishing
<1>6. Counting' = Counting \cup {a} /\ a \notin Counting
  BY <1>1, <1>3, <1>4 DEF Counting
<1>7. /\ IsFiniteSet(Counting) /\ IsFiniteSet(Finishing)
      /\ replies + Cardinality(Finishing) <= bot.tasks
      /\ bot.tasks + Cardinality(Counting) <= chats
  BY DEF CountInv
<1>8. /\ Cardinality(Counting') = Cardinality(Counting) + 1
      /\ IsFiniteSet(Counting') /\ Cardinality(Counting) \in Nat
  BY <1>6, <1>7, FS_AddElement, FS_CardinalityType
<1>9. chats \in Nat /\ bot.tasks \in Nat
  BY DEF MonitorTypes
<1> HIDE DEF Finishing, Counting
<1>10. bot'.tasks + Cardinality(Counting') <= chats'
  BY <1>2, <1>7, <1>8, <1>9
<1>11. \A b \in Callers : ChatFits(b)'
  BY <1>1, <1>4 DEF Recedes, ChatFits
<1> QED BY <1>2, <1>5, <1>7, <1>8, <1>10, <1>11 DEF CountInv

\* It is counted.
LEMMA TaskCounts ==
  ASSUME MonitorTypes, CountInv, NEW a \in Callers, CountTask(a),
         ~Raises(a, "count")
  PROVE  CountInv'
<1>1. /\ Others(a) /\ pc[a] = "count" /\ pc'[a] = "finish" /\ frame' = frame
  BY GoesEffect DEF CountTask, Refreshers
<1>2. bot'.tasks = bot.tasks + 1 /\ UNCHANGED <<chats, replies>>
  BY DEF CountTask, MonitorTypes, bounds
<1>3. frame[a].chat
  BY <1>1 DEF CountInv, ChatFits
<1>4. \A b \in Callers \ {a} : Recedes(b) /\ pc'[b] = pc[b]
  BY <1>1, OthersRecede DEF Others, Refreshers
<1>5. Finishing' = Finishing \cup {a} /\ a \notin Finishing
  BY <1>1, <1>4 DEF Finishing
<1>6. Counting' = Counting \ {a} /\ a \in Counting
  BY <1>1, <1>3, <1>4 DEF Counting
<1>7. /\ IsFiniteSet(Counting) /\ IsFiniteSet(Finishing)
      /\ replies + Cardinality(Finishing) <= bot.tasks
      /\ bot.tasks + Cardinality(Counting) <= chats
  BY DEF CountInv
<1>8. /\ Cardinality(Finishing') = Cardinality(Finishing) + 1
      /\ IsFiniteSet(Finishing') /\ Cardinality(Finishing) \in Nat
  BY <1>5, <1>7, FS_AddElement, FS_CardinalityType
<1>9. /\ Cardinality(Counting') = Cardinality(Counting) - 1
      /\ IsFiniteSet(Counting') /\ Cardinality(Counting) \in Nat
  BY <1>6, <1>7, FS_RemoveElement, FS_CardinalityType
<1>10. chats \in Nat /\ bot.tasks \in Nat /\ replies \in Nat
  BY DEF MonitorTypes
<1> HIDE DEF Finishing, Counting
<1>11. /\ replies' + Cardinality(Finishing') <= bot'.tasks
       /\ bot'.tasks + Cardinality(Counting') <= chats'
  BY <1>2, <1>7, <1>8, <1>9, <1>10
<1>12. \A b \in Callers : ChatFits(b)'
  BY <1>1, <1>3, <1>4 DEF Recedes, ChatFits
<1> QED BY <1>8, <1>9, <1>11, <1>12 DEF CountInv

\* It gets its reply.
LEMMA ReplyCounts ==
  ASSUME MonitorTypes, CountInv, NEW a \in Callers, FinishChat(a),
         ~Raises(a, "finish")
  PROVE  CountInv'
<1>1. /\ Others(a) /\ pc[a] = "finish" /\ pc'[a] = "idle" /\ frame'[a] = NoFrame
  BY EndsEffect, MonitorAssumption DEF FinishChat, Refreshers, Rest
<1>2. replies' = replies + 1 /\ UNCHANGED <<bot, chats>>
  BY DEF FinishChat, bounds
<1>3. \A b \in Callers \ {a} : Recedes(b) /\ pc'[b] = pc[b] /\ frame'[b] = frame[b]
  BY <1>1, OthersRecede DEF Others, Refreshers
<1>4. Finishing' = Finishing \ {a} /\ a \in Finishing
  BY <1>1, <1>3 DEF Finishing
<1>5. Counting' = Counting
  BY <1>1, <1>3 DEF Counting, NoFrame
<1>6. /\ IsFiniteSet(Counting) /\ IsFiniteSet(Finishing)
      /\ replies + Cardinality(Finishing) <= bot.tasks
      /\ bot.tasks + Cardinality(Counting) <= chats
  BY DEF CountInv
<1>7. /\ Cardinality(Finishing') = Cardinality(Finishing) - 1
      /\ IsFiniteSet(Finishing') /\ Cardinality(Finishing) \in Nat
  BY <1>4, <1>6, FS_RemoveElement, FS_CardinalityType
<1>8. bot.tasks \in Nat /\ replies \in Nat
  BY DEF MonitorTypes
<1> HIDE DEF Finishing, Counting
<1>9. replies' + Cardinality(Finishing') <= bot'.tasks
  BY <1>2, <1>6, <1>7, <1>8
<1>10. \A b \in Callers : ChatFits(b)'
  BY <1>1, <1>3, EndingRecedes DEF Recedes
<1> QED BY <1>2, <1>5, <1>6, <1>7, <1>9, <1>10 DEF CountInv

LEMMA CountStep ==
  ASSUME MonitorTypes, CountInv, [Next]_vars
  PROVE  CountInv'
<1> USE DEF host, state, log, bounds
<1>1. \A a \in Callers : a \in Refreshers
  BY DEF Refreshers
<1>2. CASE Environment \/ UNCHANGED vars \/ \E r \in BOOLEAN : UpdateBot(r)
  <2>1. UNCHANGED <<pc, frame, bot.tasks, chats, replies>>
    BY <1>2 DEF Environment, vars, UpdateBot, MonitorTypes
  <2>2. \A a \in Callers : Recedes(a)
    BY <2>1 DEF CountInv, Recedes, ChatFits
  <2> QED BY <2>1, <2>2, RecedingCounts
<1>3. ASSUME NEW a \in Callers, CountTask(a) \/ FinishChat(a) PROVE CountInv'
  BY <1>1, <1>3, RaisesCounts, TaskCounts, ReplyCounts
<1>4. ASSUME NEW a \in Callers, RequestStatus(a) \/ Infer(a) PROVE CountInv'
  <2>1. UNCHANGED <<bot, chats, replies>>
    BY <1>4 DEF RequestStatus, Infer
  <2>2. CASE Ends(a, "infer")
    <3>1. Others(a) /\ pc'[a] = "idle" /\ frame'[a] = NoFrame
      BY <1>1, <2>2, EndsEffect, MonitorAssumption DEF Rest
    <3> QED BY <2>1, <3>1, EndingRecedes, OthersRecede, RecedingCounts
  <2>3. CASE ~Ends(a, "infer")
    <3>1. /\ frame' = frame /\ Others(a)
          /\ \/ pc[a] = "idle" /\ pc'[a] = "begin"
             \/ pc[a] = "infer" /\ pc'[a] = "count"
      BY <1>1, <1>4, <2>3, GoesEffect DEF RequestStatus, Infer
    <3>2. Recedes(a)
      BY <3>1 DEF CountInv, Recedes, ChatFits
    <3> QED BY <2>1, <3>1, <3>2, OthersRecede, RecedingCounts
  <2> QED BY <2>2, <2>3
<1> QED
  BY <1>2, <1>3, <1>4, RefreshCounts, CollectCounts, RequestCounts DEF Next

LEMMA CountInit == Init => CountInv
<1> SUFFICES ASSUME Init PROVE CountInv
  OBVIOUS
<1>1. \A a \in Callers : pc[a] = "idle" /\ frame[a] = NoFrame
  BY MonitorAssumption DEF Init, Refreshers, Rest
<1>2. Finishing = {} /\ Counting = {}
  BY <1>1 DEF Finishing, Counting, NoFrame
<1>3. IsFiniteSet({}) /\ Cardinality({}) = 0
  BY FS_EmptySet
<1>4. \A a \in Callers : ChatFits(a)
  BY <1>1 DEF ChatFits, NoFrame
<1>5. replies = 0 /\ bot.tasks = 0 /\ chats = 0
  BY DEF Init
<1> QED BY <1>2, <1>3, <1>4, <1>5 DEF CountInv

\* A chat that got its reply is counted, and nothing is counted that was not
\* asked, however chats overlap, fail and are paused.
THEOREM CountsEveryReply == Spec => []RepliesCounted
<1>1. MonitorTypes /\ CountInv => RepliesCounted
  <2> SUFFICES ASSUME MonitorTypes, CountInv PROVE RepliesCounted
    OBVIOUS
  <2>1. Cardinality(Finishing) \in Nat /\ Cardinality(Counting) \in Nat
    BY FS_CardinalityType DEF CountInv
  <2>2. replies \in Nat /\ bot.tasks \in Nat /\ chats \in Nat
    BY DEF MonitorTypes
  <2> HIDE DEF Finishing, Counting
  <2> QED BY <2>1, <2>2 DEF CountInv, RepliesCounted
<1> QED BY <1>1, TypesInit, TypesStep, CountInit, CountStep, PTL DEF Spec

=============================================================================
