--------------------------- MODULE RuntimeMonitor ---------------------------
(***************************************************************************)
(* How the backend (joeos_backend.py) follows the Lemonade server and the  *)
(* load of its host: the collector loop, GET /api/status and POST          *)
(* /api/chat, which all refresh app.state.runtime, and PATCH /api/bots.    *)
(*                                                                         *)
(* They are coroutines of one event loop and switch only where they await: *)
(* a step ends at an await, or in the thread it awaits.  A step in a       *)
(* thread is a SQLite transaction and may raise, as Lemonade's answers     *)
(* may fail to come; such faults are counted.  What chat does after its    *)
(* inference is not in a thread, but requests to /api/bots are, so that    *)
(* its transactions are steps too.  The model begins when lifespan has     *)
(* made its first refresh.                                                 *)
(***************************************************************************)
EXTENDS Naturals, FiniteSets

CONSTANTS
  Callers,    \* requests to /api/status and /api/chat under way
  Collector,  \* _collector_loop
  MaxFaults,  \* bound on failed transactions and probes of a server that is up
  MaxChats    \* bound on the chats

ASSUME MonitorAssumption ==
  /\ Collector \notin Callers
  /\ MaxFaults \in Nat /\ MaxChats \in Nat

VARIABLES
  up,         \* whether Lemonade answers
  high,       \* whether a utilization of the host is at least 85%
  runtime,    \* app.state.runtime["online"]
  threshold,  \* app.state.thresholds of that utilization
  bot,        \* the row of lemonade-copilot, but for its activity
  announced,  \* the last "connected" or "connection lost" in the event log
  warned,     \* "crossed 85%" is in the log since threshold last fell
  pc, frame,  \* where each coroutine is, and its local variables
  sample,     \* the utilization the collector sampled was high
  faults, chats,
  replies,    \* history: chats that got their reply
  disturbed   \* history: refreshes overlapped, or a transition was not logged

host == <<up, high>>
state == <<runtime, threshold>>
log == <<announced, warned>>
bounds == <<faults, chats>>
vars == <<host, state, bot, log, pc, frame, sample, bounds, replies, disturbed>>

Refreshers == Callers \cup {Collector}
Refreshing == {"probe", "store", "record"}

\* chat: it is a request to /api/chat.  previous: runtime when the refresh
\* began.  answer: what Lemonade answered it.
NoFrame == [chat |-> FALSE, previous |-> FALSE, answer |-> FALSE]
\* Where a coroutine ends up: the loop sleeps, a request has its response.
Rest(a) == IF a = Collector THEN "sleep" ELSE "idle"

Init ==
  /\ up \in BOOLEAN /\ high \in BOOLEAN
  /\ runtime = up /\ threshold = FALSE
  /\ bot = [running |-> TRUE, tasks |-> 0]
  /\ announced = up /\ warned = FALSE
  /\ pc = [a \in Refreshers |-> Rest(a)]
  /\ frame = [a \in Refreshers |-> NoFrame]
  /\ sample = FALSE
  /\ faults = 0 /\ chats = 0 /\ replies = 0
  /\ disturbed = FALSE

\* Lemonade starts and stops, the load rises and falls.
Environment ==
  /\ up' \in BOOLEAN /\ high' \in BOOLEAN
  /\ UNCHANGED <<state, bot, log, pc, frame, sample, bounds, replies, disturbed>>

---------------------------------------------------------------------------

Goes(a, from, to) == pc[a] = from /\ pc' = [pc EXCEPT ![a] = to]

\* The coroutine is done: its local variables are gone.
Ends(a, from) ==
  /\ Goes(a, from, Rest(a))
  /\ frame' = [frame EXCEPT ![a] = NoFrame]
  /\ sample' = (sample /\ a # Collector)

\* A transaction raises: the loop logs it and sleeps, a request gets a 500.
Raises(a, from) ==
  /\ Ends(a, from)
  /\ faults < MaxFaults
  /\ faults' = faults + 1
  /\ disturbed' = (disturbed \/ from = "record")
  /\ UNCHANGED <<host, state, bot, log, chats, replies>>

\* The collector wakes up and sweeps expired enrollments.
Sweep ==
  \/ /\ Goes(Collector, "sleep", "begin")
     /\ UNCHANGED <<host, state, bot, log, frame, sample, bounds, replies, disturbed>>
  \/ Raises(Collector, "sleep")

RequestStatus(a) ==
  /\ Goes(a, "idle", "begin")
  /\ UNCHANGED <<host, state, bot, log, frame, sample, bounds, replies, disturbed>>

\* chat answers 409 while the profile is paused.
RequestChat(a) ==
  /\ bot.running
  /\ chats < MaxChats
  /\ chats' = chats + 1
  /\ Goes(a, "idle", "begin")
  /\ frame' = [frame EXCEPT ![a].chat = TRUE]
  /\ UNCHANGED <<host, state, bot, log, sample, faults, replies, disturbed>>

---------------------------------------------------------------------------
(* _refresh_runtime.                                                       *)

BeginRefresh(a) ==
  /\ Goes(a, "begin", "probe")
  /\ frame' = [frame EXCEPT ![a].previous = runtime]
  /\ disturbed' = (disturbed \/ \E b \in Refreshers \ {a} : pc[b] \in Refreshing)
  /\ UNCHANGED <<host, state, bot, log, sample, bounds, replies>>

\* GET health is answered, or not.  gather waits for the other answers.
Probe(a) ==
  /\ Goes(a, "probe", "store")
  /\ \/ /\ frame' = [frame EXCEPT ![a].answer = up]
        /\ UNCHANGED faults
     \/ /\ faults < MaxFaults
        /\ faults' = faults + 1
        /\ frame' = [frame EXCEPT ![a].answer = FALSE]
  /\ UNCHANGED <<host, state, bot, log, sample, chats, replies, disturbed>>

AfterStore(a) ==
  IF frame[a].previous # frame[a].answer THEN "record" ELSE "sync"

\* Mutation: a refresh keeps the old runtime when Lemonade is gone.
StoreOnline(a) ==
  /\ Goes(a, "store", AfterStore(a))
  /\ runtime' = (runtime \/ frame[a].answer)
  /\ UNCHANGED <<host, threshold, bot, log, frame, sample, bounds, replies, disturbed>>

Store(a) ==
  /\ Goes(a, "store", AfterStore(a))
  /\ runtime' = frame[a].answer
  /\ UNCHANGED <<host, threshold, bot, log, frame, sample, bounds, replies, disturbed>>

RecordTransition(a) ==
  \/ /\ Goes(a, "record", "sync")
     /\ announced' = frame[a].answer
     /\ UNCHANGED <<host, state, bot, warned, frame, sample, bounds, replies, disturbed>>
  \/ Raises(a, "record")

\* Who goes on after the refresh: the collector, which samples, and a chat,
\* unless Lemonade is gone (503).
GoesOn(a) ==
  \/ a = Collector
  \/ frame[a].chat /\ frame[a].answer

\* _sync_runtime_bots writes the activity of profiles that are running.
SyncBots(a) ==
  \/ /\ \/ /\ GoesOn(a)
           /\ Goes(a, "sync", IF a = Collector THEN "metric" ELSE "infer")
           /\ UNCHANGED <<frame, sample>>
        \/ ~GoesOn(a) /\ Ends(a, "sync")
     /\ UNCHANGED <<host, state, bot, log, bounds, replies, disturbed>>
  \/ Raises(a, "sync")

---------------------------------------------------------------------------
(* The rest of a cycle of _collector_loop.                                 *)

\* The sample, and in some cycles an event that says so.
RecordMetric ==
  \/ /\ Goes(Collector, "metric", "compare")
     /\ sample' = high
     /\ UNCHANGED <<host, state, bot, log, frame, bounds, replies, disturbed>>
  \/ Raises(Collector, "metric")

\* Mutation: a crossing is remembered before it is recorded.
CompareRemembering ==
  /\ Goes(Collector, "compare", IF sample /\ ~threshold THEN "warn" ELSE "remember")
  /\ threshold' = sample
  /\ UNCHANGED <<host, runtime, bot, log, frame, sample, bounds, replies, disturbed>>

Compare ==
  /\ Goes(Collector, "compare", IF sample /\ ~threshold THEN "warn" ELSE "remember")
  /\ UNCHANGED <<host, state, bot, log, frame, sample, bounds, replies, disturbed>>

RecordCrossing ==
  \/ /\ Goes(Collector, "warn", "remember")
     /\ warned' = TRUE
     /\ UNCHANGED <<host, state, bot, announced, frame, sample, bounds, replies, disturbed>>
  \/ Raises(Collector, "warn")

Remember ==
  /\ Ends(Collector, "remember")
  /\ threshold' = sample
  /\ warned' = (warned /\ sample)
  /\ UNCHANGED <<host, runtime, bot, announced, bounds, replies, disturbed>>

---------------------------------------------------------------------------
(* The rest of chat, and update_bot.                                       *)

\* _chat_with_lemonade: a reply, or 502, 503 or 504.
Infer(a) ==
  /\ \/ Goes(a, "infer", "count") /\ UNCHANGED <<frame, sample>>
     \/ Ends(a, "infer")
  /\ UNCHANGED <<host, state, bot, log, bounds, replies, disturbed>>

\* Mutation: only a running profile is counted, as in _sync_runtime_bots.
CountTaskRunning(a) ==
  /\ Goes(a, "count", "finish")
  /\ bot' = IF bot.running THEN [bot EXCEPT !.tasks = @ + 1] ELSE bot
  /\ UNCHANGED <<host, state, log, frame, sample, bounds, replies, disturbed>>

CountTask(a) ==
  \/ /\ Goes(a, "count", "finish")
     /\ bot' = [bot EXCEPT !.tasks = @ + 1]
     /\ UNCHANGED <<host, state, log, frame, sample, bounds, replies, disturbed>>
  \/ Raises(a, "count")

\* The completion is recorded and the reply returned.
FinishChat(a) ==
  \/ /\ Ends(a, "finish")
     /\ replies' = replies + 1
     /\ UNCHANGED <<host, state, bot, log, bounds, disturbed>>
  \/ Raises(a, "finish")

\* Its event is recorded after the commit and concerns no property here.
UpdateBot(running) ==
  /\ bot' = [bot EXCEPT !.running = running]
  /\ UNCHANGED <<host, state, log, pc, frame, sample, bounds, replies, disturbed>>

Refresh(a) ==
  BeginRefresh(a) \/ Probe(a) \/ Store(a) \/ RecordTransition(a) \/ SyncBots(a)
Collect == Sweep \/ RecordMetric \/ Compare \/ RecordCrossing \/ Remember

Next ==
  \/ Environment
  \/ \E a \in Refreshers : Refresh(a)
  \/ Collect
  \/ \E a \in Callers :
       RequestStatus(a) \/ RequestChat(a) \/ Infer(a) \/ CountTask(a) \/ FinishChat(a)
  \/ \E running \in BOOLEAN : UpdateBot(running)

Spec == Init /\ [][Next]_vars

\* The event loop runs its coroutines, transactions and probes end by their
\* timeouts, and the collector wakes up.  Nobody has to send requests.
Fairness ==
  /\ \A a \in Refreshers : WF_vars(Refresh(a))
  /\ WF_vars(Collect)

FairSpec == Spec /\ Fairness

---------------------------------------------------------------------------

\* However refreshes overlap, overtake each other and fail: if Lemonade comes
\* to stay, or to stay away, the runtime says so for good.
RuntimeFollows ==
  /\ <>[]up => <>[]runtime
  /\ <>[]~up => <>[]~runtime

\* What the backend remembers is in the event log: a crossing even if
\* recording it failed at first; a transition unless refreshes overlapped or
\* recording one failed.  With two refreshes both may find the same
\* transition, or neither.
RememberedIsLogged ==
  /\ threshold => warned
  /\ ~disturbed =>
       runtime = announced \/ \E a \in Refreshers : pc[a] = "record"

\* A chat that got its reply is counted, once: also if the profile was paused
\* while the model answered, and whatever chats and failures came before.
RepliesCounted == replies <= bot.tasks /\ bot.tasks <= chats

=============================================================================
