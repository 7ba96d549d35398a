---------------------------- MODULE EventStream ----------------------------
(***************************************************************************)
(* The audit event log of joeos_backend.py and the streams that            *)
(* server/realtime/service.py serves from it.                              *)
(*                                                                         *)
(* Every component appends to the log and each append trims it.  A stream  *)
(* is a generator on the event loop that reads the log through a thread,   *)
(* one connection per read; the log may change between any two reads and   *)
(* between a read and the frames made of it.                               *)
(***************************************************************************)
EXTENDS Integers, Sequences, FiniteSets, FiniteSetsExt

CONSTANTS
  Connections,  \* websocket connections
  Afters,       \* values of ?after=, or None for a fresh connection
  MaxEventRows, \* MAX_EVENT_ROWS
  BatchSize,    \* RealtimeService.batch_size
  MaxEvents,    \* bound: events that may be recorded
  WireSize,     \* bound: frames a connection buffers before a send waits
  None

\* What a stream takes for granted of its constants.
EventStreamAssumption ==
  /\ Afters \subseteq Nat \cup {None} /\ None \notin Nat
  /\ MaxEventRows \in Nat \ {0} /\ BatchSize \in Nat \ {0}
  /\ MaxEvents \in Nat /\ WireSize \in Nat \ {0}

VARIABLES
  newest,    \* the last id sqlite gave an event (AUTOINCREMENT)
  log,       \* the ids of the rows of the events table
  pc,        \* where the generator of each connection is
  requested, \* its after
  latest,    \* latest_cursor(), as its snapshot read it
  cursor,    \* its cursor
  batch,     \* the ids of the batch it fetched
  wire,      \* frames on their way to the client
  began,     \* history: newest when the connection was accepted
  sent       \* history: the audit events it has yielded

streams == <<pc, requested, latest, cursor, batch, wire, began, sent>>
vars == <<newest, log, streams>>

Working == {"read_latest", "send_snapshot", "fetch", "emit", "idle"}

Frame(type, at, gap, ahead) ==
  [type |-> type, cursor |-> at, gap |-> gap, ahead |-> ahead]

Init ==
  /\ newest = 0
  /\ log = {}
  /\ pc = [s \in Connections |-> "none"]
  /\ requested = [s \in Connections |-> None]
  /\ latest = [s \in Connections |-> 0]
  /\ cursor = [s \in Connections |-> 0]
  /\ batch = [s \in Connections |-> {}]
  /\ wire = [s \in Connections |-> <<>>]
  /\ began = [s \in Connections |-> 0]
  /\ sent = [s \in Connections |-> {}]

---------------------------------------------------------------------------

\* The rows the DELETE of _record_event leaves.
Retained(rows) ==
  {e \in rows : Cardinality({f \in rows : f > e}) < MaxEventRows}

\* One transaction: insert and trim.
RecordEvent ==
  /\ newest < MaxEvents
  /\ newest' = newest + 1
  /\ log' = Retained(log \cup {newest + 1})
  /\ UNCHANGED streams

---------------------------------------------------------------------------

GoTo(s, label) == pc' = [pc EXCEPT ![s] = label]

CanSend(s) == Len(wire[s]) < WireSize

Send(s, frame) == wire' = [wire EXCEPT ![s] = Append(@, frame)]

\* An accepted websocket starts a generator.
Accept(s, after) ==
  /\ pc[s] \in {"none", "ended"}
  /\ GoTo(s, "read_latest")
  /\ requested' = [requested EXCEPT ![s] = after]
  /\ wire' = [wire EXCEPT ![s] = <<>>]
  /\ began' = [began EXCEPT ![s] = newest]
  /\ sent' = [sent EXCEPT ![s] = {}]
  /\ UNCHANGED <<newest, log, latest, cursor, batch>>

LatestCursor == IF log = {} THEN 0 ELSE Max(log)
OldestCursor == IF log = {} THEN 0 ELSE Min(log)

\* initial_snapshot reads the newest id,
ReadLatest(s) ==
  /\ pc[s] = "read_latest"
  /\ latest' = [latest EXCEPT ![s] = LatestCursor]
  /\ GoTo(s, "send_snapshot")
  /\ UNCHANGED <<newest, log, requested, cursor, batch, wire, began, sent>>

\* Mutations: the boundary is off by one; a fresh cursor is the oldest id; a
\* resumed stream starts at the newest id.
HistoryGapOffByOne(after, oldest) ==
  after # None /\ oldest > 0 /\ after < oldest

StartOldest(s) == IF requested[s] = None THEN OldestCursor ELSE requested[s]

StartLatest(s) == latest[s]

HistoryGap(after, oldest) ==
  after # None /\ oldest > 0 /\ after < oldest - 1

CursorAheadOrLevel(after, newestRead) == after # None /\ after >= newestRead
CursorAhead(after, newestRead) == after # None /\ after > newestRead

StartCursor(s) == IF requested[s] = None THEN latest[s] ELSE requested[s]

\* then the oldest, and yields the snapshot.
SendSnapshot(s) ==
  /\ pc[s] = "send_snapshot"
  /\ CanSend(s)
  /\ cursor' = [cursor EXCEPT ![s] = StartCursor(s)]
  /\ Send(s, Frame("snapshot", StartCursor(s),
                   HistoryGap(requested[s], OldestCursor),
                   CursorAhead(requested[s], latest[s])))
  /\ GoTo(s, "fetch")
  /\ UNCHANGED <<newest, log, requested, latest, batch, began, sent>>

\* Mutation: the newest rows after the cursor, not the next ones.
RowsAfterNewest(at) ==
  {e \in log : e > at /\ Cardinality({f \in log : f > e}) < BatchSize}

\* At most BatchSize rows after a cursor, the next ones first.
RowsAfter(at) ==
  {e \in log : e > at /\ Cardinality({f \in log : at < f /\ f < e}) < BatchSize}

Fetch(s) ==
  /\ pc[s] = "fetch"
  /\ batch' = [batch EXCEPT ![s] = RowsAfter(cursor[s])]
  /\ GoTo(s, IF RowsAfter(cursor[s]) = {} THEN "idle" ELSE "emit")
  /\ UNCHANGED <<newest, log, requested, latest, cursor, wire, began, sent>>

Pending(s) == {e \in batch[s] : e > cursor[s]}

\* Yield the next event of the batch; after a full batch fetch again at once.
Emit(s) ==
  LET e == Min(Pending(s))
  IN /\ pc[s] = "emit"
     /\ CanSend(s)
     /\ cursor' = [cursor EXCEPT ![s] = e]
     /\ Send(s, Frame("audit", e, FALSE, FALSE))
     /\ sent' = [sent EXCEPT ![s] = @ \cup {e}]
     /\ GoTo(s, IF Pending(s) # {e} THEN "emit"
                ELSE IF Cardinality(batch[s]) >= BatchSize THEN "fetch"
                ELSE "idle")
     /\ UNCHANGED <<newest, log, requested, latest, batch, began>>

\* Mutations: the generator waits again after a heartbeat without a look at the
\* log; a heartbeat carries the newest id the server knows.
HeartbeatNoLook(s) ==
  /\ pc[s] = "idle"
  /\ CanSend(s)
  /\ Send(s, Frame("heartbeat", cursor[s], FALSE, FALSE))
  /\ UNCHANGED <<newest, log, pc, requested, latest, cursor, batch, began, sent>>

HeartbeatNewest(s) ==
  /\ pc[s] = "idle"
  /\ CanSend(s)
  /\ Send(s, Frame("heartbeat", LatestCursor, FALSE, FALSE))
  /\ GoTo(s, "fetch")
  /\ UNCHANGED <<newest, log, requested, latest, cursor, batch, began, sent>>

\* Nothing was sent for heartbeat_seconds.
Heartbeat(s) ==
  /\ pc[s] = "idle"
  /\ CanSend(s)
  /\ Send(s, Frame("heartbeat", cursor[s], FALSE, FALSE))
  /\ GoTo(s, "fetch")
  /\ UNCHANGED <<newest, log, requested, latest, cursor, batch, began, sent>>

\* Wait poll_seconds and look again.
Poll(s) ==
  /\ pc[s] = "idle"
  /\ GoTo(s, "fetch")
  /\ UNCHANGED <<newest, log, requested, latest, cursor, batch, wire,
                 began, sent>>

\* stop_event is set: the client has gone, a send failed, the snapshot raised
\* or the server shuts down.  The generator's locals go with it.
Stop(s) ==
  /\ pc[s] \in Working
  /\ GoTo(s, "ended")
  /\ latest' = [latest EXCEPT ![s] = 0]
  /\ cursor' = [cursor EXCEPT ![s] = 0]
  /\ batch' = [batch EXCEPT ![s] = {}]
  /\ UNCHANGED <<newest, log, requested, wire, began, sent>>

\* The client takes a frame.
Take(s) ==
  /\ wire[s] # <<>>
  /\ wire' = [wire EXCEPT ![s] = Tail(@)]
  /\ UNCHANGED <<newest, log, pc, requested, latest, cursor, batch,
                 began, sent>>

StreamStep(s) ==
  \/ ReadLatest(s) \/ SendSnapshot(s) \/ Fetch(s) \/ Emit(s)
  \/ Heartbeat(s) \/ Poll(s)

Next ==
  \/ RecordEvent
  \/ \E s \in Connections :
       \/ \E after \in Afters : Accept(s, after)
       \/ StreamStep(s)
       \/ Stop(s)
       \/ Take(s)

Spec == Init /\ [][Next]_vars

---------------------------------------------------------------------------
(* Properties.                                                             *)

Frames ==
  [type : {"snapshot", "audit", "heartbeat"}, cursor : Nat,
   gap : BOOLEAN, ahead : BOOLEAN]

TypeOK ==
  /\ newest \in 0..MaxEvents
  /\ log \subseteq 1..newest
  /\ pc \in [Connections -> {"none", "ended"} \cup Working]
  /\ requested \in [Connections -> Afters \cup {None}]
  /\ latest \in [Connections -> 0..MaxEvents]
  /\ cursor \in [Connections -> Nat]
  /\ batch \in [Connections -> SUBSET (1..newest)]
  /\ wire \in [Connections -> Seq(Frames)]
  /\ began \in [Connections -> 0..newest]
  /\ sent \in [Connections -> SUBSET (1..newest)]

\* Every connection that has sent its snapshot, and where it started.
Started(s) == pc[s] \in {"fetch", "emit", "idle"}

\* A stream passes over nothing it could have sent: an event between the
\* cursor it started from and the cursor it has reached was sent, or is gone
\* from the log, whatever was appended and trimmed between its reads.
NothingPassedOver ==
  \A s \in Connections : Started(s) =>
    \A e \in log : StartCursor(s) < e /\ e <= cursor[s] => e \in sent[s]

\* "Only audit events created after the connection follow": a fresh connection
\* replays nothing that was in the log when it was accepted, although the
\* cursor it starts from is read later.
FreshStartsNow ==
  \A s \in Connections : requested[s] = None =>
    \A e \in sent[s] : e > began[s]

\* history_gap is set exactly when retention has removed an event after the
\* requested cursor, at both edges of the retained range.
HistoryGapExact ==
  [][\A s \in Connections :
       pc[s] = "send_snapshot" /\ pc'[s] = "fetch" /\ requested[s] # None =>
         (wire'[s][Len(wire'[s])].gap
          <=> \E e \in 1..newest : e > requested[s] /\ e \notin log)]_vars

=============================================================================
