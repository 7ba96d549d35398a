--------------------------- MODULE EventDelivery ---------------------------
(***************************************************************************)
(* The event log and its streams (EventStream) composed with one SDK       *)
(* subscription (EventSubscription): a websocket keeps the order of its    *)
(* frames, may break at any moment and then loses those not yet delivered, *)
(* and the subscription resumes over a new one.                            *)
(***************************************************************************)
EXTENDS Integers, Sequences, FiniteSets, FiniteSetsExt

CONSTANTS
  Sockets, InitialCursor, MaxAttempts, MaxEventRows, BatchSize,
  MaxEvents, \* bound: events that may be recorded
  WireSize,  \* bound: frames a connection buffers before a send waits
  MaxFaults, \* bound: connections and streams that break, attempts that fail
  None

VARIABLES
  newest, log, pc, requested, latest, cursor, batch, wire, began, sent,
  socket, url, active, timer, lastCursor, failureCount, stopped,
  handled, rejected,
  faults \* how many have happened

server == <<newest, log, pc, requested, latest, cursor, batch, wire, began, sent>>
client == <<socket, url, active, timer, lastCursor, failureCount, stopped,
            handled, rejected>>
vars == <<server, client, faults>>

Server == INSTANCE EventStream WITH
  Connections <- Sockets, Afters <- 0..(InitialCursor + MaxEvents)

Client == INSTANCE EventSubscription WITH
  Cursors <- 0..(InitialCursor + MaxEvents)

ASSUME DeliveryAssumption ==
  /\ Client!SubscriptionAssumption
  /\ Server!EventStreamAssumption
  /\ MaxFaults \in Nat

Init == Server!Init /\ Client!Init /\ faults = 0

Fault == faults < MaxFaults /\ faults' = faults + 1

---------------------------------------------------------------------------

RecordEvent ==
  Server!RecordEvent /\ UNCHANGED <<client, faults>>

StreamStep(s) ==
  Server!StreamStep(s) /\ UNCHANGED <<client, faults>>

\* A new socket takes the place of one the server is done with.
Connect(s, closes) ==
  /\ pc[s] \in {"none", "ended"}
  /\ Client!Connect(s, closes)
  /\ UNCHANGED <<server, faults>>

ConnectFails(closes) ==
  Fault /\ Client!ConnectFails(closes) /\ UNCHANGED server

TimerAfterStop ==
  Client!TimerAfterStop /\ UNCHANGED <<server, faults>>

\* The handshake: the server reads after= from the URL.
Open(s) ==
  /\ Server!Accept(s, url[s])
  /\ Client!Opens(s)
  /\ UNCHANGED faults

Deliver(s) ==
  /\ wire[s] # <<>>
  /\ Client!Message(s, Head(wire[s]))
  /\ Server!Take(s)
  /\ UNCHANGED faults

\* The connection breaks, or is refused; the frames on it are lost.
Break(s, closes) ==
  Fault /\ Client!Closes(s, closes) /\ UNCHANGED server

\* The stream ends by itself: the snapshot raised, the server restarts.
Fail(s) ==
  Fault /\ socket[s] = "open" /\ Server!Stop(s) /\ UNCHANGED client

\* The server notices that the client has gone.
Notice(s) ==
  /\ socket[s] = "closed"
  /\ Server!Stop(s)
  /\ UNCHANGED <<client, faults>>

\* The client has every frame of a stream that ended.
HangUp(s, closes) ==
  /\ socket[s] = "open" /\ pc[s] = "ended" /\ wire[s] = <<>>
  /\ Client!Closes(s, closes)
  /\ UNCHANGED <<server, faults>>

Close == Client!Close /\ UNCHANGED <<server, faults>>

Next ==
  \/ RecordEvent
  \/ \E closes \in BOOLEAN :
       \/ ConnectFails(closes)
       \/ \E s \in Sockets :
            Connect(s, closes) \/ Break(s, closes) \/ HangUp(s, closes)
  \/ TimerAfterStop
  \/ \E s \in Sockets :
       StreamStep(s) \/ Open(s) \/ Deliver(s) \/ Fail(s) \/ Notice(s)
  \/ Close

Spec == Init /\ [][Next]_vars

\* The event loops of the server and of the client run, timers fire and a
\* connection that is up delivers; nobody has to record events or to close.
\* A generator that is idle polls, whether or not it sends a heartbeat first.
Fairness ==
  /\ \A s \in Sockets :
       /\ WF_vars(StreamStep(s)) /\ WF_vars(Open(s)) /\ WF_vars(Deliver(s))
       /\ WF_vars(Notice(s))
       /\ WF_vars(\E closes \in BOOLEAN : HangUp(s, closes))
  /\ WF_vars(\E s \in Sockets, closes \in BOOLEAN : Connect(s, closes))

FairSpec == Spec /\ Fairness

---------------------------------------------------------------------------
(* Properties.                                                             *)

\* Across any number of reconnects the subscription passes over nothing that
\* is still in the log: each such event up to its cursor was handled.
NothingMissed ==
  \A e \in log : InitialCursor < e /\ e <= lastCursor => e \in handled

\* The snapshots and heartbeats of an honest server always carry the cursor of
\* the subscription at the moment they arrive, so it rejects none of them.
NoneRejected == ~rejected

\* A client that resumes from a cursor it got from this database is never told
\* that its cursor is ahead, whatever is recorded between the server's reads.
NeverAhead ==
  InitialCursor = 0 =>
    \A s \in Sockets : \A i \in DOMAIN wire[s] : ~wire[s][i].ahead

\* A subscription is neither stuck nor doubled, and ends when it is told to.
SocketOrTimer == Client!SocketOrTimer
StopIsFinal == Client!StopIsFinal

\* Every event reaches the subscription unless retention removes it first or
\* the subscription ends.
EventsArrive ==
  \A e \in 1..MaxEvents :
    e \in log ~> (lastCursor >= e \/ e \notin log \/ stopped)

\* The composition as the abstract feed sees it.
Feed == INSTANCE EventFeed WITH
  Start <- InitialCursor, Capacity <- MaxEventRows,
  position <- lastCursor, given <- handled, ended <- stopped

\* Reconnects, lost frames, batches and trims amount to an ordered feed that
\* skips only what the log no longer holds.
ImplementsFeed == Feed!Spec

=============================================================================
