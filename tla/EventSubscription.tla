------------------------- MODULE EventSubscription -------------------------
(***************************************************************************)
(* One subscription of packages/sdk/src/index.js, subscribeEvents.         *)
(*                                                                         *)
(* JavaScript runs one callback at a time; a step is one callback of the   *)
(* socket, of the timer or of the caller.  The observer is called in the   *)
(* middle of some of them and may close the subscription there: `closes`   *)
(* says that it does.  close() and abort differ in wording only.           *)
(*                                                                         *)
(* The first connect is a call of subscribeEvents itself; it is treated as *)
(* a timer that is due, which the caller's aborted signal may forestall.   *)
(***************************************************************************)
EXTENDS Integers

CONSTANTS
  Sockets,       \* WebSocket objects; a closed one may stand for a new one
  InitialCursor, \* options.after
  MaxAttempts,   \* policy.maxAttempts; with reconnect: false, 0
  Cursors,       \* bound: cursors a frame may carry
  None

\* What a subscription takes for granted of its constants.
SubscriptionAssumption ==
  /\ InitialCursor \in Nat /\ MaxAttempts \in Nat /\ Cursors \subseteq Nat
  /\ None \notin Sockets

VARIABLES
  socket,     \* readyState of each socket
  url,        \* the after= each was opened with
  active,     \* activeSocket; its listeners are attached exactly then
  timer,      \* reconnectTimer is set
  lastCursor,
  failureCount,
  stopped,
  handled,    \* history: the audit events given to onEvent
  rejected    \* history: an "invalid_event" was reported

vars == <<socket, url, active, timer, lastCursor, failureCount, stopped,
          handled, rejected>>

Init ==
  /\ socket = [s \in Sockets |-> "closed"]
  /\ url = [s \in Sockets |-> InitialCursor]
  /\ active = None
  /\ timer = TRUE
  /\ lastCursor = InitialCursor
  /\ failureCount = 0
  /\ stopped = FALSE
  /\ handled = {}
  /\ rejected = FALSE

Live == {s \in Sockets : socket[s] # "closed"}

---------------------------------------------------------------------------

\* Mutation: the timer is not set.
ScheduleWithoutTimer(closes) ==
  /\ failureCount' = failureCount + 1
  /\ IF failureCount + 1 > MaxAttempts
       THEN stopped' = TRUE /\ timer' = FALSE
       ELSE stopped' = closes /\ timer' = FALSE

\* scheduleReconnect: the last failure finalizes; else the observer hears of
\* the delay and, closed or not, the timer is set.
ScheduleReconnect(closes) ==
  /\ failureCount' = failureCount + 1
  /\ IF failureCount + 1 > MaxAttempts
       THEN stopped' = TRUE /\ timer' = FALSE
       ELSE stopped' = closes /\ timer' = TRUE

\* Mutations: the server is asked for one event too few; connect does not
\* look at stopped.
ConnectPastCursor(s, closes) ==
  /\ timer /\ ~stopped
  /\ socket[s] = "closed"
  /\ socket' = [socket EXCEPT ![s] = "connecting"]
  /\ url' = [url EXCEPT ![s] = lastCursor + 1]
  /\ active' = s
  /\ timer' = FALSE
  /\ stopped' = closes
  /\ UNCHANGED <<lastCursor, failureCount, handled, rejected>>

ConnectRegardless(s, closes) ==
  /\ timer
  /\ socket[s] = "closed"
  /\ socket' = [socket EXCEPT ![s] = "connecting"]
  /\ url' = [url EXCEPT ![s] = lastCursor]
  /\ active' = s
  /\ timer' = FALSE
  /\ stopped' = (stopped \/ closes)
  /\ UNCHANGED <<lastCursor, failureCount, handled, rejected>>

\* The timer fires and connect creates a socket; the observer hears
\* "connecting" before that.
Connect(s, closes) ==
  /\ timer /\ ~stopped
  /\ socket[s] = "closed"
  /\ socket' = [socket EXCEPT ![s] = "connecting"]
  /\ url' = [url EXCEPT ![s] = lastCursor]
  /\ active' = s
  /\ timer' = FALSE
  /\ stopped' = closes
  /\ UNCHANGED <<lastCursor, failureCount, handled, rejected>>

\* The factory throws or returns no socket; an observer that closed on
\* "connecting" or "socket_error" ends it, one that closes on "reconnecting"
\* leaves the timer set.
ConnectFails(closes) ==
  /\ timer /\ ~stopped
  /\ \/ ScheduleReconnect(closes)
     \/ closes /\ stopped' = TRUE /\ timer' = FALSE /\ UNCHANGED failureCount
  /\ UNCHANGED <<socket, url, active, lastCursor, handled, rejected>>

\* connect returns at once when the subscription has stopped.
TimerAfterStop ==
  /\ timer /\ stopped
  /\ timer' = FALSE
  /\ UNCHANGED <<socket, url, active, lastCursor, failureCount, stopped,
                 handled, rejected>>

Opens(s) ==
  /\ socket[s] = "connecting"
  /\ socket' = [socket EXCEPT ![s] = "open"]
  /\ UNCHANGED <<url, active, timer, lastCursor, failureCount, stopped,
                 handled, rejected>>

\* The close event of a socket: refused, dropped, or closed by the server.
Closes(s, closes) ==
  /\ socket[s] # "closed"
  /\ socket' = [socket EXCEPT ![s] = "closed"]
  /\ active' = IF s = active THEN None ELSE active
  /\ IF s = active /\ ~stopped
       THEN ScheduleReconnect(closes)
       ELSE UNCHANGED <<timer, failureCount, stopped>>
  /\ UNCHANGED <<url, lastCursor, handled, rejected>>

\* acceptMessage: an envelope is new, a repeat, or invalid.
Fresh(frame) == frame.type = "audit" /\ frame.cursor > lastCursor
Level(frame) == frame.type \in {"snapshot", "heartbeat"} /\ frame.cursor = lastCursor
Invalid(frame) ==
  \/ frame.type = "malformed"
  \/ frame.type \in {"snapshot", "heartbeat"} /\ frame.cursor # lastCursor

\* What a message event of a socket does.
Message(s, frame) ==
  LET heard == s = active /\ ~stopped
  IN /\ socket[s] = "open"
     /\ IF heard /\ Fresh(frame)
          THEN lastCursor' = frame.cursor /\ handled' = handled \cup {frame.cursor}
          ELSE UNCHANGED <<lastCursor, handled>>
     /\ failureCount' =
          IF heard /\ (Fresh(frame) \/ Level(frame)) THEN 0 ELSE failureCount
     /\ rejected' = (rejected \/ (heard /\ Invalid(frame)))
     /\ UNCHANGED <<socket, url, active, timer, stopped>>

\* close(), or the caller's signal aborts.
Close ==
  /\ ~stopped
  /\ stopped' = TRUE
  /\ timer' = FALSE
  /\ active' = None
  /\ socket' = [s \in Sockets |-> IF s = active THEN "closed" ELSE socket[s]]
  /\ UNCHANGED <<url, lastCursor, failureCount, handled, rejected>>

---------------------------------------------------------------------------

\* What any server might send.
AnyFrame ==
  [type : {"snapshot", "audit", "heartbeat", "malformed"}, cursor : Cursors]

Next ==
  \/ \E closes \in BOOLEAN :
       \/ ConnectFails(closes)
       \/ \E s \in Sockets : Connect(s, closes) \/ Closes(s, closes)
  \/ TimerAfterStop
  \/ \E s \in Sockets :
       \/ Opens(s)
       \/ \E frame \in AnyFrame : Message(s, frame)
  \/ Close

Spec == Init /\ [][Next]_vars

---------------------------------------------------------------------------
(* Properties.                                                             *)

TypeOK ==
  /\ socket \in [Sockets -> {"connecting", "open", "closed"}]
  /\ url \in [Sockets -> Nat]
  /\ active \in Sockets \cup {None}
  /\ timer \in BOOLEAN
  /\ lastCursor \in Nat
  /\ failureCount \in 0..(MaxAttempts + 1)
  /\ stopped \in BOOLEAN
  /\ handled \subseteq Nat
  /\ rejected \in BOOLEAN

\* A subscription is neither stuck nor doubled: until it stops it has either
\* one socket, the active one, or one pending reconnect, whatever the factory,
\* the network and the observer do, and never two sockets.
SocketOrTimer ==
  /\ ~stopped => (active = None <=> timer)
  /\ Live \subseteq {active}

\* Once stopped it handles no event and makes no connection, even when the
\* observer stopped it while a reconnect was being scheduled.
StopIsFinal ==
  [][stopped => stopped' /\ handled' = handled /\ Live' \subseteq Live]_vars

\* packages/sdk/README.md: "explicit close or abort is terminal"; whoever closes
\* a subscription gets its socket closed.
CloseLetsGo == stopped => Live = {}

=============================================================================
