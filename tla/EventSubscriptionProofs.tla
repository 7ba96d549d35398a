---------------------- MODULE EventSubscriptionProofs ----------------------
(***************************************************************************)
(* Whatever the server, the network and the observer do, a subscription is *)
(* never stuck, never doubled and stays stopped.                           *)
(***************************************************************************)
EXTENDS EventSubscription, TLAPS

\* A subscription that goes on has not used up its attempts.
AttemptsLeft == ~stopped => failureCount \in 0..MaxAttempts

\* The types of what frames cannot spoil.
ControlTypes ==
  /\ socket \in [Sockets -> {"connecting", "open", "closed"}]
  /\ active \in Sockets \cup {None}
  /\ timer \in BOOLEAN
  /\ failureCount \in 0..(MaxAttempts + 1)
  /\ stopped \in BOOLEAN

Inv == ControlTypes /\ SocketOrTimer /\ AttemptsLeft

LEMMA InitInv ==
  ASSUME SubscriptionAssumption, Init
  PROVE  Inv
<1>1. ControlTypes
  <2>1. failureCount \in 0..(MaxAttempts + 1)
    BY DEF SubscriptionAssumption, Init
  <2> QED
    BY <2>1 DEF SubscriptionAssumption, Init, ControlTypes
<1>2. SocketOrTimer
  BY DEF Init, SocketOrTimer, Live
<1>3. AttemptsLeft
  BY DEF SubscriptionAssumption, Init, AttemptsLeft
<1> QED BY <1>1, <1>2, <1>3 DEF Inv

\* A connection is made only while there is none.
LEMMA NoneYet ==
  ASSUME SubscriptionAssumption, Inv, timer, ~stopped
  PROVE  active = None /\ Live = {}
BY DEF SubscriptionAssumption, Inv, SocketOrTimer, Live

LEMMA ScheduleKeeps ==
  ASSUME SubscriptionAssumption, Inv, ~stopped, NEW closes \in BOOLEAN, ScheduleReconnect(closes)
  PROVE  /\ failureCount' \in 0..(MaxAttempts + 1)
         /\ stopped' \in BOOLEAN /\ timer' \in BOOLEAN
         /\ ~stopped' => timer' /\ failureCount' \in 0..MaxAttempts
<1>1. failureCount \in 0..MaxAttempts /\ MaxAttempts \in Nat
  BY DEF SubscriptionAssumption, Inv, AttemptsLeft
<1>2. failureCount' = failureCount + 1
  BY DEF ScheduleReconnect
<1>3. failureCount' \in 0..(MaxAttempts + 1)
  BY <1>1, <1>2
<1>4. CASE failureCount + 1 > MaxAttempts
  BY <1>3, <1>4 DEF ScheduleReconnect
<1>5. CASE ~(failureCount + 1 > MaxAttempts)
  <2>1. failureCount' \in 0..MaxAttempts
    BY <1>1, <1>2, <1>5
  <2>2. stopped' = closes /\ timer' = TRUE
    BY <1>5 DEF ScheduleReconnect
  <2> QED BY <1>3, <2>1, <2>2
<1> QED BY <1>4, <1>5

\* A callback that any value at all may reach as a frame.
AnyStep ==
  \/ \E closes \in BOOLEAN :
       \/ ConnectFails(closes)
       \/ \E s \in Sockets : Connect(s, closes) \/ Closes(s, closes)
  \/ TimerAfterStop
  \/ \E s \in Sockets : Opens(s)
  \/ \E s \in Sockets : \E frame : Message(s, frame)
  \/ Close

LEMMA NextIsAnyStep == Next => AnyStep
BY DEF Next, AnyStep

LEMMA StepKeepsInv ==
  ASSUME SubscriptionAssumption, Inv, [AnyStep]_vars
  PROVE  Inv'
<1> USE DEF SubscriptionAssumption
<1>1. ASSUME NEW closes \in BOOLEAN, ConnectFails(closes) PROVE Inv'
  <2>1. active = None /\ Live = {}
    BY <1>1, NoneYet DEF ConnectFails
  <2>2. CASE ScheduleReconnect(closes)
    BY <1>1, <2>1, <2>2, ScheduleKeeps
       DEF ConnectFails, Inv, ControlTypes, SocketOrTimer, AttemptsLeft, Live
  <2>3. CASE stopped' = TRUE /\ timer' = FALSE /\ UNCHANGED failureCount
    BY <1>1, <2>1, <2>3
       DEF ConnectFails, Inv, ControlTypes, SocketOrTimer, AttemptsLeft, Live
  <2> QED BY <1>1, <2>2, <2>3 DEF ConnectFails
<1>2. ASSUME NEW s \in Sockets, NEW closes \in BOOLEAN, Connect(s, closes)
      PROVE  Inv'
  <2>1. active = None /\ Live = {}
    BY <1>2, NoneYet DEF Connect
  <2> QED
    BY <1>2, <2>1 DEF Connect, Inv, ControlTypes, SocketOrTimer, AttemptsLeft, Live
<1>3. ASSUME NEW s \in Sockets, NEW closes \in BOOLEAN, Closes(s, closes)
      PROVE  Inv'
  <2>1. s = active
    BY <1>3 DEF Closes, Inv, SocketOrTimer, Live
  <2>2. active' = None /\ Live' = {}
    BY <1>3, <2>1 DEF Closes, Inv, ControlTypes, SocketOrTimer, Live
  <2>3. CASE ~stopped
    BY <1>3, <2>1, <2>2, <2>3, ScheduleKeeps
       DEF Closes, Inv, ControlTypes, SocketOrTimer, AttemptsLeft
  <2>4. CASE stopped
    BY <1>3, <2>1, <2>2, <2>4
       DEF Closes, Inv, ControlTypes, SocketOrTimer, AttemptsLeft
  <2> QED BY <2>3, <2>4
<1>4. ASSUME TimerAfterStop PROVE Inv'
  BY <1>4 DEF TimerAfterStop, Inv, ControlTypes, SocketOrTimer, AttemptsLeft, Live
<1>5. ASSUME NEW s \in Sockets, Opens(s) PROVE Inv'
  BY <1>5 DEF Opens, Inv, ControlTypes, SocketOrTimer, AttemptsLeft, Live
<1>6. ASSUME NEW s \in Sockets, NEW frame, Message(s, frame) PROVE Inv'
  <2>1. failureCount' \in {0, failureCount}
    BY <1>6 DEF Message
  <2>2. UNCHANGED <<socket, active, timer, stopped>>
    BY <1>6 DEF Message
  <2>3. failureCount' \in 0..(MaxAttempts + 1)
    BY <2>1 DEF Inv, ControlTypes
  <2>4. ControlTypes'
    BY <2>2, <2>3 DEF Inv, ControlTypes
  <2>5. SocketOrTimer'
    BY <2>2 DEF Inv, SocketOrTimer, Live
  <2>6. AttemptsLeft'
    BY <2>1, <2>2 DEF Inv, AttemptsLeft
  <2> QED BY <2>4, <2>5, <2>6 DEF Inv
<1>7. ASSUME Close PROVE Inv'
  BY <1>7 DEF Close, Inv, ControlTypes, SocketOrTimer, AttemptsLeft, Live
<1>8. ASSUME UNCHANGED vars PROVE Inv'
  BY <1>8 DEF vars, Inv, ControlTypes, SocketOrTimer, AttemptsLeft, Live
<1> QED
  BY <1>1, <1>2, <1>3, <1>4, <1>5, <1>6, <1>7, <1>8 DEF AnyStep

\* A subscription has one socket or one pending reconnect until it stops, and
\* never two sockets (scheduleReconnect and every listener of subscribeEvents).
THEOREM NeitherStuckNorDoubled ==
  ASSUME SubscriptionAssumption
  PROVE  Spec => []SocketOrTimer
<1>1. Init => Inv
  BY InitInv
<1>2. Inv /\ [Next]_vars => Inv'
  BY StepKeepsInv, NextIsAnyStep
<1>3. Inv => SocketOrTimer
  BY DEF Inv
<1> QED BY <1>1, <1>2, <1>3, PTL DEF Spec

LEMMA StepKeepsStop ==
  ASSUME [AnyStep]_vars, stopped
  PROVE  stopped' /\ handled' = handled /\ Live' \subseteq Live
<1>1. ASSUME NEW s \in Sockets, NEW closes \in BOOLEAN, Closes(s, closes)
      PROVE  stopped' /\ handled' = handled /\ Live' \subseteq Live
  BY <1>1 DEF Closes, Live
<1>2. ASSUME NEW s \in Sockets, Opens(s)
      PROVE  stopped' /\ handled' = handled /\ Live' \subseteq Live
  BY <1>2 DEF Opens, Live
<1>3. ASSUME NEW s \in Sockets, NEW frame, Message(s, frame)
      PROVE  stopped' /\ handled' = handled /\ Live' \subseteq Live
  BY <1>3 DEF Message, Live
<1>4. CASE UNCHANGED vars
  BY <1>4 DEF vars, Live
<1> QED
  BY <1>1, <1>2, <1>3, <1>4
     DEF AnyStep, ConnectFails, Connect, TimerAfterStop, Close, Live

\* After close(), abort or the last failed attempt, nothing is handled and no
\* connection is made.
THEOREM StoppedForGood == Spec => StopIsFinal
<1>1. [Next]_vars
      => [stopped => stopped' /\ handled' = handled /\ Live' \subseteq Live]_vars
  BY StepKeepsStop, NextIsAnyStep
<1> QED BY <1>1, PTL DEF Spec, StopIsFinal

=============================================================================
