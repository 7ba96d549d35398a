----------------------------- MODULE EventFeed -----------------------------
(***************************************************************************)
(* What a subscriber may rely on, without sockets, streams or batches: it  *)
(* is given the events of the log in order, each once, and the next it is  *)
(* given is always the oldest one retained after the last.                 *)
(* docs/features/REALTIME_EVENT_STREAM.md, "Fresh and resumed connections" *)
(* and "Client resume algorithm".                                          *)
(***************************************************************************)
EXTENDS Integers, FiniteSets

CONSTANTS
  Start,   \* the cursor the subscriber begins after
  Capacity \* events the log retains

VARIABLES newest, log, position, given, ended

vars == <<newest, log, position, given, ended>>

Init ==
  /\ newest = 0
  /\ log = {}
  /\ position = Start
  /\ given = {}
  /\ ended = FALSE

\* An event is appended; the oldest gives way when the log is full.
Append ==
  /\ newest' = newest + 1
  /\ log' = {e \in log \cup {newest'} : e > newest' - Capacity}
  /\ UNCHANGED <<position, given, ended>>

\* Events older than what was retained when they were asked for are lost; no
\* event still retained is passed over.
Give(e) ==
  /\ ~ended
  /\ position < e /\ e <= newest
  /\ \A d \in log : d <= position \/ d >= e
  /\ position' = e
  /\ given' = given \cup {e}
  /\ UNCHANGED <<newest, log, ended>>

End ==
  /\ ~ended
  /\ ended' = TRUE
  /\ UNCHANGED <<newest, log, position, given>>

Next ==
  \/ Append
  \/ \E e \in 1..newest : Give(e)
  \/ End

Spec == Init /\ [][Next]_vars

=============================================================================
