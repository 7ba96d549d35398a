----------------------------- MODULE RateLimit -----------------------------
(***************************************************************************)
(* What a client of the enrollment routes may rely on: an attempt is let   *)
(* through unless Limit attempts of the same source were let through in    *)
(* the Window before it.  Nothing is said of other sources or of memory.   *)
(***************************************************************************)
EXTENDS Integers, Sequences

CONSTANTS Sources, Limit, Window

VARIABLES
  clock,     \* time
  admitted,  \* when attempts of each source were let through
  returned   \* what the last attempt of each source was told

limitVars == <<clock, admitted, returned>>

\* The Limit-th last admission is still in the window.
Exhausted(s) ==
  LET n == Len(admitted[s])
  IN  n >= Limit /\ admitted[s][n - Limit + 1] > clock - Window

Attempt(s) ==
  /\ returned' = [returned EXCEPT ![s] = ~Exhausted(s)]
  /\ admitted' = IF Exhausted(s) THEN admitted
                 ELSE [admitted EXCEPT ![s] = Append(@, clock)]
  /\ UNCHANGED clock

Advance ==
  /\ clock' \in {t \in Int : t > clock}
  /\ UNCHANGED <<admitted, returned>>

LimitInit ==
  /\ clock = 0
  /\ admitted = [s \in Sources |-> <<>>]
  /\ returned = [s \in Sources |-> TRUE]

LimitNext == Advance \/ \E s \in Sources : Attempt(s)

LimitSpec == LimitInit /\ [][LimitNext]_limitVars

=============================================================================
