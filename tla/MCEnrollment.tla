--------------------------- MODULE MCEnrollment ---------------------------
(***************************************************************************)
(* Instances of Enrollment for TLC: pools of requests aimed at claims, at  *)
(* completions and at both.                                                *)
(***************************************************************************)
EXTENDS Enrollment, TLC

CONSTANTS o1, o2, r1, r2, r3, k1, k2, k3, i1, i2, c1, c2

Claim(rid, offer, auth, approval) ==
  [rid |-> rid, offer |-> offer, proof |-> TRUE,
   auth |-> auth, approval |-> approval]

Complete(i, c, valid) == [idem |-> i, ch |-> c, valid |-> valid]

NoCompletions == {}

\* A request, reuses of its id with other keys, with a wrong proof and with a
\* single key, and two more claims of the offer.
RacingClaims ==
  {Claim(r1, o1, k1, k2), Claim(r1, o1, k2, k1),
   [Claim(r1, o1, k1, k2) EXCEPT !.proof = FALSE], Claim(r1, o1, k1, k1),
   Claim(r2, o1, k1, k2), Claim(r3, o1, k1, k2)}

OneClaim == {Claim(r1, o1, k1, k2)}

\* Two claims of a window and one of the next, with keys used before.
WindowClaims ==
  {Claim(r1, o1, k1, k2), Claim(r2, o1, k2, k3), Claim(r3, o2, k3, k1)}

\* A right and a wrong proof under one idempotency key, a right one under
\* another.
RetriedCompletions ==
  {Complete(i1, c1, TRUE), Complete(i1, c1, FALSE), Complete(i2, c1, TRUE)}

\* Each challenge completed under either idempotency key.
WindowCompletions ==
  {Complete(i, c, TRUE) : i \in IdempotencyKeys, c \in Challenges}

\* Wrong proofs, for every challenge.
Guesses == {Complete(i1, c, FALSE) : c \in Challenges}

PoolSymmetry == Permutations(Handlers) \cup Permutations(Challenges)
RacingSymmetry == PoolSymmetry \cup Permutations({r2, r3})
WindowSymmetry == PoolSymmetry \cup Permutations(IdempotencyKeys)

=============================================================================
