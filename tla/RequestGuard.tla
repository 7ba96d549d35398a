---------------------------- MODULE RequestGuard ----------------------------
(***************************************************************************)
(* EnrollmentRequestGuardMiddleware of server/security/enrollment_guard.py:*)
(* attempts per source, the trimming of the map that counts them, and the  *)
(* bound on bodies.                                                        *)
(*                                                                         *)
(* _admit awaits nothing and holds a lock: it is one step.  The rest of a  *)
(* request is a step per message, for other requests run between two.  The *)
(* application behind the guard is outside this module: it reads and       *)
(* answers as it likes, and may turn the guard's exception into an answer  *)
(* of its own, as a framework that parses the body does.                   *)
(*                                                                         *)
(* A bucket is a deque of times, <<>> where the map has no entry.          *)
(***************************************************************************)
EXTENDS Integers, Sequences, FiniteSets

CONSTANTS
  Sources,      \* client addresses
  Requests,     \* requests under way at the same time
  Limit,        \* attempts_per_minute
  Window,       \* the minute
  MaxSources,   \* 4096: above it the map is trimmed
  LowSources,   \* 2048: trimming stops there
  MaxBody,      \* maximum_body_bytes
  Lengths,      \* Content-Length of a request, and size of a body message
  NoLength,     \* no Content-Length
  BadLength,    \* a malformed or repeated Content-Length
  MaxClock,     \* bound on time
  MaxAttempts   \* bound on requests

ASSUME GuardAssumption ==
  /\ Limit \in Nat \ {0} /\ Window \in Nat \ {0} /\ MaxBody \in Nat \ {0}
  /\ MaxSources \in Nat /\ LowSources \in 0..MaxSources
  /\ Lengths \subseteq Nat /\ {NoLength, BadLength} \cap Lengths = {}
  /\ MaxClock \in Nat /\ MaxAttempts \in Nat

VARIABLES
  clock,     \* time.monotonic
  attempts,  \* self._attempts: the buckets
  order,     \* the keys of self._attempts, in the order of the dict
  returned,  \* what _admit returned last, per source
  admitted,  \* history: every time _admit let a source through
  request,   \* state of each request under way
  served     \* requests so far: bounds them

counts == <<clock, attempts, order, returned, admitted>>
vars == <<counts, request, served>>

\* at: idle, app (inside the application) or done.  received: bytes of its
\* body so far, counted up to one too many.  answers: http.response.start
\* messages sent.  handed: history, the bytes the application got.
Idle == [at |-> "idle", received |-> 0, handed |-> 0, answers |-> 0,
         refused |-> FALSE]
FirstOf(a, b) == IF a <= b THEN a ELSE b

Init ==
  /\ clock = 0
  /\ attempts = [s \in Sources |-> <<>>]
  /\ order = <<>>
  /\ returned = [s \in Sources |-> TRUE]
  /\ admitted = [s \in Sources |-> <<>>]
  /\ request = [r \in Requests |-> Idle]
  /\ served = 0

Tick ==
  /\ clock < MaxClock
  /\ clock' = clock + 1
  /\ UNCHANGED <<attempts, order, returned, admitted, request, served>>

---------------------------------------------------------------------------
(* _admit.                                                                 *)

Cutoff == clock - Window

\* while bucket and bucket[0] <= cutoff: bucket.popleft()
Expired(bucket) ==
  CHOOSE n \in 0..Len(bucket) :
    /\ \A i \in 1..n : bucket[i] <= Cutoff
    /\ n < Len(bucket) => bucket[n + 1] > Cutoff
Fresh(bucket) == SubSeq(bucket, Expired(bucket) + 1, Len(bucket))

\* The scan of the map in its order, up to where it is small enough.
Scanned(buckets, names) ==
  LET Gone(n) == {i \in 1..n : Fresh(buckets[names[i]]) = <<>>}
      enough == {n \in 1..Len(names) :
                   Len(names) - Cardinality(Gone(n)) <= LowSources}
      last == IF enough = {} THEN Len(names)
              ELSE CHOOSE n \in enough : \A m \in enough : n <= m
  IN  {names[i] : i \in 1..last}

\* Mutation: trimming deletes what it scans.
TrimmedAll(buckets, names) ==
  IF Len(names) <= MaxSources THEN buckets
  ELSE [s \in Sources |-> IF s \in Scanned(buckets, names)
                          THEN <<>> ELSE buckets[s]]

\* Mutation: the map is never trimmed.
Untrimmed(buckets, names) == buckets

Trimmed(buckets, names) ==
  IF Len(names) <= MaxSources THEN buckets
  ELSE [s \in Sources |-> IF s \in Scanned(buckets, names)
                          THEN Fresh(buckets[s]) ELSE buckets[s]]

\* The keys that are left, in their order: those of buckets not empty.
Kept(buckets, names) ==
  LET kept[n \in 0..Len(names)] ==
        IF n = 0 THEN <<>>
        ELSE IF buckets[names[n]] = <<>> THEN kept[n - 1]
             ELSE Append(kept[n - 1], names[n])
  IN  kept[Len(names)]

\* Mutation: the bucket is looked at as it is, expired attempts and all.
OverLimitStale(s) == Len(attempts[s]) >= Limit

OverLimit(s) == Len(Fresh(attempts[s])) >= Limit

Refuse(s) ==
  /\ OverLimit(s)
  /\ attempts' = [attempts EXCEPT ![s] = Fresh(@)]
  /\ returned' = [returned EXCEPT ![s] = FALSE]
  /\ UNCHANGED <<order, admitted>>

Admit(s) ==
  LET names == IF \E i \in DOMAIN order : order[i] = s
               THEN order ELSE Append(order, s)
      added == [attempts EXCEPT ![s] = Append(Fresh(@), clock)]
  IN  /\ ~OverLimit(s)
      /\ attempts' = Trimmed(added, names)
      /\ order' = Kept(attempts', names)
      /\ returned' = [returned EXCEPT ![s] = TRUE]
      /\ admitted' = [admitted EXCEPT ![s] = Append(@, clock)]

---------------------------------------------------------------------------
(* __call__.                                                               *)

\* What _content_length refuses (400), and what is too large (413).
RefusedLengths == {BadLength} \cup {n \in Lengths : n > MaxBody}

\* _error: 429, 400 or 413 without the application.
Answered(r) == [r EXCEPT !.at = "done", !.answers = @ + 1]

\* A guarded request arrives: 429 over the limit, then 400 or 413 for its
\* Content-Length, then the application.
Arrive(r, s, length) ==
  /\ request[r].at = "idle"
  /\ served < MaxAttempts
  /\ served' = served + 1
  /\ \/ /\ Refuse(s)
        /\ request' = [request EXCEPT ![r] = Answered([@ EXCEPT !.refused = TRUE])]
     \/ /\ Admit(s)
        /\ request' = [request EXCEPT ![r] =
             IF length \in RefusedLengths
             THEN Answered([@ EXCEPT !.refused = TRUE])
             ELSE [@ EXCEPT !.at = "app"]]
  /\ UNCHANGED clock

\* Mutation: 413 even if an answer has begun.
TooLargeAlways(q) == Answered(q)

\* What becomes of _RequestBodyTooLarge when the application lets it pass:
\* 413, or raised on if an answer has begun.
TooLarge(q) == IF q.answers > 0 THEN [q EXCEPT !.at = "done"] ELSE Answered(q)

\* limited_receive: a message of the body is handed on, or it takes the body
\* over the maximum and raises.  The application may handle the exception.
Receive(r, n) ==
  LET q == [request[r] EXCEPT !.received = FirstOf(@ + n, MaxBody + 1)]
  IN  /\ request[r].at = "app"
      /\ \/ /\ request[r].received + n <= MaxBody
            /\ request' = [request EXCEPT ![r] = [q EXCEPT !.handed = @ + n]]
         \/ /\ request[r].received + n > MaxBody
            /\ \E after \in {q, TooLarge(q)} : request' = [request EXCEPT ![r] = after]
      /\ UNCHANGED <<counts, served>>

\* guarded_send: the application begins its answer.
Begin(r) ==
  /\ request[r].at = "app" /\ request[r].answers = 0
  /\ request' = [request EXCEPT ![r].answers = 1]
  /\ UNCHANGED <<counts, served>>

Return(r) ==
  /\ request[r].at = "app" /\ request[r].answers > 0
  /\ request' = [request EXCEPT ![r].at = "done"]
  /\ UNCHANGED <<counts, served>>

\* The response is out; the name of the request is free again.
Forget(r) ==
  /\ request[r].at = "done"
  /\ request' = [request EXCEPT ![r] = Idle]
  /\ UNCHANGED <<counts, served>>

Next ==
  \/ Tick
  \/ \E r \in Requests :
       \/ \E s \in Sources, length \in Lengths \cup {NoLength, BadLength} :
            Arrive(r, s, length)
       \/ \E n \in Lengths : Receive(r, n)
       \/ Begin(r) \/ Return(r) \/ Forget(r)

Spec == Init /\ [][Next]_vars

---------------------------------------------------------------------------

\* In no window of time, wherever it begins, are more than Limit attempts of
\* one source let through, however the map was trimmed in it.
WindowLimit ==
  \A s \in Sources : \A i \in 1..Len(admitted[s]) :
    i + Limit <= Len(admitted[s]) =>
      admitted[s][i + Limit] - admitted[s][i] >= Window

\* Purging and trimming are invisible: the guard decides every attempt as if
\* it remembered all of them.
Limiter == INSTANCE RateLimit
ImplementsRateLimit == Limiter!LimitSpec

\* After an attempt that was let through, the map is within its bound, or
\* every source in it has an attempt in the window.
TrimsEnough ==
  admitted' # admitted =>
    \/ Len(order') <= MaxSources
    \/ \A i \in DOMAIN order' :
         LET bucket == attempts'[order'[i]]
         IN  bucket[Len(bucket)] > Cutoff
TrimmedWhatItCould == [][TrimsEnough]_vars

\* A request is answered at most once, a refused one never reaches the
\* application, and no more than MaxBody bytes of a request do.
AnsweredOnce ==
  \A r \in Requests :
    /\ request[r].answers <= 1
    /\ request[r].at = "done" /\ request[r].refused => request[r].handed = 0
    /\ request[r].handed <= MaxBody

=============================================================================
