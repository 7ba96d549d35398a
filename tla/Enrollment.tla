---------------------------- MODULE Enrollment ----------------------------
(***************************************************************************)
(* Device enrollment: server/identity/service.py over the SQLite tables of *)
(* server/identity/repository.py.                                          *)
(*                                                                         *)
(* HTTP handlers run in a thread pool, the operator's CLI in a process of  *)
(* its own and two background loops sweep expired rows, all on one         *)
(* database.  A step of the model is one SQLite transaction or one read on *)
(* its own connection, so everything may interleave between them.          *)
(*                                                                         *)
(* A device id is drawn together with its challenge id (service.py:205),   *)
(* so a device is named by its challenge.  A request is its own digest:    *)
(* two requests have equal digests exactly when they are equal.            *)
(***************************************************************************)
EXTENDS Integers, FiniteSets

CONSTANTS
  Offers,               \* pairing offer ids that may be drawn
  Challenges,           \* challenge ids that may be drawn
  Handlers,             \* concurrently running HTTP request handlers
  Fingerprints,         \* device public keys
  RequestIds,           \* request ids clients put in challenge requests
  IdempotencyKeys,      \* idempotency keys clients put in completions
  ChallengeRequests,    \* bodies of POST .../challenges that clients send
  CompletionRequests,   \* bodies of POST .../complete that clients send
  MaxOfferClaims,       \* repository.maximum_offer_claims
  MaxChallengeFailures, \* repository.maximum_challenge_failures
  OfferTTLs,            \* lifetimes issue_pairing_offer may grant
  ChallengeTTL,         \* ENROLLMENT_CHALLENGE_TTL_SECONDS
  MaxClock,             \* bound: no deadline lies beyond it
  None                  \* a NULL column, or no request in a handler

\* proof: the observed ids, the origin and the claim proof all match the offer.
ChallengeBody ==
  [rid : RequestIds, offer : Offers, proof : BOOLEAN,
   auth : Fingerprints, approval : Fingerprints]

\* valid: the digest, the client proof and both signatures verify.
CompletionBody == [idem : IdempotencyKeys, ch : Challenges, valid : BOOLEAN]

ASSUME EnrollmentAssumption ==
  /\ ChallengeRequests \subseteq ChallengeBody
  /\ CompletionRequests \subseteq CompletionBody
  /\ ChallengeRequests \cap CompletionRequests = {}
  /\ None \notin ChallengeRequests \cup CompletionRequests \cup Challenges
  /\ IsFiniteSet(Challenges)
  /\ MaxOfferClaims \in Nat \ {0} /\ MaxChallengeFailures \in Nat \ {0}
  /\ OfferTTLs \subseteq Nat \ {0} /\ ChallengeTTL \in Nat \ {0}
  /\ MaxClock \in Nat

VARIABLES
  clock,        \* Unix time, as now_provider reports it
  offers,       \* device_pairing_offers
  challenges,   \* device_enrollment_challenges
  devices,      \* enrolled_devices
  keys,         \* enrolled_device_keys, by fingerprint
  completions,  \* device_enrollment_completions, by idempotency key
  audit,        \* device_identity_events
  pc, job,      \* where each handler is, and the request it serves
  now,          \* the handler's captured now
  seen,         \* what the handler keeps of the row it read
  reply,        \* the response the handler is about to send
  began         \* history: what was already so when the request arrived

tables == <<offers, challenges, devices, keys, completions, audit>>
frames == <<pc, job, now, seen, reply, began>>
vars == <<clock, tables, frames>>

LiveStates == {"created", "claimed"}
OfferStates == LiveStates \cup {"completed", "revoked", "expired", "locked"}
ChallengeStates == {"open", "completed", "superseded", "expired", "locked"}
DeviceStates == {"active_unassigned", "revoked"}
Waiting == {"find_request", "expire_for_claim", "read_offer",
            "insert_challenge", "replay_request"}
Completing == {"find_completion", "expire_for_completion", "read_challenge",
               "record_failure", "commit_completion", "read_device",
               "replay_unopened", "replay_uncommitted"}
NoReply == [kind |-> "none", ch |-> None]
Rejected == [kind |-> "protocol_error", ch |-> None]
Conflict == [kind |-> "conflict", ch |-> None]
ChallengeReply(c) == [kind |-> "challenge", ch |-> c]
Receipt(c) == [kind |-> "receipt", ch |-> c]

\* Mutation: the challenge's own lifetime alone.
FirstOf(a, b) == a

Minimum(a, b) == IF a <= b THEN a ELSE b

Init ==
  /\ clock = 0
  /\ offers = [o \in Offers |->
       [state |-> "absent", key |-> FALSE, claims |-> 0, expires |-> 0]]
  /\ challenges = [c \in Challenges |->
       [state |-> "absent", request |-> None, failed |-> 0,
        issued |-> 0, expires |-> 0]]
  /\ devices = [c \in Challenges |-> [state |-> "absent", enrolled |-> 0]]
  /\ keys = [f \in Fingerprints |-> [owner |-> None, active |-> FALSE]]
  /\ completions = [i \in IdempotencyKeys |-> None]
  /\ audit = {}
  /\ pc = [h \in Handlers |-> "idle"]
  /\ job = [h \in Handlers |-> None]
  /\ now = [h \in Handlers |-> 0]
  /\ seen = [h \in Handlers |-> 0]
  /\ reply = [h \in Handlers |-> NoReply]
  /\ began = [h \in Handlers |-> {}]

---------------------------------------------------------------------------
(* Row predicates and the sweep every writing transaction starts with.     *)

\* Mutations: a sweep that forgets the WHERE clause on state, one that leaves
\* the key behind, and one that writes a state the table does not have.
SweptOffersAnyState(t) ==
  [o \in Offers |->
     IF offers[o].state # "absent" /\ offers[o].expires <= t
       THEN [offers[o] EXCEPT !.state = "expired", !.key = FALSE]
       ELSE offers[o]]

SweptOffersKeepKey(t) ==
  [o \in Offers |->
     IF offers[o].state \in LiveStates /\ offers[o].expires <= t
       THEN [offers[o] EXCEPT !.state = "expired"]
       ELSE offers[o]]

SweptChallengesMislabelled(t) ==
  [c \in Challenges |->
     IF challenges[c].state = "open" /\ challenges[c].expires <= t
       THEN [challenges[c] EXCEPT !.state = "revoked"]
       ELSE challenges[c]]

\* _expire_records(t), on each table.
SweptOffers(t) ==
  [o \in Offers |->
     IF offers[o].state \in LiveStates /\ offers[o].expires <= t
       THEN [offers[o] EXCEPT !.state = "expired", !.key = FALSE]
       ELSE offers[o]]

SweptChallenges(t) ==
  [c \in Challenges |->
     IF challenges[c].state = "open" /\ challenges[c].expires <= t
       THEN [challenges[c] EXCEPT !.state = "expired"]
       ELSE challenges[c]]

\* Mutations: an UPDATE that never runs.
RetireNone(rows, o, final) == rows
SupersedeNone(rows, S) == rows

\* An offer ends in a final state and its key is scrubbed.
Retire(rows, o, final) ==
  [rows EXCEPT ![o].state = final, ![o].key = FALSE]

\* The open challenges of S give way.
Supersede(rows, S) ==
  [c \in Challenges |->
     IF c \in S /\ rows[c].state = "open"
       THEN [rows[c] EXCEPT !.state = "superseded"]
       ELSE rows[c]]

\* Mutation: the limit is off by one.
ClaimableOnceMore(offer, t) ==
  /\ offer.state \in LiveStates
  /\ offer.expires > t
  /\ offer.key
  /\ offer.claims <= MaxOfferClaims

\* The WHERE clause of get_claimable_offer and of create_challenge.
Claimable(offer, t) ==
  /\ offer.state \in LiveStates
  /\ offer.expires > t
  /\ offer.key
  /\ offer.claims < MaxOfferClaims

\* The WHERE clause of get_open_challenge and of complete_challenge.
Completable(challenge, offer, t) ==
  /\ challenge.state = "open"
  /\ challenge.expires > t
  /\ offer.state = "claimed" /\ offer.expires > t
  /\ offer.key

\* The rows of the challenge table, and those stored under a request id.
Stored == {c \in Challenges : challenges[c].state # "absent"}
RowsFor(rid) == {c \in Stored : challenges[c].request.rid = rid}

---------------------------------------------------------------------------
(* The operator's CLI, the sweeping loops and the clock.                   *)

\* The operator opens a pairing window; at is the now captured before the
\* transaction got the write lock.
IssuePairingOffer(o, at, ttl) ==
  LET sweptOffers == SweptOffers(at)
      previous == {p \in Offers :
                     sweptOffers[p].state \in LiveStates /\ sweptOffers[p].key}
  IN /\ offers[o].state = "absent"
     /\ at <= clock
     /\ at + ttl <= MaxClock
     /\ offers' = [p \in Offers |->
          IF p = o
            THEN [state |-> "created", key |-> TRUE, claims |-> 0,
                  expires |-> at + ttl]
            ELSE IF p \in previous
              THEN [sweptOffers[p] EXCEPT !.state = "revoked", !.key = FALSE]
              ELSE sweptOffers[p]]
     /\ challenges' = Supersede(SweptChallenges(at), Challenges)
     /\ audit' = audit \cup {<<"pairing_offer.superseded", p>> : p \in previous}
                       \cup {<<"pairing_offer.created", o>>}
     /\ UNCHANGED <<clock, devices, keys, completions, frames>>

\* Mutation: the audit event is forgotten.
RevokeDeviceUnlogged(c) ==
  /\ devices[c].state = "active_unassigned"
  /\ devices' = [devices EXCEPT ![c].state = "revoked"]
  /\ keys' = [f \in Fingerprints |->
       IF keys[f].owner = c THEN [keys[f] EXCEPT !.active = FALSE] ELSE keys[f]]
  /\ UNCHANGED <<clock, offers, challenges, completions, audit, frames>>

\* The operator revokes a device and both of its keys.
RevokeDevice(c) ==
  /\ devices[c].state = "active_unassigned"
  /\ devices' = [devices EXCEPT ![c].state = "revoked"]
  /\ keys' = [f \in Fingerprints |->
       IF keys[f].owner = c THEN [keys[f] EXCEPT !.active = FALSE] ELSE keys[f]]
  /\ audit' = audit \cup {<<"device.revoked", c>>}
  /\ UNCHANGED <<clock, offers, challenges, completions, frames>>

\* The collector and maintenance loops, and every start of the backend or of
\* the CLI, sweep with a now captured just before.
ExpirePending(at) ==
  /\ at <= clock
  /\ SweptOffers(at) # offers \/ SweptChallenges(at) # challenges
  /\ offers' = SweptOffers(at)
  /\ challenges' = SweptChallenges(at)
  /\ UNCHANGED <<clock, devices, keys, completions, audit, frames>>

Tick ==
  /\ clock < MaxClock
  /\ clock' = clock + 1
  /\ UNCHANGED <<tables, frames>>

---------------------------------------------------------------------------
(* create_challenge: claim an offer.                                       *)

GoTo(h, label) == pc' = [pc EXCEPT ![h] = label]

Answer(h, response) ==
  /\ GoTo(h, "replied")
  /\ reply' = [reply EXCEPT ![h] = response]
  /\ UNCHANGED <<clock, job, now, seen, began>>

ReceiveChallengeRequest(h, request) ==
  /\ pc[h] = "idle"
  /\ GoTo(h, "find_request")
  /\ job' = [job EXCEPT ![h] = request]
  /\ now' = [now EXCEPT ![h] = clock]
  /\ began' = [began EXCEPT ![h] =
       {k \in {"stored"} : \E c \in Stored : challenges[c].request = request}]
  /\ UNCHANGED <<clock, tables, seen, reply>>

\* Mutation: the digests are not compared.
StoredAnswerAnyDigest(h, c) ==
  IF challenges[c].state = "open" /\ challenges[c].expires > now[h]
    THEN ChallengeReply(c)
    ELSE Rejected

\* What a stored row for the same request id means to the request.
StoredAnswer(h, c) ==
  IF challenges[c].request # job[h] THEN Conflict
  ELSE IF challenges[c].state = "open" /\ challenges[c].expires > now[h]
    THEN ChallengeReply(c)
    ELSE Rejected

FindRequest(h) ==
  /\ pc[h] = "find_request"
  /\ \/ /\ RowsFor(job[h].rid) = {}
        /\ GoTo(h, "expire_for_claim")
        /\ UNCHANGED <<clock, job, now, seen, reply, began>>
     \/ \E c \in RowsFor(job[h].rid) : Answer(h, StoredAnswer(h, c))
  /\ UNCHANGED tables

\* get_claimable_offer sweeps in a transaction of its own, then reads.
ExpireForClaim(h) ==
  /\ pc[h] = "expire_for_claim"
  /\ offers' = SweptOffers(now[h])
  /\ challenges' = SweptChallenges(now[h])
  /\ GoTo(h, "read_offer")
  /\ UNCHANGED <<clock, devices, keys, completions, audit,
                 job, now, seen, reply, began>>

AcceptableClaim(h) ==
  /\ Claimable(offers[job[h].offer], now[h])
  /\ job[h].proof
  /\ job[h].auth # job[h].approval

ReadOffer(h) ==
  /\ pc[h] = "read_offer"
  /\ \/ /\ AcceptableClaim(h)
        /\ seen' = [seen EXCEPT ![h] =
             Minimum(now[h] + ChallengeTTL, offers[job[h].offer].expires)]
        /\ GoTo(h, "insert_challenge")
        /\ UNCHANGED <<clock, job, now, reply, began>>
     \/ /\ ~AcceptableClaim(h)
        /\ Answer(h, Rejected)
  /\ UNCHANGED tables

\* The claim can be stored: the offer is still claimable after the sweep and
\* request_id is still unique.
Insertable(h) ==
  /\ Claimable(SweptOffers(now[h])[job[h].offer], now[h])
  /\ RowsFor(job[h].rid) = {}

InsertChallenge(h, c) ==
  LET o == job[h].offer
      sweptOffers == SweptOffers(now[h])
      rivals == {d \in Stored : challenges[d].request.offer = o}
  IN /\ pc[h] = "insert_challenge"
     /\ Insertable(h)
     /\ challenges[c].state = "absent"
     /\ offers' = [sweptOffers EXCEPT ![o].state = "claimed",
                                      ![o].claims = sweptOffers[o].claims + 1]
     /\ challenges' = [Supersede(SweptChallenges(now[h]), rivals) EXCEPT
          ![c] = [state |-> "open", request |-> job[h], failed |-> 0,
                  issued |-> now[h], expires |-> seen[h]]]
     /\ audit' = audit \cup {<<"enrollment_challenge.created", c>>}
     /\ Answer(h, ChallengeReply(c))
     /\ UNCHANGED <<devices, keys, completions>>

\* The transaction rolls back, the sweep with it.
RejectChallenge(h) ==
  /\ pc[h] = "insert_challenge"
  /\ ~Insertable(h)
  /\ GoTo(h, "replay_request")
  /\ UNCHANGED <<clock, tables, job, now, seen, reply, began>>

\* Mutation: whoever could not insert is turned away.
ReplayRequestNoLook(h) ==
  /\ pc[h] = "replay_request"
  /\ Answer(h, Rejected)
  /\ UNCHANGED tables

ReplayRequest(h) ==
  /\ pc[h] = "replay_request"
  /\ \/ /\ RowsFor(job[h].rid) = {}
        /\ Answer(h, Rejected)
     \/ \E c \in RowsFor(job[h].rid) : Answer(h, StoredAnswer(h, c))
  /\ UNCHANGED tables

---------------------------------------------------------------------------
(* complete_challenge: enroll the device.                                  *)

\* A challenge id is an unguessable UUID, so a completion names a stored
\* challenge; an unknown id is rejected like one that is no longer open.
ReceiveCompletion(h, request) ==
  /\ pc[h] = "idle"
  /\ challenges[request.ch].state # "absent"
  /\ GoTo(h, "find_completion")
  /\ job' = [job EXCEPT ![h] = request]
  /\ began' = [began EXCEPT ![h] =
       {k \in {"committed"} : completions[request.idem] = request}
       \cup {k \in {"revoked"} : devices[request.ch].state = "revoked"}]
  /\ UNCHANGED <<clock, tables, now, seen, reply>>

\* Mutations: a replay that forgets the digest, and one that forgets the state.
ActiveCompletionAnyDigest(h) ==
  /\ completions[job[h].idem] # None
  /\ devices[job[h].ch].state = "active_unassigned"

ActiveCompletionAnyState(h) == completions[job[h].idem] = job[h]

\* The committed completion is the request's own and its device is active.
ActiveCompletion(h) ==
  /\ completions[job[h].idem] = job[h]
  /\ devices[job[h].ch].state = "active_unassigned"

\* Mutation: every used idempotency key is a conflict.
FindCompletionNoReplay(h) ==
  /\ pc[h] = "find_completion"
  /\ \/ /\ completions[job[h].idem] = None
        /\ now' = [now EXCEPT ![h] = clock]
        /\ GoTo(h, "expire_for_completion")
        /\ UNCHANGED <<clock, job, seen, reply, began>>
     \/ completions[job[h].idem] # None /\ Answer(h, Conflict)
  /\ UNCHANGED tables

FindCompletion(h) ==
  LET stored == completions[job[h].idem]
  IN /\ pc[h] = "find_completion"
     /\ \/ /\ stored = None
           /\ now' = [now EXCEPT ![h] = clock]
           /\ GoTo(h, "expire_for_completion")
           /\ UNCHANGED <<clock, job, seen, reply, began>>
        \/ /\ stored # None
           /\ stored # job[h]
           /\ Answer(h, Conflict)
        \/ /\ stored = job[h]
           /\ Answer(h, IF ActiveCompletion(h) THEN Receipt(job[h].ch)
                                               ELSE Rejected)
     /\ UNCHANGED tables

\* get_open_challenge sweeps in a transaction of its own, then reads.
ExpireForCompletion(h) ==
  /\ pc[h] = "expire_for_completion"
  /\ offers' = SweptOffers(now[h])
  /\ challenges' = SweptChallenges(now[h])
  /\ GoTo(h, "read_challenge")
  /\ UNCHANGED <<clock, devices, keys, completions, audit,
                 job, now, seen, reply, began>>

\* The challenge the request names and the offer that challenge claimed.
JobChallenge(h) == challenges[job[h].ch]
JobOffer(h) == offers[JobChallenge(h).request.offer]

\* Of the row it read the handler needs failed_attempts: every other column
\* _same_challenge compares is immutable or fixed by the WHERE clause.
ReadOpenChallenge(h) ==
  /\ pc[h] = "read_challenge"
  /\ \/ /\ Completable(JobChallenge(h), JobOffer(h), now[h])
        /\ seen' = [seen EXCEPT ![h] = JobChallenge(h).failed]
        /\ GoTo(h, IF job[h].valid THEN "commit_completion"
                                   ELSE "record_failure")
     \/ /\ ~Completable(JobChallenge(h), JobOffer(h), now[h])
        /\ GoTo(h, "replay_unopened")
        /\ UNCHANGED seen
  /\ UNCHANGED <<clock, tables, job, now, reply, began>>

\* A wrong proof counts against the challenge if it is still open.
RecordFailedCompletion(h) ==
  LET c == job[h].ch
      o == JobChallenge(h).request.offer
      failures == JobChallenge(h).failed + 1
      locked == failures >= MaxChallengeFailures
  IN /\ pc[h] = "record_failure"
     /\ \/ /\ JobChallenge(h).state # "open"
           /\ UNCHANGED <<offers, challenges, audit>>
        \/ /\ JobChallenge(h).state = "open"
           /\ challenges' = [challenges EXCEPT
                ![c].failed = failures,
                ![c].state = IF locked THEN "locked" ELSE "open"]
           /\ offers' =
                IF locked /\ offers[o].state = "claimed"
                  THEN Retire(offers, o, "locked")
                  ELSE offers
           /\ audit' = audit \cup
                {e \in {<<"enrollment_challenge.locked", c>>} : locked}
     /\ Answer(h, Rejected)
     /\ UNCHANGED <<devices, keys, completions>>

\* Mutation: the fingerprints need not be new.
CommittableAnyKeys(h) ==
  LET t == now[h]
      c == job[h].ch
  IN /\ Completable(SweptChallenges(t)[c],
                    SweptOffers(t)[JobChallenge(h).request.offer], t)
     /\ JobChallenge(h).failed = seen[h]
     /\ devices[c].state = "absent"
     /\ completions[job[h].idem] = None

\* The re-read row is the one verified, and the INSERTs meet no UNIQUE key.
Committable(h) ==
  LET t == now[h]
      c == job[h].ch
      request == JobChallenge(h).request
  IN /\ Completable(SweptChallenges(t)[c], SweptOffers(t)[request.offer], t)
     /\ JobChallenge(h).failed = seen[h]
     /\ devices[c].state = "absent"
     /\ \A f \in {request.auth, request.approval} : keys[f].owner = None
     /\ completions[job[h].idem] = None

CommitCompletion(h) ==
  LET c == job[h].ch
      request == JobChallenge(h).request
  IN /\ pc[h] = "commit_completion"
     /\ Committable(h)
     /\ devices' = [devices EXCEPT
          ![c] = [state |-> "active_unassigned", enrolled |-> now[h]]]
     /\ keys' = [f \in Fingerprints |->
          IF f \in {request.auth, request.approval}
            THEN [owner |-> c, active |-> TRUE] ELSE keys[f]]
     /\ challenges' = [SweptChallenges(now[h]) EXCEPT ![c].state = "completed"]
     /\ offers' = Retire(SweptOffers(now[h]), request.offer, "completed")
     /\ completions' = [completions EXCEPT ![job[h].idem] = job[h]]
     /\ audit' = audit \cup {<<"device.enrolled_unassigned", c>>}
     /\ GoTo(h, "read_device")
     /\ UNCHANGED <<clock, job, now, seen, reply, began>>

\* The transaction rolls back, the sweep with it.
RejectCompletion(h) ==
  /\ pc[h] = "commit_completion"
  /\ ~Committable(h)
  /\ GoTo(h, "replay_uncommitted")
  /\ UNCHANGED <<clock, tables, job, now, seen, reply, began>>

\* get_device reads the row back after the commit; the receipt shows the
\* device as active whatever state the row has by then.
ReadDevice(h) ==
  /\ pc[h] = "read_device"
  /\ Answer(h, Receipt(job[h].ch))
  /\ UNCHANGED tables

\* A concurrent copy of the request may have committed.
ReplayCompletion(h) ==
  /\ pc[h] \in {"replay_unopened", "replay_uncommitted"}
  /\ Answer(h, IF ActiveCompletion(h) THEN Receipt(job[h].ch)
               ELSE IF pc[h] = "replay_unopened" THEN Rejected ELSE Conflict)
  /\ UNCHANGED tables

---------------------------------------------------------------------------
(* The end of a request.                                                   *)

Clear(h) ==
  /\ GoTo(h, "idle")
  /\ job' = [job EXCEPT ![h] = None]
  /\ now' = [now EXCEPT ![h] = 0]
  /\ seen' = [seen EXCEPT ![h] = 0]
  /\ reply' = [reply EXCEPT ![h] = NoReply]
  /\ began' = [began EXCEPT ![h] = {}]
  /\ UNCHANGED <<clock, tables>>

\* The response leaves; whether it reaches the client changes nothing here.
Respond(h) == pc[h] = "replied" /\ Clear(h)

\* The transaction raises (a locked or full database) and rolls back, or the
\* process dies: what earlier transactions of the handler wrote stays.
Abort(h) == pc[h] \in Waiting \cup Completing /\ Clear(h)

HandlerStep(h) ==
  \/ FindRequest(h) \/ ExpireForClaim(h) \/ ReadOffer(h)
  \/ \E c \in Challenges : InsertChallenge(h, c)
  \/ RejectChallenge(h) \/ ReplayRequest(h)
  \/ FindCompletion(h) \/ ExpireForCompletion(h) \/ ReadOpenChallenge(h)
  \/ RecordFailedCompletion(h) \/ CommitCompletion(h) \/ RejectCompletion(h)
  \/ ReadDevice(h) \/ ReplayCompletion(h) \/ Respond(h)

Next ==
  \/ \E o \in Offers, at \in 0..MaxClock, ttl \in OfferTTLs :
       IssuePairingOffer(o, at, ttl)
  \/ \E c \in Challenges : RevokeDevice(c)
  \/ \E at \in 0..MaxClock : ExpirePending(at)
  \/ Tick
  \/ \E h \in Handlers :
       \/ \E request \in ChallengeRequests : ReceiveChallengeRequest(h, request)
       \/ \E request \in CompletionRequests : ReceiveCompletion(h, request)
       \/ HandlerStep(h)
       \/ Abort(h)

Spec == Init /\ [][Next]_vars

\* The collector and maintenance loops run every few seconds and time passes;
\* nothing makes an operator or a client act, and no handler has to go on.
Fairness == WF_vars(Tick) /\ WF_vars(ExpirePending(clock))

FairSpec == Spec /\ Fairness

---------------------------------------------------------------------------
(* Properties.                                                             *)

LiveOffers == {o \in Offers : offers[o].state \in LiveStates}
OpenChallenges == {c \in Challenges : challenges[c].state = "open"}
Enrolled == {c \in Challenges : devices[c].state # "absent"}
OfferOf(c) == challenges[c].request.offer
Replied(h, kind) == pc[h] = "replied" /\ reply[h].kind = kind

OfferRow ==
  [state : OfferStates \cup {"absent"}, key : BOOLEAN,
   claims : Nat, expires : Nat]
ChallengeRow ==
  [state : ChallengeStates \cup {"absent"},
   request : ChallengeRequests \cup {None},
   failed : Nat, issued : Nat, expires : Nat]
DeviceRow == [state : DeviceStates \cup {"absent"}, enrolled : Nat]
KeyRow == [owner : Challenges \cup {None}, active : BOOLEAN]
Response ==
  [kind : {"none", "challenge", "receipt", "protocol_error", "conflict"},
   ch : Challenges \cup {None}]

TypeOK ==
  /\ clock \in 0..MaxClock
  /\ offers \in [Offers -> OfferRow]
  /\ challenges \in [Challenges -> ChallengeRow]
  /\ devices \in [Challenges -> DeviceRow]
  /\ keys \in [Fingerprints -> KeyRow]
  /\ completions \in [IdempotencyKeys -> CompletionRequests \cup {None}]
  /\ pc \in [Handlers -> {"idle", "replied"} \cup Waiting \cup Completing]
  /\ job \in [Handlers -> ChallengeRequests \cup CompletionRequests \cup {None}]
  /\ now \in [Handlers -> 0..MaxClock]
  /\ seen \in [Handlers -> Nat]
  /\ reply \in [Handlers -> Response]
  /\ began \in [Handlers -> SUBSET {"stored", "committed", "revoked"}]

\* Whatever handlers, the CLI and the sweeps interleave, one pairing window is
\* open at a time: at most one offer is live, at most one challenge is open,
\* the open challenge belongs to the live offer, that offer's key is still
\* there to verify it and it does not outlive the offer.
SingleCeremony ==
  /\ \A o, p \in LiveOffers : o = p
  /\ \A c, d \in OpenChallenges : c = d
  /\ \A c \in OpenChallenges :
       /\ offers[OfferOf(c)].state = "claimed"
       /\ offers[OfferOf(c)].key
       /\ challenges[c].expires <= offers[OfferOf(c)].expires

\* A pairing offer enrolls at most one device, however many of its challenges
\* are completed at once, and it is consumed exactly when it has enrolled one.
OneDevicePerOffer ==
  /\ \A c, d \in Enrolled : OfferOf(c) = OfferOf(d) => c = d
  /\ \A o \in Offers :
       offers[o].state = "completed" <=> \E c \in Enrolled : OfferOf(c) = o

\* Completed challenges, devices, completion rows and key rows agree: the one
\* transaction of complete_challenge leaves all of them or none.
EnrollmentAtomic ==
  /\ \A c \in Challenges : challenges[c].state = "completed" <=> c \in Enrolled
  /\ \A c \in Enrolled :
       /\ \E i \in IdempotencyKeys :
            completions[i] # None /\ completions[i].ch = c
       /\ \A f \in {challenges[c].request.auth, challenges[c].request.approval} :
            /\ keys[f].owner = c
            /\ keys[f].active <=> devices[c].state = "active_unassigned"
  /\ \A i, j \in IdempotencyKeys :
       /\ completions[i] # None
       /\ completions[j] # None
       /\ completions[i].ch = completions[j].ch
       => i = j /\ completions[i].ch \in Enrolled

\* Guessing is bounded per pairing window: an offer takes at most
\* MaxOfferClaims challenges, counted exactly, a challenge takes at most
\* MaxChallengeFailures wrong proofs, and only one challenge of an offer can
\* use all of them, for its lock ends the offer.
GuessBudget ==
  /\ \A o \in Offers :
       /\ offers[o].claims = Cardinality({c \in Stored : OfferOf(c) = o})
       /\ offers[o].claims <= MaxOfferClaims
  /\ \A c \in Challenges :
       /\ challenges[c].failed <= MaxChallengeFailures
       /\ challenges[c].failed = MaxChallengeFailures
          <=> challenges[c].state = "locked"
  /\ \A c, d \in Challenges :
       /\ challenges[c].state = "locked"
       /\ challenges[d].state \in {"locked", "open"}
       /\ OfferOf(c) = OfferOf(d)
       => c = d

\* A device is enrolled by a request that began inside its challenge's window,
\* which lies inside its offer's, although the clock is read before the
\* transaction waits for the write lock.
EnrolledInWindow ==
  \A c \in Enrolled :
    /\ challenges[c].issued <= devices[c].enrolled
    /\ devices[c].enrolled < challenges[c].expires
    /\ challenges[c].expires <= offers[OfferOf(c)].expires

\* A challenge response is for the very request that was sent: retries and
\* concurrent copies of a request are answered with one challenge, and a
\* request that reuses the id of another never is.
ChallengeReplyExact ==
  \A h \in Handlers : Replied(h, "challenge") =>
    /\ challenges[reply[h].ch].request = job[h]
    /\ RowsFor(job[h].rid) = {reply[h].ch}

\* What DEVICE_ENROLLMENT.md promises of exact retries and concurrent copies:
\* while the challenge of a request can still be completed, nobody who sends
\* the request is told anything else, be it a retry that came after the
\* challenge was stored, or a copy that drew up a challenge of its own (it then
\* keeps an expiry) and lost the race to insert it.  A copy refused before that
\* is the exception RacingRetryKept is about; a request refused at the end of
\* its race has no copy that is stored later.
ExactRetryGetsChallenge ==
  \A h \in Handlers, c \in OpenChallenges :
    /\ pc[h] = "replied"
    /\ challenges[c].request = job[h]
    /\ challenges[c].expires > now[h]
    /\ "stored" \in began[h] \/ seen[h] # 0
    => reply[h] = ChallengeReply(c)

\* A receipt is given only for a proof that verified and is committed: the
\* device of its challenge is enrolled under the request's idempotency key.
ReceiptExact ==
  \A h \in Handlers : Replied(h, "receipt") =>
    /\ job[h].valid
    /\ completions[job[h].idem] = job[h]
    /\ reply[h].ch = job[h].ch
    /\ job[h].ch \in Enrolled

\* Once a device is revoked no later request obtains its receipt, by an exact
\* retry or by a new completion.
NoReceiptAfterRevocation ==
  \A h \in Handlers :
    "revoked" \in began[h] => ~Replied(h, "receipt")

\* An exact retry of a committed completion is answered with the receipt, never
\* with a conflict; only a revocation can withhold it.
ExactRetryGetsReceipt ==
  \A h \in Handlers :
    "committed" \in began[h] /\ pc[h] = "replied" =>
      \/ reply[h] = Receipt(job[h].ch)
      \/ reply[h] = Rejected /\ devices[job[h].ch].state = "revoked"

\* The audit log records every enrollment, revocation, lock-out and replaced
\* window, and records none that did not happen.
AuditFaithful ==
  /\ \A c \in Challenges :
       /\ <<"enrollment_challenge.created", c>> \in audit <=> c \in Stored
       /\ <<"enrollment_challenge.locked", c>> \in audit
          <=> challenges[c].state = "locked"
       /\ <<"device.enrolled_unassigned", c>> \in audit <=> c \in Enrolled
       /\ <<"device.revoked", c>> \in audit <=> devices[c].state = "revoked"
  /\ \A o \in Offers :
       <<"pairing_offer.superseded", o>> \in audit
       <=> offers[o].state = "revoked"

\* What ended, in a row of any table, is as it was.
EndsStay ==
  /\ \A o \in Offers :
       /\ offers[o].state \in OfferStates \ LiveStates =>
            offers'[o].state = offers[o].state
       /\ offers[o].state # "absent" /\ ~offers[o].key => ~offers'[o].key
  /\ \A c \in Challenges :
       /\ challenges[c].state \in ChallengeStates \ {"open"} =>
            challenges'[c] = challenges[c]
       /\ devices[c].state = "revoked" => devices'[c].state = "revoked"
  /\ \A f \in Fingerprints : keys[f].owner # None =>
       /\ keys'[f].owner = keys[f].owner
       /\ keys'[f].active => keys[f].active
  /\ \A i \in IdempotencyKeys : completions[i] # None =>
       completions'[i] = completions[i]

\* Nothing that ended comes back: no offer or challenge leaves a final state,
\* a scrubbed pairing key stays scrubbed, a revoked device stays revoked, a
\* fingerprint never changes hands or is reactivated, and a completion row is
\* never replaced.
NothingReturns == [][EndsStay]_vars

\* Every pairing window closes by itself: a stored key is scrubbed at the
\* latest by the sweep that follows its deadline.
KeysAreScrubbed ==
  \A o \in Offers : offers[o].key ~> ~offers[o].key

\* What DEVICE_ENROLLMENT.md promises of exact retries "even across a
\* concurrent race": while the request's own challenge is open, the request is
\* not turned away.
RacingRetryKept ==
  [][\A h \in Handlers, c \in OpenChallenges :
       /\ challenges[c].request = job[h]
       /\ challenges[c].expires > clock
       /\ pc[h] # "replied"
       /\ pc'[h] = "replied"
       => reply'[h] = ChallengeReply(c)]_vars

\* The tables as the abstract pairing secret sees them.
Worth(o) ==
  CASE offers[o].state = "absent" -> "unissued"
    [] offers[o].state \in LiveStates -> "usable"
    [] offers[o].state = "completed" -> "spent"
    [] OTHER -> "void"

Ceremony == INSTANCE PairingSecret WITH
  Secrets <- Offers,
  Devices <- Challenges,
  secret <- [o \in Offers |-> Worth(o)],
  enrolled <- {<<OfferOf(c), c>> : c \in Enrolled},
  revoked <- {c \in Challenges : devices[c].state = "revoked"}

\* Whatever requests, sweeps and operators do to the tables amounts to issuing,
\* using up, voiding and revoking one-use secrets.
ImplementsPairingSecret == Ceremony!Spec

=============================================================================
