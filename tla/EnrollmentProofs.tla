------------------------- MODULE EnrollmentProofs -------------------------
(***************************************************************************)
(* Proofs about Enrollment, for any offers, challenges, handlers, requests *)
(* and limits, and the invariant each part goes by.                        *)
(*                                                                         *)
(*   I    Types                                  TypeInv                   *)
(*   II   One ceremony at a time                 CeremonyInv               *)
(*   III  What a step does to a row              RowsAge (of a step)       *)
(*   IV   What is logged and counted             AuditFaithful, BudgetInv  *)
(*   V    Enrollment happens once and whole      EnrollInv                 *)
(*   VI   It implements PairingSecret, and nothing comes back              *)
(*   VII  Devices are enrolled in their window   WindowInv                 *)
(*   VIII What requests are answered             RepliesInv, AnswersInv,   *)
(*                                               RetriesInv                *)
(***************************************************************************)
EXTENDS Enrollment, FiniteSetTheorems, TLAPS

(***************************************************************************)
(* I. Types.                                                               *)
(***************************************************************************)

(***************************************************************************)
(* Type correctness needs to know which request a handler at work serves.  *)
(***************************************************************************)
RowsServe ==
  \A c \in Stored : challenges[c].request \in ChallengeRequests

HandlersServe ==
  \A h \in Handlers :
    /\ pc[h] \in Waiting => job[h] \in ChallengeRequests
    /\ pc[h] \in Completing =>
         job[h] \in CompletionRequests /\ job[h].ch \in Stored

TypeInv == TypeOK /\ RowsServe /\ HandlersServe

\* What every transaction keeps of the challenge rows.
KeepsStored(rows) ==
  /\ rows \in [Challenges -> ChallengeRow]
  /\ \A c \in Challenges :
       /\ rows[c].request = challenges[c].request
       /\ rows[c].state = "absent" <=> challenges[c].state = "absent"

---------------------------------------------------------------------------

LEMMA InitType == Init => TypeInv
<1> SUFFICES ASSUME Init PROVE TypeInv
  OBVIOUS
<1>1. TypeOK
  BY EnrollmentAssumption
  DEF Init, TypeOK, OfferRow, ChallengeRow, DeviceRow, KeyRow, Response, NoReply
<1>2. RowsServe
  BY DEF Init, RowsServe, Stored
<1>3. HandlersServe
  BY DEF Init, HandlersServe, Waiting, Completing
<1> QED
  BY <1>1, <1>2, <1>3 DEF TypeInv

\* The sweep only relabels rows.
LEMMA SweptOffersType ==
  ASSUME TypeOK, NEW t \in Nat
  PROVE  SweptOffers(t) \in [Offers -> OfferRow]
<1> SUFFICES ASSUME NEW o \in Offers PROVE SweptOffers(t)[o] \in OfferRow
  BY DEF SweptOffers
<1>1. offers[o] \in OfferRow
  BY DEF TypeOK
<1> QED
  BY <1>1 DEF SweptOffers, OfferRow, OfferStates

LEMMA SweptChallengesType ==
  ASSUME TypeOK, NEW t \in Nat
  PROVE  KeepsStored(SweptChallenges(t))
<1>1. ASSUME NEW c \in Challenges
      PROVE  /\ SweptChallenges(t)[c] \in ChallengeRow
             /\ SweptChallenges(t)[c].request = challenges[c].request
             /\ SweptChallenges(t)[c].state = "absent"
                <=> challenges[c].state = "absent"
  <2>1. challenges[c] \in ChallengeRow
    BY DEF TypeOK
  <2> QED
    BY <2>1 DEF SweptChallenges, ChallengeRow, ChallengeStates
<1>2. SweptChallenges(t) \in [Challenges -> ChallengeRow]
  BY <1>1 DEF SweptChallenges
<1> QED
  BY <1>1, <1>2 DEF KeepsStored

\* Superseding only relabels rows.
LEMMA SupersedeType ==
  ASSUME NEW rows, KeepsStored(rows), NEW S
  PROVE  KeepsStored(Supersede(rows, S))
<1>1. ASSUME NEW c \in Challenges
      PROVE  /\ Supersede(rows, S)[c] \in ChallengeRow
             /\ Supersede(rows, S)[c].request = rows[c].request
             /\ Supersede(rows, S)[c].state = "absent"
                <=> rows[c].state = "absent"
  <2>1. rows[c] \in ChallengeRow
    BY DEF KeepsStored
  <2> QED
    BY <2>1 DEF Supersede, ChallengeRow, ChallengeStates
<1>2. Supersede(rows, S) \in [Challenges -> ChallengeRow]
  BY <1>1 DEF Supersede
<1> QED
  BY <1>1, <1>2 DEF KeepsStored

\* Retiring one offer keeps the table typed.
LEMMA RetireType ==
  ASSUME NEW rows \in [Offers -> OfferRow], NEW o \in Offers,
         NEW final \in OfferStates
  PROVE  Retire(rows, o, final) \in [Offers -> OfferRow]
<1> SUFFICES ASSUME NEW p \in Offers
             PROVE  Retire(rows, o, final)[p] \in OfferRow
  BY DEF Retire
<1>1. rows[p] \in OfferRow
  OBVIOUS
<1> QED
  BY <1>1 DEF Retire, OfferRow

\* A step of handler h that only moves h, with a response if it is done.
LEMMA AnswerType ==
  ASSUME TypeInv, NEW h \in Handlers, NEW response \in Response,
         Answer(h, response), KeepsStored(challenges')
  PROVE  /\ pc' \in [Handlers -> {"idle", "replied"} \cup Waiting \cup Completing]
         /\ reply' \in [Handlers -> Response]
         /\ HandlersServe'
<1> USE DEF Answer, GoTo, TypeInv, TypeOK
<1>1. pc' \in [Handlers -> {"idle", "replied"} \cup Waiting \cup Completing]
  OBVIOUS
<1>2. reply' \in [Handlers -> Response]
  OBVIOUS
<1>3. ASSUME NEW g \in Handlers
      PROVE  /\ pc'[g] \in Waiting => job'[g] \in ChallengeRequests
             /\ pc'[g] \in Completing =>
                  job'[g] \in CompletionRequests /\ job'[g].ch \in Stored'
  BY DEF HandlersServe, Waiting, Completing, KeepsStored, Stored
<1> QED
  BY <1>1, <1>2, <1>3 DEF HandlersServe

\* A step of handler h to another label of the same half of the protocol.
LEMMA GoToType ==
  ASSUME TypeInv, NEW h \in Handlers,
         NEW label \in Waiting \cup Completing, GoTo(h, label),
         \/ pc[h] \in Waiting /\ label \in Waiting
         \/ pc[h] \in Completing /\ label \in Completing,
         job' = job, KeepsStored(challenges')
  PROVE  /\ pc' \in [Handlers -> {"idle", "replied"} \cup Waiting \cup Completing]
         /\ HandlersServe'
<1> USE DEF GoTo, TypeInv, TypeOK
<1>1. pc' \in [Handlers -> {"idle", "replied"} \cup Waiting \cup Completing]
  OBVIOUS
<1>2. ASSUME NEW g \in Handlers
      PROVE  /\ pc'[g] \in Waiting => job'[g] \in ChallengeRequests
             /\ pc'[g] \in Completing =>
                  job'[g] \in CompletionRequests /\ job'[g].ch \in Stored'
  BY DEF HandlersServe, Waiting, Completing, KeepsStored, Stored
<1> QED
  BY <1>1, <1>2 DEF HandlersServe

\* Rows that keep requests and presence keep RowsServe.
LEMMA RowsServeKept ==
  ASSUME RowsServe, KeepsStored(challenges')
  PROVE  RowsServe'
  BY DEF RowsServe, KeepsStored, Stored

\* Unchanged rows are kept.
LEMMA StoredKept ==
  ASSUME TypeOK, challenges' = challenges
  PROVE  KeepsStored(challenges')
  BY DEF TypeOK, KeepsStored

LEMMA IssueType ==
  ASSUME TypeInv, NEW o \in Offers, NEW at \in 0..MaxClock,
         NEW ttl \in OfferTTLs, IssuePairingOffer(o, at, ttl)
  PROVE  TypeInv'
<1> USE EnrollmentAssumption
<1>1. /\ at \in Nat /\ at + ttl \in Nat
  OBVIOUS
<1>2. KeepsStored(challenges')
  BY <1>1, SweptChallengesType, SupersedeType DEF IssuePairingOffer, TypeInv
<1>3. SweptOffers(at) \in [Offers -> OfferRow]
  BY <1>1, SweptOffersType DEF TypeInv
<1>4. ASSUME NEW p \in Offers
      PROVE  offers'[p] \in OfferRow
  <2>1. SweptOffers(at)[p] \in OfferRow
    BY <1>3
  <2> QED
    BY <2>1, <1>1 DEF IssuePairingOffer, OfferRow, OfferStates, LiveStates
<1>5. offers' \in [Offers -> OfferRow]
  BY <1>4 DEF IssuePairingOffer
<1>6. TypeOK'
  BY <1>2, <1>5 DEF IssuePairingOffer, TypeInv, TypeOK, KeepsStored, frames
<1>7. RowsServe'
  BY <1>2, RowsServeKept DEF TypeInv
<1>8. HandlersServe'
  BY <1>2 DEF HandlersServe, IssuePairingOffer, TypeInv, frames, KeepsStored,
              Stored
<1> QED
  BY <1>6, <1>7, <1>8 DEF TypeInv

LEMMA RevokeType ==
  ASSUME TypeInv, NEW c \in Challenges, RevokeDevice(c)
  PROVE  TypeInv'
<1>1. devices' \in [Challenges -> DeviceRow]
  BY DEF RevokeDevice, TypeInv, TypeOK, DeviceRow, DeviceStates
<1>2. keys' \in [Fingerprints -> KeyRow]
  BY DEF RevokeDevice, TypeInv, TypeOK, KeyRow
<1>3. TypeOK'
  BY <1>1, <1>2 DEF RevokeDevice, TypeInv, TypeOK, frames
<1> QED
  BY <1>3 DEF RevokeDevice, TypeInv, RowsServe, HandlersServe, Stored, frames

LEMMA ExpireType ==
  ASSUME TypeInv, NEW at \in 0..MaxClock, ExpirePending(at)
  PROVE  TypeInv'
<1>1. KeepsStored(challenges')
  BY SweptChallengesType, EnrollmentAssumption DEF ExpirePending, TypeInv
<1>2. offers' \in [Offers -> OfferRow]
  BY SweptOffersType, EnrollmentAssumption DEF ExpirePending, TypeInv
<1>3. TypeOK'
  BY <1>1, <1>2 DEF ExpirePending, TypeInv, TypeOK, KeepsStored, frames
<1>4. HandlersServe'
  BY <1>1 DEF HandlersServe, ExpirePending, TypeInv, frames, KeepsStored, Stored
<1> QED
  BY <1>1, <1>3, <1>4, RowsServeKept DEF TypeInv

\* The tables of a step that only reads them.
LEMMA ReadOnly ==
  ASSUME TypeInv, UNCHANGED <<clock, tables>>,
         pc' \in [Handlers -> {"idle", "replied"} \cup Waiting \cup Completing],
         job' \in [Handlers ->
           ChallengeRequests \cup CompletionRequests \cup {None}],
         now' \in [Handlers -> 0..MaxClock],
         seen' \in [Handlers -> Nat],
         reply' \in [Handlers -> Response],
         began' \in [Handlers -> SUBSET {"stored", "committed", "revoked"}],
         HandlersServe'
  PROVE  TypeInv'
  BY DEF TypeInv, TypeOK, RowsServe, Stored, tables

LEMMA ReceiveType ==
  ASSUME TypeInv, NEW h \in Handlers,
         \/ \E r \in ChallengeRequests : ReceiveChallengeRequest(h, r)
         \/ \E q \in CompletionRequests : ReceiveCompletion(h, q)
  PROVE  TypeInv'
<1>1. CASE \E r \in ChallengeRequests : ReceiveChallengeRequest(h, r)
  <2> PICK r \in ChallengeRequests : ReceiveChallengeRequest(h, r)
    BY <1>1
  <2> USE DEF ReceiveChallengeRequest, GoTo
  <2>1. /\ pc' \in [Handlers -> {"idle", "replied"} \cup Waiting \cup Completing]
        /\ job' \in [Handlers ->
             ChallengeRequests \cup CompletionRequests \cup {None}]
        /\ now' \in [Handlers -> 0..MaxClock]
    BY DEF TypeInv, TypeOK, Waiting
  <2>2. HandlersServe'
    BY DEF TypeInv, TypeOK, HandlersServe, Waiting, Completing, Stored, tables
  <2> QED
    BY <2>1, <2>2, ReadOnly DEF TypeInv, TypeOK
<1>2. CASE \E q \in CompletionRequests : ReceiveCompletion(h, q)
  <2> PICK q \in CompletionRequests : ReceiveCompletion(h, q)
    BY <1>2
  <2> USE DEF ReceiveCompletion, GoTo
  <2>1. /\ pc' \in [Handlers -> {"idle", "replied"} \cup Waiting \cup Completing]
        /\ job' \in [Handlers ->
             ChallengeRequests \cup CompletionRequests \cup {None}]
        /\ began' \in [Handlers -> SUBSET {"stored", "committed", "revoked"}]
    BY DEF TypeInv, TypeOK, Completing
  <2>2. q.ch \in Stored
    BY EnrollmentAssumption DEF Stored, CompletionBody
  <2>3. HandlersServe'
    BY <2>2
    DEF TypeInv, TypeOK, HandlersServe, Waiting, Completing, Stored, tables
  <2> QED
    BY <2>1, <2>3, ReadOnly DEF TypeInv, TypeOK
<1> QED
  BY <1>1, <1>2

\* The stored answer to a claim is a response.
LEMMA StoredAnswerType ==
  ASSUME NEW h, NEW c \in Challenges
  PROVE  StoredAnswer(h, c) \in Response
  BY DEF StoredAnswer, Response, Conflict, ChallengeReply, Rejected

LEMMA FindRequestType ==
  ASSUME TypeInv, NEW h \in Handlers, FindRequest(h) \/ ReplayRequest(h)
  PROVE  TypeInv'
<1>1. KeepsStored(challenges')
  BY StoredKept DEF FindRequest, ReplayRequest, tables, TypeInv
<1>2. ASSUME NEW response \in Response, Answer(h, response), UNCHANGED tables
      PROVE  TypeInv'
  BY <1>1, <1>2, AnswerType, ReadOnly DEF Answer, TypeInv, TypeOK
<1>3. CASE \E c \in RowsFor(job[h].rid) : Answer(h, StoredAnswer(h, c))
  <2> PICK c \in RowsFor(job[h].rid) : Answer(h, StoredAnswer(h, c))
    BY <1>3
  <2>1. StoredAnswer(h, c) \in Response
    BY StoredAnswerType DEF RowsFor, Stored
  <2> QED
    BY <2>1, <1>2 DEF FindRequest, ReplayRequest
<1>4. CASE Answer(h, Rejected)
  BY <1>2, <1>4 DEF FindRequest, ReplayRequest, Rejected, Response
<1>5. CASE /\ pc[h] = "find_request"
           /\ GoTo(h, "expire_for_claim")
           /\ UNCHANGED <<clock, job, now, seen, reply, began>>
  <2>1. "expire_for_claim" \in Waiting /\ pc[h] \in Waiting
    BY <1>5 DEF Waiting
  <2>2. HandlersServe' /\ pc' \in [Handlers ->
          {"idle", "replied"} \cup Waiting \cup Completing]
    BY <1>1, <1>5, <2>1, GoToType
  <2> QED
    BY <1>5, <2>2, ReadOnly DEF FindRequest, ReplayRequest, TypeInv, TypeOK
<1> QED
  BY <1>3, <1>4, <1>5 DEF FindRequest, ReplayRequest

LEMMA SweepStepType ==
  ASSUME TypeInv, NEW h \in Handlers,
         ExpireForClaim(h) \/ ExpireForCompletion(h)
  PROVE  TypeInv'
<1>1. now[h] \in Nat
  BY EnrollmentAssumption DEF TypeInv, TypeOK
<1>2. KeepsStored(challenges')
  BY <1>1, SweptChallengesType DEF ExpireForClaim, ExpireForCompletion, TypeInv
<1>3. offers' \in [Offers -> OfferRow]
  BY <1>1, SweptOffersType DEF ExpireForClaim, ExpireForCompletion, TypeInv
<1>4. HandlersServe' /\ pc' \in [Handlers ->
        {"idle", "replied"} \cup Waiting \cup Completing]
  <2>1. CASE ExpireForClaim(h)
    BY <2>1, <1>2, GoToType DEF ExpireForClaim, Waiting
  <2>2. CASE ExpireForCompletion(h)
    BY <2>2, <1>2, GoToType DEF ExpireForCompletion, Completing
  <2> QED
    BY <2>1, <2>2
<1>5. TypeOK'
  BY <1>2, <1>3, <1>4
  DEF ExpireForClaim, ExpireForCompletion, TypeInv, TypeOK, KeepsStored
<1> QED
  BY <1>2, <1>4, <1>5, RowsServeKept DEF TypeInv

LEMMA ReadOfferType ==
  ASSUME TypeInv, NEW h \in Handlers, ReadOffer(h)
  PROVE  TypeInv'
<1>1. KeepsStored(challenges')
  BY StoredKept DEF ReadOffer, tables, TypeInv
<1>2. CASE AcceptableClaim(h)
  <2>1. job[h] \in ChallengeRequests
    BY DEF ReadOffer, TypeInv, HandlersServe, Waiting
  <2>2. offers[job[h].offer].expires \in Nat
    BY <2>1, EnrollmentAssumption DEF ChallengeBody, TypeInv, TypeOK, OfferRow
  <2>3. Minimum(now[h] + ChallengeTTL, offers[job[h].offer].expires) \in Nat
    BY <2>2, EnrollmentAssumption DEF Minimum, TypeInv, TypeOK
  <2>4. seen' \in [Handlers -> Nat]
    BY <1>2, <2>3 DEF ReadOffer, TypeInv, TypeOK
  <2>5. HandlersServe' /\ pc' \in [Handlers ->
          {"idle", "replied"} \cup Waiting \cup Completing]
    BY <1>1, <1>2, GoToType DEF ReadOffer, Waiting
  <2> QED
    BY <1>2, <2>4, <2>5, ReadOnly DEF ReadOffer, TypeInv, TypeOK
<1>3. CASE ~AcceptableClaim(h)
  BY <1>1, <1>3, AnswerType, ReadOnly
  DEF ReadOffer, Answer, TypeInv, TypeOK, Rejected, Response
<1> QED
  BY <1>2, <1>3

LEMMA InsertType ==
  ASSUME TypeInv, NEW h \in Handlers, NEW c \in Challenges,
         InsertChallenge(h, c)
  PROVE  TypeInv'
<1> DEFINE o == job[h].offer
           swept == SweptOffers(now[h])
           rivals == {d \in Stored : challenges[d].request.offer = o}
           rows == Supersede(SweptChallenges(now[h]), rivals)
           row == [state |-> "open", request |-> job[h], failed |-> 0,
                   issued |-> now[h], expires |-> seen[h]]
<1>1. job[h] \in ChallengeRequests /\ o \in Offers
  BY EnrollmentAssumption
  DEF InsertChallenge, TypeInv, HandlersServe, Waiting, ChallengeBody
<1>2. now[h] \in Nat /\ seen[h] \in Nat
  BY EnrollmentAssumption DEF TypeInv, TypeOK
<1>3. KeepsStored(rows)
  BY <1>2, SweptChallengesType, SupersedeType DEF TypeInv
<1>4. swept \in [Offers -> OfferRow]
  BY <1>2, SweptOffersType DEF TypeInv
<1>5. offers' \in [Offers -> OfferRow]
  <2> HIDE DEF swept
  <2>1. offers' = [swept EXCEPT ![o].state = "claimed",
                                ![o].claims = swept[o].claims + 1]
    BY DEF InsertChallenge, swept
  <2> SUFFICES ASSUME NEW p \in Offers PROVE offers'[p] \in OfferRow
    BY <1>4, <2>1
  <2>2. swept[p] \in OfferRow
    BY <1>4
  <2> QED
    BY <1>1, <1>4, <2>1, <2>2 DEF OfferRow, OfferStates, LiveStates
<1>6. challenges' = [rows EXCEPT ![c] = row] /\ row \in ChallengeRow
  BY <1>1, <1>2 DEF InsertChallenge, ChallengeRow, ChallengeStates
<1>7. challenges' \in [Challenges -> ChallengeRow]
  BY <1>3, <1>6 DEF KeepsStored
<1>8. \A d \in Challenges \ {c} :
        /\ challenges'[d].request = challenges[d].request
        /\ challenges'[d].state = "absent" <=> challenges[d].state = "absent"
  BY <1>3, <1>6 DEF KeepsStored
<1>9. challenges'[c] = row
  BY <1>3, <1>6 DEF KeepsStored
<1>10. RowsServe'
  BY <1>1, <1>8, <1>9 DEF RowsServe, Stored, TypeInv
<1>11. pc' \in [Handlers -> {"idle", "replied"} \cup Waiting \cup Completing]
       /\ reply' \in [Handlers -> Response]
  BY DEF InsertChallenge, Answer, GoTo, TypeInv, TypeOK, Response,
         ChallengeReply
<1>12. HandlersServe'
  BY <1>8, <1>9
  DEF InsertChallenge, Answer, GoTo, HandlersServe, TypeInv, TypeOK,
      Stored, Waiting, Completing
<1>13. TypeOK'
  BY <1>5, <1>7, <1>11 DEF InsertChallenge, Answer, TypeInv, TypeOK
<1> QED
  BY <1>10, <1>12, <1>13 DEF TypeInv

LEMMA RejectType ==
  ASSUME TypeInv, NEW h \in Handlers,
         RejectChallenge(h) \/ RejectCompletion(h)
  PROVE  TypeInv'
<1>1. KeepsStored(challenges')
  BY StoredKept DEF RejectChallenge, RejectCompletion, tables, TypeInv
<1>2. HandlersServe' /\ pc' \in [Handlers ->
        {"idle", "replied"} \cup Waiting \cup Completing]
  <2>1. CASE RejectChallenge(h)
    BY <2>1, <1>1, GoToType DEF RejectChallenge, Waiting
  <2>2. CASE RejectCompletion(h)
    BY <2>2, <1>1, GoToType DEF RejectCompletion, Completing
  <2> QED
    BY <2>1, <2>2
<1> QED
  BY <1>2, ReadOnly DEF RejectChallenge, RejectCompletion, TypeInv, TypeOK

\* The request a completing handler serves.
LEMMA JobCompletes ==
  ASSUME TypeInv, NEW h \in Handlers, pc[h] \in Completing
  PROVE  /\ job[h] \in CompletionRequests
         /\ job[h].ch \in Challenges /\ job[h].ch \in Stored
         /\ job[h].idem \in IdempotencyKeys
         /\ JobChallenge(h) \in ChallengeRow
         /\ JobChallenge(h).request \in ChallengeRequests
         /\ JobChallenge(h).request.offer \in Offers
         /\ JobChallenge(h).request.auth \in Fingerprints
         /\ JobChallenge(h).request.approval \in Fingerprints
  BY EnrollmentAssumption
  DEF TypeInv, TypeOK, HandlersServe, RowsServe, Stored, JobChallenge,
      CompletionBody, ChallengeBody

LEMMA FindCompletionType ==
  ASSUME TypeInv, NEW h \in Handlers, FindCompletion(h)
  PROVE  TypeInv'
<1>1. KeepsStored(challenges')
  BY StoredKept DEF FindCompletion, tables, TypeInv
<1>2. pc[h] \in Completing /\ job[h].ch \in Challenges
  BY JobCompletes DEF FindCompletion, Completing
<1>3. ASSUME NEW response \in Response, Answer(h, response)
      PROVE  TypeInv'
  BY <1>1, <1>3, AnswerType, ReadOnly
  DEF Answer, FindCompletion, TypeInv, TypeOK
<1>4. CASE completions[job[h].idem] = None
  <2>1. job[h] # None
    BY <1>2, JobCompletes, EnrollmentAssumption DEF FindCompletion, Completing
  <2>2. /\ now' = [now EXCEPT ![h] = clock]
        /\ GoTo(h, "expire_for_completion")
        /\ UNCHANGED <<clock, tables, job, seen, reply, began>>
    BY <1>4, <2>1 DEF FindCompletion
  <2>3. "expire_for_completion" \in Completing
    BY DEF Completing
  <2>4. HandlersServe' /\ pc' \in [Handlers ->
          {"idle", "replied"} \cup Waiting \cup Completing]
    BY <1>1, <1>2, <2>2, <2>3, GoToType
  <2>5. now' \in [Handlers -> 0..MaxClock]
    BY <2>2 DEF TypeInv, TypeOK
  <2> QED
    BY <2>2, <2>4, <2>5, ReadOnly DEF TypeInv, TypeOK
<1>5. CASE completions[job[h].idem] # None
  BY <1>2, <1>3, <1>5 DEF FindCompletion, Receipt, Rejected, Conflict, Response
<1> QED
  BY <1>4, <1>5

LEMMA ReadOpenType ==
  ASSUME TypeInv, NEW h \in Handlers, ReadOpenChallenge(h)
  PROVE  TypeInv'
<1>1. KeepsStored(challenges')
  BY StoredKept DEF ReadOpenChallenge, tables, TypeInv
<1>2. HandlersServe' /\ pc' \in [Handlers ->
        {"idle", "replied"} \cup Waiting \cup Completing]
  BY <1>1, GoToType DEF ReadOpenChallenge, Completing
<1>3. JobChallenge(h).failed \in Nat
  BY JobCompletes DEF ReadOpenChallenge, Completing, ChallengeRow
<1>4. seen' \in [Handlers -> Nat]
  BY <1>3 DEF ReadOpenChallenge, TypeInv, TypeOK
<1> QED
  BY <1>2, <1>4, ReadOnly DEF ReadOpenChallenge, TypeInv, TypeOK

LEMMA RecordFailedType ==
  ASSUME TypeInv, NEW h \in Handlers, RecordFailedCompletion(h)
  PROVE  TypeInv'
<1> DEFINE c == job[h].ch
           failures == JobChallenge(h).failed + 1
           locked == failures >= MaxChallengeFailures
<1>1. /\ c \in Challenges /\ JobChallenge(h).failed \in Nat
      /\ JobChallenge(h).request.offer \in Offers
      /\ JobChallenge(h).state # "absent"
  BY JobCompletes DEF RecordFailedCompletion, Completing, ChallengeRow, Stored,
                      JobChallenge
<1>2. KeepsStored(challenges')
  <2>1. CASE challenges' = challenges
    BY <2>1, StoredKept DEF TypeInv
  <2>2. CASE challenges' = [challenges EXCEPT
               ![c].failed = failures,
               ![c].state = IF locked THEN "locked" ELSE "open"]
    <3>1. ASSUME NEW d \in Challenges
          PROVE  /\ challenges'[d] \in ChallengeRow
                 /\ challenges'[d].request = challenges[d].request
                 /\ challenges'[d].state = "absent"
                    <=> challenges[d].state = "absent"
      <4>1. challenges[d] \in ChallengeRow
        BY DEF TypeInv, TypeOK
      <4>2. CASE d # c
        BY <2>2, <4>1, <4>2 DEF TypeInv, TypeOK
      <4>3. CASE d = c
        <5>1. challenges'[c] =
                [challenges[c] EXCEPT !.failed = failures,
                                      !.state = IF locked THEN "locked"
                                                          ELSE "open"]
          BY <1>1, <2>2 DEF TypeInv, TypeOK
        <5>2. failures \in Nat /\ challenges[c].state # "absent"
          BY <1>1 DEF JobChallenge
        <5> HIDE DEF failures, locked
        <5> QED
          BY <4>1, <4>3, <5>1, <5>2 DEF ChallengeRow, ChallengeStates
      <4> QED
        BY <4>2, <4>3
    <3>2. challenges' \in [Challenges -> ChallengeRow]
      BY <2>2, <3>1 DEF TypeInv, TypeOK
    <3> QED
      BY <3>1, <3>2 DEF KeepsStored
  <2> QED
    BY <2>1, <2>2 DEF RecordFailedCompletion
<1>3. offers' \in [Offers -> OfferRow]
  BY <1>1, RetireType DEF RecordFailedCompletion, TypeInv, TypeOK, OfferStates
<1>4. pc' \in [Handlers -> {"idle", "replied"} \cup Waiting \cup Completing]
      /\ reply' \in [Handlers -> Response] /\ HandlersServe'
  BY <1>2, AnswerType DEF RecordFailedCompletion, Rejected, Response
<1>5. TypeOK'
  BY <1>2, <1>3, <1>4
  DEF RecordFailedCompletion, Answer, TypeInv, TypeOK, KeepsStored
<1> QED
  BY <1>2, <1>4, <1>5, RowsServeKept DEF TypeInv

LEMMA CommitType ==
  ASSUME TypeInv, NEW h \in Handlers, CommitCompletion(h)
  PROVE  TypeInv'
<1> DEFINE c == job[h].ch
           o == JobChallenge(h).request.offer
           swept == SweptChallenges(now[h])
<1>1. now[h] \in Nat
  BY EnrollmentAssumption DEF TypeInv, TypeOK
<1>2. /\ pc[h] \in Completing
      /\ c \in Challenges /\ c \in Stored /\ o \in Offers
      /\ job[h] \in CompletionRequests
  BY JobCompletes DEF CommitCompletion, Completing
<1>3. KeepsStored(swept)
  BY <1>1, SweptChallengesType DEF TypeInv
<1>4. challenges' = [swept EXCEPT ![c].state = "completed"]
  BY DEF CommitCompletion
<1>5. KeepsStored(challenges')
  <2> HIDE DEF swept
  <2>1. ASSUME NEW d \in Challenges
        PROVE  /\ challenges'[d] \in ChallengeRow
               /\ challenges'[d].request = challenges[d].request
               /\ challenges'[d].state = "absent"
                  <=> challenges[d].state = "absent"
    <3>1. /\ swept[d] \in ChallengeRow
          /\ swept[d].request = challenges[d].request
          /\ swept[d].state = "absent" <=> challenges[d].state = "absent"
      BY <1>3 DEF KeepsStored
    <3>2. CASE d = c
      <4>1. challenges'[d] = [swept[d] EXCEPT !.state = "completed"]
        BY <1>2, <1>3, <1>4, <3>2 DEF KeepsStored
      <4> QED
        BY <1>2, <3>1, <3>2, <4>1 DEF ChallengeRow, ChallengeStates, Stored
    <3>3. CASE d # c
      BY <1>3, <1>4, <3>1, <3>3 DEF KeepsStored
    <3> QED
      BY <3>2, <3>3
  <2>2. challenges' \in [Challenges -> ChallengeRow]
    BY <1>3, <1>4, <2>1 DEF KeepsStored
  <2> QED
    BY <2>1, <2>2 DEF KeepsStored
<1>6. offers' \in [Offers -> OfferRow]
  BY <1>1, <1>2, SweptOffersType, RetireType
  DEF CommitCompletion, TypeInv, OfferStates
<1>7. devices' \in [Challenges -> DeviceRow]
  BY <1>1, <1>2 DEF CommitCompletion, TypeInv, TypeOK, DeviceRow, DeviceStates
<1>8. keys' \in [Fingerprints -> KeyRow]
  BY <1>2 DEF CommitCompletion, TypeInv, TypeOK, KeyRow
<1>9. completions' \in [IdempotencyKeys -> CompletionRequests \cup {None}]
  BY <1>2 DEF CommitCompletion, TypeInv, TypeOK
<1>10. HandlersServe' /\ pc' \in [Handlers ->
        {"idle", "replied"} \cup Waiting \cup Completing]
  BY <1>2, <1>5, GoToType DEF CommitCompletion, Completing
<1>11. TypeOK'
  BY <1>5, <1>6, <1>7, <1>8, <1>9, <1>10
  DEF CommitCompletion, TypeInv, TypeOK, KeepsStored
<1> QED
  BY <1>5, <1>10, <1>11, RowsServeKept DEF TypeInv

LEMMA AnsweredType ==
  ASSUME TypeInv, NEW h \in Handlers, ReadDevice(h) \/ ReplayCompletion(h)
  PROVE  TypeInv'
<1>1. KeepsStored(challenges')
  BY StoredKept DEF ReadDevice, ReplayCompletion, tables, TypeInv
<1>2. job[h].ch \in Challenges
  BY JobCompletes DEF ReadDevice, ReplayCompletion, Completing
<1>3. PICK response \in Response : Answer(h, response)
  BY <1>2
  DEF ReadDevice, ReplayCompletion, Receipt, Rejected, Conflict, Response
<1> QED
  BY <1>1, <1>3, AnswerType, ReadOnly
  DEF Answer, ReadDevice, ReplayCompletion, TypeInv, TypeOK

LEMMA ClearType ==
  ASSUME TypeInv, NEW h \in Handlers, Clear(h)
  PROVE  TypeInv'
<1>1. /\ pc' \in [Handlers -> {"idle", "replied"} \cup Waiting \cup Completing]
      /\ job' \in [Handlers ->
           ChallengeRequests \cup CompletionRequests \cup {None}]
  BY DEF Clear, GoTo, TypeInv, TypeOK
<1>2. /\ now' \in [Handlers -> 0..MaxClock]
      /\ seen' \in [Handlers -> Nat]
      /\ reply' \in [Handlers -> Response]
      /\ began' \in [Handlers -> SUBSET {"stored", "committed", "revoked"}]
  BY EnrollmentAssumption
  DEF Clear, TypeInv, TypeOK, Response, NoReply
<1>3. HandlersServe'
  BY DEF Clear, GoTo, HandlersServe, TypeInv, TypeOK, Waiting, Completing,
         Stored, tables
<1> QED
  BY <1>1, <1>2, <1>3, ReadOnly DEF Clear

LEMMA HandlerStepType ==
  ASSUME TypeInv, NEW h \in Handlers, HandlerStep(h)
  PROVE  TypeInv'
  BY FindRequestType, SweepStepType, ReadOfferType, InsertType, RejectType,
     FindCompletionType, ReadOpenType, RecordFailedType, CommitType,
     AnsweredType, ClearType
  DEF HandlerStep, Respond

LEMMA NextType == TypeInv /\ [Next]_vars => TypeInv'
<1> SUFFICES ASSUME TypeInv, [Next]_vars PROVE TypeInv'
  OBVIOUS
<1>1. CASE \E o \in Offers, at \in 0..MaxClock, ttl \in OfferTTLs :
             IssuePairingOffer(o, at, ttl)
  BY <1>1, IssueType
<1>2. CASE \E c \in Challenges : RevokeDevice(c)
  BY <1>2, RevokeType
<1>3. CASE \E at \in 0..MaxClock : ExpirePending(at)
  BY <1>3, ExpireType
<1>4. CASE Tick
  BY <1>4, EnrollmentAssumption
  DEF Tick, TypeInv, TypeOK, RowsServe, HandlersServe, Stored, tables, frames
<1>5. ASSUME NEW h \in Handlers,
             \/ \E r \in ChallengeRequests : ReceiveChallengeRequest(h, r)
             \/ \E q \in CompletionRequests : ReceiveCompletion(h, q)
      PROVE  TypeInv'
  BY <1>5, ReceiveType
<1>6. ASSUME NEW h \in Handlers, HandlerStep(h) \/ Abort(h)
      PROVE  TypeInv'
  BY <1>6, HandlerStepType, ClearType DEF Abort
<1>7. CASE UNCHANGED vars
  BY <1>7
  DEF vars, TypeInv, TypeOK, RowsServe, HandlersServe, Stored, tables, frames
<1> QED
  BY <1>1, <1>2, <1>3, <1>4, <1>5, <1>6, <1>7 DEF Next

\* Whatever the handlers, the operator and the sweeps do, every row of the
\* tables and every frame of a handler has the shape the code gives it.
THEOREM TypeCorrect == Spec => []TypeOK
<1>1. Spec => []TypeInv
  BY InitType, NextType, PTL DEF Spec
<1>2. TypeInv => TypeOK
  BY DEF TypeInv
<1> QED
  BY <1>1, <1>2, PTL

(***************************************************************************)
(* II. One ceremony at a time.                                             *)
(***************************************************************************)

(***************************************************************************)
(* SingleCeremony is not inductive.  A sweep or a lock scrubs the key of   *)
(* the offer it ends, so the key tells a live offer; a claim is inserted   *)
(* with the deadline its handler computed from an earlier read.            *)
(***************************************************************************)
KeysOfLiveOffers ==
  \A o \in Offers : offers[o].key <=> offers[o].state \in LiveStates

ClaimsFit ==
  \A h \in Handlers : pc[h] = "insert_challenge" =>
    /\ offers[job[h].offer].state # "absent"
    /\ seen[h] <= offers[job[h].offer].expires

CeremonyInv ==
  TypeInv /\ KeysOfLiveOffers /\ ClaimsFit /\ SingleCeremony

---------------------------------------------------------------------------
(* What a sweep does to one row.                                           *)

LEMMA SweptOffer ==
  ASSUME TypeOK, NEW t, NEW o \in Offers
  PROVE  /\ SweptOffers(t)[o].expires = offers[o].expires
         /\ \/ SweptOffers(t)[o] = offers[o]
            \/ /\ offers[o].state \in LiveStates
               /\ SweptOffers(t)[o].state = "expired"
               /\ ~SweptOffers(t)[o].key
         /\ offers[o].expires <= t => SweptOffers(t)[o].state \notin LiveStates
         /\ ~(offers[o].expires <= t) => SweptOffers(t)[o] = offers[o]
<1>1. offers[o] \in OfferRow
  BY DEF TypeOK
<1> QED
  BY <1>1 DEF SweptOffers, OfferRow, LiveStates

LEMMA SweptChallenge ==
  ASSUME TypeOK, NEW t, NEW c \in Challenges
  PROVE  /\ SweptChallenges(t)[c].request = challenges[c].request
         /\ SweptChallenges(t)[c].expires = challenges[c].expires
         /\ \/ SweptChallenges(t)[c] = challenges[c]
            \/ /\ challenges[c].state = "open"
               /\ SweptChallenges(t)[c].state = "expired"
         /\ SweptChallenges(t)[c].state = "open" =>
              challenges[c].state = "open" /\ ~(challenges[c].expires <= t)
<1>1. challenges[c] \in ChallengeRow
  BY DEF TypeOK
<1> QED
  BY <1>1 DEF SweptChallenges, ChallengeRow

\* An open challenge names a live offer.
LEMMA OpenOffer ==
  ASSUME TypeInv, SingleCeremony, NEW c \in OpenChallenges
  PROVE  /\ c \in Challenges /\ c \in Stored
         /\ challenges[c].expires \in Nat
         /\ OfferOf(c) \in Offers /\ OfferOf(c) \in LiveOffers
         /\ offers[OfferOf(c)].expires \in Nat
         /\ challenges[c].expires <= offers[OfferOf(c)].expires
<1>1. c \in Challenges /\ c \in Stored
  BY DEF OpenChallenges, Stored
<1>2. challenges[c].expires \in Nat
  BY <1>1 DEF TypeInv, TypeOK, ChallengeRow
<1>3. OfferOf(c) \in Offers
  BY <1>1, EnrollmentAssumption
  DEF TypeInv, RowsServe, OfferOf, ChallengeBody
<1>4. offers[OfferOf(c)].expires \in Nat
  BY <1>3 DEF TypeInv, TypeOK, OfferRow
<1> QED
  BY <1>1, <1>2, <1>3, <1>4 DEF SingleCeremony, LiveOffers, LiveStates

\* Handlers that do not move keep the deadline they computed.
LEMMA ClaimsFitKept ==
  ASSUME TypeInv, ClaimsFit,
         \A o \in Offers : offers[o].state # "absent" =>
           offers'[o].state # "absent" /\ offers'[o].expires = offers[o].expires,
         \A h \in Handlers : pc'[h] = "insert_challenge" =>
           /\ pc[h] = "insert_challenge"
           /\ job'[h] = job[h] /\ seen'[h] = seen[h]
  PROVE  ClaimsFit'
<1> SUFFICES ASSUME NEW h \in Handlers, pc'[h] = "insert_challenge"
             PROVE  /\ offers'[job'[h].offer].state # "absent"
                    /\ seen'[h] <= offers'[job'[h].offer].expires
  BY DEF ClaimsFit
<1>1. job[h].offer \in Offers
  BY EnrollmentAssumption
  DEF TypeInv, HandlersServe, Waiting, ChallengeBody
<1> QED
  BY <1>1 DEF ClaimsFit

---------------------------------------------------------------------------

LEMMA CeremonyInit == Init => CeremonyInv
<1> SUFFICES ASSUME Init PROVE CeremonyInv
  OBVIOUS
<1>1. KeysOfLiveOffers
  BY DEF Init, KeysOfLiveOffers, LiveStates
<1>2. ClaimsFit
  BY DEF Init, ClaimsFit
<1>3. SingleCeremony
  BY DEF Init, SingleCeremony, LiveOffers, OpenChallenges, LiveStates
<1> QED
  BY <1>1, <1>2, <1>3, InitType DEF CeremonyInv

\* Steps that only read the tables.
LEMMA CeremonyRead ==
  ASSUME KeysOfLiveOffers, SingleCeremony, offers' = offers,
         challenges' = challenges
  PROVE  KeysOfLiveOffers' /\ SingleCeremony'
  BY DEF KeysOfLiveOffers, SingleCeremony, LiveOffers, OpenChallenges, OfferOf

\* A sweep ends challenges no later than the offer they claimed.
LEMMA CeremonySweep ==
  ASSUME CeremonyInv, NEW t \in Nat,
         offers' = SweptOffers(t), challenges' = SweptChallenges(t)
  PROVE  KeysOfLiveOffers' /\ SingleCeremony'
<1> USE DEF CeremonyInv
<1>1. TypeOK
  BY DEF TypeInv
<1>2. KeysOfLiveOffers'
  BY <1>1, SweptOffer DEF KeysOfLiveOffers, LiveStates
<1>3. ASSUME NEW o \in LiveOffers'
      PROVE  o \in LiveOffers
  BY <1>1, <1>3, SweptOffer DEF LiveOffers, LiveStates
<1>4. ASSUME NEW c \in OpenChallenges'
      PROVE  /\ c \in OpenChallenges
             /\ OfferOf(c)' = OfferOf(c)
             /\ offers'[OfferOf(c)] = offers[OfferOf(c)]
             /\ challenges'[c].expires = challenges[c].expires
  <2>1. /\ c \in Challenges /\ c \in OpenChallenges
        /\ ~(challenges[c].expires <= t)
        /\ challenges'[c].request = challenges[c].request
        /\ challenges'[c].expires = challenges[c].expires
    BY <1>1, <1>4, SweptChallenge DEF OpenChallenges
  <2>2. ~(offers[OfferOf(c)].expires <= t) /\ OfferOf(c) \in Offers
    BY <2>1, OpenOffer
  <2>3. offers'[OfferOf(c)] = offers[OfferOf(c)]
    BY <1>1, <2>2, SweptOffer
  <2> QED
    BY <2>1, <2>3 DEF OfferOf
<1> QED
  BY <1>2, <1>3, <1>4 DEF SingleCeremony

LEMMA CeremonyIssue ==
  ASSUME CeremonyInv, NEW o \in Offers, NEW at \in 0..MaxClock,
         NEW ttl \in OfferTTLs, IssuePairingOffer(o, at, ttl)
  PROVE  CeremonyInv'
<1> USE DEF CeremonyInv
<1> DEFINE swept == SweptOffers(at)
           row == [state |-> "created", key |-> TRUE, claims |-> 0,
                   expires |-> at + ttl]
<1>1. TypeOK /\ TypeInv'
  BY IssueType DEF TypeInv
<1>2. offers'[o] = row
  BY DEF IssuePairingOffer
<1>3. ASSUME NEW p \in Offers, p # o
      PROVE  /\ offers'[p].expires = offers[p].expires
             /\ offers'[p].state = "absent" <=> offers[p].state = "absent"
             /\ ~offers'[p].key /\ offers'[p].state \notin LiveStates
  <2>1. swept[p] \in OfferRow
    BY <1>1, SweptOffersType, EnrollmentAssumption
  <2>2. /\ swept[p].expires = offers[p].expires
        /\ swept[p].state = "absent" <=> offers[p].state = "absent"
        /\ swept[p].key <=> swept[p].state \in LiveStates
    BY <1>1, SweptOffer DEF KeysOfLiveOffers, LiveStates
  <2>3. offers'[p] =
          IF swept[p].state \in LiveStates
            THEN [swept[p] EXCEPT !.state = "revoked", !.key = FALSE]
            ELSE swept[p]
    BY <1>3, <2>2 DEF IssuePairingOffer
  <2> HIDE DEF swept
  <2> QED
    BY <2>1, <2>2, <2>3 DEF OfferRow, LiveStates
<1>4. KeysOfLiveOffers'
  BY <1>2, <1>3 DEF KeysOfLiveOffers, LiveStates
<1>5. ClaimsFit'
  BY <1>3, ClaimsFitKept DEF IssuePairingOffer, frames
<1>6. \A c \in Challenges : challenges'[c].state # "open"
  <2> SUFFICES ASSUME NEW c \in Challenges
               PROVE  Supersede(SweptChallenges(at), Challenges)[c].state # "open"
    BY DEF IssuePairingOffer
  <2>1. SweptChallenges(at)[c] \in ChallengeRow
    BY <1>1, SweptChallengesType, EnrollmentAssumption DEF KeepsStored
  <2> QED
    BY <2>1 DEF Supersede, ChallengeRow
<1>7. SingleCeremony'
  BY <1>3, <1>6 DEF SingleCeremony, LiveOffers, OpenChallenges
<1> QED
  BY <1>1, <1>4, <1>5, <1>7

\* The claimed offer was the one live offer, so every open challenge of the
\* swept tables is a rival and gives way.
LEMMA CeremonyInsert ==
  ASSUME CeremonyInv, NEW h \in Handlers, NEW c \in Challenges,
         InsertChallenge(h, c)
  PROVE  CeremonyInv'
<1> USE DEF CeremonyInv
<1> DEFINE t == now[h]
           o == job[h].offer
           swept == SweptOffers(t)
           rows == SweptChallenges(t)
           rivals == {d \in Stored : challenges[d].request.offer = o}
           row == [state |-> "open", request |-> job[h], failed |-> 0,
                   issued |-> now[h], expires |-> seen[h]]
<1>1. TypeOK /\ TypeInv' /\ t \in Nat /\ seen[h] \in Nat
  BY InsertType, EnrollmentAssumption DEF TypeInv, TypeOK
<1>2. job[h] \in ChallengeRequests /\ o \in Offers
  BY EnrollmentAssumption
  DEF InsertChallenge, TypeInv, HandlersServe, Waiting, ChallengeBody
<1>3. /\ offers' = [swept EXCEPT ![o].state = "claimed",
                                 ![o].claims = swept[o].claims + 1]
      /\ challenges' = [Supersede(rows, rivals) EXCEPT ![c] = row]
      /\ swept[o].state \in LiveStates /\ swept[o].key
  BY DEF InsertChallenge, Insertable, Claimable
<1>4. o \in LiveOffers
  BY <1>1, <1>2, <1>3, SweptOffer DEF LiveOffers, LiveStates
<1>5. ASSUME NEW p \in Offers
      PROVE  /\ offers'[p].expires = offers[p].expires
             /\ offers'[p].key = swept[p].key
             /\ p # o => offers'[p] = swept[p]
             /\ p = o => offers'[p].state = "claimed" /\ offers'[p].key
  <2>1. swept \in [Offers -> OfferRow]
    BY <1>1, SweptOffersType
  <2>2. swept[p] \in OfferRow
    BY <2>1
  <2>3. swept[p].expires = offers[p].expires
    BY <1>1, SweptOffer
  <2>4. p # o => offers'[p] = swept[p]
    BY <1>3, <2>1
  <2>5. p = o => offers'[p] = [swept[p] EXCEPT !.state = "claimed",
                                             !.claims = swept[p].claims + 1]
    BY <1>3, <2>1
  <2>6. p = o => swept[p].key = TRUE
    BY <1>3, <2>2 DEF OfferRow
  <2> HIDE DEF swept
  <2>7. CASE p = o
    <3>1. /\ offers'[p].state = "claimed" /\ offers'[p].key = swept[p].key
          /\ offers'[p].expires = swept[p].expires
      BY <2>2, <2>5, <2>7 DEF OfferRow
    <3> QED
      BY <2>3, <2>6, <2>7, <3>1
  <2> QED
    BY <2>3, <2>4, <2>7
<1>6. ASSUME NEW p \in Offers, p # o
      PROVE  offers'[p].state \notin LiveStates
  <2>1. offers[p].state \notin LiveStates
    BY <1>4, <1>6 DEF SingleCeremony, LiveOffers
  <2> QED
    BY <1>1, <1>5, <1>6, <2>1, SweptOffer DEF LiveStates
<1>7. KeysOfLiveOffers'
  <2> SUFFICES ASSUME NEW p \in Offers
               PROVE  offers'[p].key <=> offers'[p].state \in LiveStates
    BY DEF KeysOfLiveOffers
  <2>1. swept[p].key <=> swept[p].state \in LiveStates
    BY <1>1, SweptOffer DEF KeysOfLiveOffers, LiveStates
  <2> QED
    BY <1>5, <2>1 DEF LiveStates
<1>8. ClaimsFit'
  <2>1. ASSUME NEW p \in Offers, offers[p].state # "absent"
        PROVE  /\ offers'[p].state # "absent"
               /\ offers'[p].expires = offers[p].expires
    BY <1>1, <1>5, <2>1, SweptOffer DEF LiveStates
  <2>2. ASSUME NEW g \in Handlers, pc'[g] = "insert_challenge"
        PROVE  /\ pc[g] = "insert_challenge"
               /\ job'[g] = job[g] /\ seen'[g] = seen[g]
    BY <1>1, <2>2 DEF InsertChallenge, Answer, GoTo, TypeOK
  <2> QED
    BY <2>1, <2>2, ClaimsFitKept
<1>9. KeepsStored(rows) /\ KeepsStored(Supersede(rows, rivals))
  BY <1>1, SweptChallengesType, SupersedeType
<1>10. challenges'[c] = row
  BY <1>3, <1>9 DEF KeepsStored
<1>11. ASSUME NEW d \in Challenges, d # c
       PROVE  challenges'[d].state # "open"
  <2>1. challenges'[d] = Supersede(rows, rivals)[d]
    BY <1>3, <1>9, <1>11 DEF KeepsStored
  <2>2. rows[d] \in ChallengeRow
    BY <1>9 DEF KeepsStored
  <2>3. CASE rows[d].state # "open"
    BY <2>1, <2>2, <2>3 DEF Supersede
  <2>4. CASE rows[d].state = "open"
    <3>1. d \in OpenChallenges
      BY <1>1, <2>4, SweptChallenge DEF OpenChallenges
    <3>2. OfferOf(d) = o /\ d \in Stored
      BY <1>4, <3>1, OpenOffer DEF SingleCeremony
    <3>3. d \in rivals
      BY <3>2 DEF OfferOf
    <3> HIDE DEF rows, rivals
    <3>4. Supersede(rows, rivals)[d] = [rows[d] EXCEPT !.state = "superseded"]
      BY <2>4, <3>3 DEF Supersede
    <3>5. challenges'[d].state = "superseded"
      BY <2>1, <2>2, <3>4 DEF ChallengeRow
    <3> QED
      BY <3>5
  <2> QED
    BY <2>3, <2>4
<1>12. SingleCeremony'
  <2>1. ASSUME NEW p \in LiveOffers' PROVE p = o
    BY <1>6 DEF LiveOffers
  <2>2. ASSUME NEW d \in OpenChallenges' PROVE d = c
    BY <1>11 DEF OpenChallenges
  <2>3. /\ OfferOf(c)' = o
        /\ challenges'[c].expires <= offers'[o].expires
    BY <1>2, <1>5, <1>10 DEF OfferOf, ClaimsFit, InsertChallenge
  <2>4. offers'[o].state = "claimed" /\ offers'[o].key
    BY <1>2, <1>5
  <2> QED
    BY <2>1, <2>2, <2>3, <2>4 DEF SingleCeremony
<1> QED
  BY <1>1, <1>7, <1>8, <1>12

\* The last wrong proof ends the only open challenge and its offer with it.
LEMMA CeremonyFailed ==
  ASSUME CeremonyInv, NEW h \in Handlers, RecordFailedCompletion(h)
  PROVE  CeremonyInv'
<1> USE DEF CeremonyInv
<1> DEFINE c == job[h].ch
           o == JobChallenge(h).request.offer
           failures == JobChallenge(h).failed + 1
           locked == failures >= MaxChallengeFailures
<1>1. TypeOK /\ TypeInv'
  BY RecordFailedType DEF TypeInv
<1>2. c \in Challenges /\ o \in Offers
  BY JobCompletes DEF RecordFailedCompletion, Completing
<1>3. ASSUME NEW g \in Handlers, pc'[g] = "insert_challenge"
      PROVE  /\ pc[g] = "insert_challenge"
             /\ job'[g] = job[g] /\ seen'[g] = seen[g]
  BY <1>1, <1>3 DEF RecordFailedCompletion, Answer, GoTo, TypeOK
<1>4. CASE JobChallenge(h).state # "open"
  <2>1. offers' = offers /\ challenges' = challenges
    BY <1>4 DEF RecordFailedCompletion
  <2>2. ClaimsFit'
    BY <1>3, <2>1, ClaimsFitKept
  <2> QED
    BY <1>1, <2>1, <2>2, CeremonyRead
<1>5. CASE JobChallenge(h).state = "open"
  <2>1. /\ challenges' = [challenges EXCEPT
              ![c].failed = failures,
              ![c].state = IF locked THEN "locked" ELSE "open"]
        /\ offers' = IF locked /\ offers[o].state = "claimed"
                       THEN Retire(offers, o, "locked") ELSE offers
    BY <1>5 DEF RecordFailedCompletion
  <2>2. c \in OpenChallenges /\ offers[o].state = "claimed" /\ o = OfferOf(c)
    BY <1>2, <1>5
    DEF OpenChallenges, JobChallenge, SingleCeremony, OfferOf
  <2>3. ASSUME NEW d \in Challenges
        PROVE  /\ challenges'[d].request = challenges[d].request
               /\ challenges'[d].expires = challenges[d].expires
               /\ d # c => challenges'[d] = challenges[d]
               /\ d = c /\ locked => challenges'[d].state = "locked"
    <3>1. challenges[d] \in ChallengeRow
      BY <1>1 DEF TypeOK
    <3>2. CASE d # c
      BY <1>1, <2>1, <3>2 DEF TypeOK
    <3>3. CASE d = c
      <4>1. challenges'[c] = [challenges[c] EXCEPT
              !.failed = failures,
              !.state = IF locked THEN "locked" ELSE "open"]
        BY <1>1, <1>2, <2>1 DEF TypeOK
      <4> HIDE DEF failures, locked
      <4> QED
        BY <3>1, <3>3, <4>1 DEF ChallengeRow
    <3> QED
      BY <3>2, <3>3
  <2>4. ASSUME NEW p \in Offers
        PROVE  /\ offers'[p].expires = offers[p].expires
               /\ ~locked \/ p # o => offers'[p] = offers[p]
               /\ locked /\ p = o =>
                    offers'[p].state = "locked" /\ ~offers'[p].key
    <3>1. offers[p] \in OfferRow
      BY <1>1 DEF TypeOK
    <3>2. CASE ~locked
      BY <2>1, <3>2
    <3>3. CASE locked
      <4>1. offers' = Retire(offers, o, "locked")
        BY <2>1, <2>2, <3>3
      <4> HIDE DEF locked
      <4>2. offers'[p] = IF p = o
              THEN [offers[p] EXCEPT !.state = "locked", !.key = FALSE]
              ELSE offers[p]
        BY <1>1, <4>1 DEF Retire, TypeOK
      <4> QED
        BY <3>1, <3>3, <4>2 DEF OfferRow
    <3> QED
      BY <3>2, <3>3
  <2> HIDE DEF locked
  <2>5. KeysOfLiveOffers'
    BY <2>4 DEF KeysOfLiveOffers, LiveStates
  <2>6. ClaimsFit'
    <3>1. ASSUME NEW p \in Offers, offers[p].state # "absent"
          PROVE  /\ offers'[p].state # "absent"
                 /\ offers'[p].expires = offers[p].expires
      BY <2>4, <3>1
    <3> QED
      BY <1>3, <3>1, ClaimsFitKept
  <2>7. SingleCeremony'
    <3>1. ASSUME NEW p \in LiveOffers'
          PROVE  p \in LiveOffers
      BY <2>4, <3>1 DEF LiveOffers, LiveStates
    <3>2. ASSUME NEW d \in OpenChallenges'
          PROVE  /\ d \in OpenChallenges /\ d = c
                 /\ OfferOf(d)' = o
                 /\ challenges'[d].expires = challenges[d].expires
                 /\ offers'[o] = offers[o]
      <4>1. d \in Challenges /\ challenges'[d].state = "open"
        BY <3>2 DEF OpenChallenges
      <4>2. d = c
        BY <2>2, <2>3, <4>1 DEF OpenChallenges, SingleCeremony
      <4>3. ~locked
        BY <2>3, <4>1, <4>2
      <4> QED
        BY <1>2, <2>2, <2>3, <2>4, <4>1, <4>2, <4>3 DEF OfferOf
    <3> QED
      BY <2>2, <3>1, <3>2 DEF SingleCeremony
  <2> QED
    BY <1>1, <2>5, <2>6, <2>7
<1> QED
  BY <1>4, <1>5

\* A commit ends the only open challenge and its offer.
LEMMA CeremonyCommit ==
  ASSUME CeremonyInv, NEW h \in Handlers, CommitCompletion(h)
  PROVE  CeremonyInv'
<1> USE DEF CeremonyInv
<1> DEFINE t == now[h]
           c == job[h].ch
           o == JobChallenge(h).request.offer
           swept == SweptOffers(t)
           rows == SweptChallenges(t)
<1>1. TypeOK /\ TypeInv' /\ t \in Nat
  BY CommitType, EnrollmentAssumption DEF TypeInv, TypeOK
<1>2. c \in Challenges /\ o \in Offers
  BY JobCompletes DEF CommitCompletion, Completing
<1>3. /\ rows[c].state = "open" /\ swept[o].state = "claimed"
      /\ challenges' = [rows EXCEPT ![c].state = "completed"]
      /\ offers' = Retire(swept, o, "completed")
  BY DEF CommitCompletion, Committable, Completable
<1>4. c \in OpenChallenges
  BY <1>1, <1>2, <1>3, SweptChallenge DEF OpenChallenges
<1>5. ASSUME NEW p \in Offers
      PROVE  /\ offers'[p].expires = offers[p].expires
             /\ p # o => offers'[p] = swept[p]
             /\ p = o => offers'[p].state = "completed" /\ ~offers'[p].key
  <2>1. swept \in [Offers -> OfferRow]
    BY <1>1, SweptOffersType
  <2>2. swept[p] \in OfferRow /\ swept[p].expires = offers[p].expires
    BY <1>1, <2>1, SweptOffer
  <2> HIDE DEF swept
  <2>3. offers'[p] = IF p = o
          THEN [swept[p] EXCEPT !.state = "completed", !.key = FALSE]
          ELSE swept[p]
    BY <1>3, <2>1 DEF Retire
  <2> QED
    BY <2>2, <2>3 DEF OfferRow
<1>6. KeysOfLiveOffers'
  <2> SUFFICES ASSUME NEW p \in Offers
               PROVE  offers'[p].key <=> offers'[p].state \in LiveStates
    BY DEF KeysOfLiveOffers
  <2>1. swept[p].key <=> swept[p].state \in LiveStates
    BY <1>1, SweptOffer DEF KeysOfLiveOffers, LiveStates
  <2> QED
    BY <1>5, <2>1 DEF LiveStates
<1>7. ClaimsFit'
  <2>1. ASSUME NEW p \in Offers, offers[p].state # "absent"
        PROVE  /\ offers'[p].state # "absent"
               /\ offers'[p].expires = offers[p].expires
    BY <1>1, <1>5, <2>1, SweptOffer DEF LiveStates
  <2>2. ASSUME NEW g \in Handlers, pc'[g] = "insert_challenge"
        PROVE  /\ pc[g] = "insert_challenge"
               /\ job'[g] = job[g] /\ seen'[g] = seen[g]
    BY <1>1, <2>2 DEF CommitCompletion, GoTo, TypeOK
  <2> QED
    BY <2>1, <2>2, ClaimsFitKept
<1>8. \A d \in Challenges : challenges'[d].state # "open"
  <2> SUFFICES ASSUME NEW d \in Challenges PROVE challenges'[d].state # "open"
    OBVIOUS
  <2>1. rows \in [Challenges -> ChallengeRow]
    BY <1>1, SweptChallengesType DEF KeepsStored
  <2>2. CASE d = c
    <3>1. challenges'[c] = [rows[c] EXCEPT !.state = "completed"]
      BY <1>2, <1>3, <2>1
    <3>2. rows[c] \in ChallengeRow
      BY <1>2, <2>1
    <3> HIDE DEF rows
    <3> QED
      BY <2>2, <3>1, <3>2 DEF ChallengeRow
  <2>3. CASE d # c
    <3>1. challenges'[d] = rows[d]
      BY <1>3, <2>1, <2>3
    <3>2. challenges[d].state # "open"
      BY <1>4, <2>3 DEF OpenChallenges, SingleCeremony
    <3> QED
      BY <1>1, <3>1, <3>2, SweptChallenge
  <2> QED
    BY <2>2, <2>3
<1>9. ASSUME NEW p \in LiveOffers'
      PROVE  p \in LiveOffers
  BY <1>1, <1>5, <1>9, SweptOffer DEF LiveOffers, LiveStates
<1>10. SingleCeremony'
  BY <1>8, <1>9 DEF SingleCeremony, OpenChallenges
<1> QED
  BY <1>1, <1>6, <1>7, <1>10

LEMMA CeremonyStep == CeremonyInv /\ [Next]_vars => CeremonyInv'
<1> SUFFICES ASSUME CeremonyInv, [Next]_vars PROVE CeremonyInv'
  OBVIOUS
<1> USE DEF CeremonyInv
<1>1. TypeOK /\ TypeInv'
  BY NextType DEF TypeInv
<1>2. ASSUME NEW t \in Nat, offers' = SweptOffers(t),
             challenges' = SweptChallenges(t),
             \A h \in Handlers : pc'[h] = "insert_challenge" =>
               /\ pc[h] = "insert_challenge"
               /\ job'[h] = job[h] /\ seen'[h] = seen[h]
      PROVE  CeremonyInv'
  <2>1. ASSUME NEW p \in Offers, offers[p].state # "absent"
        PROVE  /\ offers'[p].state # "absent"
               /\ offers'[p].expires = offers[p].expires
    BY <1>1, <1>2, <2>1, SweptOffer DEF LiveStates
  <2> QED
    BY <1>1, <1>2, <2>1, ClaimsFitKept, CeremonySweep
<1>3. ASSUME UNCHANGED <<offers, challenges>>,
             \A h \in Handlers : pc'[h] = "insert_challenge" =>
               /\ pc[h] = "insert_challenge"
               /\ job'[h] = job[h] /\ seen'[h] = seen[h]
      PROVE  CeremonyInv'
  BY <1>1, <1>3, ClaimsFitKept, CeremonyRead
<1>4. ASSUME NEW h \in Handlers, NEW label, GoTo(h, label),
             label # "insert_challenge",
             \A g \in Handlers \ {h} : job'[g] = job[g] /\ seen'[g] = seen[g]
      PROVE  \A g \in Handlers : pc'[g] = "insert_challenge" =>
               /\ pc[g] = "insert_challenge"
               /\ job'[g] = job[g] /\ seen'[g] = seen[g]
  BY <1>1, <1>4 DEF GoTo, TypeOK
<1>5. CASE \E o \in Offers, at \in 0..MaxClock, ttl \in OfferTTLs :
             IssuePairingOffer(o, at, ttl)
  BY <1>5, CeremonyIssue
<1>6. CASE \E c \in Challenges : RevokeDevice(c)
  BY <1>3, <1>6 DEF RevokeDevice, frames
<1>7. CASE \E at \in 0..MaxClock : ExpirePending(at)
  <2>1. PICK at \in 0..MaxClock : ExpirePending(at)
    BY <1>7
  <2> QED
    BY <1>2, <2>1, EnrollmentAssumption DEF ExpirePending, frames
<1>8. CASE Tick \/ UNCHANGED vars
  BY <1>3, <1>8 DEF Tick, vars, tables, frames
<1>9. ASSUME NEW h \in Handlers,
             \/ \E r \in ChallengeRequests : ReceiveChallengeRequest(h, r)
             \/ \E q \in CompletionRequests : ReceiveCompletion(h, q)
             \/ Clear(h)
      PROVE  CeremonyInv'
  <2>1. UNCHANGED <<offers, challenges>>
    BY <1>9 DEF ReceiveChallengeRequest, ReceiveCompletion, Clear, tables
  <2>2. PICK label \in {"find_request", "find_completion", "idle"} :
          GoTo(h, label)
    BY <1>9 DEF ReceiveChallengeRequest, ReceiveCompletion, Clear
  <2>3. \A g \in Handlers \ {h} : job'[g] = job[g] /\ seen'[g] = seen[g]
    BY <1>1, <1>9
    DEF ReceiveChallengeRequest, ReceiveCompletion, Clear, TypeOK
  <2> QED
    BY <1>3, <1>4, <2>1, <2>2, <2>3
<1>10. ASSUME NEW h \in Handlers, NEW label, GoTo(h, label),
              label # "insert_challenge", UNCHANGED <<job, offers, challenges>>,
              \A g \in Handlers \ {h} : seen'[g] = seen[g]
       PROVE  CeremonyInv'
  BY <1>3, <1>4, <1>10
<1>11. ASSUME NEW h \in Handlers, NEW response, Answer(h, response),
              UNCHANGED tables
       PROVE  CeremonyInv'
  BY <1>10, <1>11 DEF Answer, tables
<1>12. ASSUME NEW h \in Handlers, HandlerStep(h)
       PROVE  CeremonyInv'
  <2>1. CASE FindRequest(h) \/ ReplayRequest(h)
    BY <1>10, <1>11, <2>1 DEF FindRequest, ReplayRequest, tables
  <2>2. CASE ExpireForClaim(h) \/ ExpireForCompletion(h)
    <3>1. now[h] \in Nat
      BY <1>1, EnrollmentAssumption DEF TypeOK
    <3>2. PICK label \in {"read_offer", "read_challenge"} : GoTo(h, label)
      BY <2>2 DEF ExpireForClaim, ExpireForCompletion
    <3> QED
      BY <1>2, <1>4, <2>2, <3>1, <3>2 DEF ExpireForClaim, ExpireForCompletion
  <2>3. CASE ReadOffer(h)
    <3>1. CASE AcceptableClaim(h)
      <4> DEFINE o == job[h].offer
      <4>1. /\ UNCHANGED <<offers, challenges, job>>
            /\ seen' = [seen EXCEPT ![h] =
                 Minimum(now[h] + ChallengeTTL, offers[o].expires)]
            /\ \A g \in Handlers \ {h} : pc'[g] = pc[g]
        BY <1>1, <2>3, <3>1 DEF ReadOffer, GoTo, tables, TypeOK
      <4>2. now[h] \in Nat /\ o \in Offers /\ offers[o].expires \in Nat
        BY <1>1, <2>3, EnrollmentAssumption
        DEF ReadOffer, TypeInv, HandlersServe, Waiting, ChallengeBody, TypeOK,
            OfferRow
      <4>3. seen'[h] <= offers[o].expires
        BY <1>1, <4>1, <4>2, EnrollmentAssumption DEF Minimum, TypeOK
      <4>4. offers[o].state # "absent"
        BY <3>1 DEF AcceptableClaim, Claimable, LiveStates
      <4>5. \A g \in Handlers \ {h} : seen'[g] = seen[g]
        BY <1>1, <4>1 DEF TypeOK
      <4>6. ClaimsFit'
        BY <4>1, <4>3, <4>4, <4>5 DEF ClaimsFit
      <4> QED
        BY <1>1, <4>1, <4>6, CeremonyRead
    <3>2. CASE ~AcceptableClaim(h)
      BY <1>11, <2>3, <3>2 DEF ReadOffer
    <3> QED
      BY <3>1, <3>2
  <2>4. CASE \E c \in Challenges : InsertChallenge(h, c)
    BY <2>4, CeremonyInsert
  <2>5. CASE RejectChallenge(h) \/ RejectCompletion(h)
    BY <1>10, <2>5 DEF RejectChallenge, RejectCompletion, tables
  <2>6. CASE FindCompletion(h)
    BY <1>10, <1>11, <2>6 DEF FindCompletion, tables
  <2>7. CASE ReadOpenChallenge(h)
    <3>1. PICK label \in {"commit_completion", "record_failure",
                          "replay_unopened"} : GoTo(h, label)
      BY <2>7 DEF ReadOpenChallenge
    <3>2. \A g \in Handlers \ {h} : seen'[g] = seen[g]
      BY <1>1, <2>7 DEF ReadOpenChallenge, TypeOK
    <3> QED
      BY <1>10, <2>7, <3>1, <3>2 DEF ReadOpenChallenge, tables
  <2>8. CASE RecordFailedCompletion(h)
    BY <2>8, CeremonyFailed
  <2>9. CASE CommitCompletion(h)
    BY <2>9, CeremonyCommit
  <2>10. CASE ReadDevice(h) \/ ReplayCompletion(h)
    BY <1>11, <2>10 DEF ReadDevice, ReplayCompletion
  <2>11. CASE Respond(h)
    BY <1>9, <2>11 DEF Respond
  <2> QED
    BY <1>12, <2>1, <2>2, <2>3, <2>4, <2>5, <2>6, <2>7, <2>8, <2>9, <2>10,
       <2>11 DEF HandlerStep
<1> QED
  BY <1>5, <1>6, <1>7, <1>8, <1>9, <1>12 DEF Next, Abort

LEMMA CeremonyAlways == Spec => []CeremonyInv
  BY CeremonyInit, CeremonyStep, PTL DEF Spec

\* However handlers, the operator and the sweeps interleave, one pairing window
\* is open at a time: one live offer, one open challenge, and that challenge
\* is the live offer's, can be verified and does not outlive it.
THEOREM OneCeremony == Spec => []SingleCeremony
<1>1. CeremonyInv => SingleCeremony
  BY DEF CeremonyInv
<1> QED
  BY <1>1, CeremonyAlways, PTL

(***************************************************************************)
(* III. What a step does to a row, whichever of the sweeps and updates it  *)
(* is made of.                                                             *)
(***************************************************************************)

\* An offer keeps its deadline; what it has lost does not come back.
OfferAges(old, new) ==
  old.state # "absent" =>
    /\ new.state # "absent" /\ new.expires = old.expires
    /\ old.state \notin LiveStates => new.state = old.state
    /\ ~old.key => ~new.key

\* A challenge keeps its request and its window, and once closed all it has.
ChallengeAges(old, new) ==
  /\ new.state = "absent" <=> old.state = "absent"
  /\ old.state # "absent" =>
       /\ new.request = old.request
       /\ new.issued = old.issued /\ new.expires = old.expires
       /\ old.state # "open" => new = old

RowsAge ==
  /\ \A o \in Offers : OfferAges(offers[o], offers'[o])
  /\ \A c \in Challenges :
       \/ ChallengeAges(challenges[c], challenges'[c])
       \/ /\ challenges[c].state = "absent"
          /\ \E h \in Handlers : challenges'[c].issued = now[h]

LEMMA SweptOfferAges ==
  ASSUME TypeOK, NEW t \in Nat, NEW o \in Offers
  PROVE  /\ SweptOffers(t)[o] \in OfferRow
         /\ OfferAges(offers[o], SweptOffers(t)[o])
<1>1. SweptOffers(t)[o] \in OfferRow
  BY SweptOffersType
<1>2. offers[o] \in OfferRow
  BY DEF TypeOK
<1> QED
  BY <1>1, <1>2, SweptOffer DEF OfferAges, LiveStates

LEMMA SweptChallengeAges ==
  ASSUME TypeOK, NEW t \in Nat, NEW c \in Challenges
  PROVE  /\ SweptChallenges(t)[c] \in ChallengeRow
         /\ ChallengeAges(challenges[c], SweptChallenges(t)[c])
<1>1. SweptChallenges(t)[c] \in ChallengeRow
  BY SweptChallengesType DEF KeepsStored
<1>2. challenges[c] \in ChallengeRow
  BY DEF TypeOK
<1>3. SweptChallenges(t)[c] =
        IF challenges[c].state = "open" /\ challenges[c].expires <= t
          THEN [challenges[c] EXCEPT !.state = "expired"] ELSE challenges[c]
  BY DEF SweptChallenges
<1> QED
  BY <1>1, <1>2, <1>3 DEF ChallengeAges, ChallengeRow

LEMMA SupersededAges ==
  ASSUME NEW old, NEW row \in ChallengeRow, ChallengeAges(old, row),
         NEW new \in {row, [row EXCEPT !.state = "superseded"]},
         new # row => row.state = "open"
  PROVE  ChallengeAges(old, new)
<1>1. CASE new = row
  BY <1>1
<1>2. CASE new = [row EXCEPT !.state = "superseded"] /\ row.state = "open"
  <2>1. /\ new.state = "superseded" /\ new.request = row.request
        /\ new.issued = row.issued /\ new.expires = row.expires
    BY <1>2 DEF ChallengeRow
  <2>2. old.state # "absent" => old.state = "open"
    BY <1>2 DEF ChallengeAges
  <2> QED
    BY <1>2, <2>1, <2>2 DEF ChallengeAges
<1> QED
  BY <1>1, <1>2

LEMMA RetiredAges ==
  ASSUME NEW old, NEW row \in OfferRow, OfferAges(old, row),
         row.state \in LiveStates,
         NEW final \in OfferStates, NEW new,
         new = [row EXCEPT !.state = final, !.key = FALSE]
  PROVE  OfferAges(old, new)
<1>1. new.state = final /\ new.key = FALSE /\ new.expires = row.expires
  BY DEF OfferRow
<1>2. old.state # "absent" => old.state \in LiveStates
  BY DEF OfferAges
<1> QED
  BY <1>1, <1>2 DEF OfferAges, OfferStates, LiveStates

LEMMA IssueAges ==
  ASSUME CeremonyInv, NEW o \in Offers, NEW at \in 0..MaxClock,
         NEW ttl \in OfferTTLs, IssuePairingOffer(o, at, ttl)
  PROVE  RowsAge
<1> DEFINE swept == SweptOffers(at)
           rows == SweptChallenges(at)
<1>1. TypeOK /\ at \in Nat
  BY EnrollmentAssumption DEF CeremonyInv, TypeInv
<1>2. ASSUME NEW p \in Offers PROVE OfferAges(offers[p], offers'[p])
  <2>1. swept[p] \in OfferRow /\ OfferAges(offers[p], swept[p])
    BY <1>1, SweptOfferAges
  <2>2. CASE p = o
    BY <2>2 DEF IssuePairingOffer, OfferAges
  <2>3. CASE p # o
    <3>1. offers'[p] = IF swept[p].state \in LiveStates /\ swept[p].key
            THEN [swept[p] EXCEPT !.state = "revoked", !.key = FALSE]
            ELSE swept[p]
      BY <2>3 DEF IssuePairingOffer
    <3> HIDE DEF swept
    <3> QED
      BY <2>1, <3>1, RetiredAges DEF OfferStates
  <2> QED
    BY <2>2, <2>3
<1>3. ASSUME NEW c \in Challenges
      PROVE  ChallengeAges(challenges[c], challenges'[c])
  <2>1. rows[c] \in ChallengeRow /\ ChallengeAges(challenges[c], rows[c])
    BY <1>1, SweptChallengeAges
  <2>2. challenges'[c] = IF rows[c].state = "open"
          THEN [rows[c] EXCEPT !.state = "superseded"] ELSE rows[c]
    BY DEF IssuePairingOffer, Supersede
  <2> HIDE DEF rows
  <2> QED
    BY <2>1, <2>2, SupersededAges
<1> QED
  BY <1>2, <1>3 DEF RowsAge

LEMMA SweepAges ==
  ASSUME TypeOK, NEW t \in Nat,
         offers' = SweptOffers(t), challenges' = SweptChallenges(t)
  PROVE  RowsAge
BY SweptOfferAges, SweptChallengeAges DEF RowsAge

LEMMA InsertAges ==
  ASSUME CeremonyInv, NEW h \in Handlers, NEW c \in Challenges,
         InsertChallenge(h, c)
  PROVE  RowsAge
<1> DEFINE t == now[h]
           o == job[h].offer
           swept == SweptOffers(t)
           rows == SweptChallenges(t)
           rivals == {d \in Stored : challenges[d].request.offer = o}
           row == [state |-> "open", request |-> job[h], failed |-> 0,
                   issued |-> now[h], expires |-> seen[h]]
<1>1. TypeOK /\ t \in Nat
  BY EnrollmentAssumption DEF CeremonyInv, TypeInv, TypeOK
<1>2. /\ offers' = [swept EXCEPT ![o].state = "claimed",
                                 ![o].claims = swept[o].claims + 1]
      /\ challenges' = [Supersede(rows, rivals) EXCEPT ![c] = row]
      /\ swept[o].state \in LiveStates /\ challenges[c].state = "absent"
  BY DEF InsertChallenge, Insertable, Claimable
<1>3. swept \in [Offers -> OfferRow] /\ KeepsStored(Supersede(rows, rivals))
  BY <1>1, SweptOffersType, SweptChallengesType, SupersedeType
<1>4. ASSUME NEW p \in Offers PROVE OfferAges(offers[p], offers'[p])
  <2>1. swept[p] \in OfferRow /\ OfferAges(offers[p], swept[p])
    BY <1>1, SweptOfferAges
  <2>2. CASE p # o
    BY <1>2, <1>3, <2>1, <2>2
  <2>3. CASE p = o
    <3>1. offers'[p] = [swept[p] EXCEPT !.state = "claimed",
                                        !.claims = swept[p].claims + 1]
      BY <1>2, <1>3, <2>3
    <3> HIDE DEF swept
    <3>2. /\ offers'[p].state = "claimed" /\ offers'[p].key = swept[p].key
          /\ offers'[p].expires = swept[p].expires
      BY <2>1, <3>1 DEF OfferRow
    <3>3. swept[p].state \in LiveStates
      BY <1>2, <2>3
    <3> QED
      BY <2>1, <3>2, <3>3 DEF OfferAges, LiveStates
  <2> QED
    BY <2>2, <2>3
<1>5. ASSUME NEW d \in Challenges, d # c
      PROVE  ChallengeAges(challenges[d], challenges'[d])
  <2>1. rows[d] \in ChallengeRow /\ ChallengeAges(challenges[d], rows[d])
    BY <1>1, SweptChallengeAges
  <2>2. challenges'[d] = Supersede(rows, rivals)[d]
    BY <1>2, <1>3, <1>5 DEF KeepsStored
  <2>3. challenges'[d] = IF d \in rivals /\ rows[d].state = "open"
          THEN [rows[d] EXCEPT !.state = "superseded"] ELSE rows[d]
    BY <2>2 DEF Supersede
  <2> HIDE DEF rows, rivals
  <2> QED
    BY <2>1, <2>3, SupersededAges
<1>6. challenges'[c].issued = now[h]
  BY <1>2, <1>3 DEF KeepsStored
<1> QED
  BY <1>2, <1>4, <1>5, <1>6 DEF RowsAge

LEMMA FailedAges ==
  ASSUME CeremonyInv, NEW h \in Handlers, RecordFailedCompletion(h)
  PROVE  RowsAge
<1> DEFINE c == job[h].ch
           o == JobChallenge(h).request.offer
           failures == JobChallenge(h).failed + 1
           locked == failures >= MaxChallengeFailures
<1>1. TypeOK /\ TypeInv
  BY DEF CeremonyInv, TypeInv
<1>2. c \in Challenges /\ o \in Offers
  BY <1>1, JobCompletes DEF RecordFailedCompletion, Completing
<1>3. ASSUME NEW p \in Offers PROVE OfferAges(offers[p], offers'[p])
  <2>1. \/ offers' = offers
        \/ offers[o].state = "claimed" /\ offers' = Retire(offers, o, "locked")
    BY DEF RecordFailedCompletion
  <2>2. offers[p] \in OfferRow /\ OfferAges(offers[p], offers[p])
    BY <1>1 DEF TypeOK, OfferAges
  <2>3. Retire(offers, o, "locked")[p] = IF p = o
          THEN [offers[p] EXCEPT !.state = "locked", !.key = FALSE]
          ELSE offers[p]
    BY <1>1 DEF Retire, TypeOK
  <2> QED
    BY <2>1, <2>2, <2>3, RetiredAges DEF OfferStates, LiveStates
<1>4. ASSUME NEW d \in Challenges
      PROVE  ChallengeAges(challenges[d], challenges'[d])
  <2>1. challenges[d] \in ChallengeRow /\ ChallengeAges(challenges[d], challenges[d])
    BY <1>1 DEF TypeOK, ChallengeAges
  <2>2. CASE challenges' = challenges
    BY <2>1, <2>2
  <2>3. CASE /\ challenges[c].state = "open"
             /\ challenges' = [challenges EXCEPT
                  ![c].failed = failures,
                  ![c].state = IF locked THEN "locked" ELSE "open"]
    <3>1. CASE d # c
      BY <1>1, <2>1, <2>3, <3>1 DEF TypeOK
    <3>2. CASE d = c
      <4>1. challenges'[c] = [challenges[c] EXCEPT
              !.failed = failures,
              !.state = IF locked THEN "locked" ELSE "open"]
        BY <1>1, <1>2, <2>3 DEF TypeOK
      <4> HIDE DEF failures, locked
      <4>2. /\ challenges'[c].request = challenges[c].request
            /\ challenges'[c].issued = challenges[c].issued
            /\ challenges'[c].expires = challenges[c].expires
            /\ challenges'[c].state = IF locked THEN "locked" ELSE "open"
        BY <2>1, <3>2, <4>1 DEF ChallengeRow
      <4> QED
        BY <2>3, <3>2, <4>2 DEF ChallengeAges
    <3> QED
      BY <3>1, <3>2
  <2> QED
    BY <2>2, <2>3 DEF RecordFailedCompletion, JobChallenge
<1> QED
  BY <1>3, <1>4 DEF RowsAge

LEMMA CommitAges ==
  ASSUME CeremonyInv, NEW h \in Handlers, CommitCompletion(h)
  PROVE  RowsAge
<1> DEFINE t == now[h]
           c == job[h].ch
           o == JobChallenge(h).request.offer
           swept == SweptOffers(t)
           rows == SweptChallenges(t)
<1>1. TypeOK /\ TypeInv /\ t \in Nat
  BY EnrollmentAssumption DEF CeremonyInv, TypeInv, TypeOK
<1>2. c \in Challenges /\ o \in Offers
  BY <1>1, JobCompletes DEF CommitCompletion, Completing
<1>3. /\ rows[c].state = "open" /\ swept[o].state = "claimed"
      /\ challenges' = [rows EXCEPT ![c].state = "completed"]
      /\ offers' = Retire(swept, o, "completed")
  BY DEF CommitCompletion, Committable, Completable, JobChallenge
<1>4. swept \in [Offers -> OfferRow] /\ rows \in [Challenges -> ChallengeRow]
  BY <1>1, SweptOffersType, SweptChallengesType DEF KeepsStored
<1>5. ASSUME NEW p \in Offers PROVE OfferAges(offers[p], offers'[p])
  <2>1. swept[p] \in OfferRow /\ OfferAges(offers[p], swept[p])
    BY <1>1, SweptOfferAges
  <2> HIDE DEF swept
  <2>2. offers'[p] = IF p = o
          THEN [swept[p] EXCEPT !.state = "completed", !.key = FALSE]
          ELSE swept[p]
    BY <1>3, <1>4 DEF Retire
  <2> QED
    BY <1>3, <2>1, <2>2, RetiredAges DEF OfferStates, LiveStates
<1>6. ASSUME NEW d \in Challenges
      PROVE  ChallengeAges(challenges[d], challenges'[d])
  <2>1. rows[d] \in ChallengeRow /\ ChallengeAges(challenges[d], rows[d])
    BY <1>1, SweptChallengeAges
  <2> HIDE DEF rows
  <2>2. challenges'[d] = IF d = c
          THEN [rows[d] EXCEPT !.state = "completed"] ELSE rows[d]
    BY <1>3, <1>4
  <2>3. CASE d # c
    BY <2>1, <2>2, <2>3
  <2>4. CASE d = c
    <3>1. /\ challenges'[d].state = "completed" /\ rows[d].state = "open"
          /\ challenges'[d].request = rows[d].request
          /\ challenges'[d].issued = rows[d].issued
          /\ challenges'[d].expires = rows[d].expires
      BY <1>3, <2>1, <2>2, <2>4 DEF ChallengeRow
    <3> QED
      BY <2>1, <3>1 DEF ChallengeAges
  <2> QED
    BY <2>3, <2>4
<1> QED
  BY <1>5, <1>6 DEF RowsAge

LEMMA UnchangedAges ==
  ASSUME UNCHANGED <<offers, challenges>>
  PROVE  RowsAge
BY DEF RowsAge, OfferAges, ChallengeAges

LEMMA HandlerAges ==
  ASSUME CeremonyInv, NEW h \in Handlers, HandlerStep(h)
  PROVE  RowsAge
<1>1. TypeOK /\ now[h] \in Nat
  BY EnrollmentAssumption DEF CeremonyInv, TypeInv, TypeOK
<1>2. CASE ExpireForClaim(h) \/ ExpireForCompletion(h)
  BY <1>1, <1>2, SweepAges DEF ExpireForClaim, ExpireForCompletion
<1>3. CASE \/ FindRequest(h) \/ ReadOffer(h) \/ RejectChallenge(h)
           \/ ReplayRequest(h) \/ FindCompletion(h) \/ ReadOpenChallenge(h)
           \/ RejectCompletion(h) \/ ReadDevice(h) \/ ReplayCompletion(h)
           \/ Respond(h)
  <2>1. UNCHANGED tables
    BY <1>3
    DEF FindRequest, ReadOffer, RejectChallenge, ReplayRequest, FindCompletion,
        ReadOpenChallenge, RejectCompletion, ReadDevice, ReplayCompletion,
        Respond, Clear
  <2> QED
    BY <2>1, UnchangedAges DEF tables
<1> QED
  BY <1>2, <1>3, InsertAges, FailedAges, CommitAges DEF HandlerStep

LEMMA StepAges ==
  ASSUME CeremonyInv, [Next]_vars
  PROVE  RowsAge
<1>1. TypeOK
  BY DEF CeremonyInv, TypeInv
<1>2. CASE \E at \in 0..MaxClock : ExpirePending(at)
  BY <1>1, <1>2, SweepAges, EnrollmentAssumption DEF ExpirePending
<1>3. CASE Tick \/ UNCHANGED vars \/ \E c \in Challenges : RevokeDevice(c)
  BY <1>3, UnchangedAges DEF Tick, vars, tables, RevokeDevice
<1>4. ASSUME NEW h \in Handlers,
             \/ \E r \in ChallengeRequests : ReceiveChallengeRequest(h, r)
             \/ \E q \in CompletionRequests : ReceiveCompletion(h, q)
             \/ Abort(h)
      PROVE  RowsAge
  BY <1>4, UnchangedAges
  DEF ReceiveChallengeRequest, ReceiveCompletion, Abort, Clear, tables
<1> QED
  BY <1>2, <1>3, <1>4, IssueAges, HandlerAges DEF Next

(***************************************************************************)
(* IV. What is logged and counted.                                         *)
(***************************************************************************)

\* A row that takes part in no claim, no failure, no lock and no revocation:
\* a sweep, a completion or its being superseded leaves it so.
ChallengePlain(old, new) ==
  /\ new.state = "absent" <=> old.state = "absent"
  /\ new.state = "locked" <=> old.state = "locked"
  /\ new.state = "open" => old.state = "open"
  /\ new.failed = old.failed
  /\ new.request = old.request

OfferPlain(old, new) ==
  /\ new.state = "absent" <=> old.state = "absent"
  /\ new.state = "revoked" <=> old.state = "revoked"
  /\ old.state = "locked" => new.state = "locked"
  /\ new.claims = old.claims

ChallengesPlain ==
  \A c \in Challenges : ChallengePlain(challenges[c], challenges'[c])
OffersPlain == \A o \in Offers : OfferPlain(offers[o], offers'[o])

LEMMA SweptPlain ==
  ASSUME TypeOK, NEW t \in Nat
  PROVE  /\ \A c \in Challenges :
              /\ SweptChallenges(t)[c] \in ChallengeRow
              /\ ChallengePlain(challenges[c], SweptChallenges(t)[c])
         /\ \A o \in Offers :
              /\ SweptOffers(t)[o] \in OfferRow
              /\ OfferPlain(offers[o], SweptOffers(t)[o])
<1>1. ASSUME NEW c \in Challenges
      PROVE  /\ SweptChallenges(t)[c] \in ChallengeRow
             /\ ChallengePlain(challenges[c], SweptChallenges(t)[c])
  <2>1. challenges[c] \in ChallengeRow /\ SweptChallenges(t)[c] \in ChallengeRow
    BY SweptChallengesType DEF TypeOK, KeepsStored
  <2>2. SweptChallenges(t)[c] =
          IF challenges[c].state = "open" /\ challenges[c].expires <= t
            THEN [challenges[c] EXCEPT !.state = "expired"] ELSE challenges[c]
    BY DEF SweptChallenges
  <2> QED BY <2>1, <2>2 DEF ChallengePlain, ChallengeRow
<1>2. ASSUME NEW o \in Offers
      PROVE  /\ SweptOffers(t)[o] \in OfferRow
             /\ OfferPlain(offers[o], SweptOffers(t)[o])
  <2>1. offers[o] \in OfferRow /\ SweptOffers(t)[o] \in OfferRow
    BY SweptOffersType DEF TypeOK
  <2>2. SweptOffers(t)[o] =
          IF offers[o].state \in LiveStates /\ offers[o].expires <= t
            THEN [offers[o] EXCEPT !.state = "expired", !.key = FALSE] ELSE offers[o]
    BY DEF SweptOffers
  <2> QED BY <2>1, <2>2 DEF OfferPlain, OfferRow, LiveStates
<1> QED BY <1>1, <1>2

LEMMA SupersededPlain ==
  ASSUME NEW old, NEW rows, NEW S, NEW c \in Challenges,
         rows[c] \in ChallengeRow, ChallengePlain(old, rows[c])
  PROVE  ChallengePlain(old, Supersede(rows, S)[c])
BY DEF Supersede, ChallengePlain, ChallengeRow

\* issue_pairing_offer.
LEMMA IssueTally ==
  ASSUME CeremonyInv, NEW o \in Offers, NEW at \in 0..MaxClock,
         NEW ttl \in OfferTTLs, IssuePairingOffer(o, at, ttl)
  PROVE  LET previous == {p \in Offers : SweptOffers(at)[p].state \in LiveStates
                                         /\ SweptOffers(at)[p].key}
         IN /\ ChallengesPlain
            /\ offers[o].state = "absent" /\ o \notin previous
            /\ offers'[o].state = "created" /\ offers'[o].claims = 0
            /\ \A p \in Offers \ {o} :
                 IF p \in previous
                   THEN /\ offers[p].state \in LiveStates
                        /\ offers'[p].state = "revoked"
                        /\ offers'[p].claims = offers[p].claims
                   ELSE OfferPlain(offers[p], offers'[p])
<1> DEFINE swept == SweptOffers(at)
           previous == {p \in Offers : swept[p].state \in LiveStates /\ swept[p].key}
<1>1. TypeOK /\ at \in Nat
  BY EnrollmentAssumption DEF CeremonyInv, TypeInv
<1>2. ChallengesPlain
  BY <1>1, SweptPlain, SupersededPlain DEF IssuePairingOffer, ChallengesPlain
<1>3. /\ offers[o].state = "absent"
      /\ offers'[o] = [state |-> "created", key |-> TRUE, claims |-> 0,
                       expires |-> at + ttl]
  BY DEF IssuePairingOffer
<1>4. o \notin previous
  BY <1>1, <1>3, SweptPlain DEF OfferPlain, LiveStates
<1>5. ASSUME NEW p \in Offers, p # o
      PROVE  IF p \in previous
               THEN /\ offers[p].state \in LiveStates
                    /\ offers'[p].state = "revoked"
                    /\ offers'[p].claims = offers[p].claims
               ELSE OfferPlain(offers[p], offers'[p])
  <2>1. /\ swept[p] \in OfferRow /\ OfferPlain(offers[p], swept[p])
        /\ swept[p].state \in LiveStates => offers[p].state \in LiveStates
    BY <1>1, SweptPlain, SweptOffer DEF LiveStates
  <2>2. offers'[p] = IF p \in previous
          THEN [swept[p] EXCEPT !.state = "revoked", !.key = FALSE] ELSE swept[p]
    BY <1>5 DEF IssuePairingOffer
  <2>3. p \in previous => swept[p].state \in LiveStates
    OBVIOUS
  <2> HIDE DEF swept, previous
  <2>4. CASE p \in previous
    <3>1. offers'[p].state = "revoked" /\ offers'[p].claims = swept[p].claims
      BY <2>1, <2>2, <2>4 DEF OfferRow
    <3> QED
      BY <2>1, <2>3, <2>4, <3>1 DEF OfferPlain
  <2>5. CASE p \notin previous
    BY <2>1, <2>2, <2>5
  <2> QED BY <2>4, <2>5
<1> QED BY <1>2, <1>3, <1>4, <1>5

\* create_challenge.
LEMMA InsertTally ==
  ASSUME CeremonyInv, NEW h \in Handlers, NEW c \in Challenges,
         InsertChallenge(h, c)
  PROVE  LET o == job[h].offer
         IN /\ o \in Offers /\ offers[o].state \in LiveStates
            /\ offers[o].claims < MaxOfferClaims
            /\ offers'[o].state = "claimed"
            /\ offers'[o].claims = offers[o].claims + 1
            /\ \A p \in Offers \ {o} : OfferPlain(offers[p], offers'[p])
            /\ challenges[c].state = "absent"
            /\ challenges'[c].state = "open" /\ challenges'[c].failed = 0
            /\ challenges'[c].request = job[h]
            /\ \A d \in Challenges \ {c} :
                 ChallengePlain(challenges[d], challenges'[d])
            /\ \A d \in Challenges \ {c} :
                 challenges'[d].state = "open" => OfferOf(d) # o
<1> DEFINE t == now[h]
           o == job[h].offer
           swept == SweptOffers(t)
           rows == SweptChallenges(t)
           rivals == {d \in Stored : challenges[d].request.offer = o}
           row == [state |-> "open", request |-> job[h], failed |-> 0,
                   issued |-> now[h], expires |-> seen[h]]
<1>1. TypeOK /\ TypeInv /\ t \in Nat
  BY EnrollmentAssumption DEF CeremonyInv, TypeInv, TypeOK
<1>2. o \in Offers
  BY <1>1, EnrollmentAssumption
     DEF InsertChallenge, TypeInv, HandlersServe, Waiting, ChallengeBody
<1>3. /\ offers' = [swept EXCEPT ![o].state = "claimed",
                                 ![o].claims = swept[o].claims + 1]
      /\ challenges' = [Supersede(rows, rivals) EXCEPT ![c] = row]
      /\ swept[o].state \in LiveStates /\ swept[o].claims < MaxOfferClaims
      /\ challenges[c].state = "absent"
  BY DEF InsertChallenge, Insertable, Claimable
<1>4. swept \in [Offers -> OfferRow] /\ KeepsStored(Supersede(rows, rivals))
  BY <1>1, SweptOffersType, SweptChallengesType, SupersedeType
<1>5. ASSUME NEW p \in Offers
      PROVE  /\ swept[p] \in OfferRow /\ OfferPlain(offers[p], swept[p])
             /\ swept[p].state \in LiveStates => offers[p].state \in LiveStates
  BY <1>1, SweptPlain, SweptOffer DEF LiveStates
<1>6. /\ offers[o].state \in LiveStates /\ offers[o].claims < MaxOfferClaims
      /\ offers'[o].state = "claimed" /\ offers'[o].claims = offers[o].claims + 1
  <2>1. offers'[o] = [swept[o] EXCEPT !.state = "claimed",
                                      !.claims = swept[o].claims + 1]
    BY <1>2, <1>3, <1>4
  <2>2. swept[o] \in OfferRow /\ OfferPlain(offers[o], swept[o])
    BY <1>2, <1>5
  <2>3. /\ swept[o].state \in LiveStates /\ swept[o].claims < MaxOfferClaims
        /\ swept[o].state \in LiveStates => offers[o].state \in LiveStates
    BY <1>2, <1>3, <1>5
  <2> HIDE DEF swept, o
  <2> QED BY <2>1, <2>2, <2>3 DEF OfferPlain, OfferRow
<1>7. ASSUME NEW p \in Offers, p # o PROVE OfferPlain(offers[p], offers'[p])
  <2>1. offers'[p] = swept[p]
    BY <1>3, <1>4, <1>7
  <2> QED BY <1>5, <2>1
<1>8. challenges'[c] = row
  BY <1>3, <1>4 DEF KeepsStored
<1>9. ASSUME NEW d \in Challenges, d # c
      PROVE  /\ ChallengePlain(challenges[d], challenges'[d])
             /\ challenges'[d].state = "open" => OfferOf(d) # o
  <2>1. challenges'[d] = Supersede(rows, rivals)[d]
    BY <1>3, <1>4, <1>9 DEF KeepsStored
  <2>2. /\ rows[d] \in ChallengeRow /\ ChallengePlain(challenges[d], rows[d])
    BY <1>1, SweptPlain
  <2>3. ChallengePlain(challenges[d], challenges'[d])
    BY <2>1, <2>2, SupersededPlain
  <2>4. ASSUME challenges'[d].state = "open", OfferOf(d) = o PROVE FALSE
    <3>1. d \in Stored /\ d \in rivals
      BY <2>3, <2>4 DEF ChallengePlain, Stored, OfferOf
    <3>2. Supersede(rows, rivals)[d].state # "open"
      <4> HIDE DEF rows, rivals
      <4> QED BY <2>2, <3>1 DEF Supersede, ChallengeRow
    <3> QED BY <2>1, <2>4, <3>2
  <2> QED BY <2>3, <2>4
<1> QED BY <1>2, <1>3, <1>6, <1>7, <1>8, <1>9

\* record_failed_completion.
LEMMA FailedTally ==
  ASSUME CeremonyInv, NEW h \in Handlers, RecordFailedCompletion(h)
  PROVE  LET c == job[h].ch
             failures == challenges[c].failed + 1
             locked == failures >= MaxChallengeFailures
         IN /\ c \in Challenges
            /\ \/ UNCHANGED <<offers, challenges, audit>>
               \/ /\ c \in OpenChallenges
                  /\ challenges'[c].failed = failures
                  /\ challenges'[c].state = IF locked THEN "locked" ELSE "open"
                  /\ challenges'[c].request = challenges[c].request
                  /\ \A d \in Challenges \ {c} :
                       ChallengePlain(challenges[d], challenges'[d])
                  /\ OffersPlain
                  /\ locked => offers'[OfferOf(c)].state = "locked"
                  /\ audit' = audit \cup
                       {e \in {<<"enrollment_challenge.locked", c>>} : locked}
<1> DEFINE c == job[h].ch
           o == OfferOf(c)
           failures == challenges[c].failed + 1
           locked == failures >= MaxChallengeFailures
<1>1. TypeOK /\ TypeInv
  BY DEF CeremonyInv, TypeInv
<1>2. c \in Challenges /\ o \in Offers
  BY <1>1, JobCompletes DEF RecordFailedCompletion, Completing, JobChallenge, OfferOf
<1>3. CASE challenges[c].state = "open"
  <2>1. /\ challenges' = [challenges EXCEPT
             ![c].failed = failures, ![c].state = IF locked THEN "locked" ELSE "open"]
        /\ offers' = IF locked /\ offers[o].state = "claimed"
                       THEN Retire(offers, o, "locked") ELSE offers
        /\ audit' = audit \cup {e \in {<<"enrollment_challenge.locked", c>>} : locked}
    BY <1>3 DEF RecordFailedCompletion, JobChallenge, OfferOf
  <2>2. c \in OpenChallenges /\ offers[o].state = "claimed"
    BY <1>2, <1>3 DEF OpenChallenges, CeremonyInv, SingleCeremony
  <2>3. challenges[c] \in ChallengeRow /\ challenges \in [Challenges -> ChallengeRow]
        /\ offers \in [Offers -> OfferRow]
    BY <1>1, <1>2 DEF TypeOK
  <2>4. challenges'[c] = [challenges[c] EXCEPT
          !.failed = failures, !.state = IF locked THEN "locked" ELSE "open"]
    BY <1>2, <2>1, <2>3
  <2>5. ASSUME NEW d \in Challenges, d # c
        PROVE  ChallengePlain(challenges[d], challenges'[d])
    BY <2>1, <2>3, <2>5 DEF ChallengePlain
  <2>6. ASSUME NEW p \in Offers
        PROVE  /\ OfferPlain(offers[p], offers'[p])
               /\ p = o /\ locked => offers'[p].state = "locked"
    <3>1. offers[p] \in OfferRow
      BY <2>3
    <3>2. offers'[p] = IF p = o /\ locked
            THEN [offers[p] EXCEPT !.state = "locked", !.key = FALSE] ELSE offers[p]
      BY <2>1, <2>2, <2>3 DEF Retire
    <3> HIDE DEF locked, o
    <3>3. p = o => offers[p].state = "claimed"
      BY <2>2
    <3> QED BY <3>1, <3>2, <3>3 DEF OfferPlain, OfferRow
  <2> HIDE DEF failures, locked
  <2>7. /\ challenges'[c].failed = failures
        /\ challenges'[c].state = IF locked THEN "locked" ELSE "open"
        /\ challenges'[c].request = challenges[c].request
    BY <2>3, <2>4 DEF ChallengeRow
  <2> QED BY <1>2, <2>1, <2>2, <2>5, <2>6, <2>7 DEF OffersPlain, failures, locked
<1>4. CASE challenges[c].state # "open"
  BY <1>2, <1>4 DEF RecordFailedCompletion, JobChallenge
<1> QED BY <1>3, <1>4

\* complete_challenge.
LEMMA CommitTally ==
  ASSUME CeremonyInv, NEW h \in Handlers, CommitCompletion(h)
  PROVE  /\ ChallengesPlain /\ OffersPlain
         /\ job[h].ch \in Challenges
<1> DEFINE t == now[h]
           c == job[h].ch
           o == JobChallenge(h).request.offer
           swept == SweptOffers(t)
           rows == SweptChallenges(t)
<1>1. TypeOK /\ TypeInv /\ t \in Nat
  BY EnrollmentAssumption DEF CeremonyInv, TypeInv, TypeOK
<1>2. c \in Challenges /\ o \in Offers
  BY <1>1, JobCompletes DEF CommitCompletion, Completing
<1>3. /\ rows[c].state = "open" /\ swept[o].state = "claimed"
      /\ challenges' = [rows EXCEPT ![c].state = "completed"]
      /\ offers' = Retire(swept, o, "completed")
  BY DEF CommitCompletion, Committable, Completable, JobChallenge
<1>4. swept \in [Offers -> OfferRow] /\ rows \in [Challenges -> ChallengeRow]
  BY <1>1, SweptOffersType, SweptChallengesType DEF KeepsStored
<1>5. ASSUME NEW p \in Offers PROVE OfferPlain(offers[p], offers'[p])
  <2>1. swept[p] \in OfferRow /\ OfferPlain(offers[p], swept[p])
    BY <1>1, SweptPlain
  <2>2. offers'[p] = IF p = o
          THEN [swept[p] EXCEPT !.state = "completed", !.key = FALSE] ELSE swept[p]
    BY <1>3, <1>4 DEF Retire
  <2>3. p = o => swept[p].state = "claimed"
    BY <1>3
  <2> HIDE DEF swept, o
  <2> QED BY <2>1, <2>2, <2>3 DEF OfferPlain, OfferRow
<1>6. ASSUME NEW d \in Challenges PROVE ChallengePlain(challenges[d], challenges'[d])
  <2>1. rows[d] \in ChallengeRow /\ ChallengePlain(challenges[d], rows[d])
    BY <1>1, SweptPlain
  <2>2. challenges'[d] = IF d = c
          THEN [rows[d] EXCEPT !.state = "completed"] ELSE rows[d]
    BY <1>3, <1>4
  <2>3. d = c => rows[d].state = "open"
    BY <1>3
  <2> HIDE DEF rows, c
  <2> QED BY <2>1, <2>2, <2>3 DEF ChallengePlain, ChallengeRow
<1> QED BY <1>2, <1>5, <1>6 DEF ChallengesPlain, OffersPlain

\* Every other step.
LEMMA OtherTally ==
  ASSUME CeremonyInv, [Next]_vars
  PROVE  \/ \E o \in Offers, at \in 0..MaxClock, ttl \in OfferTTLs :
              IssuePairingOffer(o, at, ttl)
         \/ \E c \in Challenges : RevokeDevice(c)
         \/ \E h \in Handlers :
              \/ \E c \in Challenges : InsertChallenge(h, c)
              \/ RecordFailedCompletion(h) \/ CommitCompletion(h)
         \/ ChallengesPlain /\ OffersPlain /\ UNCHANGED <<devices, audit>>
<1>1. TypeOK
  BY DEF CeremonyInv, TypeInv
<1>2. UNCHANGED <<offers, challenges>> => ChallengesPlain /\ OffersPlain
  BY DEF ChallengesPlain, OffersPlain, ChallengePlain, OfferPlain
<1>3. ASSUME NEW t \in Nat, offers' = SweptOffers(t), challenges' = SweptChallenges(t)
      PROVE  ChallengesPlain /\ OffersPlain
  BY <1>1, <1>3, SweptPlain DEF ChallengesPlain, OffersPlain
<1>4. CASE \E at \in 0..MaxClock : ExpirePending(at)
  BY <1>3, <1>4, EnrollmentAssumption DEF ExpirePending
<1>5. CASE Tick \/ UNCHANGED vars
  BY <1>2, <1>5 DEF Tick, vars, tables
<1>6. ASSUME NEW h \in Handlers,
             \/ \E r \in ChallengeRequests : ReceiveChallengeRequest(h, r)
             \/ \E q \in CompletionRequests : ReceiveCompletion(h, q)
             \/ Abort(h)
      PROVE  ChallengesPlain /\ OffersPlain /\ UNCHANGED <<devices, audit>>
  BY <1>2, <1>6
     DEF ReceiveChallengeRequest, ReceiveCompletion, Abort, Clear, tables
<1>7. ASSUME NEW h \in Handlers, ExpireForClaim(h) \/ ExpireForCompletion(h)
      PROVE  ChallengesPlain /\ OffersPlain /\ UNCHANGED <<devices, audit>>
  <2>1. now[h] \in Nat
    BY <1>1, EnrollmentAssumption DEF TypeOK
  <2> QED BY <1>3, <1>7, <2>1 DEF ExpireForClaim, ExpireForCompletion
<1>8. ASSUME NEW h \in Handlers,
             \/ FindRequest(h) \/ ReadOffer(h) \/ RejectChallenge(h)
             \/ ReplayRequest(h) \/ FindCompletion(h) \/ ReadOpenChallenge(h)
             \/ RejectCompletion(h) \/ ReadDevice(h) \/ ReplayCompletion(h)
             \/ Respond(h)
      PROVE  ChallengesPlain /\ OffersPlain /\ UNCHANGED <<devices, audit>>
  <2>1. UNCHANGED tables
    BY <1>8
       DEF FindRequest, ReadOffer, RejectChallenge, ReplayRequest, FindCompletion,
           ReadOpenChallenge, RejectCompletion, ReadDevice, ReplayCompletion,
           Respond, Clear
  <2> QED BY <1>2, <2>1 DEF tables
<1> QED BY <1>4, <1>5, <1>6, <1>7, <1>8 DEF Next, HandlerStep

---------------------------------------------------------------------------
(* The audit log.                                                          *)

\* E is what a step has to log.
Logs(E) ==
  /\ audit' = audit \cup E
  /\ \A c \in Challenges :
       /\ challenges'[c].state # "absent"
          <=> c \in Stored \/ <<"enrollment_challenge.created", c>> \in E
       /\ challenges'[c].state = "locked"
          <=> \/ challenges[c].state = "locked"
              \/ <<"enrollment_challenge.locked", c>> \in E
       /\ devices'[c].state # "absent"
          <=> c \in Enrolled \/ <<"device.enrolled_unassigned", c>> \in E
       /\ devices'[c].state = "revoked"
          <=> devices[c].state = "revoked" \/ <<"device.revoked", c>> \in E
  /\ \A o \in Offers :
       offers'[o].state = "revoked"
       <=> offers[o].state = "revoked" \/ <<"pairing_offer.superseded", o>> \in E

LEMMA LogsKeep ==
  ASSUME AuditFaithful, NEW E, Logs(E)
  PROVE  AuditFaithful'
BY DEF AuditFaithful, Logs, Stored, Enrolled

\* Steps that leave the rows plain have nothing to log of them.
LEMMA PlainLogs ==
  ASSUME ChallengesPlain
  PROVE  \A c \in Challenges :
           /\ challenges'[c].state # "absent" <=> c \in Stored
           /\ challenges'[c].state = "locked" <=> challenges[c].state = "locked"
BY DEF ChallengesPlain, ChallengePlain, Stored

LEMMA IssueLogs ==
  ASSUME CeremonyInv, AuditFaithful, NEW o \in Offers, NEW at \in 0..MaxClock,
         NEW ttl \in OfferTTLs, IssuePairingOffer(o, at, ttl)
  PROVE  AuditFaithful'
<1> DEFINE previous == {p \in Offers : SweptOffers(at)[p].state \in LiveStates
                                       /\ SweptOffers(at)[p].key}
           E == {<<"pairing_offer.superseded", p>> : p \in previous}
                \cup {<<"pairing_offer.created", o>>}
<1>1. audit' = audit \cup E /\ devices' = devices
  BY DEF IssuePairingOffer
<1>2. /\ ChallengesPlain
      /\ offers[o].state = "absent" /\ o \notin previous
      /\ offers'[o].state = "created"
      /\ \A p \in Offers \ {o} :
           IF p \in previous
             THEN offers'[p].state = "revoked"
             ELSE offers'[p].state = "revoked" <=> offers[p].state = "revoked"
  BY IssueTally DEF OfferPlain
<1> HIDE DEF previous
<1>3. /\ \A c : /\ <<"enrollment_challenge.created", c>> \notin E
                /\ <<"enrollment_challenge.locked", c>> \notin E
                /\ <<"device.enrolled_unassigned", c>> \notin E
                /\ <<"device.revoked", c>> \notin E
      /\ \A p : <<"pairing_offer.superseded", p>> \in E <=> p \in previous
  OBVIOUS
<1> HIDE DEF E
<1>4. Logs(E)
  BY <1>1, <1>2, <1>3, PlainLogs DEF Logs, Enrolled
<1> QED BY <1>4, LogsKeep

LEMMA RevokeLogs ==
  ASSUME CeremonyInv, AuditFaithful, NEW c \in Challenges, RevokeDevice(c)
  PROVE  AuditFaithful'
<1> DEFINE E == {<<"device.revoked", c>>}
<1>1. /\ audit' = audit \cup E /\ UNCHANGED <<offers, challenges>>
      /\ devices[c].state = "active_unassigned"
      /\ devices' = [devices EXCEPT ![c].state = "revoked"]
  BY DEF RevokeDevice
<1>2. ASSUME NEW d \in Challenges
      PROVE  devices'[d].state = IF d = c THEN "revoked" ELSE devices[d].state
  <2>1. devices[d] \in DeviceRow /\ devices \in [Challenges -> DeviceRow]
    BY DEF CeremonyInv, TypeInv, TypeOK
  <2> QED BY <1>1, <2>1 DEF DeviceRow
<1>3. Logs(E)
  BY <1>1, <1>2 DEF Logs, Stored, Enrolled
<1> QED BY <1>3, LogsKeep

LEMMA InsertLogs ==
  ASSUME CeremonyInv, AuditFaithful, NEW h \in Handlers, NEW c \in Challenges,
         InsertChallenge(h, c)
  PROVE  AuditFaithful'
<1> DEFINE E == {<<"enrollment_challenge.created", c>>}
           o == job[h].offer
<1>1. audit' = audit \cup E /\ devices' = devices
  BY DEF InsertChallenge
<1>2. /\ offers[o].state \in LiveStates /\ offers'[o].state = "claimed"
      /\ \A p \in Offers \ {o} : OfferPlain(offers[p], offers'[p])
      /\ challenges[c].state = "absent" /\ challenges'[c].state = "open"
      /\ \A d \in Challenges \ {c} : ChallengePlain(challenges[d], challenges'[d])
  BY InsertTally
<1> HIDE DEF o
<1>3. \A d \in Challenges :
        /\ challenges'[d].state # "absent" <=> d \in Stored \/ d = c
        /\ challenges'[d].state = "locked" <=> challenges[d].state = "locked"
  BY <1>2 DEF ChallengePlain, Stored
<1>4. \A p \in Offers : offers'[p].state = "revoked" <=> offers[p].state = "revoked"
  BY <1>2 DEF OfferPlain, LiveStates
<1>5. Logs(E)
  BY <1>1, <1>3, <1>4 DEF Logs, Enrolled
<1> QED BY <1>5, LogsKeep

LEMMA FailedLogs ==
  ASSUME CeremonyInv, AuditFaithful, NEW h \in Handlers, RecordFailedCompletion(h)
  PROVE  AuditFaithful'
<1> DEFINE c == job[h].ch
           locked == challenges[c].failed + 1 >= MaxChallengeFailures
           E == {e \in {<<"enrollment_challenge.locked", c>>} : locked}
<1>1. devices' = devices
  BY DEF RecordFailedCompletion
<1>2. CASE UNCHANGED <<offers, challenges, audit>>
  BY <1>1, <1>2 DEF AuditFaithful, Stored, Enrolled
<1>3. CASE /\ c \in OpenChallenges
           /\ challenges'[c].state = IF locked THEN "locked" ELSE "open"
           /\ \A d \in Challenges \ {c} :
                ChallengePlain(challenges[d], challenges'[d])
           /\ OffersPlain
           /\ audit' = audit \cup E
  <2>1. \A d : <<"enrollment_challenge.locked", d>> \in E <=> d = c /\ locked
    OBVIOUS
  <2>2. \A d : /\ <<"enrollment_challenge.created", d>> \notin E
               /\ <<"device.enrolled_unassigned", d>> \notin E
               /\ <<"device.revoked", d>> \notin E
               /\ <<"pairing_offer.superseded", d>> \notin E
    OBVIOUS
  <2> HIDE DEF E, locked
  <2>3. \A d \in Challenges :
          /\ challenges'[d].state # "absent" <=> d \in Stored
          /\ challenges'[d].state = "locked"
             <=> challenges[d].state = "locked" \/ (d = c /\ locked)
    BY <1>3 DEF ChallengePlain, Stored, OpenChallenges
  <2>4. Logs(E)
    BY <1>1, <1>3, <2>1, <2>2, <2>3 DEF Logs, Enrolled, OffersPlain, OfferPlain
  <2> QED BY <2>4, LogsKeep
<1> QED BY <1>2, <1>3, FailedTally

LEMMA CommitLogs ==
  ASSUME CeremonyInv, AuditFaithful, NEW h \in Handlers, CommitCompletion(h)
  PROVE  AuditFaithful'
<1> DEFINE c == job[h].ch
           E == {<<"device.enrolled_unassigned", c>>}
<1>1. /\ audit' = audit \cup E /\ devices[c].state = "absent"
      /\ devices' = [devices EXCEPT
           ![c] = [state |-> "active_unassigned", enrolled |-> now[h]]]
  BY DEF CommitCompletion, Committable
<1>2. ChallengesPlain /\ OffersPlain
  BY CommitTally
<1>3. \A d \in Challenges :
        devices'[d].state = IF d = c THEN "active_unassigned" ELSE devices[d].state
  BY <1>1 DEF CeremonyInv, TypeInv, TypeOK
<1>4. Logs(E)
  BY <1>1, <1>2, <1>3, PlainLogs DEF Logs, Enrolled, OffersPlain, OfferPlain
<1> QED BY <1>4, LogsKeep

\* Each transaction writes its event with the rows it concerns: the audit log
\* tells of every enrollment, revocation, lock-out and replaced window, and of
\* none that did not happen.
THEOREM LogIsFaithful == Spec => []AuditFaithful
<1>1. Init => AuditFaithful
  BY DEF Init, AuditFaithful, Stored, Enrolled
<1>2. CeremonyInv /\ AuditFaithful /\ [Next]_vars => AuditFaithful'
  <2> SUFFICES ASSUME CeremonyInv, AuditFaithful, [Next]_vars PROVE AuditFaithful'
    OBVIOUS
  <2>1. CASE ChallengesPlain /\ OffersPlain /\ UNCHANGED <<devices, audit>>
    <3>1. Logs({})
      BY <2>1, PlainLogs DEF Logs, Enrolled, OffersPlain, OfferPlain
    <3> QED BY <3>1, LogsKeep
  <2> QED
    BY <2>1, OtherTally, IssueLogs, RevokeLogs, InsertLogs, FailedLogs, CommitLogs
<1> QED BY <1>1, <1>2, CeremonyAlways, PTL DEF Spec

---------------------------------------------------------------------------
(* The budget of guesses.                                                  *)

\* The lock of a challenge ended its offer, so that no challenge of it can be
\* claimed again; an offer not yet issued has no challenge.
LocksEndOffers ==
  \A c \in Challenges :
    challenges[c].state = "locked" => offers[OfferOf(c)].state = "locked"

UnissuedUnclaimed ==
  \A o \in Offers : offers[o].state = "absent" => offers[o].claims = 0

BudgetInv == GuessBudget /\ LocksEndOffers /\ UnissuedUnclaimed

ClaimsOf(o) == {c \in Stored : OfferOf(c) = o}

LEMMA ClaimsFinite ==
  ASSUME NEW o
  PROVE  IsFiniteSet(ClaimsOf(o)) /\ Cardinality(ClaimsOf(o)) \in Nat
<1>1. ClaimsOf(o) \subseteq Challenges
  BY DEF ClaimsOf, Stored
<1>2. IsFiniteSet(ClaimsOf(o))
  BY <1>1, EnrollmentAssumption, FS_Subset
<1> QED BY <1>2, FS_CardinalityType

\* What the tables say of a challenge that was claimed.
LEMMA RowFacts ==
  ASSUME CeremonyInv, NEW c \in Stored
  PROVE  /\ c \in Challenges /\ OfferOf(c) \in Offers
         /\ challenges[c].failed \in Nat
BY EnrollmentAssumption
   DEF CeremonyInv, TypeInv, TypeOK, ChallengeRow, RowsServe, Stored, OfferOf,
       ChallengeBody

LEMMA LimitFacts == MaxOfferClaims \in Nat \ {0} /\ MaxChallengeFailures \in Nat \ {0}
BY EnrollmentAssumption

\* Steps that neither claim nor fail.
LEMMA PlainBudget ==
  ASSUME CeremonyInv, BudgetInv, ChallengesPlain,
         \A o \in Offers :
           /\ offers'[o].claims = IF offers[o].state = "absent" THEN 0
                                  ELSE offers[o].claims
           /\ offers'[o].state = "absent" => offers[o].state = "absent"
           /\ offers[o].state = "locked" => offers'[o].state = "locked"
  PROVE  BudgetInv'
<1>1. ASSUME NEW o \in Offers
      PROVE  ClaimsOf(o)' = ClaimsOf(o) /\ offers'[o].claims = offers[o].claims
  BY DEF ClaimsOf, Stored, OfferOf, ChallengesPlain, ChallengePlain, BudgetInv,
         UnissuedUnclaimed
<1>2. \A o \in Offers :
        /\ offers'[o].claims = Cardinality(ClaimsOf(o)')
        /\ offers'[o].claims <= MaxOfferClaims
  BY <1>1 DEF BudgetInv, GuessBudget, ClaimsOf
<1>3. GuessBudget'
  BY <1>2 DEF BudgetInv, GuessBudget, ClaimsOf, OfferOf, ChallengesPlain,
              ChallengePlain
<1>4. LocksEndOffers'
  <2> SUFFICES ASSUME NEW c \in Challenges, challenges'[c].state = "locked"
               PROVE  offers'[OfferOf(c)'].state = "locked"
    BY DEF LocksEndOffers
  <2>1. challenges[c].state = "locked" /\ OfferOf(c)' = OfferOf(c) /\ c \in Stored
    BY DEF ChallengesPlain, ChallengePlain, OfferOf, Stored
  <2> QED BY <2>1, RowFacts DEF BudgetInv, LocksEndOffers
<1>5. UnissuedUnclaimed'
  BY <1>1 DEF BudgetInv, UnissuedUnclaimed
<1> QED BY <1>3, <1>4, <1>5 DEF BudgetInv

LEMMA IssueBudget ==
  ASSUME CeremonyInv, BudgetInv, NEW o \in Offers, NEW at \in 0..MaxClock,
         NEW ttl \in OfferTTLs, IssuePairingOffer(o, at, ttl)
  PROVE  BudgetInv'
<1>1. ChallengesPlain
  BY IssueTally
<1>2. /\ offers[o].state = "absent"
      /\ offers'[o].state = "created" /\ offers'[o].claims = 0
  BY IssueTally
<1>3. ASSUME NEW p \in Offers, p # o
      PROVE  /\ offers'[p].claims = offers[p].claims
             /\ offers'[p].state = "absent" => offers[p].state = "absent"
             /\ offers[p].state = "locked" => offers'[p].state = "locked"
  BY <1>3, IssueTally DEF OfferPlain, LiveStates
<1> QED BY <1>1, <1>2, <1>3, PlainBudget DEF BudgetInv, UnissuedUnclaimed

LEMMA InsertBudget ==
  ASSUME CeremonyInv, BudgetInv, NEW h \in Handlers, NEW c \in Challenges,
         InsertChallenge(h, c)
  PROVE  BudgetInv'
<1> DEFINE o == job[h].offer
<1>1. /\ o \in Offers /\ offers[o].state \in LiveStates
      /\ offers[o].claims < MaxOfferClaims
      /\ offers'[o].state = "claimed" /\ offers'[o].claims = offers[o].claims + 1
      /\ \A p \in Offers \ {o} : OfferPlain(offers[p], offers'[p])
      /\ challenges[c].state = "absent"
      /\ challenges'[c].state = "open" /\ challenges'[c].failed = 0
      /\ OfferOf(c)' = o
      /\ \A d \in Challenges \ {c} : ChallengePlain(challenges[d], challenges'[d])
  BY InsertTally DEF OfferOf
<1> HIDE DEF o
<1>2. ASSUME NEW p \in Offers
      PROVE  /\ offers'[p].claims = Cardinality(ClaimsOf(p)')
             /\ offers'[p].claims <= MaxOfferClaims
  <2>1. ClaimsOf(p)' = IF p = o THEN ClaimsOf(p) \cup {c} ELSE ClaimsOf(p)
    BY <1>1 DEF ClaimsOf, Stored, OfferOf, ChallengePlain
  <2>2. c \notin ClaimsOf(p)
    BY <1>1 DEF ClaimsOf, Stored
  <2>3. /\ offers[p].claims = Cardinality(ClaimsOf(p))
        /\ offers[p].claims <= MaxOfferClaims
    BY DEF BudgetInv, GuessBudget, ClaimsOf
  <2>4. IsFiniteSet(ClaimsOf(p)) /\ Cardinality(ClaimsOf(p)) \in Nat
    BY ClaimsFinite
  <2>5. Cardinality(ClaimsOf(p) \cup {c}) = Cardinality(ClaimsOf(p)) + 1
    BY <2>2, <2>4, FS_AddElement
  <2>6. CASE p = o
    <3>1. offers'[p].claims = offers[p].claims + 1 /\ offers[p].claims < MaxOfferClaims
      BY <1>1, <2>6
    <3>2. Cardinality(ClaimsOf(p)') = Cardinality(ClaimsOf(p)) + 1
      BY <2>1, <2>5, <2>6
    <3> HIDE DEF ClaimsOf
    <3> QED BY <2>3, <2>4, <3>1, <3>2, LimitFacts
  <2>7. CASE p # o
    BY <1>1, <2>1, <2>3, <2>7 DEF OfferPlain
  <2> QED BY <2>6, <2>7
<1>3. \A d \in Challenges :
        challenges'[d].state = "locked" =>
          /\ d # c /\ challenges[d].state = "locked" /\ OfferOf(d)' = OfferOf(d)
          /\ OfferOf(d) \in Offers /\ offers[OfferOf(d)].state = "locked"
          /\ OfferOf(d) # o /\ offers'[OfferOf(d)].state = "locked"
  <2> SUFFICES ASSUME NEW d \in Challenges, challenges'[d].state = "locked"
               PROVE  /\ d # c /\ challenges[d].state = "locked"
                      /\ OfferOf(d)' = OfferOf(d) /\ OfferOf(d) \in Offers
                      /\ offers[OfferOf(d)].state = "locked"
                      /\ OfferOf(d) # o /\ offers'[OfferOf(d)].state = "locked"
    OBVIOUS
  <2>1. d # c /\ challenges[d].state = "locked" /\ OfferOf(d)' = OfferOf(d)
    BY <1>1 DEF ChallengePlain, OfferOf
  <2>2. d \in Stored
    BY <2>1 DEF Stored
  <2>3. OfferOf(d) \in Offers /\ offers[OfferOf(d)].state = "locked"
    BY <2>1, <2>2, RowFacts DEF BudgetInv, LocksEndOffers
  <2>4. OfferOf(d) # o
    BY <1>1, <2>3 DEF LiveStates
  <2>5. offers'[OfferOf(d)].state = "locked"
    BY <1>1, <2>3, <2>4 DEF OfferPlain
  <2> QED BY <2>1, <2>3, <2>4, <2>5
<1>4. \A d \in Challenges :
        /\ challenges'[d].failed <= MaxChallengeFailures
        /\ challenges'[d].failed = MaxChallengeFailures
           <=> challenges'[d].state = "locked"
  BY <1>1, LimitFacts DEF ChallengePlain, BudgetInv, GuessBudget
<1>5. ASSUME NEW d \in Challenges, NEW e \in Challenges,
             challenges'[d].state = "locked",
             challenges'[e].state \in {"locked", "open"}, OfferOf(d)' = OfferOf(e)'
      PROVE  d = e
  <2>1. e # c
    BY <1>1, <1>3, <1>5
  <2>2. /\ challenges[e].state \in {"locked", "open"} /\ OfferOf(e)' = OfferOf(e)
    BY <1>1, <1>5, <2>1 DEF ChallengePlain, OfferOf
  <2> QED BY <1>3, <1>5, <2>2 DEF BudgetInv, GuessBudget
<1>6. GuessBudget'
  BY <1>2, <1>4, <1>5 DEF GuessBudget, ClaimsOf
<1>7. LocksEndOffers'
  BY <1>3 DEF LocksEndOffers
<1>8. UnissuedUnclaimed'
  BY <1>1 DEF BudgetInv, UnissuedUnclaimed, OfferPlain
<1> QED BY <1>6, <1>7, <1>8 DEF BudgetInv

LEMMA FailedBudget ==
  ASSUME CeremonyInv, BudgetInv, NEW h \in Handlers, RecordFailedCompletion(h)
  PROVE  BudgetInv'
<1> DEFINE c == job[h].ch
           failures == challenges[c].failed + 1
           locked == failures >= MaxChallengeFailures
<1>1. CASE UNCHANGED <<offers, challenges, audit>>
  BY <1>1 DEF BudgetInv, GuessBudget, LocksEndOffers, UnissuedUnclaimed, Stored,
              OfferOf
<1>2. CASE /\ c \in OpenChallenges
           /\ challenges'[c].failed = failures
           /\ challenges'[c].state = IF locked THEN "locked" ELSE "open"
           /\ challenges'[c].request = challenges[c].request
           /\ \A d \in Challenges \ {c} :
                ChallengePlain(challenges[d], challenges'[d])
           /\ OffersPlain
           /\ locked => offers'[OfferOf(c)].state = "locked"
  <2>1. /\ c \in Challenges /\ challenges[c].state = "open" /\ c \in Stored
        /\ challenges[c].failed \in Nat /\ OfferOf(c) \in Offers
        /\ offers[OfferOf(c)].state = "claimed"
        /\ \A d \in OpenChallenges : d = c
    BY <1>2, RowFacts DEF OpenChallenges, Stored, CeremonyInv, SingleCeremony
  <2>2. challenges[c].failed < MaxChallengeFailures
    BY <2>1, LimitFacts DEF BudgetInv, GuessBudget
  <2>3. /\ failures <= MaxChallengeFailures
        /\ failures = MaxChallengeFailures <=> locked
    BY <2>1, <2>2, LimitFacts
  <2> HIDE DEF failures, locked, c
  <2>4. \A d \in Challenges :
          /\ OfferOf(d)' = OfferOf(d)
          /\ challenges'[d].state = "absent" <=> challenges[d].state = "absent"
    BY <1>2, <2>1 DEF ChallengePlain, OfferOf
  <2>5. \A o \in Offers : ClaimsOf(o)' = ClaimsOf(o)
    BY <2>4 DEF ClaimsOf, Stored
  <2>6. \A o \in Offers :
          /\ offers'[o].claims = Cardinality(ClaimsOf(o)')
          /\ offers'[o].claims <= MaxOfferClaims
    BY <1>2, <2>5 DEF OffersPlain, OfferPlain, BudgetInv, GuessBudget, ClaimsOf
  <2>7. \A d \in Challenges :
          /\ challenges'[d].failed <= MaxChallengeFailures
          /\ challenges'[d].failed = MaxChallengeFailures
             <=> challenges'[d].state = "locked"
    BY <1>2, <2>3 DEF ChallengePlain, BudgetInv, GuessBudget
  <2>8. ASSUME NEW d \in Challenges, d # c, challenges'[d].state \in {"locked", "open"}
        PROVE  /\ challenges[d].state = "locked" /\ challenges'[d].state = "locked"
               /\ OfferOf(d) \in Offers /\ offers[OfferOf(d)].state = "locked"
               /\ OfferOf(d) # OfferOf(c)
    <3>1. challenges[d].state = "locked" /\ challenges'[d].state = "locked"
      BY <1>2, <2>1, <2>8 DEF ChallengePlain, OpenChallenges
    <3>2. OfferOf(d) \in Offers /\ offers[OfferOf(d)].state = "locked"
      BY <3>1, RowFacts DEF BudgetInv, LocksEndOffers, Stored
    <3> QED BY <2>1, <3>1, <3>2
  <2>9. ASSUME NEW d \in Challenges, NEW e \in Challenges,
               challenges'[d].state = "locked",
               challenges'[e].state \in {"locked", "open"},
               OfferOf(d)' = OfferOf(e)'
        PROVE  d = e
    <3>1. CASE d = c \/ e = c
      BY <2>4, <2>8, <2>9, <3>1
    <3>2. CASE d # c /\ e # c
      BY <2>4, <2>8, <2>9, <3>2 DEF BudgetInv, GuessBudget
    <3> QED BY <3>1, <3>2
  <2>10. GuessBudget'
    BY <2>6, <2>7, <2>9 DEF GuessBudget, ClaimsOf
  <2>11. LocksEndOffers'
    <3> SUFFICES ASSUME NEW d \in Challenges, challenges'[d].state = "locked"
                 PROVE  offers'[OfferOf(d)'].state = "locked"
      BY DEF LocksEndOffers
    <3>1. CASE d = c
      BY <1>2, <2>4, <3>1
    <3>2. CASE d # c
      BY <1>2, <2>4, <2>8, <3>2 DEF OffersPlain, OfferPlain
    <3> QED BY <3>1, <3>2
  <2>12. UnissuedUnclaimed'
    BY <1>2 DEF OffersPlain, OfferPlain, BudgetInv, UnissuedUnclaimed
  <2> QED BY <2>10, <2>11, <2>12 DEF BudgetInv
<1> QED BY <1>1, <1>2, FailedTally

LEMMA BudgetInit == Init => BudgetInv
<1> SUFFICES ASSUME Init PROVE BudgetInv
  OBVIOUS
<1>1. \A o : {c \in Stored : OfferOf(c) = o} = {}
  BY DEF Init, Stored
<1>2. Cardinality({}) = 0
  BY FS_EmptySet
<1>3. 0 <= MaxOfferClaims /\ 0 <= MaxChallengeFailures /\ MaxChallengeFailures # 0
  BY LimitFacts
<1>4. GuessBudget
  <2>1. \A o : Cardinality({c \in Stored : OfferOf(c) = o}) = 0
    BY <1>1, <1>2
  <2>2. \A o \in Offers : offers[o].claims = 0
    BY DEF Init
  <2>3. \A c \in Challenges : challenges[c].failed = 0 /\ challenges[c].state = "absent"
    BY DEF Init
  <2> QED BY <1>3, <2>1, <2>2, <2>3 DEF GuessBudget
<1> QED BY <1>4 DEF Init, BudgetInv, LocksEndOffers, UnissuedUnclaimed

\* Whoever guesses in a pairing window has MaxOfferClaims challenges and, over
\* all of them, at most one that takes MaxChallengeFailures wrong proofs, whatever
\* requests run at once.
THEOREM GuessesAreBounded == Spec => []GuessBudget
<1>1. CeremonyInv /\ BudgetInv /\ [Next]_vars => BudgetInv'
  <2> SUFFICES ASSUME CeremonyInv, BudgetInv, [Next]_vars PROVE BudgetInv'
    OBVIOUS
  <2>1. CASE ChallengesPlain /\ OffersPlain
    BY <2>1, PlainBudget DEF OffersPlain, OfferPlain, BudgetInv, UnissuedUnclaimed
  <2>2. ASSUME NEW c \in Challenges, RevokeDevice(c) PROVE BudgetInv'
    BY <2>2 DEF RevokeDevice, BudgetInv, GuessBudget, LocksEndOffers,
                UnissuedUnclaimed, Stored, OfferOf
  <2> QED
    BY <2>1, <2>2, OtherTally, IssueBudget, InsertBudget, FailedBudget, CommitTally
<1>2. BudgetInv => GuessBudget
  BY DEF BudgetInv
<1> QED BY <1>1, <1>2, BudgetInit, CeremonyAlways, PTL DEF Spec

(***************************************************************************)
(* V. Enrollment happens once and whole.                                   *)
(***************************************************************************)

EnrollInv == CeremonyInv /\ OneDevicePerOffer /\ EnrollmentAtomic

\* A step that enrolls and revokes nobody.
Quiet ==
  /\ UNCHANGED <<devices, keys, completions>>
  /\ \A c \in Challenges :
       /\ challenges[c].state # "absent" =>
            challenges'[c].request = challenges[c].request
       /\ challenges'[c].state = "completed" <=> challenges[c].state = "completed"
  /\ \A o \in Offers :
       offers'[o].state = "completed" <=> offers[o].state = "completed"

\* A step after which pairing secrets are worth what they were, or nothing.
Fading ==
  \A o \in Offers :
    \/ Worth(o)' = Worth(o)
    \/ Worth(o) = "usable" /\ Worth(o)' = "void"

---------------------------------------------------------------------------
(* Quiet steps.                                                            *)

LEMMA QuietKeeps ==
  ASSUME EnrollInv, Quiet
  PROVE  OneDevicePerOffer' /\ EnrollmentAtomic'
<1> USE DEF EnrollInv, Quiet
<1>1. Enrolled' = Enrolled
  BY DEF Enrolled
<1>2. ASSUME NEW c \in Enrolled
      PROVE  /\ c \in Challenges /\ challenges'[c].request = challenges[c].request
             /\ OfferOf(c)' = OfferOf(c)
  BY DEF Enrolled, EnrollmentAtomic, OfferOf
<1>3. OneDevicePerOffer'
  BY <1>1, <1>2 DEF OneDevicePerOffer
<1>4. EnrollmentAtomic'
  BY <1>1, <1>2 DEF EnrollmentAtomic
<1> QED
  BY <1>3, <1>4

\* A sweep turns live offers and open challenges into expired ones.
LEMMA SweepIsQuiet ==
  ASSUME TypeOK, NEW t,
         offers' = SweptOffers(t), challenges' = SweptChallenges(t),
         UNCHANGED <<devices, keys, completions>>
  PROVE  Quiet /\ Fading
<1>1. ASSUME NEW c \in Challenges
      PROVE  /\ challenges'[c].request = challenges[c].request
             /\ challenges'[c].state = "completed"
                <=> challenges[c].state = "completed"
  BY SweptChallenge
<1>2. ASSUME NEW o \in Offers
      PROVE  /\ offers'[o].state = "completed" <=> offers[o].state = "completed"
             /\ \/ Worth(o)' = Worth(o)
                \/ Worth(o) = "usable" /\ Worth(o)' = "void"
  <2>1. \/ offers'[o].state = offers[o].state
        \/ offers[o].state \in LiveStates /\ offers'[o].state = "expired"
    BY SweptOffer
  <2> QED
    BY <2>1 DEF Worth, LiveStates
<1> QED
  BY <1>1, <1>2 DEF Quiet, Fading

LEMMA IssueIsQuiet ==
  ASSUME CeremonyInv, NEW o \in Offers, NEW at \in 0..MaxClock,
         NEW ttl \in OfferTTLs, IssuePairingOffer(o, at, ttl)
  PROVE  /\ Quiet
         /\ Worth(o) = "unissued" /\ Worth(o)' = "usable"
         /\ \A p \in Offers \ {o} :
              Worth(p)' = IF Worth(p) = "usable" THEN "void" ELSE Worth(p)
<1> DEFINE swept == SweptOffers(at)
           rows == SweptChallenges(at)
<1>1. TypeOK
  BY DEF CeremonyInv, TypeInv
<1>2. offers[o].state = "absent" /\ offers'[o].state = "created"
  BY DEF IssuePairingOffer
<1>3. ASSUME NEW p \in Offers \ {o}
      PROVE  IF offers[p].state \in LiveStates
               THEN offers'[p].state \in {"revoked", "expired"}
               ELSE offers'[p].state = offers[p].state
  <2>1. swept[p] \in OfferRow
    BY <1>1, SweptOffersType, EnrollmentAssumption
  <2>2. swept[p].key <=> swept[p].state \in LiveStates
    BY <1>1, SweptOffer DEF CeremonyInv, KeysOfLiveOffers, LiveStates
  <2>3. offers'[p] =
          IF swept[p].state \in LiveStates
            THEN [swept[p] EXCEPT !.state = "revoked", !.key = FALSE]
            ELSE swept[p]
    BY <1>3, <2>2 DEF IssuePairingOffer
  <2>4. \/ swept[p].state = offers[p].state
        \/ offers[p].state \in LiveStates /\ swept[p].state = "expired"
    BY <1>1, SweptOffer
  <2> HIDE DEF swept
  <2> QED
    BY <2>1, <2>3, <2>4 DEF OfferRow, LiveStates
<1>4. ASSUME NEW c \in Challenges
      PROVE  /\ challenges'[c].request = challenges[c].request
             /\ challenges'[c].state = "completed"
                <=> challenges[c].state = "completed"
  <2>1. rows[c] \in ChallengeRow
    BY <1>1, SweptChallengesType, EnrollmentAssumption DEF KeepsStored
  <2>2. /\ rows[c].request = challenges[c].request
        /\ rows[c].state = "completed" <=> challenges[c].state = "completed"
    BY <1>1, SweptChallenge
  <2>3. challenges'[c] = IF rows[c].state = "open"
          THEN [rows[c] EXCEPT !.state = "superseded"] ELSE rows[c]
    BY DEF IssuePairingOffer, Supersede
  <2> HIDE DEF rows
  <2> QED
    BY <2>1, <2>2, <2>3 DEF ChallengeRow
<1>5. Quiet
  BY <1>2, <1>3, <1>4 DEF Quiet, IssuePairingOffer, LiveStates
<1> QED
  BY <1>2, <1>3, <1>5 DEF Worth, LiveStates

LEMMA InsertIsQuiet ==
  ASSUME CeremonyInv, NEW h \in Handlers, NEW c \in Challenges,
         InsertChallenge(h, c)
  PROVE  Quiet /\ Fading
<1> DEFINE t == now[h]
           o == job[h].offer
           swept == SweptOffers(t)
           rows == SweptChallenges(t)
           rivals == {d \in Stored : challenges[d].request.offer = o}
           row == [state |-> "open", request |-> job[h], failed |-> 0,
                   issued |-> now[h], expires |-> seen[h]]
<1>1. TypeOK /\ TypeInv /\ t \in Nat
  BY EnrollmentAssumption DEF CeremonyInv, TypeInv, TypeOK
<1>2. o \in Offers
  BY <1>1, EnrollmentAssumption
  DEF InsertChallenge, TypeInv, HandlersServe, Waiting, ChallengeBody
<1>3. /\ offers' = [swept EXCEPT ![o].state = "claimed",
                                 ![o].claims = swept[o].claims + 1]
      /\ challenges' = [Supersede(rows, rivals) EXCEPT ![c] = row]
      /\ swept[o].state \in LiveStates /\ challenges[c].state = "absent"
  BY DEF InsertChallenge, Insertable, Claimable
<1>4. swept \in [Offers -> OfferRow] /\ KeepsStored(rows)
      /\ KeepsStored(Supersede(rows, rivals))
  BY <1>1, SweptOffersType, SweptChallengesType, SupersedeType
<1>5. ASSUME NEW p \in Offers
      PROVE  \/ offers'[p].state = offers[p].state
             \/ /\ offers[p].state \in LiveStates
                /\ offers'[p].state \in {"claimed", "expired"}
  <2>1. \/ swept[p].state = offers[p].state
        \/ offers[p].state \in LiveStates /\ swept[p].state = "expired"
    BY <1>1, SweptOffer
  <2>2. CASE p = o
    <3>1. offers'[p] = [swept[p] EXCEPT !.state = "claimed",
                                        !.claims = swept[p].claims + 1]
      BY <1>2, <1>3, <1>4, <2>2
    <3>2. swept[p] \in OfferRow
      BY <1>4
    <3>3. offers[p].state \in LiveStates
      BY <1>3, <2>1, <2>2 DEF LiveStates
    <3> HIDE DEF swept
    <3> QED
      BY <3>1, <3>2, <3>3 DEF OfferRow
  <2>3. CASE p # o
    BY <1>3, <1>4, <2>1, <2>3
  <2> QED
    BY <2>2, <2>3
<1>6. ASSUME NEW d \in Challenges
      PROVE  /\ challenges[d].state # "absent" =>
                  challenges'[d].request = challenges[d].request
             /\ challenges'[d].state = "completed"
                <=> challenges[d].state = "completed"
  <2>1. CASE d = c
    <3>1. challenges'[c] = row
      BY <1>3, <1>4 DEF KeepsStored
    <3> QED
      BY <1>3, <2>1, <3>1
  <2>2. CASE d # c
    <3>1. challenges'[d] = Supersede(rows, rivals)[d]
      BY <1>3, <1>4, <2>2 DEF KeepsStored
    <3>2. /\ rows[d] \in ChallengeRow /\ rows[d].request = challenges[d].request
          /\ rows[d].state = "completed" <=> challenges[d].state = "completed"
      BY <1>1, <1>4, SweptChallenge DEF KeepsStored
    <3> HIDE DEF rows, rivals
    <3> QED
      BY <3>1, <3>2 DEF Supersede, ChallengeRow
  <2> QED
    BY <2>1, <2>2
<1>7. Quiet
  BY <1>5, <1>6 DEF Quiet, InsertChallenge, LiveStates
<1> QED
  BY <1>5, <1>7 DEF Fading, Worth, LiveStates

LEMMA FailedIsQuiet ==
  ASSUME CeremonyInv, NEW h \in Handlers, RecordFailedCompletion(h)
  PROVE  Quiet /\ Fading
<1> DEFINE c == job[h].ch
           o == JobChallenge(h).request.offer
           failures == JobChallenge(h).failed + 1
           locked == failures >= MaxChallengeFailures
<1>1. TypeOK /\ TypeInv
  BY DEF CeremonyInv, TypeInv
<1>2. c \in Challenges /\ o \in Offers
  BY <1>1, JobCompletes DEF RecordFailedCompletion, Completing
<1>3. ASSUME NEW p \in Offers
      PROVE  \/ offers'[p].state = offers[p].state
             \/ offers[p].state = "claimed" /\ offers'[p].state = "locked"
  <2>1. \/ offers' = offers
        \/ offers[o].state = "claimed" /\ offers' = Retire(offers, o, "locked")
    BY DEF RecordFailedCompletion
  <2>2. offers[p] \in OfferRow
    BY <1>1 DEF TypeOK
  <2>3. Retire(offers, o, "locked")[p] = IF p = o
          THEN [offers[p] EXCEPT !.state = "locked", !.key = FALSE]
          ELSE offers[p]
    BY <1>1 DEF Retire, TypeOK
  <2> QED
    BY <2>1, <2>2, <2>3 DEF OfferRow
<1>4. ASSUME NEW d \in Challenges
      PROVE  /\ challenges'[d].request = challenges[d].request
             /\ challenges'[d].state = "completed"
                <=> challenges[d].state = "completed"
  <2>1. challenges[d] \in ChallengeRow
    BY <1>1 DEF TypeOK
  <2>2. CASE challenges' = challenges
    BY <2>2
  <2>3. CASE /\ challenges[c].state = "open"
             /\ challenges' = [challenges EXCEPT
                  ![c].failed = failures,
                  ![c].state = IF locked THEN "locked" ELSE "open"]
    <3>1. CASE d # c
      BY <1>1, <2>3, <3>1 DEF TypeOK
    <3>2. CASE d = c
      <4>1. challenges'[c] = [challenges[c] EXCEPT
              !.failed = failures,
              !.state = IF locked THEN "locked" ELSE "open"]
        BY <1>1, <1>2, <2>3 DEF TypeOK
      <4> HIDE DEF failures, locked
      <4>2. /\ challenges'[c].request = challenges[c].request
            /\ challenges'[c].state = IF locked THEN "locked" ELSE "open"
        BY <2>1, <3>2, <4>1 DEF ChallengeRow
      <4> QED
        BY <2>3, <3>2, <4>2
    <3> QED
      BY <3>1, <3>2
  <2> QED
    BY <2>2, <2>3 DEF RecordFailedCompletion, JobChallenge
<1>5. Quiet
  BY <1>3, <1>4 DEF Quiet, RecordFailedCompletion
<1> QED
  BY <1>3, <1>5 DEF Fading, Worth, LiveStates

\* Steps that leave the tables alone.
LEMMA ReadIsQuiet ==
  ASSUME UNCHANGED <<offers, challenges, devices, keys, completions>>
  PROVE  Quiet /\ Fading
  BY DEF Quiet, Fading, Worth

LEMMA HandlerIsQuiet ==
  ASSUME CeremonyInv, NEW h \in Handlers, HandlerStep(h), ~CommitCompletion(h)
  PROVE  Quiet /\ Fading
<1>1. TypeOK
  BY DEF CeremonyInv, TypeInv
<1>2. CASE ExpireForClaim(h) \/ ExpireForCompletion(h)
  BY <1>1, <1>2, SweepIsQuiet DEF ExpireForClaim, ExpireForCompletion
<1>3. CASE \E c \in Challenges : InsertChallenge(h, c)
  BY <1>3, InsertIsQuiet
<1>4. CASE RecordFailedCompletion(h)
  BY <1>4, FailedIsQuiet
<1>5. CASE \/ FindRequest(h) \/ ReadOffer(h) \/ RejectChallenge(h)
           \/ ReplayRequest(h) \/ FindCompletion(h) \/ ReadOpenChallenge(h)
           \/ RejectCompletion(h) \/ ReadDevice(h) \/ ReplayCompletion(h)
           \/ Respond(h)
  <2>1. UNCHANGED tables
    BY <1>5
    DEF FindRequest, ReadOffer, RejectChallenge, ReplayRequest, FindCompletion,
        ReadOpenChallenge, RejectCompletion, ReadDevice, ReplayCompletion,
        Respond, Clear
  <2> QED
    BY <2>1, ReadIsQuiet DEF tables
<1> QED
  BY <1>2, <1>3, <1>4, <1>5 DEF HandlerStep

LEMMA StepIsQuiet ==
  ASSUME CeremonyInv, [Next]_vars,
         \A o \in Offers, at \in 0..MaxClock, ttl \in OfferTTLs :
           ~IssuePairingOffer(o, at, ttl),
         \A c \in Challenges : ~RevokeDevice(c),
         \A h \in Handlers : ~CommitCompletion(h)
  PROVE  Quiet /\ Fading
<1>1. TypeOK
  BY DEF CeremonyInv, TypeInv
<1>2. CASE \E at \in 0..MaxClock : ExpirePending(at)
  BY <1>1, <1>2, SweepIsQuiet DEF ExpirePending
<1>3. CASE Tick \/ UNCHANGED vars
  BY <1>3, ReadIsQuiet DEF Tick, vars, tables
<1>4. ASSUME NEW h \in Handlers,
             \/ \E r \in ChallengeRequests : ReceiveChallengeRequest(h, r)
             \/ \E q \in CompletionRequests : ReceiveCompletion(h, q)
             \/ Abort(h)
      PROVE  Quiet /\ Fading
  BY <1>4, ReadIsQuiet
  DEF ReceiveChallengeRequest, ReceiveCompletion, Abort, Clear, tables
<1>5. ASSUME NEW h \in Handlers, HandlerStep(h)
      PROVE  Quiet /\ Fading
  BY <1>5, HandlerIsQuiet
<1> QED
  BY <1>2, <1>3, <1>4, <1>5 DEF Next

---------------------------------------------------------------------------
(* The two steps that enroll and revoke.                                   *)

\* What a commit finds and what it writes.
LEMMA CommitEffect ==
  ASSUME EnrollInv, NEW h \in Handlers, CommitCompletion(h)
  PROVE  LET c == job[h].ch
             request == challenges[c].request
             o == request.offer
         IN /\ c \in Challenges /\ o \in Offers
            /\ request.auth \in Fingerprints
            /\ request.approval \in Fingerprints
            /\ c \in OpenChallenges /\ c \notin Enrolled
            /\ offers[o].state = "claimed" /\ offers'[o].state = "completed"
            /\ \A p \in Offers \ {o} : offers'[p].state = offers[p].state
            /\ \A d \in Challenges :
                 /\ challenges'[d].request = challenges[d].request
                 /\ challenges'[d].state = "completed"
                    <=> challenges[d].state = "completed" \/ d = c
            /\ devices' = [devices EXCEPT
                 ![c] = [state |-> "active_unassigned", enrolled |-> now[h]]]
<1> DEFINE t == now[h]
           c == job[h].ch
           request == challenges[c].request
           o == request.offer
           swept == SweptOffers(t)
           rows == SweptChallenges(t)
<1>1. TypeOK /\ TypeInv /\ t \in Nat
  BY EnrollmentAssumption DEF EnrollInv, CeremonyInv, TypeInv, TypeOK
<1>2. /\ c \in Challenges /\ o \in Offers
      /\ request.auth \in Fingerprints /\ request.approval \in Fingerprints
  BY <1>1, JobCompletes DEF CommitCompletion, Completing, JobChallenge
<1>3. /\ rows[c].state = "open" /\ swept[o].state = "claimed"
      /\ challenges' = [rows EXCEPT ![c].state = "completed"]
      /\ offers' = Retire(swept, o, "completed")
      /\ devices' = [devices EXCEPT
           ![c] = [state |-> "active_unassigned", enrolled |-> now[h]]]
      /\ devices[c].state = "absent"
  BY DEF CommitCompletion, Committable, Completable, JobChallenge
<1>4. c \in OpenChallenges /\ c \notin Enrolled
  BY <1>1, <1>2, <1>3, SweptChallenge DEF OpenChallenges, Enrolled
<1>5. offers[o].state = "claimed"
  BY <1>1, <1>2, <1>3, SweptOffer
<1>6. ASSUME NEW p \in Offers
      PROVE  offers'[p].state =
               IF p = o THEN "completed" ELSE offers[p].state
  <2>1. swept \in [Offers -> OfferRow]
    BY <1>1, SweptOffersType
  <2>2. swept[p] \in OfferRow
    BY <2>1
  <2>3. p # o => swept[p].state = offers[p].state
    <3> SUFFICES ASSUME p # o PROVE swept[p].state = offers[p].state
      OBVIOUS
    <3>1. offers[p].state \notin LiveStates
      BY <1>2, <1>5 DEF EnrollInv, CeremonyInv, SingleCeremony, LiveOffers,
                        LiveStates
    <3> QED
      BY <1>1, <3>1, SweptOffer
  <2> HIDE DEF swept
  <2>4. offers'[p] = IF p = o
          THEN [swept[p] EXCEPT !.state = "completed", !.key = FALSE]
          ELSE swept[p]
    BY <1>3, <2>1 DEF Retire
  <2> QED
    BY <2>2, <2>3, <2>4 DEF OfferRow
<1>7. ASSUME NEW d \in Challenges
      PROVE  /\ challenges'[d].request = challenges[d].request
             /\ challenges'[d].state = "completed"
                <=> challenges[d].state = "completed" \/ d = c
  <2>1. rows \in [Challenges -> ChallengeRow]
    BY <1>1, SweptChallengesType DEF KeepsStored
  <2>2. /\ rows[d] \in ChallengeRow /\ rows[d].request = challenges[d].request
        /\ rows[d].state = "completed" <=> challenges[d].state = "completed"
    BY <1>1, <2>1, SweptChallenge
  <2> HIDE DEF rows
  <2>3. challenges'[d] = IF d = c
          THEN [rows[d] EXCEPT !.state = "completed"] ELSE rows[d]
    BY <1>3, <2>1
  <2> QED
    BY <2>2, <2>3 DEF ChallengeRow
<1> QED
  BY <1>2, <1>3, <1>4, <1>5, <1>6, <1>7

LEMMA CommitKeeps ==
  ASSUME EnrollInv, NEW h \in Handlers, CommitCompletion(h)
  PROVE  OneDevicePerOffer' /\ EnrollmentAtomic'
<1> USE DEF EnrollInv
<1> DEFINE c == job[h].ch
           i == job[h].idem
           request == challenges[c].request
           o == request.offer
<1>1. TypeOK /\ TypeInv
  BY DEF CeremonyInv, TypeInv
<1>2. /\ c \in Challenges /\ o \in Offers
      /\ request.auth \in Fingerprints /\ request.approval \in Fingerprints
      /\ c \notin Enrolled /\ challenges[c].state = "open"
      /\ offers[o].state = "claimed" /\ offers'[o].state = "completed"
      /\ \A p \in Offers \ {o} : offers'[p].state = offers[p].state
      /\ devices' = [devices EXCEPT
           ![c] = [state |-> "active_unassigned", enrolled |-> now[h]]]
  BY CommitEffect DEF OpenChallenges
<1>3. \A d \in Challenges :
        /\ challenges'[d].request = challenges[d].request
        /\ challenges'[d].state = "completed"
           <=> challenges[d].state = "completed" \/ d = c
  BY CommitEffect
<1>4. /\ i \in IdempotencyKeys /\ job[h] # None
      /\ completions[i] = None
      /\ completions' = [completions EXCEPT ![i] = job[h]]
      /\ keys[request.auth].owner = None /\ keys[request.approval].owner = None
      /\ keys' = [f \in Fingerprints |->
           IF f \in {request.auth, request.approval}
             THEN [owner |-> c, active |-> TRUE] ELSE keys[f]]
  BY <1>1, JobCompletes, EnrollmentAssumption
  DEF CommitCompletion, Committable, Completing, JobChallenge
<1>5. /\ Enrolled' = Enrolled \cup {c}
      /\ devices'[c].state = "active_unassigned"
      /\ \A d \in Challenges \ {c} : devices'[d] = devices[d]
  BY <1>1, <1>2 DEF Enrolled, TypeOK
<1>6. \A d \in Challenges : OfferOf(d)' = OfferOf(d)
  BY <1>3 DEF OfferOf
<1>7. /\ completions'[i] = job[h]
      /\ \A j \in IdempotencyKeys \ {i} : completions'[j] = completions[j]
  BY <1>1, <1>4 DEF TypeOK
<1> HIDE DEF c, i, request, o
<1>8. OneDevicePerOffer'
  <2>1. \A d \in Enrolled : OfferOf(d) # o
    BY <1>2 DEF OneDevicePerOffer
  <2>2. OfferOf(c) = o
    BY DEF OfferOf, o, request
  <2>3. \A d \in Enrolled : d \in Challenges
    BY DEF Enrolled
  <2>4. ASSUME NEW d \in Enrolled', NEW e \in Enrolled',
               OfferOf(d)' = OfferOf(e)'
        PROVE  d = e
    <3>1. OfferOf(d) = OfferOf(e)
      BY <1>2, <1>5, <1>6, <2>3, <2>4
    <3> QED
      BY <1>5, <2>1, <2>2, <2>4, <3>1 DEF OneDevicePerOffer
  <2>5. ASSUME NEW p \in Offers
        PROVE  offers'[p].state = "completed"
               <=> \E d \in Enrolled' : OfferOf(d)' = p
    <3>1. CASE p = o
      BY <1>2, <1>5, <1>6, <2>2, <3>1
    <3>2. CASE p # o
      <4>1. offers'[p].state = offers[p].state
        BY <1>2, <3>2
      <4>2. (\E d \in Enrolled' : OfferOf(d)' = p)
            <=> \E d \in Enrolled : OfferOf(d) = p
        BY <1>2, <1>5, <1>6, <2>2, <2>3, <3>2
      <4> QED
        BY <4>1, <4>2 DEF OneDevicePerOffer
    <3> QED
      BY <3>1, <3>2
  <2> QED
    BY <2>4, <2>5 DEF OneDevicePerOffer
<1>9. EnrollmentAtomic'
  <2>1. \A d \in Challenges : challenges'[d].state = "completed" <=> d \in Enrolled'
    BY <1>3, <1>5 DEF EnrollmentAtomic
  <2>2. ASSUME NEW d \in Enrolled'
        PROVE  /\ \E j \in IdempotencyKeys :
                     completions'[j] # None /\ completions'[j].ch = d
               /\ \A f \in {challenges'[d].request.auth,
                             challenges'[d].request.approval} :
                    /\ keys'[f].owner = d
                    /\ keys'[f].active
                       <=> devices'[d].state = "active_unassigned"
    <3>1. CASE d = c
      <4>1. completions'[i] # None /\ completions'[i].ch = d /\ i \in IdempotencyKeys
        BY <1>4, <1>7, <3>1 DEF c
      <4>2. /\ challenges'[d].request = request
            /\ devices'[d].state = "active_unassigned"
        BY <1>2, <1>3, <1>5, <3>1 DEF request
      <4>3. \A f \in Fingerprints : f \in {request.auth, request.approval} =>
              keys'[f] = [owner |-> c, active |-> TRUE]
        BY <1>4
      <4>4. request.auth \in Fingerprints /\ request.approval \in Fingerprints
        BY <1>2
      <4> QED
        BY <3>1, <4>1, <4>2, <4>3, <4>4
    <3>2. CASE d # c
      <4>1. d \in Enrolled /\ d \in Challenges
        BY <1>5, <2>2, <3>2 DEF Enrolled
      <4>2. PICK j \in IdempotencyKeys :
              completions[j] # None /\ completions[j].ch = d
        BY <4>1 DEF EnrollmentAtomic
      <4>3. completions'[j] = completions[j]
        BY <1>4, <1>7, <4>2
      <4>4. ASSUME NEW f \in {challenges[d].request.auth,
                              challenges[d].request.approval}
            PROVE  /\ keys[f].owner = d /\ f \in Fingerprints
                   /\ keys[f].active
                      <=> devices[d].state = "active_unassigned"
        <5>1. challenges[d].request \in ChallengeRequests
          BY <1>1, <4>1 DEF EnrollmentAtomic, TypeInv, RowsServe, Stored
        <5> QED
          BY <4>1, <5>1, EnrollmentAssumption
          DEF EnrollmentAtomic, ChallengeBody
      <4>5. None # d
        BY <4>1, EnrollmentAssumption
      <4>6. \A f \in {challenges[d].request.auth,
                      challenges[d].request.approval} : keys'[f] = keys[f]
        BY <1>4, <4>4, <4>5
      <4> QED
        BY <1>3, <1>5, <3>2, <4>1, <4>2, <4>3, <4>4, <4>6
    <3> QED
      BY <3>1, <3>2
  <2>3. ASSUME NEW j \in IdempotencyKeys, NEW k \in IdempotencyKeys,
               completions'[j] # None, completions'[k] # None,
               completions'[j].ch = completions'[k].ch
        PROVE  j = k /\ completions'[j].ch \in Enrolled'
    <3>1. \A l \in IdempotencyKeys : completions[l] # None =>
            completions[l].ch \in Enrolled
      BY DEF EnrollmentAtomic
    <3>2. completions'[i].ch = c
      BY <1>7 DEF c
    <3>3. j = i <=> k = i
      BY <1>2, <1>7, <2>3, <3>1, <3>2
    <3> QED
      BY <1>5, <1>7, <2>3, <3>1, <3>2, <3>3 DEF EnrollmentAtomic
  <2> QED
    BY <2>1, <2>2, <2>3 DEF EnrollmentAtomic
<1> QED
  BY <1>8, <1>9

LEMMA RevokeKeeps ==
  ASSUME EnrollInv, NEW c \in Challenges, RevokeDevice(c)
  PROVE  OneDevicePerOffer' /\ EnrollmentAtomic'
<1> USE DEF EnrollInv
<1>1. TypeOK /\ TypeInv
  BY DEF CeremonyInv, TypeInv
<1>2. /\ UNCHANGED <<offers, challenges, completions>>
      /\ devices' = [devices EXCEPT ![c].state = "revoked"]
      /\ keys' = [f \in Fingerprints |-> IF keys[f].owner = c
            THEN [keys[f] EXCEPT !.active = FALSE] ELSE keys[f]]
      /\ devices[c].state = "active_unassigned"
  BY DEF RevokeDevice
<1>3. ASSUME NEW d \in Challenges
      PROVE  devices'[d].state =
               IF d = c THEN "revoked" ELSE devices[d].state
  <2>1. devices[d] \in DeviceRow
    BY <1>1 DEF TypeOK
  <2> QED
    BY <1>1, <1>2, <2>1 DEF DeviceRow, TypeOK
<1>4. Enrolled' = Enrolled
  BY <1>2, <1>3 DEF Enrolled
<1>5. OneDevicePerOffer'
  BY <1>2, <1>4 DEF OneDevicePerOffer, OfferOf
<1>6. ASSUME NEW d \in Enrolled,
             NEW f \in {challenges[d].request.auth,
                        challenges[d].request.approval}
      PROVE  /\ keys'[f].owner = d
             /\ keys'[f].active <=> devices'[d].state = "active_unassigned"
  <2>1. d \in Challenges /\ challenges[d].request \in ChallengeRequests
    BY <1>1 DEF Enrolled, EnrollmentAtomic, TypeInv, RowsServe, Stored
  <2>2. f \in Fingerprints
    BY <2>1, EnrollmentAssumption DEF ChallengeBody
  <2>3. keys[f] \in KeyRow
    BY <1>1, <2>2 DEF TypeOK
  <2>4. /\ keys[f].owner = d
        /\ keys[f].active <=> devices[d].state = "active_unassigned"
    BY <2>1 DEF EnrollmentAtomic
  <2>5. keys'[f] = IF d = c THEN [keys[f] EXCEPT !.active = FALSE] ELSE keys[f]
    BY <1>2, <2>2, <2>4
  <2> QED
    BY <1>3, <2>1, <2>3, <2>4, <2>5 DEF KeyRow
<1>7. EnrollmentAtomic'
  BY <1>2, <1>4, <1>6 DEF EnrollmentAtomic
<1> QED
  BY <1>5, <1>7

---------------------------------------------------------------------------

LEMMA EnrollInit == Init => EnrollInv
<1> SUFFICES ASSUME Init PROVE EnrollInv
  OBVIOUS
<1>1. Enrolled = {}
  BY DEF Init, Enrolled
<1>2. OneDevicePerOffer
  BY <1>1 DEF Init, OneDevicePerOffer
<1>3. EnrollmentAtomic
  BY <1>1 DEF Init, EnrollmentAtomic
<1> QED
  BY <1>2, <1>3, CeremonyInit DEF EnrollInv

LEMMA EnrollStep == EnrollInv /\ [Next]_vars => EnrollInv'
<1> SUFFICES ASSUME EnrollInv, [Next]_vars PROVE EnrollInv'
  OBVIOUS
<1>1. CeremonyInv /\ CeremonyInv'
  BY CeremonyStep DEF EnrollInv
<1>2. CASE \E h \in Handlers : CommitCompletion(h)
  BY <1>1, <1>2, CommitKeeps DEF EnrollInv
<1>3. CASE \E c \in Challenges : RevokeDevice(c)
  BY <1>1, <1>3, RevokeKeeps DEF EnrollInv
<1>4. CASE \E o \in Offers, at \in 0..MaxClock, ttl \in OfferTTLs :
             IssuePairingOffer(o, at, ttl)
  BY <1>1, <1>4, IssueIsQuiet, QuietKeeps DEF EnrollInv
<1> QED
  BY <1>1, <1>2, <1>3, <1>4, StepIsQuiet, QuietKeeps DEF EnrollInv

LEMMA EnrollAlways == Spec => []EnrollInv
  BY EnrollInit, EnrollStep, PTL DEF Spec

\* An offer enrolls at most one device, however many of its challenges are
\* completed at once, and is consumed exactly when it has enrolled one.
THEOREM OneDevice == Spec => []OneDevicePerOffer
<1>1. EnrollInv => OneDevicePerOffer
  BY DEF EnrollInv
<1> QED
  BY <1>1, EnrollAlways, PTL

\* Completed challenges, devices, completion rows and key rows always agree:
\* neither a race nor a crash between transactions leaves a part of an
\* enrollment behind.
THEOREM EnrollsWhole == Spec => []EnrollmentAtomic
<1>1. EnrollInv => EnrollmentAtomic
  BY DEF EnrollInv
<1> QED
  BY <1>1, EnrollAlways, PTL

(***************************************************************************)
(* VI. Enrollment implements PairingSecret, and nothing comes back.        *)
(***************************************************************************)

\* The refinement mapping, as in Ceremony.
secretBar == [o \in Offers |-> Worth(o)]
enrolledBar == {<<OfferOf(c), c>> : c \in Enrolled}
revokedBar == {c \in Challenges : devices[c].state = "revoked"}

\* A quiet step leaves the enrollments and the revocations of the mapping.
LEMMA QuietBars ==
  ASSUME EnrollInv, Quiet
  PROVE  enrolledBar' = enrolledBar /\ revokedBar' = revokedBar
<1>1. Enrolled' = Enrolled
  BY DEF Quiet, Enrolled
<1>2. ASSUME NEW c \in Enrolled PROVE OfferOf(c)' = OfferOf(c)
  BY DEF EnrollInv, Quiet, Enrolled, EnrollmentAtomic, OfferOf
<1>3. enrolledBar' = enrolledBar
  BY <1>1, <1>2 DEF enrolledBar
<1> QED
  BY <1>3 DEF Quiet, revokedBar

LEMMA FadingVoids ==
  ASSUME EnrollInv, Quiet, Fading
  PROVE  Ceremony!Void
<1>1. secretBar' \in [Offers -> Ceremony!Worth]
  <2>1. ASSUME NEW o \in Offers PROVE Worth(o)' \in Ceremony!Worth
    BY DEF Worth, Ceremony!Worth
  <2> QED
    BY <2>1 DEF secretBar
<1>2. Ceremony!Fades(secretBar, secretBar')
  BY DEF Fading, Ceremony!Fades, secretBar
<1> QED
  BY <1>1, <1>2, QuietBars
  DEF Ceremony!Void, secretBar, enrolledBar, revokedBar

LEMMA IssueIssues ==
  ASSUME EnrollInv, NEW o \in Offers, NEW at \in 0..MaxClock,
         NEW ttl \in OfferTTLs, IssuePairingOffer(o, at, ttl)
  PROVE  Ceremony!Issue(o)
<1>1. /\ Quiet
      /\ Worth(o) = "unissued" /\ Worth(o)' = "usable"
      /\ \A p \in Offers \ {o} :
           Worth(p)' = IF Worth(p) = "usable" THEN "void" ELSE Worth(p)
  BY IssueIsQuiet DEF EnrollInv
<1>2. secretBar' = [p \in Offers |->
        IF p = o THEN "usable"
        ELSE IF secretBar[p] = "usable" THEN "void" ELSE secretBar[p]]
  BY <1>1 DEF secretBar
<1>3. secretBar[o] = "unissued"
  BY <1>1 DEF secretBar
<1> QED
  BY <1>1, <1>2, <1>3, QuietBars
  DEF Ceremony!Issue, secretBar, enrolledBar, revokedBar

LEMMA CommitSpends ==
  ASSUME EnrollInv, NEW h \in Handlers, CommitCompletion(h)
  PROVE  \E o \in Offers, c \in Challenges : Ceremony!Spend(o, c)
<1>0. PICK c \in Challenges, o \in Offers :
        c = job[h].ch /\ o = challenges[c].request.offer
  BY CommitEffect
<1>1. /\ c \in Challenges /\ o \in Offers /\ c \notin Enrolled
      /\ offers[o].state = "claimed" /\ offers'[o].state = "completed"
      /\ \A p \in Offers \ {o} : offers'[p].state = offers[p].state
      /\ \A d \in Challenges : challenges'[d].request = challenges[d].request
      /\ devices' = [devices EXCEPT
           ![c] = [state |-> "active_unassigned", enrolled |-> now[h]]]
  BY <1>0, CommitEffect
<1>2. OfferOf(c) = o /\ \A d \in Challenges : OfferOf(d)' = OfferOf(d)
  BY <1>0, <1>1 DEF OfferOf
<1>3. /\ \A d \in Challenges : d # c => devices'[d] = devices[d]
      /\ devices'[c].state = "active_unassigned"
  BY <1>1 DEF EnrollInv, CeremonyInv, TypeInv, TypeOK
<1>4. Enrolled' = Enrolled \cup {c} /\ \A d \in Enrolled : d \in Challenges
  BY <1>1, <1>3 DEF Enrolled
<1>5. enrolledBar' = enrolledBar \cup {<<o, c>>}
  BY <1>1, <1>2, <1>4 DEF enrolledBar
<1>6. revokedBar' = revokedBar
  BY <1>1, <1>3 DEF revokedBar, Enrolled
<1>7. secretBar[o] = "usable" /\ secretBar' = [secretBar EXCEPT ![o] = "spent"]
  BY <1>1 DEF secretBar, Worth, LiveStates
<1>8. \A e \in enrolledBar : e[2] # c
  BY <1>1 DEF enrolledBar
<1>9. Ceremony!Spend(o, c)
  BY <1>5, <1>6, <1>7, <1>8
  DEF Ceremony!Spend, secretBar, enrolledBar, revokedBar
<1> QED
  BY <1>9

LEMMA RevokeRevokes ==
  ASSUME EnrollInv, NEW c \in Challenges, RevokeDevice(c)
  PROVE  Ceremony!Revoke(c)
<1>1. /\ UNCHANGED <<offers, challenges>>
      /\ devices[c].state = "active_unassigned"
      /\ devices' = [devices EXCEPT ![c].state = "revoked"]
  BY DEF RevokeDevice
<1>2. ASSUME NEW d \in Challenges
      PROVE  devices'[d].state =
               IF d = c THEN "revoked" ELSE devices[d].state
  <2>1. devices \in [Challenges -> DeviceRow] /\ devices[d] \in DeviceRow
    BY DEF EnrollInv, CeremonyInv, TypeInv, TypeOK
  <2> QED
    BY <1>1, <2>1 DEF DeviceRow
<1>3. Enrolled' = Enrolled /\ c \in Enrolled
  BY <1>1, <1>2 DEF Enrolled
<1>4. enrolledBar' = enrolledBar /\ secretBar' = secretBar
  BY <1>1, <1>3 DEF enrolledBar, secretBar, OfferOf, Worth
<1>5. revokedBar' = revokedBar \cup {c} /\ c \notin revokedBar
  BY <1>1, <1>2 DEF revokedBar
<1>6. <<OfferOf(c), c>> \in enrolledBar /\ <<OfferOf(c), c>>[2] = c
  BY <1>3 DEF enrolledBar
<1> QED
  BY <1>4, <1>5, <1>6
  DEF Ceremony!Revoke, secretBar, enrolledBar, revokedBar

LEMMA MapsInit == Init => Ceremony!Init
<1> SUFFICES ASSUME Init PROVE Ceremony!Init
  OBVIOUS
<1>1. Enrolled = {} /\ \A c \in Challenges : devices[c].state # "revoked"
  BY DEF Init, Enrolled
<1>2. ASSUME NEW o \in Offers PROVE Worth(o) = "unissued"
  <2>1. offers[o].state = "absent"
    BY DEF Init
  <2> QED
    BY <2>1 DEF Worth, LiveStates
<1> QED
  BY <1>1, <1>2 DEF Ceremony!Init

LEMMA MapsStep == EnrollInv /\ [Next]_vars => [Ceremony!Next]_Ceremony!vars
<1> SUFFICES ASSUME EnrollInv, [Next]_vars
             PROVE  Ceremony!Next
  OBVIOUS
<1>1. CASE \E h \in Handlers : CommitCompletion(h)
  BY <1>1, CommitSpends DEF Ceremony!Next
<1>2. CASE \E c \in Challenges : RevokeDevice(c)
  BY <1>2, RevokeRevokes DEF Ceremony!Next
<1>3. CASE \E o \in Offers, at \in 0..MaxClock, ttl \in OfferTTLs :
             IssuePairingOffer(o, at, ttl)
  BY <1>3, IssueIssues DEF Ceremony!Next
<1>4. CASE /\ \A o \in Offers, at \in 0..MaxClock, ttl \in OfferTTLs :
                ~IssuePairingOffer(o, at, ttl)
           /\ \A c \in Challenges : ~RevokeDevice(c)
           /\ \A h \in Handlers : ~CommitCompletion(h)
  BY <1>4, StepIsQuiet, FadingVoids DEF Ceremony!Next, EnrollInv
<1> QED
  BY <1>1, <1>2, <1>3, <1>4

\* Whatever requests, sweeps, races and operators do to the tables amounts to
\* issuing, using up, voiding and revoking one-use pairing secrets.
THEOREM EnrollmentImplements == Spec => ImplementsPairingSecret
<1>1. Init => Ceremony!Init
  BY MapsInit
<1>2. EnrollInv /\ [Next]_vars => [Ceremony!Next]_Ceremony!vars
  BY MapsStep
<1> QED
  BY <1>1, <1>2, EnrollAlways, PTL
  DEF Spec, ImplementsPairingSecret, Ceremony!Spec

---------------------------------------------------------------------------
(* Nothing comes back.                                                     *)

\* Who writes devices, keys and completions.
LEMMA OwnersSteps ==
  ASSUME EnrollInv, [Next]_vars
  PROVE  \/ UNCHANGED <<devices, keys, completions>>
         \/ \E h \in Handlers : CommitCompletion(h)
         \/ \E c \in Challenges : RevokeDevice(c)
<1>1. \/ Quiet
      \/ \E h \in Handlers : CommitCompletion(h)
      \/ \E c \in Challenges : RevokeDevice(c)
  BY IssueIsQuiet, StepIsQuiet DEF EnrollInv
<1> QED
  BY <1>1 DEF Quiet

OwnersKept ==
  /\ \A c \in Challenges :
       devices[c].state = "revoked" => devices'[c].state = "revoked"
  /\ \A f \in Fingerprints : keys[f].owner # None =>
       /\ keys'[f].owner = keys[f].owner
       /\ keys'[f].active => keys[f].active
  /\ \A i \in IdempotencyKeys : completions[i] # None =>
       completions'[i] = completions[i]

LEMMA CommitOwners ==
  ASSUME EnrollInv, NEW h \in Handlers, CommitCompletion(h)
  PROVE  OwnersKept
<1> DEFINE c == job[h].ch
           i == job[h].idem
           request == challenges[c].request
<1>1. TypeOK
  BY DEF EnrollInv, CeremonyInv, TypeInv
<1>2. /\ devices[c].state = "absent" /\ completions[i] = None
      /\ keys[request.auth].owner = None /\ keys[request.approval].owner = None
      /\ devices' = [devices EXCEPT
           ![c] = [state |-> "active_unassigned", enrolled |-> now[h]]]
      /\ completions' = [completions EXCEPT ![i] = job[h]]
      /\ keys' = [f \in Fingerprints |->
           IF f \in {request.auth, request.approval}
             THEN [owner |-> c, active |-> TRUE] ELSE keys[f]]
  BY DEF CommitCompletion, Committable, JobChallenge
<1> HIDE DEF c, i, request
<1>3. \A d \in Challenges : devices[d].state = "revoked" => devices'[d] = devices[d]
  BY <1>1, <1>2 DEF TypeOK
<1>4. \A j \in IdempotencyKeys : completions[j] # None => completions'[j] = completions[j]
  BY <1>1, <1>2 DEF TypeOK
<1>5. \A f \in Fingerprints : keys[f].owner # None => keys'[f] = keys[f]
  BY <1>2
<1> QED
  BY <1>3, <1>4, <1>5 DEF OwnersKept

LEMMA RevokeOwners ==
  ASSUME EnrollInv, NEW c \in Challenges, RevokeDevice(c)
  PROVE  OwnersKept
<1>1. TypeOK
  BY DEF EnrollInv, CeremonyInv, TypeInv
<1>2. ASSUME NEW d \in Challenges, devices[d].state = "revoked"
      PROVE  devices'[d].state = "revoked"
  <2>1. devices[d] \in DeviceRow
    BY <1>1 DEF TypeOK
  <2> QED
    BY <1>1, <1>2, <2>1 DEF RevokeDevice, TypeOK, DeviceRow
<1>3. ASSUME NEW f \in Fingerprints
      PROVE  /\ keys'[f].owner = keys[f].owner
             /\ keys'[f].active => keys[f].active
  <2>1. keys[f] \in KeyRow
    BY <1>1 DEF TypeOK
  <2>2. keys'[f] = IF keys[f].owner = c
          THEN [keys[f] EXCEPT !.active = FALSE] ELSE keys[f]
    BY DEF RevokeDevice
  <2> QED
    BY <2>1, <2>2 DEF KeyRow
<1> QED
  BY <1>2, <1>3 DEF OwnersKept, RevokeDevice

\* No sweep, race, retry, crash or operator brings back what ended: offers and
\* challenges stay final, keys scrubbed, devices revoked, fingerprints spent and
\* completion rows as they were written.
THEOREM EndsAreFinal == Spec => NothingReturns
<1>1. EnrollInv /\ [Next]_vars => [EndsStay]_vars
  <2> SUFFICES ASSUME EnrollInv, [Next]_vars PROVE EndsStay
    OBVIOUS
  <2>1. RowsAge
    BY StepAges DEF EnrollInv
  <2>2. OwnersKept
    BY OwnersSteps, CommitOwners, RevokeOwners DEF OwnersKept
  <2>3. ASSUME NEW o \in Offers
        PROVE  /\ offers[o].state \in OfferStates \ LiveStates =>
                    offers'[o].state = offers[o].state
               /\ offers[o].state # "absent" /\ ~offers[o].key => ~offers'[o].key
    BY <2>1 DEF RowsAge, OfferAges, OfferStates, LiveStates
  <2>4. ASSUME NEW c \in Challenges,
               challenges[c].state \in ChallengeStates \ {"open"}
        PROVE  challenges'[c] = challenges[c]
    BY <2>1, <2>4 DEF RowsAge, ChallengeAges, ChallengeStates
  <2> QED
    BY <2>2, <2>3, <2>4 DEF EndsStay, OwnersKept
<1> QED
  BY <1>1, EnrollAlways, PTL DEF Spec, NothingReturns

(***************************************************************************)
(* VII. Enrollment in its window.  A completion serves a challenge that    *)
(* was there before it read the clock, however long it waits afterwards.   *)
(***************************************************************************)

Timed == Completing \ {"find_completion"}

ClocksRead ==
  /\ \A h \in Handlers : now[h] <= clock
  /\ \A c \in Stored : challenges[c].issued <= clock
  /\ \A h \in Handlers : pc[h] \in Timed =>
       challenges[job[h].ch].issued <= now[h]

WindowInv == EnrollInv /\ ClocksRead /\ EnrolledInWindow

\* A handler's clock is read once, at most now, and for the request it serves.
LEMMA ClockSteps ==
  ASSUME TypeInv, [Next]_vars
  PROVE  /\ clock' \in Nat /\ clock <= clock'
         /\ \A h \in Handlers :
              /\ now'[h] \in {now[h], clock, 0}
              /\ pc'[h] \in Timed =>
                   /\ job'[h] = job[h]
                   /\ \/ pc[h] \in Timed /\ now'[h] = now[h]
                      \/ pc[h] = "find_completion" /\ now'[h] = clock
<1>1. clock \in Nat /\ clock' \in Nat /\ clock <= clock'
  <2>1. clock \in Nat /\ clock' \in Nat
    BY NextType, EnrollmentAssumption DEF TypeInv, TypeOK
  <2>2. ASSUME NEW h \in Handlers,
               \/ HandlerStep(h) \/ Abort(h)
               \/ \E r \in ChallengeRequests : ReceiveChallengeRequest(h, r)
               \/ \E q \in CompletionRequests : ReceiveCompletion(h, q)
        PROVE  clock' = clock
    BY <2>2
    DEF HandlerStep, ReceiveChallengeRequest, FindRequest, ExpireForClaim,
        ReadOffer, InsertChallenge, RejectChallenge, ReplayRequest,
        ReceiveCompletion, FindCompletion, ExpireForCompletion, ReadOpenChallenge,
        RecordFailedCompletion, CommitCompletion, RejectCompletion, ReadDevice,
        ReplayCompletion, Respond, Abort, Clear, Answer
  <2>3. clock' = clock \/ clock' = clock + 1
    BY <2>2 DEF Next, IssuePairingOffer, RevokeDevice, ExpirePending, Tick, vars
  <2> QED
    BY <2>1, <2>3
<1>2. ASSUME NEW g \in Handlers, UNCHANGED <<pc, job, now>>
      PROVE  /\ now'[g] \in {now[g], clock, 0}
             /\ pc'[g] \in Timed => job'[g] = job[g] /\ now'[g] = now[g]
  BY <1>2
<1>3. ASSUME NEW h \in Handlers, NEW g \in Handlers, HandlerStep(h) \/ Abort(h)
      PROVE  /\ now'[g] \in {now[g], clock, 0}
             /\ pc'[g] \in Timed =>
                  /\ job'[g] = job[g]
                  /\ \/ pc[g] \in Timed /\ now'[g] = now[g]
                     \/ pc[g] = "find_completion" /\ now'[g] = clock
  <2> USE DEF TypeInv, TypeOK, Timed, Completing
  <2>1. CASE FindRequest(h) \/ ReplayRequest(h) \/ ReadOffer(h)
    BY <1>3, <2>1 DEF FindRequest, ReplayRequest, ReadOffer, Answer, GoTo
  <2>2. CASE ExpireForClaim(h) \/ RejectChallenge(h) \/ \E c \in Challenges : InsertChallenge(h, c)
    BY <1>3, <2>2 DEF ExpireForClaim, RejectChallenge, InsertChallenge, Answer, GoTo
  <2>3. CASE FindCompletion(h)
    BY <1>3, <2>3 DEF FindCompletion, Answer, GoTo
  <2>4. CASE ExpireForCompletion(h) \/ ReadOpenChallenge(h)
    BY <1>3, <2>4 DEF ExpireForCompletion, ReadOpenChallenge, GoTo
  <2>5. CASE RecordFailedCompletion(h) \/ CommitCompletion(h) \/ RejectCompletion(h)
    BY <1>3, <2>5 DEF RecordFailedCompletion, CommitCompletion, RejectCompletion,
                      Answer, GoTo
  <2>6. CASE ReadDevice(h) \/ ReplayCompletion(h)
    BY <1>3, <2>6 DEF ReadDevice, ReplayCompletion, Answer, GoTo
  <2>7. CASE Clear(h)
    BY <1>3, <2>7 DEF Clear, GoTo
  <2> QED
    BY <1>3, <2>1, <2>2, <2>3, <2>4, <2>5, <2>6, <2>7 DEF HandlerStep, Respond, Abort
<1>4. ASSUME NEW h \in Handlers, NEW g \in Handlers,
             \/ \E r \in ChallengeRequests : ReceiveChallengeRequest(h, r)
             \/ \E q \in CompletionRequests : ReceiveCompletion(h, q)
      PROVE  /\ now'[g] \in {now[g], clock, 0}
             /\ pc'[g] \in Timed => pc[g] \in Timed /\ job'[g] = job[g] /\ now'[g] = now[g]
  BY <1>4 DEF ReceiveChallengeRequest, ReceiveCompletion, GoTo, TypeInv, TypeOK,
              Timed, Completing
<1>5. CASE UNCHANGED <<pc, job, now>>
  BY <1>1, <1>5
<1> QED
  BY <1>1, <1>3, <1>4, <1>5
  DEF Next, IssuePairingOffer, RevokeDevice, ExpirePending, Tick, vars, frames

LEMMA ClocksKept ==
  ASSUME WindowInv, [Next]_vars
  PROVE  ClocksRead'
<1>1. TypeInv /\ TypeInv' /\ TypeOK /\ RowsAge
  BY NextType, StepAges DEF WindowInv, EnrollInv, CeremonyInv, TypeInv
<1>2. /\ clock \in Nat /\ clock' \in Nat /\ clock <= clock'
      /\ \A h \in Handlers : now[h] \in Nat /\ now[h] <= clock
  BY <1>1, ClockSteps DEF WindowInv, ClocksRead, TypeOK
<1>3. ASSUME NEW h \in Handlers PROVE now'[h] <= clock'
  BY <1>1, <1>2, ClockSteps
<1>4. ASSUME NEW c \in Stored' PROVE challenges'[c].issued <= clock'
  <2>1. c \in Challenges /\ challenges'[c].state # "absent"
    BY <1>4 DEF Stored
  <2>2. CASE ChallengeAges(challenges[c], challenges'[c])
    <3>1. /\ c \in Stored /\ challenges'[c].issued = challenges[c].issued
          /\ challenges[c] \in ChallengeRow
      BY <1>1, <2>1, <2>2 DEF ChallengeAges, Stored, TypeOK
    <3>2. challenges[c].issued \in Nat /\ challenges[c].issued <= clock
      BY <3>1 DEF WindowInv, ClocksRead, ChallengeRow
    <3> QED
      BY <1>2, <3>1, <3>2
  <2>3. CASE \E h \in Handlers : challenges'[c].issued = now[h]
    BY <1>2, <2>3
  <2> QED
    BY <1>1, <2>1, <2>2, <2>3 DEF RowsAge
<1>5. ASSUME NEW h \in Handlers, pc'[h] \in Timed
      PROVE  challenges'[job'[h].ch].issued <= now'[h]
  <2>1. /\ job'[h] = job[h] /\ pc[h] \in Completing
        /\ \/ pc[h] \in Timed /\ now'[h] = now[h]
           \/ pc[h] = "find_completion" /\ now'[h] = clock
    BY <1>1, <1>5, ClockSteps DEF Timed, Completing
  <2>2. job[h].ch \in Stored /\ job[h].ch \in Challenges
    BY <1>1, <2>1, JobCompletes
  <2>3. challenges'[job[h].ch].issued = challenges[job[h].ch].issued
    BY <1>1, <2>2 DEF RowsAge, ChallengeAges, Stored
  <2>4. challenges[job[h].ch].issued <= now'[h]
    BY <2>1, <2>2 DEF WindowInv, ClocksRead
  <2> QED
    BY <2>1, <2>3, <2>4
<1> QED
  BY <1>3, <1>4, <1>5 DEF ClocksRead

LEMMA DeviceSteps ==
  ASSUME EnrollInv, [Next]_vars, NEW c \in Enrolled'
  PROVE  /\ c \in Challenges
         /\ \/ c \in Enrolled /\ devices'[c].enrolled = devices[c].enrolled
            \/ \E h \in Handlers :
                 /\ CommitCompletion(h) /\ c = job[h].ch
                 /\ devices'[c].enrolled = now[h]
<1>1. TypeOK /\ c \in Challenges /\ devices'[c].state # "absent"
  BY DEF EnrollInv, CeremonyInv, TypeInv, Enrolled
<1>2. devices[c] \in DeviceRow /\ devices \in [Challenges -> DeviceRow]
  BY <1>1 DEF TypeOK
<1>3. CASE UNCHANGED <<devices, keys, completions>>
  BY <1>1, <1>3 DEF Enrolled
<1>4. ASSUME NEW h \in Handlers, CommitCompletion(h)
      PROVE  \/ c \in Enrolled /\ devices'[c].enrolled = devices[c].enrolled
             \/ c = job[h].ch /\ devices'[c].enrolled = now[h]
  <2>1. devices' = [devices EXCEPT
          ![job[h].ch] = [state |-> "active_unassigned", enrolled |-> now[h]]]
    BY <1>4 DEF CommitCompletion
  <2> QED
    BY <1>1, <1>2, <2>1 DEF Enrolled
<1>5. ASSUME NEW d \in Challenges, RevokeDevice(d)
      PROVE  c \in Enrolled /\ devices'[c].enrolled = devices[c].enrolled
  <2>1. /\ devices' = [devices EXCEPT ![d].state = "revoked"]
        /\ devices[d].state = "active_unassigned"
    BY <1>5 DEF RevokeDevice
  <2>2. devices'[c] = IF c = d THEN [devices[c] EXCEPT !.state = "revoked"]
                               ELSE devices[c]
    BY <1>1, <1>2, <2>1
  <2> QED
    BY <1>1, <1>2, <2>1, <2>2 DEF DeviceRow, Enrolled
<1> QED
  BY <1>1, <1>3, <1>4, <1>5, OwnersSteps

LEMMA WindowKept ==
  ASSUME WindowInv, [Next]_vars
  PROVE  EnrolledInWindow'
<1> SUFFICES ASSUME NEW c \in Enrolled'
             PROVE  /\ challenges'[c].issued <= devices'[c].enrolled
                    /\ devices'[c].enrolled < challenges'[c].expires
                    /\ challenges'[c].expires <= offers'[OfferOf(c)'].expires
  BY DEF EnrolledInWindow
<1>1. TypeInv /\ TypeOK /\ RowsAge /\ EnrollInv /\ SingleCeremony
  BY StepAges DEF WindowInv, EnrollInv, CeremonyInv, TypeInv
<1>2. c \in Challenges
  BY <1>1, DeviceSteps
<1>3. ASSUME c \in Stored, OfferOf(c) \in Offers, offers[OfferOf(c)].state # "absent"
      PROVE  /\ challenges'[c].issued = challenges[c].issued
             /\ challenges'[c].expires = challenges[c].expires
             /\ offers'[OfferOf(c)'].expires = offers[OfferOf(c)].expires
  <2>1. /\ challenges'[c].issued = challenges[c].issued
        /\ challenges'[c].expires = challenges[c].expires
        /\ OfferOf(c)' = OfferOf(c)
    BY <1>1, <1>2, <1>3 DEF RowsAge, ChallengeAges, Stored, OfferOf
  <2>2. OfferAges(offers[OfferOf(c)], offers'[OfferOf(c)])
    BY <1>1, <1>3 DEF RowsAge
  <2> QED
    BY <1>3, <2>1, <2>2 DEF OfferAges
<1>4. CASE c \in Enrolled /\ devices'[c].enrolled = devices[c].enrolled
  <2>1. challenges[c].state = "completed" /\ c \in Stored
    BY <1>1, <1>2, <1>4 DEF EnrollInv, EnrollmentAtomic, Stored
  <2>2. OfferOf(c) \in Offers
    BY <1>1, <2>1, EnrollmentAssumption DEF TypeInv, RowsServe, OfferOf, ChallengeBody
  <2>3. offers[OfferOf(c)].state = "completed"
    BY <1>1, <1>4, <2>2 DEF EnrollInv, OneDevicePerOffer
  <2>4. /\ challenges[c].issued <= devices[c].enrolled
        /\ devices[c].enrolled < challenges[c].expires
        /\ challenges[c].expires <= offers[OfferOf(c)].expires
    BY <1>4 DEF WindowInv, EnrolledInWindow
  <2> QED
    BY <1>3, <1>4, <2>1, <2>2, <2>3, <2>4
<1>5. ASSUME NEW h \in Handlers, CommitCompletion(h), c = job[h].ch,
             devices'[c].enrolled = now[h]
      PROVE  /\ challenges'[c].issued <= devices'[c].enrolled
             /\ devices'[c].enrolled < challenges'[c].expires
             /\ challenges'[c].expires <= offers'[OfferOf(c)'].expires
  <2>1. c \in OpenChallenges
    BY <1>1, <1>5, CommitEffect
  <2>2. /\ c \in Stored /\ OfferOf(c) \in Offers /\ OfferOf(c) \in LiveOffers
        /\ challenges[c].expires <= offers[OfferOf(c)].expires
    BY <1>1, <2>1, OpenOffer
  <2>3. offers[OfferOf(c)].state # "absent"
    BY <2>2 DEF LiveOffers, LiveStates
  <2>4. challenges[c].issued <= now[h]
    BY <1>5 DEF WindowInv, ClocksRead, Timed, Completing, CommitCompletion
  <2>5. SweptChallenges(now[h])[c].expires > now[h]
    BY <1>5 DEF CommitCompletion, Committable, Completable
  <2>6. challenges[c].expires > now[h]
    BY <1>1, <1>2, <2>5, SweptChallenge
  <2>7. challenges[c].expires \in Nat /\ now[h] \in Nat
    BY <1>1, <1>2 DEF TypeOK, ChallengeRow
  <2> QED
    BY <1>3, <1>5, <2>2, <2>3, <2>4, <2>6, <2>7
<1> QED
  BY <1>1, <1>4, <1>5, DeviceSteps

LEMMA WindowInit == Init => WindowInv
<1> SUFFICES ASSUME Init PROVE WindowInv
  OBVIOUS
<1>1. EnrollInv
  BY EnrollInit
<1>2. ClocksRead
  BY DEF Init, ClocksRead, Stored, Timed, Completing
<1>3. EnrolledInWindow
  BY DEF Init, EnrolledInWindow, Enrolled
<1> QED
  BY <1>1, <1>2, <1>3 DEF WindowInv

\* A device is enrolled by a request that began inside its challenge's window,
\* which is inside its offer's, although every handler compares deadlines with
\* a clock it read before it waited for the write lock.
THEOREM EnrollsInWindow == Spec => []EnrolledInWindow
<1>1. WindowInv /\ [Next]_vars => WindowInv'
  BY EnrollStep, ClocksKept, WindowKept DEF WindowInv
<1>2. WindowInv => EnrolledInWindow
  BY DEF WindowInv
<1> QED
  BY <1>1, <1>2, WindowInit, PTL DEF Spec

(***************************************************************************)
(* VIII. Replies.  What is known of a request when it arrives, and of its  *)
(* answer when it is ready, stays so while others go on.                   *)
(***************************************************************************)

\* Whoever serves a request that was committed before only looks it up; a
\* request that began after a revocation never comes to a receipt.
BeganFits(h) ==
  /\ pc[h] \notin Completing /\ pc[h] # "replied" => began[h] \subseteq {"stored"}
  /\ began[h] \ {"stored"} # {} => job[h] \in CompletionRequests
  /\ "revoked" \in began[h] =>
       /\ devices[job[h].ch].state = "revoked"
       /\ pc[h] # "read_device" /\ ~Replied(h, "receipt")
  /\ "committed" \in began[h] =>
       /\ pc[h] \in {"find_completion", "replied"}
       /\ completions[job[h].idem] = job[h]
       /\ pc[h] = "replied" =>
            \/ reply[h] = Receipt(job[h].ch)
            \/ reply[h] = Rejected /\ devices[job[h].ch].state = "revoked"

\* A proof was verified before the commit, a receipt is given after it.
ReceiptFits(h) ==
  /\ pc[h] = "commit_completion" => job[h].valid
  /\ pc[h] = "read_device" \/ Replied(h, "receipt") =>
       /\ job[h] \in CompletionRequests /\ job[h].valid
       /\ completions[job[h].idem] = job[h] /\ job[h].ch \in Enrolled
  /\ Replied(h, "receipt") => reply[h].ch = job[h].ch

RepliesInv ==
  /\ EnrollInv
  /\ \A i \in IdempotencyKeys : completions[i] # None => completions[i].valid
  /\ \A h \in Handlers : BeganFits(h) /\ ReceiptFits(h)

LEMMA EnrolledStay ==
  ASSUME EnrollInv, [Next]_vars
  PROVE  OwnersKept /\ \A c \in Enrolled : c \in Enrolled'
<1>1. TypeOK
  BY DEF EnrollInv, CeremonyInv, TypeInv
<1>2. CASE UNCHANGED <<devices, keys, completions>>
  BY <1>2 DEF OwnersKept, Enrolled
<1>3. ASSUME NEW h \in Handlers, CommitCompletion(h)
      PROVE  OwnersKept /\ \A c \in Enrolled : c \in Enrolled'
  <2>1. devices' = [devices EXCEPT
          ![job[h].ch] = [state |-> "active_unassigned", enrolled |-> now[h]]]
    BY <1>3 DEF CommitCompletion
  <2>2. \A c \in Enrolled : c \in Enrolled'
    BY <1>1, <2>1 DEF Enrolled, TypeOK
  <2> QED
    BY <1>3, <2>2, CommitOwners
<1>4. ASSUME NEW d \in Challenges, RevokeDevice(d)
      PROVE  OwnersKept /\ \A c \in Enrolled : c \in Enrolled'
  <2>1. ASSUME NEW c \in Enrolled PROVE c \in Enrolled'
    <3>1. devices[c] \in DeviceRow /\ c \in Challenges
      BY <1>1, <2>1 DEF TypeOK, Enrolled
    <3>2. devices'[c] = IF c = d THEN [devices[c] EXCEPT !.state = "revoked"]
                                 ELSE devices[c]
      BY <1>1, <1>4, <3>1 DEF RevokeDevice, TypeOK
    <3> QED
      BY <2>1, <3>1, <3>2 DEF DeviceRow, Enrolled
  <2> QED
    BY <1>4, <2>1, RevokeOwners
<1> QED
  BY <1>2, <1>3, <1>4, OwnersSteps

\* What fits a handler fits it while others go on.
LEMMA FitsStays ==
  ASSUME RepliesInv, [Next]_vars, NEW h \in Handlers,
         pc'[h] = pc[h], job'[h] = job[h], reply'[h] = reply[h],
         began'[h] = began[h]
  PROVE  BeganFits(h)' /\ ReceiptFits(h)'
<1>1. OwnersKept /\ \A c \in Enrolled : c \in Enrolled'
  BY EnrolledStay DEF RepliesInv
<1>2. BeganFits(h) /\ ReceiptFits(h)
  BY DEF RepliesInv
<1>3. job[h] \in CompletionRequests =>
        /\ job[h].ch \in Challenges /\ job[h].idem \in IdempotencyKeys
        /\ job[h] # None
  BY EnrollmentAssumption DEF CompletionBody
<1>4. /\ job[h] \in CompletionRequests /\ completions[job[h].idem] = job[h] =>
           completions'[job[h].idem] = job[h]
      /\ job[h] \in CompletionRequests /\ devices[job[h].ch].state = "revoked" =>
           devices'[job[h].ch].state = "revoked"
  BY <1>1, <1>3 DEF OwnersKept
<1>5. BeganFits(h)'
  BY <1>2, <1>4 DEF BeganFits, Replied
<1>6. ReceiptFits(h)'
  BY <1>1, <1>2, <1>4 DEF ReceiptFits, Replied
<1> QED
  BY <1>5, <1>6

\* A handler that ends, or answers a claim, has nothing to keep.
LEMMA BareFits ==
  ASSUME NEW h \in Handlers, began'[h] \subseteq {"stored"},
         ~Replied(h, "receipt")',
         pc'[h] \notin {"commit_completion", "read_device"}
  PROVE  BeganFits(h)' /\ ReceiptFits(h)'
BY DEF BeganFits, ReceiptFits

LEMMA ClaimFits ==
  ASSUME RepliesInv, NEW h \in Handlers,
         \/ FindRequest(h) \/ ExpireForClaim(h) \/ ReadOffer(h)
         \/ \E c \in Challenges : InsertChallenge(h, c)
         \/ RejectChallenge(h) \/ ReplayRequest(h)
  PROVE  BeganFits(h)' /\ ReceiptFits(h)'
<1>1. TypeOK
  BY DEF RepliesInv, EnrollInv, CeremonyInv, TypeInv
<1>2. began[h] \subseteq {"stored"} /\ began' = began
  BY DEF RepliesInv, BeganFits, Completing, FindRequest, ExpireForClaim, ReadOffer,
         InsertChallenge, RejectChallenge, ReplayRequest, Answer
<1>3. CASE ExpireForClaim(h) \/ RejectChallenge(h)
  <2>1. pc'[h] \in {"read_offer", "replay_request"}
    BY <1>1, <1>3 DEF ExpireForClaim, RejectChallenge, GoTo, TypeOK
  <2> QED
    BY <1>2, <2>1, BareFits DEF Replied
<1>4. ASSUME NEW response, Answer(h, response), response.kind # "receipt"
      PROVE  BeganFits(h)' /\ ReceiptFits(h)'
  <2>1. pc'[h] = "replied" /\ reply'[h] = response
    BY <1>1, <1>4 DEF Answer, GoTo, TypeOK
  <2> QED
    BY <1>2, <1>4, <2>1, BareFits DEF Replied
<1>5. ASSUME NEW label \in {"expire_for_claim", "insert_challenge"}, GoTo(h, label)
      PROVE  BeganFits(h)' /\ ReceiptFits(h)'
  <2>1. pc'[h] = label
    BY <1>1, <1>5 DEF GoTo, TypeOK
  <2> QED
    BY <1>2, <1>5, <2>1, BareFits DEF Replied
<1>6. /\ Rejected.kind # "receipt" /\ Conflict.kind # "receipt"
      /\ \A c : ChallengeReply(c).kind # "receipt"
      /\ \A c : StoredAnswer(h, c).kind # "receipt"
  BY DEF Rejected, Conflict, ChallengeReply, StoredAnswer
<1>7. CASE FindRequest(h) \/ ReadOffer(h) \/ ReplayRequest(h)
  BY <1>4, <1>5, <1>6, <1>7 DEF FindRequest, ReadOffer, ReplayRequest
<1>8. CASE \E c \in Challenges : InsertChallenge(h, c)
  BY <1>4, <1>6, <1>8 DEF InsertChallenge
<1> QED
  BY <1>3, <1>7, <1>8

LEMMA ReceiveFits ==
  ASSUME RepliesInv, NEW h \in Handlers,
         \/ \E r \in ChallengeRequests : ReceiveChallengeRequest(h, r)
         \/ \E q \in CompletionRequests : ReceiveCompletion(h, q)
         \/ Clear(h)
  PROVE  BeganFits(h)' /\ ReceiptFits(h)'
<1>1. TypeOK
  BY DEF RepliesInv, EnrollInv, CeremonyInv, TypeInv
<1>2. CASE Clear(h)
  <2>1. pc'[h] = "idle" /\ began'[h] = {}
    BY <1>1, <1>2 DEF Clear, GoTo, TypeOK
  <2> QED
    BY <2>1, BareFits DEF Replied
<1>3. CASE \E r \in ChallengeRequests : ReceiveChallengeRequest(h, r)
  <2>1. pc'[h] = "find_request" /\ began'[h] \subseteq {"stored"}
    BY <1>1, <1>3 DEF ReceiveChallengeRequest, GoTo, TypeOK
  <2> QED
    BY <2>1, BareFits DEF Replied
<1>4. ASSUME NEW q \in CompletionRequests, ReceiveCompletion(h, q)
      PROVE  BeganFits(h)' /\ ReceiptFits(h)'
  <2>1. /\ pc'[h] = "find_completion" /\ job'[h] = q
        /\ UNCHANGED <<devices, completions>>
        /\ began'[h] = {k \in {"committed"} : completions[q.idem] = q}
                       \cup {k \in {"revoked"} : devices[q.ch].state = "revoked"}
    BY <1>1, <1>4 DEF ReceiveCompletion, GoTo, TypeOK, tables
  <2>2. /\ "committed" \in began'[h] => completions[q.idem] = q
        /\ "revoked" \in began'[h] => devices[q.ch].state = "revoked"
    BY <2>1
  <2> QED
    BY <2>1, <2>2, <1>4 DEF BeganFits, ReceiptFits, Replied, Completing
<1> QED
  BY <1>2, <1>3, <1>4

\* A step of a handler that serves a completion to another of its labels.
LEMMA MovesFit ==
  ASSUME RepliesInv, NEW h \in Handlers, pc[h] \in Completing,
         "committed" \notin began[h], UNCHANGED <<job, began, devices>>,
         pc'[h] \in Completing \ {"read_device"},
         pc'[h] = "commit_completion" => job[h].valid
  PROVE  BeganFits(h)' /\ ReceiptFits(h)'
<1>1. BeganFits(h)
  BY DEF RepliesInv
<1>2. pc'[h] # "replied"
  BY DEF Completing
<1> QED
  BY <1>1, <1>2 DEF BeganFits, ReceiptFits, Replied

LEMMA RejectedFits ==
  ASSUME RepliesInv, NEW h \in Handlers, pc[h] \in Completing,
         "committed" \notin began[h], UNCHANGED devices,
         NEW response \in {Rejected, Conflict}, Answer(h, response)
  PROVE  BeganFits(h)' /\ ReceiptFits(h)'
<1>1. TypeOK /\ BeganFits(h)
  BY DEF RepliesInv, EnrollInv, CeremonyInv, TypeInv
<1>2. pc'[h] = "replied" /\ reply'[h] = response /\ UNCHANGED <<job, began>>
  BY <1>1 DEF Answer, GoTo, TypeOK
<1>3. response.kind # "receipt"
  BY DEF Rejected, Conflict
<1> QED
  BY <1>1, <1>2, <1>3 DEF BeganFits, ReceiptFits, Replied

LEMMA ReceiptsFit ==
  ASSUME RepliesInv, NEW h \in Handlers, pc[h] \in Completing,
         UNCHANGED tables, Answer(h, Receipt(job[h].ch)),
         job[h] \in CompletionRequests, job[h].valid,
         completions[job[h].idem] = job[h], job[h].ch \in Enrolled,
         "revoked" \notin began[h]
  PROVE  BeganFits(h)' /\ ReceiptFits(h)'
<1>1. TypeOK /\ BeganFits(h)
  BY DEF RepliesInv, EnrollInv, CeremonyInv, TypeInv
<1>2. /\ pc'[h] = "replied" /\ reply'[h] = Receipt(job[h].ch)
      /\ UNCHANGED <<job, began, devices, completions>> /\ Enrolled' = Enrolled
  BY <1>1 DEF Answer, GoTo, TypeOK, tables, Enrolled
<1>3. Receipt(job[h].ch).ch = job[h].ch
  BY DEF Receipt
<1> QED
  BY <1>1, <1>2, <1>3 DEF BeganFits, ReceiptFits, Replied

\* What the tables say to a copy of a committed request.
LEMMA ActiveFacts ==
  ASSUME RepliesInv, NEW h \in Handlers, pc[h] \in Completing
  PROVE  /\ job[h] \in CompletionRequests /\ job[h].idem \in IdempotencyKeys
         /\ ActiveCompletion(h) =>
              /\ job[h].valid /\ job[h].ch \in Enrolled
              /\ completions[job[h].idem] = job[h]
              /\ "revoked" \notin began[h]
         /\ completions[job[h].idem] = job[h] /\ ~ActiveCompletion(h) =>
              devices[job[h].ch].state = "revoked"
<1>1. TypeInv /\ TypeOK /\ EnrollmentAtomic /\ BeganFits(h)
  BY DEF RepliesInv, EnrollInv, CeremonyInv, TypeInv
<1>2. /\ job[h] \in CompletionRequests /\ job[h].idem \in IdempotencyKeys
      /\ job[h] # None
  BY <1>1, JobCompletes, EnrollmentAssumption
<1>3. ASSUME completions[job[h].idem] = job[h]
      PROVE  /\ job[h].valid /\ job[h].ch \in Enrolled
             /\ devices[job[h].ch].state \in DeviceStates
  <2>1. job[h].valid /\ job[h].ch \in Enrolled
    BY <1>1, <1>2, <1>3 DEF RepliesInv, EnrollmentAtomic
  <2>2. devices[job[h].ch] \in DeviceRow /\ devices[job[h].ch].state # "absent"
    BY <1>1, <2>1 DEF Enrolled, TypeOK
  <2> QED
    BY <2>1, <2>2 DEF DeviceRow
<1> QED
  BY <1>1, <1>2, <1>3 DEF ActiveCompletion, BeganFits, DeviceStates

LEMMA CompletionFits ==
  ASSUME RepliesInv, NEW h \in Handlers,
         \/ FindCompletion(h) \/ ExpireForCompletion(h) \/ ReadOpenChallenge(h)
         \/ RecordFailedCompletion(h) \/ RejectCompletion(h)
         \/ ReadDevice(h) \/ ReplayCompletion(h)
  PROVE  BeganFits(h)' /\ ReceiptFits(h)'
<1>1. TypeOK /\ BeganFits(h) /\ ReceiptFits(h)
  BY DEF RepliesInv, EnrollInv, CeremonyInv, TypeInv
<1>2. pc[h] \in Completing
  BY DEF FindCompletion, ExpireForCompletion, ReadOpenChallenge,
         RecordFailedCompletion, RejectCompletion, ReadDevice, ReplayCompletion,
         Completing
<1>3. pc[h] # "find_completion" => "committed" \notin began[h]
  BY <1>1, <1>2 DEF BeganFits, Completing
<1>4. CASE FindCompletion(h)
  <2>1. completions[job[h].idem] # job[h] => "committed" \notin began[h]
    BY <1>1 DEF BeganFits
  <2>2. CASE completions[job[h].idem] = None /\ GoTo(h, "expire_for_completion")
             /\ UNCHANGED <<clock, job, seen, reply, began>>
    <3>1. completions[job[h].idem] # job[h]
      BY <1>2, <2>2, ActiveFacts, EnrollmentAssumption
    <3>2. pc'[h] = "expire_for_completion"
      BY <1>1, <2>2 DEF GoTo, TypeOK
    <3> QED
      BY <1>2, <1>4, <2>1, <2>2, <3>1, <3>2, MovesFit
      DEF FindCompletion, tables, Completing
  <2>3. CASE completions[job[h].idem] # job[h] /\ Answer(h, Conflict)
    BY <1>2, <1>4, <2>1, <2>3, RejectedFits DEF FindCompletion, tables
  <2>4. CASE completions[job[h].idem] = job[h] /\ ActiveCompletion(h)
             /\ Answer(h, Receipt(job[h].ch))
    BY <1>2, <1>4, <2>4, ActiveFacts, ReceiptsFit DEF FindCompletion
  <2>5. CASE completions[job[h].idem] = job[h] /\ ~ActiveCompletion(h)
             /\ Answer(h, Rejected)
    <3>1. devices[job[h].ch].state = "revoked"
      BY <1>2, <2>5, ActiveFacts
    <3>2. /\ pc'[h] = "replied" /\ reply'[h] = Rejected
          /\ UNCHANGED <<job, began, devices, completions>>
      BY <1>1, <1>4, <2>5 DEF Answer, GoTo, TypeOK, FindCompletion, tables
    <3>3. Rejected.kind # "receipt"
      BY DEF Rejected
    <3> QED
      BY <1>1, <2>5, <3>1, <3>2, <3>3 DEF BeganFits, ReceiptFits, Replied
  <2> QED
    BY <1>4, <2>2, <2>3, <2>4, <2>5 DEF FindCompletion
<1>5. CASE ExpireForCompletion(h) \/ RejectCompletion(h)
  <2>1. pc'[h] \in {"read_challenge", "replay_uncommitted"}
        /\ pc[h] # "find_completion" /\ UNCHANGED <<job, began, devices>>
    BY <1>1, <1>5 DEF ExpireForCompletion, RejectCompletion, GoTo, TypeOK, tables
  <2> QED
    BY <1>2, <1>3, <2>1, MovesFit DEF Completing
<1>6. CASE ReadOpenChallenge(h)
  <2>1. /\ pc'[h] \in {"commit_completion", "record_failure", "replay_unopened"}
        /\ pc'[h] = "commit_completion" => job[h].valid
        /\ pc[h] # "find_completion" /\ UNCHANGED <<job, began, devices>>
    BY <1>1, <1>6 DEF ReadOpenChallenge, GoTo, TypeOK, tables
  <2> QED
    BY <1>2, <1>3, <2>1, MovesFit DEF Completing
<1>7. CASE RecordFailedCompletion(h)
  BY <1>2, <1>3, <1>7, RejectedFits DEF RecordFailedCompletion
<1>8. CASE ReadDevice(h)
  <2>1. "revoked" \notin began[h]
    BY <1>1, <1>8 DEF BeganFits, ReadDevice
  <2> QED
    BY <1>1, <1>2, <1>8, <2>1, ReceiptsFit DEF ReadDevice, ReceiptFits
<1>9. CASE ReplayCompletion(h)
  <2>1. CASE ActiveCompletion(h)
    BY <1>2, <1>9, <2>1, ActiveFacts, ReceiptsFit DEF ReplayCompletion
  <2>2. CASE ~ActiveCompletion(h)
    <3>1. Answer(h, Rejected) \/ Answer(h, Conflict)
      BY <1>9, <2>2 DEF ReplayCompletion
    <3> QED
      BY <1>2, <1>3, <1>9, <3>1, RejectedFits DEF ReplayCompletion, tables
  <2> QED
    BY <2>1, <2>2
<1> QED
  BY <1>4, <1>5, <1>6, <1>7, <1>8, <1>9

LEMMA CommitFits ==
  ASSUME RepliesInv, NEW h \in Handlers, CommitCompletion(h)
  PROVE  /\ BeganFits(h)' /\ ReceiptFits(h)'
         /\ \A i \in IdempotencyKeys : completions'[i] # None => completions'[i].valid
<1>1. TypeInv /\ TypeOK /\ BeganFits(h) /\ ReceiptFits(h)
  BY DEF RepliesInv, EnrollInv, CeremonyInv, TypeInv
<1>2. /\ job[h] \in CompletionRequests /\ job[h].ch \in Challenges
      /\ job[h].idem \in IdempotencyKeys
  BY <1>1, JobCompletes DEF CommitCompletion, Completing
<1>3. /\ pc'[h] = "read_device" /\ UNCHANGED <<job, began>>
      /\ completions' = [completions EXCEPT ![job[h].idem] = job[h]]
      /\ job[h].ch \in Enrolled'
      /\ devices[job[h].ch].state = "absent" /\ job[h].valid
      /\ pc[h] = "commit_completion"
  BY <1>1, <1>2 DEF CommitCompletion, Committable, GoTo, TypeOK, Enrolled, ReceiptFits
<1>4. "committed" \notin began[h] /\ "revoked" \notin began[h]
  BY <1>1, <1>3 DEF BeganFits
<1>5. completions'[job[h].idem] = job[h]
      /\ \A i \in IdempotencyKeys \ {job[h].idem} : completions'[i] = completions[i]
  BY <1>1, <1>2, <1>3 DEF TypeOK
<1> QED
  BY <1>2, <1>3, <1>4, <1>5 DEF BeganFits, ReceiptFits, Replied, Completing, RepliesInv

\* The handler takes no step.
Rests(h) ==
  /\ pc'[h] = pc[h] /\ job'[h] = job[h] /\ now'[h] = now[h]
  /\ seen'[h] = seen[h] /\ reply'[h] = reply[h] /\ began'[h] = began[h]

\* Whose step it is.
LEMMA WhoMoves ==
  ASSUME TypeOK, [Next]_vars
  PROVE  \/ \A h \in Handlers : Rests(h)
         \/ \E h \in Handlers :
              /\ \/ HandlerStep(h) \/ Clear(h)
                 \/ \E r \in ChallengeRequests : ReceiveChallengeRequest(h, r)
                 \/ \E q \in CompletionRequests : ReceiveCompletion(h, q)
              /\ \A g \in Handlers \ {h} : Rests(g)
<1>1. ASSUME NEW h \in Handlers,
             \/ HandlerStep(h) \/ Clear(h)
             \/ \E r \in ChallengeRequests : ReceiveChallengeRequest(h, r)
             \/ \E q \in CompletionRequests : ReceiveCompletion(h, q)
      PROVE  \A g \in Handlers \ {h} : Rests(g)
  <2>1. /\ pc' = [pc EXCEPT ![h] = pc'[h]]
        /\ job' = job \/ job' = [job EXCEPT ![h] = job'[h]]
        /\ now' = now \/ now' = [now EXCEPT ![h] = now'[h]]
        /\ seen' = seen \/ seen' = [seen EXCEPT ![h] = seen'[h]]
        /\ reply' = reply \/ reply' = [reply EXCEPT ![h] = reply'[h]]
        /\ began' = began \/ began' = [began EXCEPT ![h] = began'[h]]
    BY <1>1
    DEF HandlerStep, ReceiveChallengeRequest, FindRequest, ExpireForClaim,
        ReadOffer, InsertChallenge, RejectChallenge, ReplayRequest,
        ReceiveCompletion, FindCompletion, ExpireForCompletion, ReadOpenChallenge,
        RecordFailedCompletion, CommitCompletion, RejectCompletion, ReadDevice,
        ReplayCompletion, Respond, Clear, Answer, GoTo, TypeOK
  <2> QED
    BY <2>1 DEF TypeOK, Rests
<1>2. \/ UNCHANGED frames
      \/ \E h \in Handlers :
           \/ HandlerStep(h) \/ Clear(h)
           \/ \E r \in ChallengeRequests : ReceiveChallengeRequest(h, r)
           \/ \E q \in CompletionRequests : ReceiveCompletion(h, q)
  BY DEF Next, IssuePairingOffer, RevokeDevice, ExpirePending, Tick, Abort, vars, frames
<1> QED
  BY <1>1, <1>2 DEF frames, Rests

LEMMA RepliesStep == RepliesInv /\ [Next]_vars => RepliesInv'
<1> SUFFICES ASSUME RepliesInv, [Next]_vars PROVE RepliesInv'
  OBVIOUS
<1>1. EnrollInv /\ EnrollInv' /\ TypeOK
  BY EnrollStep DEF RepliesInv, EnrollInv, CeremonyInv, TypeInv
<1>2. \A i \in IdempotencyKeys : completions'[i] # None => completions'[i].valid
  <2>1. CASE completions' = completions
    BY <2>1 DEF RepliesInv
  <2> QED
    BY <1>1, <2>1, CommitFits, OwnersSteps DEF RevokeDevice
<1>3. ASSUME NEW g \in Handlers PROVE BeganFits(g)' /\ ReceiptFits(g)'
  <2>1. CASE Rests(g)
    BY <2>1, FitsStays DEF Rests
  <2>2. ASSUME NEW h \in Handlers,
               \/ HandlerStep(h) \/ Clear(h)
               \/ \E r \in ChallengeRequests : ReceiveChallengeRequest(h, r)
               \/ \E q \in CompletionRequests : ReceiveCompletion(h, q),
               \A k \in Handlers \ {h} : Rests(k)
        PROVE  BeganFits(g)' /\ ReceiptFits(g)'
    <3>1. CASE g # h
      BY <2>1, <2>2, <3>1
    <3>2. BeganFits(h)' /\ ReceiptFits(h)'
      BY <2>2, ClaimFits, ReceiveFits, CompletionFits, CommitFits
      DEF HandlerStep, Respond
    <3> QED
      BY <3>1, <3>2
  <2> QED
    BY <1>1, <2>1, <2>2, WhoMoves
<1> QED
  BY <1>1, <1>2, <1>3 DEF RepliesInv

LEMMA RepliesInit == Init => RepliesInv
<1> SUFFICES ASSUME Init PROVE RepliesInv
  OBVIOUS
<1>1. ASSUME NEW h \in Handlers PROVE BeganFits(h) /\ ReceiptFits(h)
  <2>1. pc[h] = "idle" /\ began[h] = {}
    BY DEF Init
  <2> QED
    BY <2>1 DEF BeganFits, ReceiptFits, Replied
<1>2. \A i \in IdempotencyKeys : completions[i] = None
  BY DEF Init
<1> QED
  BY <1>1, <1>2, EnrollInit DEF RepliesInv

LEMMA RepliesAlways == Spec => []RepliesInv
  BY RepliesInit, RepliesStep, PTL DEF Spec

\* A receipt is given only for a proof that verified and is committed under the
\* request's own idempotency key.
THEOREM ReceiptsAreExact == Spec => []ReceiptExact
<1>1. RepliesInv => ReceiptExact
  BY DEF RepliesInv, ReceiptFits, ReceiptExact
<1> QED
  BY <1>1, RepliesAlways, PTL

\* Once a device is revoked no later request obtains its receipt.
THEOREM RevokedGetsNothing == Spec => []NoReceiptAfterRevocation
<1>1. RepliesInv => NoReceiptAfterRevocation
  BY DEF RepliesInv, BeganFits, NoReceiptAfterRevocation
<1> QED
  BY <1>1, RepliesAlways, PTL

\* An exact retry of a committed completion gets the receipt unless the device
\* was revoked.
THEOREM RetriesAreAnswered == Spec => []ExactRetryGetsReceipt
<1>1. RepliesInv => ExactRetryGetsReceipt
  BY DEF RepliesInv, BeganFits, ExactRetryGetsReceipt
<1> QED
  BY <1>1, RepliesAlways, PTL

---------------------------------------------------------------------------
(* The answers to claims.                                                  *)

\* request_id is UNIQUE: create_challenge looks before it inserts, inside its
\* transaction.
OneRow ==
  \A c, d \in Stored :
    challenges[c].request.rid = challenges[d].request.rid => c = d

AnswerFits(h) ==
  Replied(h, "challenge") =>
    reply[h].ch \in Stored /\ challenges[reply[h].ch].request = job[h]

AnswersInv == CeremonyInv /\ OneRow /\ \A h \in Handlers : AnswerFits(h)

\* A stored row keeps its request.
LEMMA RowsStay ==
  ASSUME CeremonyInv, [Next]_vars, NEW c \in Stored
  PROVE  c \in Stored' /\ challenges'[c].request = challenges[c].request
<1>1. c \in Challenges /\ challenges[c].state # "absent"
  BY DEF Stored
<1> QED BY <1>1, StepAges DEF RowsAge, ChallengeAges, Stored

LEMMA OneRowKept ==
  ASSUME CeremonyInv, OneRow, [Next]_vars
  PROVE  OneRow'
<1>1. CASE ChallengesPlain
  BY <1>1 DEF ChallengesPlain, ChallengePlain, OneRow, Stored
<1>2. ASSUME NEW h \in Handlers, NEW c \in Challenges, InsertChallenge(h, c)
      PROVE  OneRow'
  <2>1. /\ challenges[c].state = "absent" /\ challenges'[c].request = job[h]
        /\ \A d \in Challenges \ {c} :
             ChallengePlain(challenges[d], challenges'[d])
    BY <1>2, InsertTally
  <2>2. \A d \in Stored : challenges[d].request.rid # job[h].rid
    BY <1>2 DEF InsertChallenge, Insertable, RowsFor
  <2>3. ASSUME NEW d \in Stored', d # c
        PROVE  d \in Stored /\ challenges'[d].request = challenges[d].request
    BY <2>1, <2>3 DEF Stored, ChallengePlain
  <2>4. ASSUME NEW d \in Stored', NEW e \in Stored',
               challenges'[d].request.rid = challenges'[e].request.rid
        PROVE  d = e
    BY <2>1, <2>2, <2>3, <2>4 DEF OneRow
  <2> QED BY <2>4 DEF OneRow
<1>3. ASSUME NEW h \in Handlers, RecordFailedCompletion(h) PROVE OneRow'
  <2>1. CASE UNCHANGED challenges
    BY <2>1 DEF OneRow, Stored
  <2>2. CASE ~UNCHANGED challenges
    <3>1. PICK c \in OpenChallenges :
            /\ challenges'[c].state \in {"locked", "open"}
            /\ challenges'[c].request = challenges[c].request
            /\ \A d \in Challenges \ {c} :
                 ChallengePlain(challenges[d], challenges'[d])
      BY <1>3, <2>2, FailedTally
    <3>2. \A d \in Stored' :
            d \in Stored /\ challenges'[d].request = challenges[d].request
      BY <3>1 DEF Stored, OpenChallenges, ChallengePlain
    <3> QED BY <3>2 DEF OneRow
  <2> QED BY <2>1, <2>2
<1>4. CASE \E c \in Challenges : RevokeDevice(c)
  BY <1>4 DEF RevokeDevice, OneRow, Stored
<1> QED BY <1>1, <1>2, <1>3, <1>4, OtherTally, IssueTally, CommitTally

\* The answer that is ready stays right while others go on.
LEMMA AnswerStays ==
  ASSUME AnswersInv, [Next]_vars, NEW h \in Handlers,
         pc'[h] = pc[h], job'[h] = job[h], reply'[h] = reply[h]
  PROVE  AnswerFits(h)'
BY RowsStay DEF AnswersInv, AnswerFits, Replied

\* A step that gives no challenge.
LEMMA NoChallengeFits ==
  ASSUME TypeOK, NEW h \in Handlers,
         \/ \E label : label # "replied" /\ GoTo(h, label)
         \/ \E response : response.kind # "challenge" /\ Answer(h, response)
  PROVE  AnswerFits(h)'
BY DEF AnswerFits, Replied, GoTo, Answer, TypeOK

\* create_challenge answers with the row of the very request.
LEMMA StoredAnswerFits ==
  ASSUME TypeOK, NEW h \in Handlers, NEW c \in RowsFor(job[h].rid),
         Answer(h, StoredAnswer(h, c)), UNCHANGED tables
  PROVE  AnswerFits(h)'
<1>1. /\ pc'[h] = "replied" /\ job' = job /\ challenges' = challenges
      /\ reply'[h] = StoredAnswer(h, c)
  BY DEF Answer, GoTo, TypeOK, tables
<1>2. c \in Stored'
  BY <1>1 DEF RowsFor, Stored
<1>3. CASE challenges[c].request # job[h]
  BY <1>1, <1>3 DEF StoredAnswer, Conflict, AnswerFits, Replied
<1>4. CASE challenges[c].request = job[h]
  BY <1>1, <1>2, <1>4
     DEF StoredAnswer, ChallengeReply, Rejected, AnswerFits, Replied
<1> QED BY <1>3, <1>4

LEMMA MoverFits ==
  ASSUME AnswersInv, NEW h \in Handlers,
         \/ HandlerStep(h) \/ Clear(h)
         \/ \E r \in ChallengeRequests : ReceiveChallengeRequest(h, r)
         \/ \E q \in CompletionRequests : ReceiveCompletion(h, q)
  PROVE  AnswerFits(h)'
<1>1. TypeOK
  BY DEF AnswersInv, CeremonyInv, TypeInv
<1>2. /\ Rejected.kind # "challenge" /\ Conflict.kind # "challenge"
      /\ \A c : Receipt(c).kind # "challenge"
  BY DEF Rejected, Conflict, Receipt
<1>3. CASE FindRequest(h) \/ ReplayRequest(h)
  <2>1. UNCHANGED tables
    BY <1>3 DEF FindRequest, ReplayRequest
  <2>2. \/ GoTo(h, "expire_for_claim") \/ Answer(h, Rejected)
        \/ \E c \in RowsFor(job[h].rid) : Answer(h, StoredAnswer(h, c))
    BY <1>3 DEF FindRequest, ReplayRequest
  <2> QED BY <1>1, <1>2, <2>1, <2>2, StoredAnswerFits, NoChallengeFits
<1>4. ASSUME NEW c \in Challenges, InsertChallenge(h, c) PROVE AnswerFits(h)'
  <2>1. /\ pc'[h] = "replied" /\ reply'[h] = ChallengeReply(c) /\ job' = job
    BY <1>1, <1>4 DEF InsertChallenge, Answer, GoTo, TypeOK
  <2>2. challenges'[c].state = "open" /\ challenges'[c].request = job[h]
    BY <1>4, InsertTally DEF AnswersInv
  <2> QED BY <2>1, <2>2 DEF AnswerFits, Replied, ChallengeReply, Stored
<1>5. CASE \/ ExpireForClaim(h) \/ RejectChallenge(h) \/ ExpireForCompletion(h)
           \/ ReadOpenChallenge(h) \/ CommitCompletion(h) \/ RejectCompletion(h)
           \/ Clear(h) \/ Respond(h)
           \/ \E r \in ChallengeRequests : ReceiveChallengeRequest(h, r)
           \/ \E q \in CompletionRequests : ReceiveCompletion(h, q)
  <2>1. \E label : label # "replied" /\ GoTo(h, label)
    BY <1>5
       DEF ExpireForClaim, RejectChallenge, ExpireForCompletion,
           ReadOpenChallenge, CommitCompletion, RejectCompletion, Clear, Respond,
           ReceiveChallengeRequest, ReceiveCompletion
  <2> QED BY <1>1, <2>1, NoChallengeFits
<1>6. CASE \/ ReadOffer(h) \/ FindCompletion(h) \/ RecordFailedCompletion(h)
           \/ ReadDevice(h) \/ ReplayCompletion(h)
  <2>1. \/ \E label : label # "replied" /\ GoTo(h, label)
        \/ Answer(h, Rejected) \/ Answer(h, Conflict)
        \/ Answer(h, Receipt(job[h].ch))
    BY <1>6
       DEF ReadOffer, FindCompletion, RecordFailedCompletion, ReadDevice,
           ReplayCompletion
  <2> QED BY <1>1, <1>2, <2>1, NoChallengeFits
<1> QED BY <1>3, <1>4, <1>5, <1>6 DEF HandlerStep

LEMMA AnswersStep == AnswersInv /\ [Next]_vars => AnswersInv'
<1> SUFFICES ASSUME AnswersInv, [Next]_vars PROVE AnswersInv'
  OBVIOUS
<1>1. CeremonyInv /\ CeremonyInv' /\ TypeOK /\ OneRow'
  BY CeremonyStep, OneRowKept DEF AnswersInv, CeremonyInv, TypeInv
<1>2. ASSUME NEW g \in Handlers PROVE AnswerFits(g)'
  <2>1. CASE Rests(g)
    BY <2>1, AnswerStays DEF Rests
  <2>2. ASSUME NEW h \in Handlers,
               \/ HandlerStep(h) \/ Clear(h)
               \/ \E r \in ChallengeRequests : ReceiveChallengeRequest(h, r)
               \/ \E q \in CompletionRequests : ReceiveCompletion(h, q),
               \A k \in Handlers \ {h} : Rests(k)
        PROVE  AnswerFits(g)'
    BY <2>1, <2>2, MoverFits
  <2> QED BY <1>1, <2>1, <2>2, WhoMoves
<1> QED BY <1>1, <1>2 DEF AnswersInv

LEMMA AnswersInit == Init => AnswersInv
<1> SUFFICES ASSUME Init PROVE AnswersInv
  OBVIOUS
<1>1. Stored = {} /\ \A h \in Handlers : pc[h] = "idle"
  BY DEF Init, Stored
<1> QED BY <1>1, CeremonyInit DEF AnswersInv, OneRow, AnswerFits, Replied

\* A challenge response is for the very request that was sent, and there is one
\* challenge per request id, however retries and copies of it race.
THEOREM ChallengesAnswerTheirRequest == Spec => []ChallengeReplyExact
<1>1. AnswersInv => ChallengeReplyExact
  <2> SUFFICES ASSUME AnswersInv, NEW h \in Handlers, Replied(h, "challenge")
               PROVE  /\ challenges[reply[h].ch].request = job[h]
                      /\ RowsFor(job[h].rid) = {reply[h].ch}
    BY DEF ChallengeReplyExact
  <2>1. reply[h].ch \in Stored /\ challenges[reply[h].ch].request = job[h]
    BY DEF AnswersInv, AnswerFits
  <2> QED BY <2>1 DEF AnswersInv, OneRow, RowsFor
<1> QED BY <1>1, AnswersInit, AnswersStep, PTL DEF Spec

---------------------------------------------------------------------------
(* Nobody is refused while the challenge of the request can be completed.  *)

\* The offer takes no more claims.
Barred(offer) ==
  /\ offer.state # "absent"
  /\ \/ offer.state \notin LiveStates \/ ~offer.key
     \/ ~(offer.claims < MaxOfferClaims)

\* No copy of the request will be stored that is not stored yet.
Settled(h) ==
  RowsFor(job[h].rid) # {} \/ Barred(offers[job[h].offer])

\* What can be completed under the handler's own request is its answer.
OwnAnswered(h) ==
  \A c \in OpenChallenges :
    challenges[c].request = job[h] /\ challenges[c].expires > now[h]
    => reply[h] = ChallengeReply(c)

\* A request that was stored when it arrived is found; the others read their
\* offer before they draw up a challenge, and an offer that was claimable when
\* it was read is, if the insert fails without a row for the request, no longer
\* so for good.
RetryFits(h) ==
  job[h] \in ChallengeRequests =>
    /\ "stored" \in began[h] =>
         pc[h] \in {"find_request", "replied"} /\ RowsFor(job[h].rid) # {}
    /\ pc[h] \in {"find_request", "expire_for_claim", "read_offer"} =>
         seen[h] = 0
    /\ pc[h] \in {"insert_challenge", "replay_request"} =>
         /\ offers[job[h].offer].state # "absent"
         /\ ~(offers[job[h].offer].expires <= now[h])
    /\ pc[h] = "replay_request" => Settled(h)
    /\ pc[h] = "replied" /\ ("stored" \in began[h] \/ seen[h] # 0) =>
         Settled(h) /\ OwnAnswered(h)

RetriesInv ==
  /\ AnswersInv
  /\ \A h \in Handlers : (pc[h] = "idle" => seen[h] = 0) /\ RetryFits(h)

LEMMA BarredStays ==
  ASSUME CeremonyInv, [Next]_vars, NEW o \in Offers, Barred(offers[o])
  PROVE  Barred(offers'[o])
<1>1. OfferAges(offers[o], offers'[o])
  BY StepAges DEF RowsAge
<1>2. offers[o].claims \in Nat /\ MaxOfferClaims \in Nat
  BY EnrollmentAssumption DEF CeremonyInv, TypeInv, TypeOK, OfferRow
<1>3. offers'[o].claims = offers[o].claims \/ offers'[o].claims = offers[o].claims + 1
  <2>1. offers[o].state # "absent"
    BY DEF Barred
  <2>2. CASE OffersPlain \/ UNCHANGED offers
    BY <2>2 DEF OffersPlain, OfferPlain
  <2>3. ASSUME NEW p \in Offers, NEW at \in 0..MaxClock, NEW ttl \in OfferTTLs,
               IssuePairingOffer(p, at, ttl)
        PROVE  offers'[o].claims = offers[o].claims
    BY <2>1, <2>3, IssueTally DEF OfferPlain
  <2>4. ASSUME NEW h \in Handlers, NEW c \in Challenges, InsertChallenge(h, c)
        PROVE  \/ offers'[o].claims = offers[o].claims
               \/ offers'[o].claims = offers[o].claims + 1
    BY <2>4, InsertTally DEF OfferPlain
  <2> QED
    BY <2>2, <2>3, <2>4, OtherTally, FailedTally, CommitTally DEF RevokeDevice
<1> QED
  BY <1>1, <1>2, <1>3 DEF Barred, OfferAges

\* An open challenge was open before, or is the one being inserted.
LEMMA OpenBefore ==
  ASSUME CeremonyInv, [Next]_vars, NEW c \in OpenChallenges'
  PROVE  \/ /\ c \in OpenChallenges
            /\ challenges'[c].request = challenges[c].request
            /\ challenges'[c].expires = challenges[c].expires
         \/ \E h \in Handlers : InsertChallenge(h, c)
<1>1. c \in Challenges /\ challenges'[c].state = "open"
  BY DEF OpenChallenges
<1>2. \/ c \in OpenChallenges
      \/ \E h \in Handlers : InsertChallenge(h, c)
  <2>1. CASE ChallengesPlain \/ UNCHANGED challenges
    BY <1>1, <2>1 DEF ChallengesPlain, ChallengePlain, OpenChallenges
  <2>2. ASSUME NEW h \in Handlers, NEW d \in Challenges, InsertChallenge(h, d)
        PROVE  c \in OpenChallenges \/ InsertChallenge(h, c)
    BY <1>1, <2>2, InsertTally DEF ChallengePlain, OpenChallenges
  <2>3. ASSUME NEW h \in Handlers, RecordFailedCompletion(h)
        PROVE  c \in OpenChallenges
    BY <1>1, <2>3, FailedTally DEF ChallengePlain, OpenChallenges
  <2> QED
    BY <2>1, <2>2, <2>3, OtherTally, IssueTally, CommitTally DEF RevokeDevice
<1>3. c \in OpenChallenges =>
        /\ challenges'[c].request = challenges[c].request
        /\ challenges'[c].expires = challenges[c].expires
  BY <1>1, StepAges DEF RowsAge, ChallengeAges, OpenChallenges
<1> QED
  BY <1>2, <1>3

\* What is settled for a request stays so, and so does its answer.
LEMMA SettledStays ==
  ASSUME AnswersInv, [Next]_vars, NEW h \in Handlers, Rests(h),
         job[h] \in ChallengeRequests
  PROVE  /\ RowsFor(job[h].rid) # {} => RowsFor(job[h].rid)' # {}
         /\ Settled(h) => Settled(h)'
         /\ Settled(h) /\ OwnAnswered(h) => OwnAnswered(h)'
<1>1. job'[h] = job[h] /\ job[h].offer \in Offers
  BY EnrollmentAssumption DEF Rests, ChallengeBody
<1>2. RowsFor(job[h].rid) # {} => RowsFor(job[h].rid)' # {}
  BY <1>1, RowsStay DEF AnswersInv, RowsFor
<1>3. Settled(h) => Settled(h)'
  BY <1>1, <1>2, BarredStays DEF AnswersInv, Settled
<1>4. ASSUME Settled(h), OwnAnswered(h), NEW c \in OpenChallenges',
             challenges'[c].request = job'[h], challenges'[c].expires > now'[h]
      PROVE  reply'[h] = ChallengeReply(c)
  <2>1. ASSUME NEW g \in Handlers, InsertChallenge(g, c) PROVE FALSE
    <3>1. /\ challenges'[c].request = job[g] /\ offers[job[g].offer].state \in LiveStates
          /\ offers[job[g].offer].claims < MaxOfferClaims
      BY <2>1, InsertTally DEF AnswersInv, OpenChallenges
    <3>2. offers[job[g].offer].key
      BY <1>1, <1>4, <3>1 DEF AnswersInv, CeremonyInv, KeysOfLiveOffers
    <3>3. RowsFor(job[g].rid) = {}
      BY <2>1 DEF InsertChallenge, Insertable
    <3> QED
      BY <1>1, <1>4, <3>1, <3>2, <3>3 DEF Settled, Barred
  <2>2. /\ c \in OpenChallenges
        /\ challenges'[c].request = challenges[c].request
        /\ challenges'[c].expires = challenges[c].expires
    BY <2>1, OpenBefore DEF AnswersInv
  <2> QED
    BY <1>4, <2>2 DEF OwnAnswered, Rests
<1> QED
  BY <1>2, <1>3, <1>4 DEF OwnAnswered

LEMMA RetryStays ==
  ASSUME RetriesInv, [Next]_vars, NEW h \in Handlers, Rests(h)
  PROVE  (pc'[h] = "idle" => seen'[h] = 0) /\ RetryFits(h)'
<1>1. (pc[h] = "idle" => seen[h] = 0) /\ RetryFits(h) /\ AnswersInv
  BY DEF RetriesInv
<1>2. ASSUME job[h] \in ChallengeRequests PROVE RetryFits(h)'
  <2>1. /\ RowsFor(job[h].rid) # {} => RowsFor(job[h].rid)' # {}
        /\ Settled(h) => Settled(h)'
        /\ Settled(h) /\ OwnAnswered(h) => OwnAnswered(h)'
    BY <1>1, <1>2, SettledStays
  <2>2. OfferAges(offers[job[h].offer], offers'[job[h].offer])
    BY <1>1, <1>2, StepAges, EnrollmentAssumption
       DEF AnswersInv, RowsAge, ChallengeBody
  <2> QED
    BY <1>1, <1>2, <2>1, <2>2 DEF RetryFits, Rests, OfferAges
<1> QED
  BY <1>1, <1>2 DEF Rests, RetryFits

\* The stored row answers.
LEMMA RowAnswers ==
  ASSUME AnswersInv, NEW h \in Handlers, NEW c \in RowsFor(job[h].rid),
         Answer(h, StoredAnswer(h, c)), UNCHANGED tables
  PROVE  Settled(h)' /\ OwnAnswered(h)'
<1>1. /\ reply'[h] = StoredAnswer(h, c) /\ job' = job /\ now' = now
      /\ challenges' = challenges
  BY DEF Answer, tables, AnswersInv, CeremonyInv, TypeInv, TypeOK
<1>2. Settled(h)'
  BY <1>1 DEF Settled, RowsFor, Stored
<1>3. ASSUME NEW d \in OpenChallenges, challenges[d].request = job[h],
             challenges[d].expires > now[h]
      PROVE  reply'[h] = ChallengeReply(d)
  <2>1. d \in Stored /\ c \in Stored /\ challenges[c].request.rid = job[h].rid
    BY DEF OpenChallenges, RowsFor, Stored
  <2>2. d = c
    BY <1>3, <2>1 DEF AnswersInv, OneRow
  <2> QED
    BY <1>1, <1>3, <2>2 DEF StoredAnswer, OpenChallenges
<1> QED
  BY <1>1, <1>2, <1>3 DEF OwnAnswered, OpenChallenges

\* A copy that cannot insert either has a row to look at, or its offer, which
\* cannot have expired for it, is gone.
LEMMA RejectSettles ==
  ASSUME RetriesInv, NEW h \in Handlers, RejectChallenge(h)
  PROVE  Settled(h)
<1>1. TypeOK /\ TypeInv /\ RetryFits(h) /\ pc[h] = "insert_challenge"
  BY DEF RetriesInv, AnswersInv, CeremonyInv, TypeInv, RejectChallenge
<1>2. job[h] \in ChallengeRequests
  BY <1>1 DEF TypeInv, HandlersServe, Waiting
<1>3. job[h].offer \in Offers /\ now[h] \in Nat
  BY <1>1, <1>2, EnrollmentAssumption DEF ChallengeBody, TypeOK
<1>4. /\ offers[job[h].offer].state # "absent"
      /\ ~(offers[job[h].offer].expires <= now[h])
      /\ offers[job[h].offer].expires \in Nat
  BY <1>1, <1>2, <1>3 DEF RetryFits, TypeOK, OfferRow
<1>5. SweptOffers(now[h])[job[h].offer] = offers[job[h].offer]
  BY <1>1, <1>3, <1>4, SweptOffer
<1>6. \/ RowsFor(job[h].rid) # {}
      \/ ~Claimable(offers[job[h].offer], now[h])
  BY <1>5 DEF RejectChallenge, Insertable
<1> QED
  BY <1>3, <1>4, <1>6 DEF Claimable, Settled, Barred

\* A claim on its way to its answer.
LEMMA ClaimRetryFits ==
  ASSUME RetriesInv, NEW h \in Handlers,
         \/ FindRequest(h) \/ ExpireForClaim(h) \/ ReadOffer(h)
         \/ RejectChallenge(h) \/ ReplayRequest(h)
  PROVE  (pc'[h] = "idle" => seen'[h] = 0) /\ RetryFits(h)'
<1>1. TypeOK /\ TypeInv /\ RetryFits(h) /\ AnswersInv
  BY DEF RetriesInv, AnswersInv, CeremonyInv, TypeInv
<1>2. job[h] \in ChallengeRequests
  BY <1>1
     DEF TypeInv, HandlersServe, Waiting, FindRequest, ExpireForClaim, ReadOffer,
         RejectChallenge, ReplayRequest
<1>3. ASSUME NEW c \in RowsFor(job[h].rid), Answer(h, StoredAnswer(h, c)),
             UNCHANGED tables
      PROVE  (pc'[h] = "idle" => seen'[h] = 0) /\ RetryFits(h)'
  <2>1. pc'[h] = "replied" /\ job' = job /\ RowsFor(job[h].rid)' # {}
    BY <1>1, <1>3 DEF Answer, GoTo, TypeOK, RowsFor, Stored, tables
  <2> QED
    BY <1>1, <1>3, <2>1, RowAnswers DEF RetryFits
<1>4. CASE /\ RowsFor(job[h].rid) = {} /\ pc[h] = "find_request"
           /\ GoTo(h, "expire_for_claim")
           /\ UNCHANGED <<job, now, seen, reply, began>>
  <2>1. pc'[h] = "expire_for_claim"
    BY <1>1, <1>4 DEF GoTo, TypeOK
  <2> QED
    BY <1>1, <1>2, <1>4, <2>1 DEF RetryFits
<1>5. CASE ExpireForClaim(h)
  <2>1. /\ pc[h] = "expire_for_claim" /\ pc'[h] = "read_offer"
        /\ UNCHANGED <<job, now, seen, reply, began>>
    BY <1>1, <1>5 DEF ExpireForClaim, GoTo, TypeOK
  <2> QED
    BY <1>1, <1>2, <2>1 DEF RetryFits
<1>6. CASE ReadOffer(h) /\ AcceptableClaim(h) /\ GoTo(h, "insert_challenge")
           /\ UNCHANGED <<job, now, reply, began>>
  <2>1. pc'[h] = "insert_challenge" /\ pc[h] = "read_offer" /\ UNCHANGED offers
    BY <1>1, <1>6 DEF ReadOffer, GoTo, TypeOK, tables
  <2>2. /\ offers[job[h].offer].state # "absent"
        /\ ~(offers[job[h].offer].expires <= now[h])
    <3>1. job[h].offer \in Offers /\ now[h] \in Nat
      BY <1>1, <1>2, EnrollmentAssumption DEF ChallengeBody, TypeOK
    <3>2. offers[job[h].offer].expires \in Nat
      BY <1>1, <3>1 DEF TypeOK, OfferRow
    <3> QED
      BY <1>6, <3>1, <3>2 DEF AcceptableClaim, Claimable, LiveStates
  <2> QED
    BY <1>1, <1>2, <1>6, <2>1, <2>2 DEF RetryFits
<1>7. CASE ReadOffer(h) /\ Answer(h, Rejected)
  <2>1. /\ pc[h] = "read_offer" /\ pc'[h] = "replied"
        /\ UNCHANGED <<job, seen, began>>
    BY <1>1, <1>7 DEF ReadOffer, Answer, GoTo, TypeOK
  <2> QED
    BY <1>1, <1>2, <2>1 DEF RetryFits
<1>8. CASE RejectChallenge(h)
  <2>1. /\ pc[h] = "insert_challenge" /\ pc'[h] = "replay_request"
        /\ UNCHANGED <<tables, job, now, began>>
    BY <1>1, <1>8 DEF RejectChallenge, GoTo, TypeOK
  <2>2. Settled(h)'
    BY <1>8, <2>1, RejectSettles DEF Settled, RowsFor, Stored, tables
  <2> QED
    BY <1>1, <1>2, <2>1, <2>2 DEF RetryFits, tables
<1>9. CASE ReplayRequest(h) /\ RowsFor(job[h].rid) = {} /\ Answer(h, Rejected)
  <2>1. /\ pc[h] = "replay_request" /\ pc'[h] = "replied"
        /\ UNCHANGED <<tables, job, now, began>>
    BY <1>1, <1>9 DEF ReplayRequest, Answer, GoTo, TypeOK
  <2>2. Settled(h)'
    BY <1>1, <1>2, <2>1 DEF RetryFits, Settled, RowsFor, Stored, tables
  <2>3. OwnAnswered(h)'
    BY <1>9, <2>1 DEF OwnAnswered, OpenChallenges, RowsFor, Stored, tables
  <2>4. "stored" \notin began'[h]
    BY <1>1, <1>2, <2>1 DEF RetryFits
  <2> QED
    BY <2>1, <2>2, <2>3, <2>4 DEF RetryFits
<1>10. CASE FindRequest(h)
  BY <1>3, <1>4, <1>10 DEF FindRequest
<1>11. CASE ReadOffer(h)
  BY <1>6, <1>7, <1>11 DEF ReadOffer
<1>12. CASE ReplayRequest(h)
  BY <1>3, <1>9, <1>12 DEF ReplayRequest
<1> QED
  BY <1>5, <1>8, <1>10, <1>11, <1>12

LEMMA InsertRetryFits ==
  ASSUME RetriesInv, [Next]_vars, NEW h \in Handlers, NEW c \in Challenges,
         InsertChallenge(h, c)
  PROVE  (pc'[h] = "idle" => seen'[h] = 0) /\ RetryFits(h)'
<1>1. TypeOK /\ TypeInv /\ RetryFits(h) /\ AnswersInv /\ OneRow'
  BY OneRowKept DEF RetriesInv, AnswersInv, CeremonyInv, TypeInv
<1>2. /\ pc[h] = "insert_challenge" /\ pc'[h] = "replied"
      /\ reply'[h] = ChallengeReply(c) /\ UNCHANGED <<job, now, began>>
  BY <1>1 DEF InsertChallenge, Answer, GoTo, TypeOK
<1>3. job[h] \in ChallengeRequests
  BY <1>1, <1>2 DEF TypeInv, HandlersServe, Waiting
<1>4. challenges'[c].state = "open" /\ challenges'[c].request = job[h]
  BY <1>1, InsertTally DEF AnswersInv
<1>5. c \in RowsFor(job[h].rid)'
  BY <1>2, <1>4 DEF RowsFor, Stored
<1>6. OwnAnswered(h)'
  <2> SUFFICES ASSUME NEW d \in OpenChallenges', challenges'[d].request = job'[h]
               PROVE  reply'[h] = ChallengeReply(d)
    BY DEF OwnAnswered
  <2>1. d \in Stored' /\ c \in Stored'
    BY <1>4 DEF OpenChallenges, Stored
  <2>2. d = c
    BY <1>1, <1>2, <1>4, <2>1 DEF OneRow
  <2> QED
    BY <1>2, <2>2
<1>7. Settled(h)'
  BY <1>2, <1>5 DEF Settled
<1>8. "stored" \notin began'[h]
  BY <1>1, <1>2, <1>3 DEF RetryFits
<1> QED
  BY <1>2, <1>6, <1>7, <1>8 DEF RetryFits

\* Who serves a completion, or nobody, has no claim to answer.
LEMMA OtherRetryFits ==
  ASSUME RetriesInv, NEW h \in Handlers,
         \/ FindCompletion(h) \/ ExpireForCompletion(h) \/ ReadOpenChallenge(h)
         \/ RecordFailedCompletion(h) \/ CommitCompletion(h)
         \/ RejectCompletion(h) \/ ReadDevice(h) \/ ReplayCompletion(h)
         \/ Clear(h)
         \/ \E r \in ChallengeRequests : ReceiveChallengeRequest(h, r)
         \/ \E q \in CompletionRequests : ReceiveCompletion(h, q)
  PROVE  (pc'[h] = "idle" => seen'[h] = 0) /\ RetryFits(h)'
<1>1. TypeOK /\ TypeInv /\ (pc[h] = "idle" => seen[h] = 0)
  BY DEF RetriesInv, AnswersInv, CeremonyInv, TypeInv
<1>2. CASE Clear(h)
  <2>1. pc'[h] = "idle" /\ seen'[h] = 0 /\ job'[h] = None
    BY <1>1, <1>2 DEF Clear, GoTo, TypeOK
  <2> QED
    BY <2>1, EnrollmentAssumption DEF RetryFits
<1>3. ASSUME NEW q \in CompletionRequests, ReceiveCompletion(h, q)
      PROVE  (pc'[h] = "idle" => seen'[h] = 0) /\ RetryFits(h)'
  <2>1. pc'[h] = "find_completion" /\ job'[h] = q
    BY <1>1, <1>3 DEF ReceiveCompletion, GoTo, TypeOK
  <2> QED
    BY <2>1, EnrollmentAssumption DEF RetryFits
<1>4. ASSUME NEW r \in ChallengeRequests, ReceiveChallengeRequest(h, r)
      PROVE  (pc'[h] = "idle" => seen'[h] = 0) /\ RetryFits(h)'
  <2>1. /\ pc'[h] = "find_request" /\ job'[h] = r /\ seen'[h] = 0
        /\ UNCHANGED tables
        /\ began'[h] = {k \in {"stored"} : \E c \in Stored : challenges[c].request = r}
    BY <1>1, <1>4 DEF ReceiveChallengeRequest, GoTo, TypeOK
  <2>2. "stored" \in began'[h] => RowsFor(r.rid)' # {}
    BY <2>1 DEF RowsFor, Stored, tables
  <2> QED
    BY <2>1, <2>2 DEF RetryFits
<1>5. CASE \/ FindCompletion(h) \/ ExpireForCompletion(h) \/ ReadOpenChallenge(h)
           \/ RecordFailedCompletion(h) \/ CommitCompletion(h)
           \/ RejectCompletion(h) \/ ReadDevice(h) \/ ReplayCompletion(h)
  <2>1. pc[h] \in Completing /\ job' = job
    BY <1>5
       DEF FindCompletion, ExpireForCompletion, ReadOpenChallenge,
           RecordFailedCompletion, CommitCompletion, RejectCompletion, ReadDevice,
           ReplayCompletion, Answer, Completing
  <2>2. job[h] \notin ChallengeRequests
    BY <1>1, <2>1, EnrollmentAssumption DEF TypeInv, HandlersServe
  <2>3. pc'[h] # "idle"
    BY <1>1, <1>5
       DEF FindCompletion, ExpireForCompletion, ReadOpenChallenge,
           RecordFailedCompletion, CommitCompletion, RejectCompletion, ReadDevice,
           ReplayCompletion, Answer, GoTo, TypeOK
  <2> QED
    BY <2>1, <2>2, <2>3 DEF RetryFits
<1> QED
  BY <1>2, <1>3, <1>4, <1>5

LEMMA RetriesStep == RetriesInv /\ [Next]_vars => RetriesInv'
<1> SUFFICES ASSUME RetriesInv, [Next]_vars PROVE RetriesInv'
  OBVIOUS
<1>1. AnswersInv' /\ TypeOK
  BY AnswersStep DEF RetriesInv, AnswersInv, CeremonyInv, TypeInv
<1>2. ASSUME NEW g \in Handlers
      PROVE  (pc'[g] = "idle" => seen'[g] = 0) /\ RetryFits(g)'
  <2>1. CASE Rests(g)
    BY <2>1, RetryStays
  <2>2. ASSUME NEW h \in Handlers,
               \/ HandlerStep(h) \/ Clear(h)
               \/ \E r \in ChallengeRequests : ReceiveChallengeRequest(h, r)
               \/ \E q \in CompletionRequests : ReceiveCompletion(h, q),
               \A k \in Handlers \ {h} : Rests(k)
        PROVE  (pc'[g] = "idle" => seen'[g] = 0) /\ RetryFits(g)'
    <3>1. (pc'[h] = "idle" => seen'[h] = 0) /\ RetryFits(h)'
      BY <2>2, ClaimRetryFits, InsertRetryFits, OtherRetryFits
      DEF HandlerStep, Respond
    <3> QED
      BY <2>1, <2>2, <3>1
  <2> QED
    BY <1>1, <2>1, <2>2, WhoMoves
<1> QED
  BY <1>1, <1>2 DEF RetriesInv

LEMMA RetriesInit == Init => RetriesInv
<1> SUFFICES ASSUME Init PROVE RetriesInv
  OBVIOUS
<1>1. \A h \in Handlers : seen[h] = 0 /\ job[h] = None
  BY DEF Init
<1> QED
  BY <1>1, AnswersInit, EnrollmentAssumption DEF RetriesInv, RetryFits

\* However its copies race, a request that was stored when it came, or that drew
\* up a challenge of its own, is answered with the one stored for it as long as
\* that can be completed.
THEOREM ClaimsAreAnswered == Spec => []ExactRetryGetsChallenge
<1>1. RetriesInv => ExactRetryGetsChallenge
  <2> SUFFICES ASSUME RetriesInv, NEW h \in Handlers, NEW c \in OpenChallenges,
                      pc[h] = "replied", challenges[c].request = job[h],
                      challenges[c].expires > now[h],
                      "stored" \in began[h] \/ seen[h] # 0
               PROVE  reply[h] = ChallengeReply(c)
    BY DEF ExactRetryGetsChallenge
  <2>1. job[h] \in ChallengeRequests
    BY DEF RetriesInv, AnswersInv, CeremonyInv, TypeInv, RowsServe, OpenChallenges,
           Stored
  <2> QED
    BY <2>1 DEF RetriesInv, RetryFits, OwnAnswered
<1> QED
  BY <1>1, RetriesInit, RetriesStep, PTL DEF Spec

=============================================================================
