----------------------- MODULE IdentityStartupProofs -----------------------
(***************************************************************************)
(* The safety of starts, for any processes, keys and offers.               *)
(***************************************************************************)
EXTENDS IdentityStartup, TLAPS

(***************************************************************************)
(* Why the invariant below is inductive.  What a transaction read is still *)
(* true when it commits, because it has the lock (LockFits).  Whoever may  *)
(* write a row is past the upgrade and holds the key that is bound         *)
(* (SchemaFits, OneMasterKey), so that rows are of one kind (RowsFit).     *)
(* While one source of keys is in use, its key is the one that is bound    *)
(* (FileFits, EnvironmentFits).                                            *)
(***************************************************************************)
LoadingKey == {"down", "write", "publish", "read"}
Upgraded == {"bind", "binding", "validate", "serving"}
Transactions == {"migrating", "binding"}

LockFits ==
  \A p \in Processes :
    /\ lock = p <=> pc[p] \in Transactions
    /\ pc[p] = "migrating" => found[p] = (schema = "legacy")
    /\ pc[p] = "binding" => found[p] = bound

KeysFit ==
  \A p \in Processes :
    /\ pc[p] # "down" => key[p] \in MasterKeys
    /\ pc[p] = "write" => key[p] \in RandomKeys
    /\ pc[p] = "publish" => key[p] \in RandomKeys /\ temp[p] = key[p]
    /\ pc[p] = "read" => keyFile # None

SchemaFits ==
  /\ schema # "current" =>
       bound = None /\ \A p \in Processes : pc[p] \notin Upgraded
  /\ schema = "none" =>
       \A p \in Processes : pc[p] \notin {"migrate", "migrating"}

CurrentRow(r, k) ==
  /\ r.challenge # "none" => r.proof # "missing"
  /\ r.challenge = "open" => r.proof = "given"
  /\ r.state \in LiveStates => r.material = k /\ k # None
  /\ r.state \notin LiveStates => r.material = None

RowsFit ==
  \A o \in Offers :
    /\ schema = "none" => offers[o] = NoOffer
    /\ schema = "legacy" => offers[o] \in LegacyOffers
    /\ schema = "current" => CurrentRow(offers[o], bound)

FileFits ==
  configs \subseteq {"file"} =>
    /\ bound \in {None, keyFile}
    /\ \A p \in Processes : pc[p] \notin LoadingKey =>
         keyFile # None /\ key[p] = keyFile

EnvironmentFits ==
  configs \subseteq {"environment"} =>
    /\ bound \in {None, InjectedKey}
    /\ \A p \in Processes :
         /\ pc[p] \notin {"write", "publish", "read"}
         /\ pc[p] # "down" => key[p] = InjectedKey

StartupInv ==
  /\ TypeOK /\ LockFits /\ KeysFit /\ SchemaFits /\ RowsFit
  /\ OneMasterKey /\ FileFits /\ EnvironmentFits /\ ConsistentStartsSucceed

---------------------------------------------------------------------------

LEMMA Keys ==
  /\ RandomKeys \subseteq MasterKeys /\ InjectedKey \in MasterKeys
  /\ None \notin MasterKeys /\ None \notin Processes
BY StartupAssumption DEF MasterKeys

(* Rows. *)

LEMMA LegacyRow ==
  ASSUME NEW r \in LegacyOffers
  PROVE  /\ r \in OfferRow
         /\ CurrentRow(Revoked(Superseded(Repaired(r))), None)
         /\ \/ r.material = Raw
            \/ /\ r.proof = "missing"
               /\ Revoked(Superseded(Repaired(r))) = Repaired(r)
            \/ Revoked(Superseded(Repaired(r))) = r
<1> DEFINE Row(s, m, c) == [state |-> s, material |-> m, challenge |-> c,
                            proof |-> "missing"]
<1>1. r = Row("absent", None, "none") \/ r = Row("created", Raw, "none")
        \/ r = Row("claimed", Raw, "open") \/ r = Row("completed", None, "completed")
  BY DEF LegacyOffers, NoOffer
<1>a. r \in OfferRow
  BY <1>1 DEF OfferRow, OfferStates, ChallengeStates, Proofs, LiveStates
<1>2. CASE r = Row("absent", None, "none")
  <2>1. Revoked(Superseded(Repaired(r))) = r
    BY <1>2 DEF LiveStates, Revoked, Superseded, Repaired, HasChallenge
  <2> QED
    BY <1>a, <1>2, <2>1 DEF CurrentRow, LiveStates
<1>3. CASE r = Row("created", Raw, "none")
  <2>1. Superseded(Repaired(r)) = r
    BY <1>3 DEF Superseded, Repaired, HasChallenge
  <2> QED
    BY <1>a, <1>3, <2>1 DEF CurrentRow, Revoked, LiveStates
<1>4. CASE r = Row("claimed", Raw, "open")
  <2>1. Superseded(Repaired(r))
          = [r EXCEPT !.challenge = "superseded", !.proof = "filler"]
    BY <1>4 DEF Superseded, Repaired, HasChallenge
  <2> QED
    BY <1>a, <1>4, <2>1 DEF CurrentRow, Revoked, LiveStates
<1>5. CASE r = Row("completed", None, "completed")
  <2>1. Superseded(Repaired(r)) = Repaired(r)
        /\ Repaired(r) = [r EXCEPT !.proof = "filler"]
    BY <1>5 DEF Superseded, Repaired, HasChallenge
  <2> QED
    BY <1>a, <1>5, <2>1 DEF CurrentRow, Revoked, LiveStates
<1> QED
  BY <1>1, <1>2, <1>3, <1>4, <1>5

LEMMA RowTypes ==
  ASSUME NEW r \in OfferRow
  PROVE  /\ Superseded(r) \in OfferRow /\ Revoked(r) \in OfferRow
         /\ Repaired(r) \in OfferRow
BY DEF OfferRow, OfferStates, ChallengeStates, Proofs, LiveStates,
       Revoked, Superseded, Repaired, HasChallenge

LEMMA InitStartup == Init => StartupInv
<1> SUFFICES ASSUME Init PROVE StartupInv
  OBVIOUS
<1> USE Keys
<1>1. \A r \in LegacyOffers : r \in OfferRow
  BY LegacyRow
<1>2. NoOffer \in OfferRow /\ CurrentRow(NoOffer, None)
  BY DEF NoOffer, OfferRow, OfferStates, ChallengeStates, Proofs, CurrentRow,
         LiveStates
<1>3. TypeOK
  BY <1>1, <1>2 DEF Init, TypeOK
<1>4. LockFits /\ KeysFit /\ SchemaFits /\ OneMasterKey
  BY DEF Init, LockFits, KeysFit, SchemaFits, OneMasterKey, Transactions, Upgraded
<1>5. RowsFit
  BY <1>2 DEF Init, RowsFit
<1>6. FileFits /\ EnvironmentFits /\ ConsistentStartsSucceed
  BY DEF Init, FileFits, EnvironmentFits, ConsistentStartsSucceed, LoadingKey
<1> QED
  BY <1>3, <1>4, <1>5, <1>6 DEF StartupInv

---------------------------------------------------------------------------
(* The key.  These steps leave the database alone.                         *)

LEMMA StartInv ==
  ASSUME StartupInv, NEW p \in Processes, Start(p)
  PROVE  StartupInv'
<1> USE Keys DEF StartupInv, Start, Goes, database
<1>1. TypeOK'
  <2>1. /\ key' \in [Processes -> MasterKeys \cup {None}]
        /\ temp' \in [Processes -> RandomKeys \cup {None, Partial}]
    BY DEF TypeOK
  <2>2. drawn' \in SUBSET RandomKeys /\ configs' \in SUBSET Sources
    BY DEF TypeOK, Sources
  <2>3. pc' \in [Processes -> Starting \cup {"down", "refused", "serving"}]
    BY DEF TypeOK, Starting
  <2> QED
    BY <2>1, <2>2, <2>3 DEF TypeOK
<1>2. LockFits' /\ SchemaFits'
  BY DEF TypeOK, LockFits, SchemaFits, Transactions, Upgraded
<1>3. KeysFit'
  BY DEF TypeOK, KeysFit
<1>4. RowsFit' /\ OneMasterKey'
  BY DEF TypeOK, RowsFit, OneMasterKey
<1>5. FileFits' /\ EnvironmentFits' /\ ConsistentStartsSucceed'
  BY DEF TypeOK, FileFits, EnvironmentFits, ConsistentStartsSucceed, LoadingKey
<1> QED
  BY <1>1, <1>2, <1>3, <1>4, <1>5

LEMMA WriteInv ==
  ASSUME StartupInv, NEW p \in Processes, WriteCandidate(p)
  PROVE  StartupInv'
<1> USE Keys DEF StartupInv, WriteCandidate, Goes, database
<1>1. TypeOK'
  BY DEF TypeOK, KeysFit, Starting
<1>2. LockFits' /\ SchemaFits'
  BY DEF TypeOK, LockFits, SchemaFits, Transactions, Upgraded
<1>3. KeysFit'
  BY DEF TypeOK, KeysFit
<1>4. RowsFit' /\ OneMasterKey'
  BY DEF TypeOK, RowsFit, OneMasterKey
<1>5. FileFits' /\ EnvironmentFits' /\ ConsistentStartsSucceed'
  BY DEF TypeOK, FileFits, EnvironmentFits, ConsistentStartsSucceed, LoadingKey
<1> QED
  BY <1>1, <1>2, <1>3, <1>4, <1>5

LEMMA PublishInv ==
  ASSUME StartupInv, NEW p \in Processes, PublishCandidate(p)
  PROVE  StartupInv'
<1> USE Keys DEF StartupInv, PublishCandidate, Goes, database
<1>1. TypeOK'
  BY DEF TypeOK, KeysFit, Starting
<1>2. LockFits' /\ SchemaFits'
  BY DEF TypeOK, LockFits, SchemaFits, Transactions, Upgraded
<1>3. KeysFit'
  BY DEF TypeOK, KeysFit
<1>4. RowsFit' /\ OneMasterKey'
  BY DEF TypeOK, RowsFit, OneMasterKey
<1>5. FileFits' /\ EnvironmentFits' /\ ConsistentStartsSucceed'
  BY DEF TypeOK, KeysFit, FileFits, EnvironmentFits, ConsistentStartsSucceed,
         LoadingKey
<1> QED
  BY <1>1, <1>2, <1>3, <1>4, <1>5

\* The file that is read was published whole: the start is not refused.
LEMMA ReadInv ==
  ASSUME StartupInv, NEW p \in Processes, ReadKeyFile(p)
  PROVE  StartupInv'
<1> USE Keys DEF StartupInv, ReadKeyFile, Goes, database
<1>1. TypeOK'
  BY DEF TypeOK, Starting
<1>2. LockFits' /\ SchemaFits'
  BY DEF TypeOK, LockFits, SchemaFits, Transactions, Upgraded
<1>3. KeysFit'
  BY DEF TypeOK, KeysFit
<1>4. RowsFit' /\ OneMasterKey'
  BY DEF TypeOK, RowsFit, OneMasterKey
<1>5. keyFile \in MasterKeys
  BY DEF TypeOK, KeysFit
<1>6. FileFits' /\ EnvironmentFits' /\ ConsistentStartsSucceed'
  BY <1>5 DEF TypeOK, FileFits, EnvironmentFits, ConsistentStartsSucceed,
              LoadingKey
<1> QED
  BY <1>1, <1>2, <1>3, <1>4, <1>6

---------------------------------------------------------------------------
(* The two transactions of prepare.                                        *)

LEMMA CreateInv ==
  ASSUME StartupInv, NEW p \in Processes, CreateTables(p)
  PROVE  StartupInv'
<1> USE Keys DEF StartupInv, CreateTables, Goes
<1>1. TypeOK'
  BY DEF TypeOK, Starting
<1>2. LockFits'
  BY DEF TypeOK, LockFits, Transactions
<1>3. SchemaFits'
  BY DEF TypeOK, SchemaFits, Upgraded
<1>4. KeysFit' /\ OneMasterKey'
  BY DEF TypeOK, KeysFit, OneMasterKey
<1>5. CurrentRow(NoOffer, None)
  BY DEF CurrentRow, NoOffer, LiveStates
<1>6. RowsFit'
  BY <1>5 DEF TypeOK, RowsFit, SchemaFits
<1>7. FileFits' /\ EnvironmentFits' /\ ConsistentStartsSucceed'
  BY DEF TypeOK, FileFits, EnvironmentFits, ConsistentStartsSucceed, LoadingKey
<1> QED
  BY <1>1, <1>2, <1>3, <1>4, <1>6, <1>7

LEMMA BeginMigrationInv ==
  ASSUME StartupInv, NEW p \in Processes, BeginMigration(p)
  PROVE  StartupInv'
<1> USE Keys DEF StartupInv, BeginMigration, Goes
<1>1. TypeOK'
  BY DEF TypeOK, Starting
<1>2. LockFits'
  BY DEF TypeOK, LockFits, Transactions
<1>3. SchemaFits'
  BY DEF TypeOK, SchemaFits, Upgraded
<1>4. KeysFit' /\ OneMasterKey' /\ RowsFit'
  BY DEF TypeOK, KeysFit, OneMasterKey, RowsFit
<1>5. FileFits' /\ EnvironmentFits' /\ ConsistentStartsSucceed'
  BY DEF TypeOK, FileFits, EnvironmentFits, ConsistentStartsSucceed, LoadingKey
<1> QED
  BY <1>1, <1>2, <1>3, <1>4, <1>5

LEMMA BeginBindingInv ==
  ASSUME StartupInv, NEW p \in Processes, BeginBinding(p)
  PROVE  StartupInv'
<1> USE Keys DEF StartupInv, BeginBinding, Goes
<1>1. TypeOK'
  BY DEF TypeOK, Starting
<1>2. LockFits'
  BY DEF TypeOK, LockFits, Transactions
<1>3. SchemaFits'
  BY DEF TypeOK, SchemaFits, Upgraded
<1>4. KeysFit' /\ OneMasterKey' /\ RowsFit'
  BY DEF TypeOK, KeysFit, OneMasterKey, RowsFit
<1>5. FileFits' /\ EnvironmentFits' /\ ConsistentStartsSucceed'
  BY DEF TypeOK, FileFits, EnvironmentFits, ConsistentStartsSucceed, LoadingKey
<1> QED
  BY <1>1, <1>2, <1>3, <1>4, <1>5

\* What a migration finds: rows of an older JoeOS, which all end, or rows of
\* its own kind, which stay.
LEMMA Migrated ==
  ASSUME StartupInv, NEW p \in Processes, pc[p] = "migrating"
  PROVE  \/ /\ schema = "legacy"
            /\ MigratedRows(p)
                 = [o \in Offers |-> Revoked(Superseded(Repaired(offers[o])))]
         \/ schema = "current" /\ MigratedRows(p) = offers
<1> USE DEF StartupInv
<1>1. schema \in {"legacy", "current"} /\ offers \in [Offers -> OfferRow]
  BY DEF TypeOK, SchemaFits
<1>2. CASE schema = "legacy"
  <2>1. found[p]
    BY <1>2 DEF LockFits
  <2> QED
    BY <1>2, <2>1, Zenon DEF MigratedRows
<1>3. CASE schema = "current"
  <2>1. ~found[p]
    BY <1>3 DEF LockFits
  <2>2. ~\E o \in Offers : HasChallenge(offers[o]) /\ offers[o].proof = "missing"
    BY <1>3 DEF RowsFit, CurrentRow, HasChallenge
  <2>3. MigratedRows(p) = [o \in Offers |-> offers[o]]
    BY <2>1, <2>2, Zenon DEF MigratedRows
  <2> QED
    BY <1>1, <1>3, <2>3
<1> QED
  BY <1>1, <1>2, <1>3

LEMMA CommitMigrationInv ==
  ASSUME StartupInv, NEW p \in Processes, CommitMigration(p)
  PROVE  StartupInv'
<1> USE Keys DEF StartupInv, CommitMigration, Goes
<1>1. \A o \in Offers : offers'[o] \in OfferRow /\ CurrentRow(offers'[o], bound)
  <2>1. CASE schema = "legacy"
    <3>1. /\ bound = None
          /\ \A o \in Offers : offers[o] \in LegacyOffers
      BY <2>1 DEF SchemaFits, RowsFit
    <3>2. offers' = [o \in Offers |-> Revoked(Superseded(Repaired(offers[o])))]
      BY <2>1, Migrated
    <3> QED
      BY <3>1, <3>2, LegacyRow, RowTypes
  <2>2. CASE schema = "current"
    BY <2>2, Migrated DEF TypeOK, RowsFit
  <2> QED
    BY <2>1, <2>2, Migrated
<1>2. offers' \in [Offers -> OfferRow]
  BY <1>1 DEF MigratedRows
<1>3. TypeOK'
  BY <1>2 DEF TypeOK, Starting
<1>4. LockFits'
  BY DEF TypeOK, LockFits, Transactions
<1>5. SchemaFits'
  BY DEF TypeOK, SchemaFits
<1>6. RowsFit'
  BY <1>1 DEF RowsFit
<1>7. KeysFit' /\ OneMasterKey'
  BY DEF TypeOK, KeysFit, OneMasterKey
<1>8. FileFits' /\ EnvironmentFits' /\ ConsistentStartsSucceed'
  BY DEF TypeOK, FileFits, EnvironmentFits, ConsistentStartsSucceed, LoadingKey
<1> QED
  BY <1>3, <1>4, <1>5, <1>6, <1>7, <1>8

\* A second identifier is never inserted: what was found is still there.
LEMMA CommitBindingInv ==
  ASSUME StartupInv, NEW p \in Processes, CommitBinding(p)
  PROVE  StartupInv'
<1> USE Keys DEF StartupInv
<1>1. /\ pc[p] = "binding" /\ lock = p /\ found[p] = bound
      /\ schema = "current" /\ key[p] \in MasterKeys
  BY DEF TypeOK, LockFits, KeysFit, SchemaFits, Transactions, Upgraded,
         CommitBinding, Goes
<1>2. \/ bound = None /\ bound' = key[p] /\ pc' = [pc EXCEPT ![p] = "validate"]
      \/ bound = key[p] /\ bound' = bound /\ pc' = [pc EXCEPT ![p] = "validate"]
      \/ /\ bound \notin {None, key[p]} /\ bound' = bound
         /\ pc' = [pc EXCEPT ![p] = "refused"]
  BY <1>1 DEF CommitBinding, Goes
<1>3. /\ lock' = None
      /\ UNCHANGED <<keyFile, temp, schema, offers, key, found, drawn, configs>>
  BY DEF CommitBinding
<1>4. TypeOK'
  BY <1>1, <1>2, <1>3 DEF TypeOK, Starting
<1>5. LockFits'
  BY <1>1, <1>2, <1>3 DEF TypeOK, LockFits, Transactions
<1>6. SchemaFits' /\ KeysFit'
  BY <1>1, <1>2, <1>3 DEF TypeOK, SchemaFits, KeysFit
<1>7. RowsFit'
  BY <1>1, <1>2, <1>3 DEF RowsFit, CurrentRow
<1>8. OneMasterKey'
  BY <1>1, <1>2, <1>3 DEF TypeOK, OneMasterKey, KeysFit
<1>9. FileFits' /\ EnvironmentFits' /\ ConsistentStartsSucceed'
  BY <1>1, <1>2, <1>3
  DEF TypeOK, FileFits, EnvironmentFits, ConsistentStartsSucceed, LoadingKey
<1> QED
  BY <1>4, <1>5, <1>6, <1>7, <1>8, <1>9

\* Everything live was written with the key that is bound.
LEMMA ValidateInv ==
  ASSUME StartupInv, NEW p \in Processes, ValidatePending(p)
  PROVE  StartupInv'
<1> USE Keys DEF StartupInv
<1>1. pc[p] = "validate"
  BY DEF ValidatePending, Goes
<1>2. \A o \in Offers : Readable(offers[o], key[p])
  BY <1>1
  DEF TypeOK, SchemaFits, Upgraded, RowsFit, CurrentRow, OneMasterKey, Readable
<1>3. /\ pc' = [pc EXCEPT ![p] = "serving"]
      /\ UNCHANGED <<keyFile, temp, schema, bound, offers, lock, key, found, drawn,
                     configs>>
  BY <1>2 DEF ValidatePending, Goes, database
<1>4. TypeOK'
  BY <1>3 DEF TypeOK
<1>5. LockFits' /\ SchemaFits'
  BY <1>1, <1>3 DEF TypeOK, LockFits, SchemaFits, Transactions, Upgraded
<1>6. KeysFit' /\ RowsFit' /\ OneMasterKey'
  BY <1>1, <1>3 DEF TypeOK, KeysFit, RowsFit, OneMasterKey
<1>7. FileFits' /\ EnvironmentFits' /\ ConsistentStartsSucceed'
  BY <1>1, <1>3
  DEF TypeOK, FileFits, EnvironmentFits, ConsistentStartsSucceed, LoadingKey
<1> QED
  BY <1>4, <1>5, <1>6, <1>7

---------------------------------------------------------------------------
(* Serving, and the end of a process.                                      *)

\* A step that only writes rows needs its rows to be of the right kind.
LEMMA RowsWritten ==
  ASSUME StartupInv, NEW p \in Processes, pc[p] \in {"validate", "serving"},
         offers' \in [Offers -> OfferRow],
         \A o \in Offers : CurrentRow(offers'[o], bound),
         UNCHANGED <<keyFile, temp, schema, bound, lock, pc, key, found, drawn,
                     configs>>
  PROVE  StartupInv'
<1> USE DEF StartupInv
<1>1. schema = "current"
  BY DEF SchemaFits, Upgraded
<1>2. TypeOK' /\ RowsFit'
  BY <1>1 DEF TypeOK, RowsFit
<1>3. LockFits' /\ SchemaFits' /\ KeysFit' /\ OneMasterKey'
  BY DEF LockFits, SchemaFits, KeysFit, OneMasterKey
<1>4. FileFits' /\ EnvironmentFits' /\ ConsistentStartsSucceed'
  BY DEF FileFits, EnvironmentFits, ConsistentStartsSucceed
<1> QED
  BY <1>2, <1>3, <1>4

LEMMA ServeInv ==
  ASSUME StartupInv, NEW p \in Processes, Serve(p)
  PROVE  StartupInv'
<1> USE Keys
<1>1. /\ pc[p] \in {"validate", "serving"}
      /\ UNCHANGED <<keyFile, temp, schema, bound, lock, pc, key, found, drawn,
                     configs>>
  BY DEF Serve, ExpirePending, IssueOffer, ClaimOffer, CompleteChallenge
<1>2. /\ key[p] = bound /\ bound \in MasterKeys
      /\ \A o \in Offers : offers[o] \in OfferRow /\ CurrentRow(offers[o], bound)
      /\ offers \in [Offers -> OfferRow]
  BY <1>1 DEF StartupInv, TypeOK, OneMasterKey, KeysFit, SchemaFits, Upgraded, RowsFit
<1> DEFINE Written == /\ offers' \in [Offers -> OfferRow]
                      /\ \A o \in Offers : CurrentRow(offers'[o], bound)
<1>3. ASSUME ExpirePending(p) PROVE Written
  <2>1. PICK o \in Offers :
          /\ offers[o].state \in LiveStates
          /\ offers' = [offers EXCEPT
               ![o].state = "expired", ![o].material = None,
               ![o].challenge = IF @ = "open" THEN "expired" ELSE @]
    BY <1>3 DEF ExpirePending
  <2>2. /\ offers'[o] \in OfferRow /\ CurrentRow(offers'[o], bound)
        /\ \A u \in Offers \ {o} : offers'[u] = offers[u]
    BY <1>2, <2>1 DEF OfferRow, OfferStates, ChallengeStates, LiveStates, CurrentRow
  <2> QED
    BY <1>2, <2>1, <2>2
<1>4. ASSUME IssueOffer(p) PROVE Written
  <2>1. PICK new \in Offers : offers' = [o \in Offers |->
          IF o = new THEN [NoOffer EXCEPT !.state = "created", !.material = key[p]]
          ELSE Superseded(IF offers[o].material # None
                          THEN Revoked(offers[o]) ELSE offers[o])]
    BY <1>4 DEF IssueOffer
  <2>2. offers'[new] \in OfferRow /\ CurrentRow(offers'[new], bound)
    BY <1>2, <2>1 DEF NoOffer, OfferRow, OfferStates, ChallengeStates, Proofs,
                      LiveStates, CurrentRow
  <2>3. ASSUME NEW o \in Offers \ {new}
        PROVE  offers'[o] \in OfferRow /\ CurrentRow(offers'[o], bound)
    <3>1. offers'[o] = Superseded(IF offers[o].material # None
                                  THEN Revoked(offers[o]) ELSE offers[o])
      BY <2>1
    <3>2. offers'[o] \in OfferRow
      BY <1>2, <3>1, RowTypes
    <3> QED
      BY <1>2, <3>1, <3>2
      DEF OfferRow, CurrentRow, Superseded, Revoked, LiveStates
  <2> QED
    BY <2>1, <2>2, <2>3
<1>5. ASSUME ClaimOffer(p) PROVE Written
  <2>1. PICK o \in Offers :
          /\ offers[o].state \in LiveStates
          /\ offers' = [offers EXCEPT ![o].state = "claimed",
               ![o].challenge = "open", ![o].proof = "given"]
    BY <1>5 DEF ClaimOffer
  <2>2. /\ offers'[o] \in OfferRow /\ CurrentRow(offers'[o], bound)
        /\ \A u \in Offers \ {o} : offers'[u] = offers[u]
    BY <1>2, <2>1
    DEF OfferRow, OfferStates, ChallengeStates, Proofs, LiveStates, CurrentRow
  <2> QED
    BY <1>2, <2>1, <2>2
<1>6. ASSUME CompleteChallenge(p) PROVE Written
  <2>1. PICK o \in Offers :
          /\ offers[o].state = "claimed" /\ offers[o].challenge = "open"
          /\ offers' = [offers EXCEPT ![o].state = "completed",
               ![o].material = None, ![o].challenge = "completed"]
    BY <1>6 DEF CompleteChallenge
  <2>2. /\ offers'[o] \in OfferRow /\ CurrentRow(offers'[o], bound)
        /\ \A u \in Offers \ {o} : offers'[u] = offers[u]
    BY <1>2, <2>1
    DEF OfferRow, OfferStates, ChallengeStates, Proofs, LiveStates, CurrentRow
  <2> QED
    BY <1>2, <2>1, <2>2
<1>7. Written
  BY <1>3, <1>4, <1>5, <1>6 DEF Serve
<1> QED
  BY <1>1, <1>7, RowsWritten

LEMMA StopInv ==
  ASSUME StartupInv, NEW p \in Processes, Stop(p)
  PROVE  StartupInv'
<1> USE Keys DEF StartupInv, Stop
<1>1. TypeOK'
  BY DEF TypeOK
<1>2. LockFits'
  BY DEF TypeOK, LockFits, Transactions
<1>3. KeysFit' /\ SchemaFits' /\ RowsFit' /\ OneMasterKey'
  BY DEF TypeOK, KeysFit, SchemaFits, Upgraded, RowsFit, OneMasterKey
<1>4. FileFits' /\ EnvironmentFits' /\ ConsistentStartsSucceed'
  BY DEF TypeOK, FileFits, EnvironmentFits, ConsistentStartsSucceed, LoadingKey
<1> QED
  BY <1>1, <1>2, <1>3, <1>4

---------------------------------------------------------------------------
(* Theorems.                                                               *)

LEMMA Startup == Spec => []StartupInv
<1>1. StartupInv /\ [Next]_vars => StartupInv'
  <2>1. ASSUME StartupInv, NEW p \in Processes,
               LoadKey(p) \/ Prepare(p) \/ Serve(p) \/ Stop(p)
        PROVE  StartupInv'
    BY <2>1, StartInv, WriteInv, PublishInv, ReadInv, CreateInv, BeginMigrationInv,
       CommitMigrationInv, BeginBindingInv, CommitBindingInv, ValidateInv, ServeInv,
       StopInv
    DEF LoadKey, Prepare
  <2>2. ASSUME StartupInv, UNCHANGED vars PROVE StartupInv'
    BY <2>2 DEF vars, database, StartupInv, TypeOK, LockFits, KeysFit, SchemaFits,
                RowsFit, OneMasterKey, FileFits, EnvironmentFits,
                ConsistentStartsSucceed
  <2> QED
    BY <2>1, <2>2 DEF Next
<1> QED
  BY InitStartup, <1>1, PTL DEF Spec

\* Types; in particular a key file never holds part of a key.
THEOREM StartupTypes == Spec => []TypeOK
<1>1. StartupInv => TypeOK
  BY DEF StartupInv
<1> QED
  BY Startup, <1>1, PTL

\* However many processes start, serve and crash, with whatever sources of
\* keys: those that work with the database work with the key it is bound to.
THEOREM OneKey == Spec => []OneMasterKey
<1>1. StartupInv => OneMasterKey
  BY DEF StartupInv
<1> QED
  BY Startup, <1>1, PTL

\* With one source of keys no start is ever refused.
THEOREM StartsSucceed == Spec => []ConsistentStartsSucceed
<1>1. StartupInv => ConsistentStartsSucceed
  BY DEF StartupInv
<1> QED
  BY Startup, <1>1, PTL

\* Once a key is bound, what is pending can be read with it, and nothing of
\* the older implementation can be completed.
THEOREM PendingUsable == Spec => []PendingIsUsable
<1>1. StartupInv => PendingIsUsable
  BY DEF StartupInv, SchemaFits, RowsFit, CurrentRow, PendingIsUsable
<1> QED
  BY Startup, <1>1, PTL

\* An upgrade ends nothing that the current implementation began.
THEOREM UpgradeSpares == Spec => UpgradeSparesCurrent
<1> DEFINE Spared(p) == \A o \in Offers :
      \/ offers[o].material = Raw
      \/ offers[o].proof = "missing" /\ offers'[o] = Repaired(offers[o])
      \/ offers'[o] = offers[o]
<1>1. ASSUME StartupInv, NEW p \in Processes, CommitMigration(p)
      PROVE  Spared(p)
  <2>1. pc[p] = "migrating" /\ offers' = MigratedRows(p)
    BY <1>1 DEF CommitMigration, Goes
  <2>2. CASE schema = "legacy"
    <3>1. \A o \in Offers : offers[o] \in LegacyOffers
      BY <1>1, <2>2 DEF StartupInv, RowsFit
    <3>2. offers' = [o \in Offers |-> Revoked(Superseded(Repaired(offers[o])))]
      BY <1>1, <2>1, <2>2, Migrated
    <3> QED
      BY <3>1, <3>2, LegacyRow
  <2>3. CASE schema = "current"
    BY <1>1, <2>1, <2>3, Migrated
  <2> QED
    BY <1>1, <2>1, <2>2, <2>3, Migrated
<1>2. StartupInv => [\A p \in Processes : CommitMigration(p) => Spared(p)]_vars
  BY <1>1
<1> QED
  BY Startup, <1>2, PTL DEF Spec, UpgradeSparesCurrent

=============================================================================
