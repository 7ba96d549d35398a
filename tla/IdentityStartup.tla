-------------------------- MODULE IdentityStartup --------------------------
(***************************************************************************)
(* Starts of the backend and of the command line over one data directory:  *)
(* server/identity/key_protection.py loads or creates the master key,      *)
(* repository.prepare upgrades the schema and binds the key's identifier,  *)
(* service.prepare checks the stored offers; then the process serves.      *)
(*                                                                         *)
(* A step is one file operation, or one statement or transaction of        *)
(* SQLite.  The two transactions of prepare are BEGIN IMMEDIATE: a step    *)
(* that takes the write lock and reads, and a step that writes and         *)
(* commits.  A process may die between any two steps; its transaction is   *)
(* then rolled back and its temporary file stays behind.                   *)
(*                                                                         *)
(* An offer stands for its row and the row of its last challenge.  What    *)
(* enrollment does with them otherwise is Enrollment's.                    *)
(***************************************************************************)
EXTENDS Naturals, FiniteSets

CONSTANTS
  Processes,   \* the backend and invocations of the command line
  RandomKeys,  \* master keys secrets.token_bytes may draw; bounds the starts
  InjectedKey, \* the key in JOEOS_IDENTITY_MASTER_KEY, where it is set
  Offers,      \* pairing offer ids
  None         \* a missing file, a NULL column, a process holding nothing

CONSTANTS
  Partial,     \* content of a key file that is not completely written
  Raw          \* pairing material as the older implementation stored it

MasterKeys == RandomKeys \cup {InjectedKey}

ASSUME StartupAssumption ==
  /\ IsFiniteSet(RandomKeys)
  /\ InjectedKey \notin RandomKeys
  /\ Cardinality({None, Partial, Raw}) = 3
  /\ {None, Partial, Raw} \cap (MasterKeys \cup Processes) = {}

VARIABLES
  keyFile,  \* content of identity-master.key
  temp,     \* content of the temporary file of a process
  schema,   \* of device_enrollment_challenges: none, legacy or current
  bound,    \* device_identity_key_metadata.master_key_identifier
  offers,   \* device_pairing_offers with device_enrollment_challenges
  lock,     \* the process whose BEGIN IMMEDIATE holds the write lock
  pc, key,  \* where a process is, and the master key it holds
  found,    \* what its transaction read: missing columns, or the identifier
  drawn,    \* random keys drawn so far: bounds the starts
  configs   \* history: the key sources processes were started with

database == <<schema, bound, offers, lock>>
vars == <<keyFile, temp, database, pc, key, found, drawn, configs>>

Sources == {"environment", "file"}
LiveStates == {"created", "claimed"}
OfferStates == LiveStates \cup {"absent", "completed", "revoked", "expired"}
ChallengeStates == {"none", "open", "completed", "superseded", "expired"}
\* proof: the columns request_id, request_digest and server_proof of the
\* challenge hold what the client sent, or filler, or are missing.
Proofs == {"missing", "filler", "given"}
OfferRow == [state : OfferStates, material : MasterKeys \cup {None, Raw},
             challenge : ChallengeStates, proof : Proofs]
Starting == {"write", "publish", "read", "create_tables", "migrate",
             "migrating", "bind", "binding", "validate"}

\* Types.  keyFile is never Partial: a name appears with its whole content,
\* whoever else starts or crashes.
TypeOK ==
  /\ keyFile \in RandomKeys \cup {None}
  /\ temp \in [Processes -> RandomKeys \cup {None, Partial}]
  /\ schema \in {"none", "legacy", "current"}
  /\ bound \in MasterKeys \cup {None}
  /\ offers \in [Offers -> OfferRow]
  /\ lock \in Processes \cup {None}
  /\ pc \in [Processes -> Starting \cup {"down", "refused", "serving"}]
  /\ key \in [Processes -> MasterKeys \cup {None}]
  /\ found \in [Processes -> BOOLEAN \cup MasterKeys \cup {None}]
  /\ drawn \in SUBSET RandomKeys
  /\ configs \in SUBSET Sources

NoOffer == [state |-> "absent", material |-> None,
            challenge |-> "none", proof |-> "missing"]

\* Rows an older JoeOS leaves: offers in each state, challenges without proof.
LegacyOffers ==
  {NoOffer,
   [NoOffer EXCEPT !.state = "created", !.material = Raw],
   [NoOffer EXCEPT !.state = "claimed", !.material = Raw, !.challenge = "open"],
   [NoOffer EXCEPT !.state = "completed", !.challenge = "completed"]}

Init ==
  /\ keyFile = None
  /\ temp = [p \in Processes |-> None]
  /\ \/ schema = "none" /\ offers = [o \in Offers |-> NoOffer]
     \/ schema = "legacy" /\ offers \in [Offers -> LegacyOffers]
  /\ bound = None
  /\ lock = None
  /\ pc = [p \in Processes |-> "down"]
  /\ key = [p \in Processes |-> None]
  /\ found = [p \in Processes |-> None]
  /\ drawn = {}
  /\ configs = {}

Goes(p, from, to) == pc[p] = from /\ pc' = [pc EXCEPT ![p] = to]

---------------------------------------------------------------------------
(* load_or_create_identity_master_key.                                     *)

\* With an injected key nothing is written.  Otherwise a candidate is drawn
\* and mkstemp creates an empty file, whether or not a key file exists.
Start(p) ==
  \/ /\ Goes(p, "down", "create_tables")
     /\ key' = [key EXCEPT ![p] = InjectedKey]
     /\ configs' = configs \cup {"environment"}
     /\ UNCHANGED <<keyFile, temp, database, found, drawn>>
  \/ \E k \in RandomKeys \ drawn :
       /\ Goes(p, "down", "write")
       /\ key' = [key EXCEPT ![p] = k]
       /\ temp' = [temp EXCEPT ![p] = Partial]
       /\ drawn' = drawn \cup {k}
       /\ configs' = configs \cup {"file"}
       /\ UNCHANGED <<keyFile, database, found>>

\* The write loop and fsync: until they end the file is Partial.
WriteCandidate(p) ==
  /\ Goes(p, "write", "publish")
  /\ temp' = [temp EXCEPT ![p] = key[p]]
  /\ UNCHANGED <<keyFile, database, key, found, drawn, configs>>

\* Mutation: the file is renamed over an existing one.
RenameCandidate(p) ==
  /\ Goes(p, "publish", "create_tables")
  /\ keyFile' = temp[p]
  /\ temp' = [temp EXCEPT ![p] = None]
  /\ UNCHANGED <<database, key, found, drawn, configs>>

\* os.link fails if the key file exists: then that file is read.  The
\* temporary name is removed in either case.
PublishCandidate(p) ==
  /\ \/ /\ keyFile = None
        /\ Goes(p, "publish", "create_tables")
        /\ keyFile' = temp[p]
     \/ /\ keyFile # None
        /\ Goes(p, "publish", "read")
        /\ UNCHANGED keyFile
  /\ temp' = [temp EXCEPT ![p] = None]
  /\ UNCHANGED <<database, key, found, drawn, configs>>

\* _read_identity_master_key refuses anything but 32 bytes.
ReadKeyFile(p) ==
  /\ \/ /\ keyFile \in MasterKeys
        /\ Goes(p, "read", "create_tables")
        /\ key' = [key EXCEPT ![p] = keyFile]
     \/ /\ keyFile \notin MasterKeys
        /\ Goes(p, "read", "refused")
        /\ UNCHANGED key
  /\ UNCHANGED <<keyFile, temp, database, found, drawn, configs>>

---------------------------------------------------------------------------
(* repository.prepare.                                                     *)

\* The script of CREATE ... IF NOT EXISTS, outside a transaction.
CreateTables(p) ==
  /\ Goes(p, "create_tables", "migrate")
  /\ lock = None
  /\ schema' = IF schema = "none" THEN "current" ELSE schema
  /\ UNCHANGED <<keyFile, temp, bound, offers, lock, key, found, drawn, configs>>

\* Mutation: BEGIN without IMMEDIATE, which reads before it has the lock.
DeferMigration(p) ==
  /\ Goes(p, "migrate", "migrating")
  /\ found' = [found EXCEPT ![p] = schema = "legacy"]
  /\ UNCHANGED <<keyFile, temp, database, key, drawn, configs>>

\* _migrate_challenge_schema: BEGIN IMMEDIATE and PRAGMA table_info.
BeginMigration(p) ==
  /\ Goes(p, "migrate", "migrating")
  /\ lock = None
  /\ lock' = p
  /\ found' = [found EXCEPT ![p] = schema = "legacy"]
  /\ UNCHANGED <<keyFile, temp, schema, bound, offers, key, drawn, configs>>

HasChallenge(r) == r.challenge # "none"
Superseded(r) == IF r.challenge = "open"
                 THEN [r EXCEPT !.challenge = "superseded"] ELSE r
Revoked(r) == IF r.state \in LiveStates
              THEN [r EXCEPT !.state = "revoked", !.material = None] ELSE r
Repaired(r) == IF HasChallenge(r) /\ r.proof = "missing"
               THEN [Superseded(r) EXCEPT !.proof = "filler"] ELSE r

\* Mutation: rows are repaired, the offers stay usable.
RepairRows(p) == [o \in Offers |-> Superseded(Repaired(offers[o]))]

\* Rows without proof are filled.  If there were any, or columns were
\* missing, every open challenge and every live offer ends.
MigratedRows(p) ==
  LET repair == \E o \in Offers :
                  HasChallenge(offers[o]) /\ offers[o].proof = "missing"
  IN  [o \in Offers |-> IF found[p] \/ repair
                        THEN Revoked(Superseded(Repaired(offers[o])))
                        ELSE offers[o]]

\* The rest of the transaction and its commit.
CommitMigration(p) ==
  /\ Goes(p, "migrating", "bind")
  /\ offers' = MigratedRows(p)
  /\ schema' = "current"
  /\ lock' = None
  /\ UNCHANGED <<keyFile, temp, bound, key, found, drawn, configs>>

BeginBinding(p) ==
  /\ Goes(p, "bind", "binding")
  /\ lock = None
  /\ lock' = p
  /\ found' = [found EXCEPT ![p] = bound]
  /\ UNCHANGED <<keyFile, temp, schema, bound, offers, key, drawn, configs>>

\* Mutation: the identifier is inserted if there is none and never compared.
BindUnchecked(p) ==
  /\ Goes(p, "binding", "validate")
  /\ bound' = IF found[p] = None THEN key[p] ELSE bound
  /\ lock' = None
  /\ UNCHANGED <<keyFile, temp, schema, offers, key, found, drawn, configs>>

\* The identifier is inserted, or compared: a mismatch is rolled back and
\* raises IdentityKeyConfigurationError.
CommitBinding(p) ==
  /\ \/ /\ found[p] = None
        /\ Goes(p, "binding", "validate")
        /\ bound' = key[p]
     \/ /\ found[p] # None
        /\ Goes(p, "binding", IF found[p] = key[p] THEN "validate" ELSE "refused")
        /\ UNCHANGED bound
  /\ lock' = None
  /\ UNCHANGED <<keyFile, temp, schema, offers, key, found, drawn, configs>>

---------------------------------------------------------------------------
(* service.prepare, and what a process that serves does to the rows.       *)

Readable(r, k) == r.material \in {None, k}

\* validate_pending_key_material, after its sweep (ExpirePending): one live
\* offer that does not decrypt raises PairingKeyProtectionError.
ValidatePending(p) ==
  /\ Goes(p, "validate",
          IF \A o \in Offers : Readable(offers[o], key[p])
          THEN "serving" ELSE "refused")
  /\ UNCHANGED <<keyFile, temp, database, key, found, drawn, configs>>

\* A transaction that needs no master key: which deadlines passed is open.
ExpirePending(p) ==
  /\ pc[p] \in {"validate", "serving"}
  /\ lock = None
  /\ \E o \in Offers :
       /\ offers[o].state \in LiveStates
       /\ offers' = [offers EXCEPT
            ![o].state = "expired", ![o].material = None,
            ![o].challenge = IF @ = "open" THEN "expired" ELSE @]
  /\ UNCHANGED <<keyFile, temp, schema, bound, lock, pc, key, found, drawn, configs>>

\* create_offer: the new offer replaces the others.
IssueOffer(p) ==
  /\ pc[p] = "serving"
  /\ lock = None
  /\ \E new \in Offers :
       /\ offers[new].state = "absent"
       /\ offers' = [o \in Offers |->
            IF o = new THEN [NoOffer EXCEPT !.state = "created", !.material = key[p]]
            ELSE Superseded(IF offers[o].material # None
                            THEN Revoked(offers[o]) ELSE offers[o])]
  /\ UNCHANGED <<keyFile, temp, schema, bound, lock, pc, key, found, drawn, configs>>

\* create_challenge: only an offer whose material decrypts can be claimed.
ClaimOffer(p) ==
  /\ pc[p] = "serving"
  /\ lock = None
  /\ \E o \in Offers :
       /\ offers[o].state \in LiveStates /\ offers[o].material = key[p]
       /\ offers' = [offers EXCEPT ![o].state = "claimed",
            ![o].challenge = "open", ![o].proof = "given"]
  /\ UNCHANGED <<keyFile, temp, schema, bound, lock, pc, key, found, drawn, configs>>

CompleteChallenge(p) ==
  /\ pc[p] = "serving"
  /\ lock = None
  /\ \E o \in Offers :
       /\ offers[o].state = "claimed" /\ offers[o].challenge = "open"
       /\ offers[o].material = key[p]
       /\ offers' = [offers EXCEPT ![o].state = "completed",
            ![o].material = None, ![o].challenge = "completed"]
  /\ UNCHANGED <<keyFile, temp, schema, bound, lock, pc, key, found, drawn, configs>>

\* The process ends: the command is done, start was refused, or it crashed.
Stop(p) ==
  /\ pc[p] # "down"
  /\ pc' = [pc EXCEPT ![p] = "down"]
  /\ key' = [key EXCEPT ![p] = None]
  /\ found' = [found EXCEPT ![p] = None]
  /\ lock' = IF lock = p THEN None ELSE lock
  /\ UNCHANGED <<keyFile, temp, schema, bound, offers, drawn, configs>>

LoadKey(p) == Start(p) \/ WriteCandidate(p) \/ PublishCandidate(p) \/ ReadKeyFile(p)
Prepare(p) ==
  \/ CreateTables(p) \/ BeginMigration(p) \/ CommitMigration(p)
  \/ BeginBinding(p) \/ CommitBinding(p) \/ ValidatePending(p)
Serve(p) == ExpirePending(p) \/ IssueOffer(p) \/ ClaimOffer(p) \/ CompleteChallenge(p)

Next == \E p \in Processes : LoadKey(p) \/ Prepare(p) \/ Serve(p) \/ Stop(p)

Spec == Init /\ [][Next]_vars

---------------------------------------------------------------------------

\* Whoever serves holds the key the database is bound to, and so does whoever
\* may still be let in: no two processes ever work with two keys.
OneMasterKey ==
  \A p \in Processes : pc[p] \in {"validate", "serving"} => key[p] = bound

\* However many processes start at once, and wherever they crashed before, a
\* start is refused only if the source of the key was changed in between: the
\* key file is never torn, never replaced, and its key is the one bound.
ConsistentStartsSucceed ==
  configs \subseteq {"file"} \/ configs \subseteq {"environment"}
    => \A p \in Processes : pc[p] # "refused"

\* Once a key is bound every live offer can be read with it, and nothing of
\* the older implementation can be completed any more.
PendingIsUsable ==
  bound # None =>
    \A o \in Offers :
      /\ offers[o].state \in LiveStates => offers[o].material = bound
      /\ offers[o].challenge = "open" => offers[o].proof = "given"

\* An upgrade that runs while others start, serve or crash ends nothing that
\* the current implementation began and loses no completed enrollment.
UpgradeSparesCurrent ==
  [][\A p \in Processes : CommitMigration(p) =>
       \A o \in Offers :
         \/ offers[o].material = Raw
         \/ offers[o].proof = "missing" /\ offers'[o] = Repaired(offers[o])
         \/ offers'[o] = offers[o]]_vars

=============================================================================
