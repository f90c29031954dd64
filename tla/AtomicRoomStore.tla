--------------------------- MODULE AtomicRoomStore ---------------------------
(***************************************************************************)
(* The shared store of one collaboration room: the tables room_state,      *)
(* room_lease and recovery_backup and the functions that change them       *)
(* (supabase/migrations/20261009160702_collaboration_atomic_room_store).   *)
(*                                                                         *)
(* Every function takes the advisory lock of the diagram for its whole     *)
(* transaction, so each is one step.  A transaction that raises (a failed  *)
(* check, a lock timeout, the re-check of the lease at its end) is rolled  *)
(* back and changes nothing; which outcome the caller sees is the operator *)
(* ...Outcome, evaluated in the state the transaction starts from.         *)
(***************************************************************************)
EXTENDS Integers, FiniteSets

CONSTANTS
    Lease,         \* lease identifiers, one per claim (randomUUID)
    Generation,    \* room generations (randomUUID)
    NoGeneration,  \* the generation of a room that has no room_state row
    Record,        \* the encoded room records the column "record" can hold
    NoRecord,      \* the record of a room that has no room_state row
    Grant,         \* how long a claim or a renewal lasts ("30 seconds")
    MaxLease,      \* leases a diagram may have (128)
    MaxBackup,     \* recovery backups a diagram may have (32)
    MaxVersion,    \* versions an update may start from are below it (2^63 - 2)
    Horizon        \* how long the room is observed (a bound of the model only)

ASSUME GrantAssumption == Grant \in Nat \ {0}
ASSUME LimitAssumption == /\ MaxLease \in Nat \ {0}
                          /\ MaxBackup \in Nat \ {0}
                          /\ MaxVersion \in Nat \ {0}
                          /\ Horizon \in Nat
ASSUME NullAssumption  == NoGeneration \notin Generation /\ NoRecord \notin Record

VARIABLES
    now,         \* clock_timestamp()
    generation,  \* room_state.generation
    version,     \* room_state.version, 0 while the room has no row
    record,      \* room_state.record
    leases,      \* room_lease, the rows of this diagram
    backups      \* recovery_backup, the rows of this diagram

storeVars == <<now, generation, version, record, leases, backups>>
stateVars == <<generation, version, record>>

Kind == {"edit", "recovery"}
LeaseRow == [id : Lease, generation : Generation, kind : Kind, expires : Nat]
BackupRow == [generation : Generation, record : Record]

StoreTypeOK ==
    /\ now \in Nat
    /\ version \in Nat
    /\ \/ version = 0 /\ generation = NoGeneration /\ record = NoRecord
       \/ version > 0 /\ generation \in Generation /\ record \in Record
    /\ leases \in SUBSET LeaseRow
    /\ backups \in SUBSET BackupRow

StoreInit ==
    /\ now = 0
    /\ generation = NoGeneration
    /\ version = 0
    /\ record = NoRecord
    /\ leases = {}
    /\ backups = {}

-----------------------------------------------------------------------------
(* room_lease *)

Live(r) == r.expires > now
LiveLeases == {r \in leases : Live(r)}
LiveAs(l, g, k) ==
    \E r \in leases : r.id = l /\ r.generation = g /\ r.kind = k /\ Live(r)

\* What vizly_claim_room_lease answers, after it has dropped expired leases.
Refused(k) ==
    \/ \E r \in LiveLeases : r.kind = "recovery"
    \/ k = "recovery" /\ (LiveLeases # {} \/ version = 0)
    \/ Cardinality(LiveLeases) >= MaxLease

Owned(l) == {r \in LiveLeases : r.id = l}

\* The generation of the row, else of a live lease, else the proposed one.
AcceptedGeneration(g) ==
    IF version > 0 THEN generation
    ELSE IF LiveLeases # {} THEN (CHOOSE r \in LiveLeases : TRUE).generation
    ELSE g

Granted(l, g, k) ==
    [id |-> l, generation |-> AcceptedGeneration(g), kind |-> k, expires |-> now + Grant]

Claimed(l, k) == \E r \in Owned(l) : r.kind = k
IdentityReused(l, k) == Owned(l) # {} /\ ~Claimed(l, k)
Claimable(l, k) == Owned(l) = {} /\ ~Refused(k)

\* A claim that returns: the lease it already has, a new lease, or null.
Claim(l, g, k) ==
    /\ ~IdentityReused(l, k)
    /\ leases' = LiveLeases \cup (IF Claimable(l, k) THEN {Granted(l, g, k)} ELSE {})
    /\ UNCHANGED <<now, stateVars, backups>>

\* The rows a renewal updates: the live lease of a generation the room has
\* not left.
Renewable(l, g) ==
    {r \in leases : r.id = l /\ r.generation = g /\ Live(r) /\ generation \in {g, NoGeneration}}

RenewOutcome(l, g) == Renewable(l, g) # {}

Renew(l, g) ==
    /\ leases' = (leases \ Renewable(l, g))
                   \cup {[r EXCEPT !.expires = now + Grant] : r \in Renewable(l, g)}
    /\ UNCHANGED <<now, stateVars, backups>>

Release(l, g) ==
    /\ leases' = {r \in leases : ~(r.id = l /\ r.generation = g)}
    /\ UNCHANGED <<now, stateVars, backups>>

-----------------------------------------------------------------------------
(* room_state *)

\* vizly_exchange_atomic_room raises without a live edit lease, answers false
\* for a lease of another generation, and otherwise whether it wrote the row.
ExchangeRaises(l) ==
    ~\E r \in leases : r.id = l /\ r.kind = "edit" /\ Live(r)

\* Mutant of ExchangeWrites: the version read is not compared.
ExchangeWritesAnyVersion(l, g, v) ==
    /\ LiveAs(l, g, "edit")
    /\ v > 0 => version > 0 /\ generation = g /\ v < MaxVersion

\* v = 0 stands for a null p_version: insert, on conflict do nothing.
ExchangeWrites(l, g, v) ==
    /\ LiveAs(l, g, "edit")
    /\ v = version
    /\ v > 0 => generation = g /\ v < MaxVersion

ExchangeOutcome(l, g, v) ==
    IF ExchangeRaises(l) \/ v >= MaxVersion THEN "raise"
    ELSE IF ExchangeWrites(l, g, v) THEN "true" ELSE "false"

Exchange(l, g, v, rec) ==
    /\ ExchangeWrites(l, g, v)
    /\ generation' = g
    /\ version' = version + 1
    /\ record' = rec
    /\ UNCHANGED <<now, leases, backups>>

\* vizly_recover_atomic_room; sha is the record the caller inspected (a digest
\* names the bytes it was computed from).
Recoverable(l, g, newGen, sha) ==
    /\ newGen # g
    /\ LiveAs(l, g, "recovery")
    /\ \A r \in leases : r.id # l => ~Live(r)
    /\ version > 0 /\ version < MaxVersion
    /\ generation = g
    /\ record = sha
    /\ \/ \E b \in backups : b.record = sha
       \/ Cardinality(backups) < MaxBackup

\* Mutants of Recover: the leases of the old generation survive; the backup is
\* taken after the row was replaced; the new generation counts from version 1.
RecoverKeepingLeases(l, g, newGen, sha, rec) ==
    /\ Recoverable(l, g, newGen, sha)
    /\ backups' = backups \cup {[generation |-> g, record |-> record]}
    /\ generation' = newGen /\ version' = version + 1 /\ record' = rec
    /\ UNCHANGED <<now, leases>>

RecoverBackingUpNew(l, g, newGen, sha, rec) ==
    /\ Recoverable(l, g, newGen, sha)
    /\ backups' = backups \cup {[generation |-> newGen, record |-> rec]}
    /\ generation' = newGen /\ version' = version + 1 /\ record' = rec
    /\ leases' = {}
    /\ UNCHANGED now

RecoverAtVersionOne(l, g, newGen, sha, rec) ==
    /\ Recoverable(l, g, newGen, sha)
    /\ backups' = backups \cup {[generation |-> g, record |-> record]}
    /\ generation' = newGen /\ version' = 1 /\ record' = rec
    /\ leases' = {}
    /\ UNCHANGED now

Recover(l, g, newGen, sha, rec) ==
    /\ Recoverable(l, g, newGen, sha)
    /\ backups' = IF \E b \in backups : b.record = sha THEN backups
                  ELSE backups \cup {[generation |-> g, record |-> record]}
    /\ generation' = newGen
    /\ version' = version + 1
    /\ record' = rec
    /\ leases' = {}
    /\ UNCHANGED now

Tick ==
    /\ now < Horizon
    /\ now' = now + 1
    /\ UNCHANGED <<stateVars, leases, backups>>

-----------------------------------------------------------------------------
\* Any holder of the service role may call any function with any arguments.
StoreNext ==
    \/ \E l \in Lease, g \in Generation, k \in Kind : Claim(l, g, k)
    \/ \E l \in Lease, g \in Generation : Renew(l, g) \/ Release(l, g)
    \/ \E l \in Lease, g \in Generation, rec \in Record : Exchange(l, g, version, rec)
    \/ \E l \in Lease, g, newGen \in Generation, rec \in Record :
           Recover(l, g, newGen, record, rec)
    \/ Tick

StoreSpec == StoreInit /\ [][StoreNext]_storeVars

-----------------------------------------------------------------------------
(* Properties *)

\* A lease identifier names at most one row (the primary key of room_lease,
\* which a claim must not violate after dropping expired rows).
LeaseIdsUnique == \A r, s \in leases : r.id = s.id => r = s

\* All leases of the room, expired ones included, are of one generation, and
\* of the row's generation once there is a row: a holder can only write to the
\* generation everyone else was admitted to.
OneGeneration ==
    /\ \A r, s \in leases : r.generation = s.generation
    /\ version > 0 => \A r \in leases : r.generation = generation

\* A recovery lease is the only lease of its room, and of a room with a row:
\* "Recovery requires an exclusive live lease".
RecoveryAlone ==
    \A r \in leases : r.kind = "recovery" => leases = {r} /\ version > 0

\* What every function of the store keeps: inductive as it stands.
StoreInv == StoreTypeOK /\ LeaseIdsUnique /\ OneGeneration /\ RecoveryAlone

\* A generation is replaced only when no edit lease is live, and no lease of
\* the replaced generation survives it.
GenerationChangeIsFenced ==
    [][version > 0 /\ generation' # generation
        => (\A r \in leases : r.kind = "edit" => ~Live(r)) /\ leases' = {}]_storeVars

\* The record a recovery replaces is among the backups, and stays there.
ReplacedRecordIsKept ==
    [][/\ version > 0 /\ generation' # generation => \E b \in backups' : b.record = record
       /\ backups \subseteq backups']_storeVars

\* Versions count the writes: a version never names two contents, even across
\* a recovery.
VersionNamesContent ==
    [][version' >= version /\ (version' = version => UNCHANGED <<record, generation>>)]_storeVars
=============================================================================
