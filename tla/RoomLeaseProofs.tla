--------------------------- MODULE RoomLeaseProofs ---------------------------
(***************************************************************************)
(* Proofs about the shared store of a room and the holders of its leases,  *)
(* for every set of leases, generations and records, every value of the    *)
(* limits and all values of the time constants with Hold + Drift <= Grant. *)
(*                                                                         *)
(* The state invariants of AtomicRoomStore are inductive together.  Each   *)
(* function of the store gets a lemma of its own, so that the modules that *)
(* give the store its callers can cite it.                                 *)
(*                                                                         *)
(* LeaseInv of RoomLease is inductive: one lemma per action.  An editor    *)
(* that believes in its lease therefore has a live row, no recovery lease  *)
(* can be beside it, and no recovery can happen.                           *)
(***************************************************************************)
EXTENDS RoomLease, TLAPS

-----------------------------------------------------------------------------
(* The store                                                                *)

\* What a claim adds is of the generation of every lease that is left.
LEMMA GrantedIsAccepted ==
    ASSUME StoreInv, NEW l \in Lease, NEW g \in Generation, NEW k \in Kind
    PROVE  /\ Granted(l, g, k) \in LeaseRow
           /\ version > 0 => Granted(l, g, k).generation = generation
           /\ \A r \in LiveLeases : r.generation = Granted(l, g, k).generation
<1>1. AcceptedGeneration(g) \in Generation
  BY DEF StoreInv, StoreTypeOK, AcceptedGeneration, LiveLeases, LeaseRow
<1>2. \A r \in LiveLeases : r.generation = AcceptedGeneration(g)
  BY DEF StoreInv, StoreTypeOK, AcceptedGeneration, LiveLeases, LeaseRow, OneGeneration
<1>3. version > 0 => AcceptedGeneration(g) = generation
  BY DEF AcceptedGeneration
<1>4. now + Grant \in Nat
  BY GrantAssumption DEF StoreInv, StoreTypeOK
<1> QED
  BY <1>1, <1>2, <1>3, <1>4 DEF Granted, LeaseRow

\* Whatever an initial state is, the rows are consistent in it.
LEMMA StoreInitInv == StoreInit => StoreInv
BY DEF StoreInit, StoreInv, StoreTypeOK, LeaseIdsUnique, OneGeneration, RecoveryAlone

\* A claim keeps the rows of a room consistent.
LEMMA ClaimKeepsInv ==
    ASSUME StoreInv, NEW l \in Lease, NEW g \in Generation, NEW k \in Kind, Claim(l, g, k)
    PROVE  StoreInv'
<1> DEFINE row == Granted(l, g, k)
<1>1. UNCHANGED <<now, generation, version, record, backups>>
  BY DEF Claim, stateVars
<1>2. LiveLeases \subseteq leases
  BY DEF LiveLeases
<1>3. /\ row \in LeaseRow
      /\ version > 0 => row.generation = generation
      /\ \A r \in LiveLeases : r.generation = row.generation
  BY GrantedIsAccepted
<1>4. row.id = l /\ row.kind = k
  BY DEF Granted
<1>5. CASE ~Claimable(l, k)
  <2>1. leases' = LiveLeases
    BY <1>5 DEF Claim
  <2> QED
    BY <1>1, <1>2, <2>1
    DEF StoreInv, StoreTypeOK, LeaseIdsUnique, OneGeneration, RecoveryAlone
<1>6. CASE Claimable(l, k)
  <2>1. leases' = LiveLeases \cup {row}
    BY <1>6 DEF Claim
  <2>2. \A r \in LiveLeases : r.id # l
    BY <1>6 DEF Claimable, Owned
  <2>3. \A r \in LiveLeases : r.kind # "recovery"
    BY <1>6 DEF Claimable, Refused
  <2>4. k = "recovery" => LiveLeases = {} /\ version > 0
    BY <1>6 DEF Claimable, Refused, StoreInv, StoreTypeOK
  <2>5. StoreTypeOK'
    BY <1>1, <1>2, <1>3, <2>1 DEF StoreInv, StoreTypeOK
  <2>6. LeaseIdsUnique'
    BY <1>2, <1>4, <2>1, <2>2 DEF StoreInv, LeaseIdsUnique
  <2>7. OneGeneration'
    BY <1>1, <1>2, <1>3, <2>1 DEF StoreInv, OneGeneration
  <2>8. RecoveryAlone'
    BY <1>1, <1>4, <2>1, <2>3, <2>4 DEF RecoveryAlone
  <2> QED
    BY <2>5, <2>6, <2>7, <2>8 DEF StoreInv
<1> QED
  BY <1>5, <1>6

\* A renewal changes the expiry of a row and nothing else of it.
LEMMA RenewKeepsInv ==
    ASSUME StoreInv, NEW l \in Lease, NEW g \in Generation, Renew(l, g)
    PROVE  StoreInv'
<1> DEFINE later(r) == [r EXCEPT !.expires = now + Grant]
<1>1. UNCHANGED <<now, generation, version, record, backups>>
  BY DEF Renew, stateVars
<1>2. leases' = (leases \ Renewable(l, g)) \cup {later(r) : r \in Renewable(l, g)}
  BY DEF Renew
<1>3. Renewable(l, g) \subseteq leases
  BY DEF Renewable
<1>4. now + Grant \in Nat
  BY GrantAssumption DEF StoreInv, StoreTypeOK
<1>5. \A r \in leases : /\ later(r) \in LeaseRow
                        /\ later(r).id = r.id
                        /\ later(r).generation = r.generation
                        /\ later(r).kind = r.kind
  BY <1>4 DEF StoreInv, StoreTypeOK, LeaseRow
<1>6. \A s \in leases' : \E r \in leases :
         /\ s.id = r.id /\ s.generation = r.generation /\ s.kind = r.kind
         /\ r \in Renewable(l, g) => s = later(r)
         /\ r \notin Renewable(l, g) => s = r
  BY <1>2, <1>3, <1>5
<1>7. StoreTypeOK'
  BY <1>1, <1>2, <1>3, <1>5 DEF StoreInv, StoreTypeOK
<1>8. LeaseIdsUnique'
  BY <1>6 DEF StoreInv, LeaseIdsUnique
<1>9. OneGeneration'
  BY <1>1, <1>6 DEF StoreInv, OneGeneration
<1>10. RecoveryAlone'
  <2> SUFFICES ASSUME NEW s \in leases', s.kind = "recovery"
               PROVE  leases' = {s} /\ version' > 0
    BY DEF RecoveryAlone
  <2>1. PICK r \in leases : s.id = r.id /\ r.kind = "recovery"
    BY <1>6
  <2>2. leases = {r} /\ version > 0
    BY <2>1 DEF StoreInv, RecoveryAlone
  <2>3. \A t \in leases' : t = s
    BY <1>6, <2>2
  <2> QED
    BY <1>1, <2>2, <2>3
<1> QED
  BY <1>7, <1>8, <1>9, <1>10 DEF StoreInv

\* Dropping rows keeps the others consistent.
LEMMA ReleaseKeepsInv ==
    ASSUME StoreInv, NEW l \in Lease, NEW g \in Generation, Release(l, g)
    PROVE  StoreInv'
<1>1. UNCHANGED <<now, generation, version, record, backups>>
  BY DEF Release, stateVars
<1>2. leases' \subseteq leases
  BY DEF Release
<1> QED
  BY <1>1, <1>2 DEF StoreInv, StoreTypeOK, LeaseIdsUnique, OneGeneration, RecoveryAlone

\* A write creates the row in the generation of the leases, or keeps it.
LEMMA ExchangeKeepsInv ==
    ASSUME StoreInv, NEW l \in Lease, NEW g \in Generation, NEW v, NEW rec \in Record,
           Exchange(l, g, v, rec)
    PROVE  StoreInv'
<1>1. UNCHANGED <<now, leases, backups>> /\ generation' = g /\ record' = rec
  BY DEF Exchange
<1>2. version' = version + 1 /\ version \in Nat
  BY DEF Exchange, StoreInv, StoreTypeOK
<1>3. \E r \in leases : r.generation = g
  BY DEF Exchange, ExchangeWrites, LiveAs
<1>4. StoreTypeOK'
  BY <1>1, <1>2 DEF StoreInv, StoreTypeOK
<1>5. OneGeneration'
  BY <1>1, <1>3 DEF StoreInv, OneGeneration
<1>6. LeaseIdsUnique' /\ RecoveryAlone'
  BY <1>1, <1>2 DEF StoreInv, LeaseIdsUnique, RecoveryAlone
<1> QED
  BY <1>4, <1>5, <1>6 DEF StoreInv

\* A recovery leaves a row of a new generation and no lease.
LEMMA RecoverKeepsInv ==
    ASSUME StoreInv, NEW l \in Lease, NEW g \in Generation, NEW newGen \in Generation,
           NEW sha, NEW rec \in Record, Recover(l, g, newGen, sha, rec)
    PROVE  StoreInv'
<1>1. generation' = newGen /\ record' = rec /\ leases' = {} /\ now' = now
  BY DEF Recover
<1>2. version' = version + 1 /\ version \in Nat /\ version > 0
  BY DEF Recover, Recoverable, StoreInv, StoreTypeOK
<1>3. backups' \in SUBSET BackupRow
  BY <1>2 DEF Recover, StoreInv, StoreTypeOK, BackupRow
<1> QED
  BY <1>1, <1>2, <1>3
  DEF StoreInv, StoreTypeOK, LeaseIdsUnique, OneGeneration, RecoveryAlone

\* Time only lets leases run out.
LEMMA TickKeepsInv ==
    ASSUME StoreInv, Tick
    PROVE  StoreInv'
BY DEF Tick, StoreInv, StoreTypeOK, LeaseIdsUnique, OneGeneration, RecoveryAlone, stateVars

LEMMA StoreStutterKeepsInv ==
    ASSUME StoreInv, UNCHANGED storeVars
    PROVE  StoreInv'
BY DEF storeVars, StoreInv, StoreTypeOK, LeaseIdsUnique, OneGeneration, RecoveryAlone

\* The rows of a room stay consistent whatever its callers do.
THEOREM StoreInvariant == StoreSpec => []StoreInv
<1>1. StoreInit => StoreInv
  BY StoreInitInv
<1>2. StoreInv /\ [StoreNext]_storeVars => StoreInv'
  <2> SUFFICES ASSUME StoreInv, [StoreNext]_storeVars
               PROVE  StoreInv'
    OBVIOUS
  <2>1. ASSUME NEW l \in Lease, NEW g \in Generation, NEW k \in Kind, Claim(l, g, k)
        PROVE  StoreInv'
    BY <2>1, ClaimKeepsInv
  <2>2. ASSUME NEW l \in Lease, NEW g \in Generation, Renew(l, g) \/ Release(l, g)
        PROVE  StoreInv'
    BY <2>2, RenewKeepsInv, ReleaseKeepsInv
  <2>3. ASSUME NEW l \in Lease, NEW g \in Generation, NEW rec \in Record,
               Exchange(l, g, version, rec)
        PROVE  StoreInv'
    BY <2>3, ExchangeKeepsInv
  <2>4. ASSUME NEW l \in Lease, NEW g \in Generation, NEW newGen \in Generation,
               NEW rec \in Record, Recover(l, g, newGen, record, rec)
        PROVE  StoreInv'
    BY <2>4, RecoverKeepsInv
  <2>5. CASE Tick
    BY <2>5, TickKeepsInv
  <2>6. CASE UNCHANGED storeVars
    BY <2>6, StoreStutterKeepsInv
  <2> QED
    BY <2>1, <2>2, <2>3, <2>4, <2>5, <2>6 DEF StoreNext
<1> QED
  BY <1>1, <1>2, PTL DEF StoreSpec

\* Every lease of a room is of one generation, its row's when it has one.
THEOREM StoreOneGeneration == StoreSpec => []OneGeneration
<1>1. StoreInv => OneGeneration
  BY DEF StoreInv
<1> QED
  BY <1>1, StoreInvariant, PTL

\* A recovery lease excludes every other lease.
THEOREM StoreRecoveryAlone == StoreSpec => []RecoveryAlone
<1>1. StoreInv => RecoveryAlone
  BY DEF StoreInv
<1> QED
  BY <1>1, StoreInvariant, PTL

-----------------------------------------------------------------------------
(* What one step may not do *)

\* Only a recovery changes the generation of a room with a row, under a live
\* recovery lease that is alone.
LEMMA GenerationChangeStep ==
    ASSUME StoreInv, [StoreNext]_storeVars, version > 0, generation' # generation
    PROVE  /\ \A r \in leases : r.kind = "edit" => ~Live(r)
           /\ leases' = {}
           /\ \E b \in backups' : b.record = record
<1>1. PICK l \in Lease, g \in Generation, newGen \in Generation, rec \in Record :
         Recover(l, g, newGen, record, rec)
  <2>1. ASSUME NEW l \in Lease, NEW g \in Generation, NEW rec \in Record,
               Exchange(l, g, version, rec)
        PROVE  FALSE
    BY <2>1 DEF Exchange, ExchangeWrites
  <2>2. ~Tick /\ ~UNCHANGED storeVars
    BY DEF Tick, stateVars, storeVars
  <2>3. \A l \in Lease, g \in Generation :
           ~Renew(l, g) /\ ~Release(l, g) /\ \A k \in Kind : ~Claim(l, g, k)
    BY DEF Renew, Release, Claim, stateVars
  <2> QED
    BY <2>1, <2>2, <2>3 DEF StoreNext
<1>2. PICK r \in leases : r.kind = "recovery"
  BY <1>1 DEF Recover, Recoverable, LiveAs
<1>3. leases = {r}
  BY <1>2 DEF StoreInv, RecoveryAlone
<1>4. \A s \in leases : s.kind # "edit"
  BY <1>2, <1>3
<1>5. leases' = {}
  BY <1>1 DEF Recover
<1>6. \E b \in backups' : b.record = record
  <2> DEFINE kept == [generation |-> g, record |-> record]
  <2>1. \/ backups' = backups /\ \E b \in backups : b.record = record
        \/ backups' = backups \cup {kept}
    BY <1>1 DEF Recover
  <2>2. kept.record = record
    OBVIOUS
  <2> QED
    BY <2>1, <2>2
<1> QED
  BY <1>4, <1>5, <1>6

\* Backups are never dropped, and versions count the writes.
LEMMA StoreStepKeepsHistory ==
    ASSUME StoreInv, [StoreNext]_storeVars
    PROVE  /\ backups \subseteq backups'
           /\ version' >= version
           /\ version' = version => UNCHANGED <<record, generation>>
<1>0. version \in Nat
  BY DEF StoreInv, StoreTypeOK
<1>1. ASSUME NEW l \in Lease, NEW g \in Generation,
             \/ \E k \in Kind : Claim(l, g, k)
             \/ Renew(l, g)
             \/ Release(l, g)
      PROVE  UNCHANGED <<stateVars, backups>>
  BY <1>1 DEF Claim, Renew, Release
<1>2. ASSUME NEW l \in Lease, NEW g \in Generation, NEW rec \in Record,
             Exchange(l, g, version, rec)
      PROVE  version' = version + 1 /\ backups' = backups
  BY <1>2 DEF Exchange
<1>3. ASSUME NEW l \in Lease, NEW g \in Generation, NEW newGen \in Generation,
             NEW rec \in Record, Recover(l, g, newGen, record, rec)
      PROVE  version' = version + 1 /\ backups \subseteq backups'
  BY <1>3 DEF Recover
<1>4. CASE Tick
  BY <1>0, <1>4 DEF Tick, stateVars
<1>5. CASE UNCHANGED storeVars
  BY <1>0, <1>5 DEF storeVars
<1> QED
  BY <1>0, <1>1, <1>2, <1>3, <1>4, <1>5 DEF StoreNext, stateVars

\* A generation is replaced only when nobody can be editing it.
THEOREM StoreGenerationChangeIsFenced == StoreSpec => GenerationChangeIsFenced
<1>1. StoreInv /\ [StoreNext]_storeVars
        => [version > 0 /\ generation' # generation
              => (\A r \in leases : r.kind = "edit" => ~Live(r)) /\ leases' = {}]_storeVars
  BY GenerationChangeStep
<1> QED
  BY <1>1, StoreInvariant, PTL DEF StoreSpec, GenerationChangeIsFenced

\* What a recovery replaces is never lost.
THEOREM StoreReplacedRecordIsKept == StoreSpec => ReplacedRecordIsKept
<1>1. StoreInv /\ [StoreNext]_storeVars
        => [/\ version > 0 /\ generation' # generation
                 => \E b \in backups' : b.record = record
            /\ backups \subseteq backups']_storeVars
  BY GenerationChangeStep, StoreStepKeepsHistory
<1> QED
  BY <1>1, StoreInvariant, PTL DEF StoreSpec, ReplacedRecordIsKept

\* A version of a room names one content for ever.
THEOREM StoreVersionNamesContent == StoreSpec => VersionNamesContent
<1>1. StoreInv /\ [StoreNext]_storeVars
        => [/\ version' >= version
            /\ version' = version => UNCHANGED <<record, generation>>]_storeVars
  BY StoreStepKeepsHistory
<1> QED
  BY <1>1, StoreInvariant, PTL DEF StoreSpec, VersionNamesContent

-----------------------------------------------------------------------------
(* The holders of leases                                                    *)

LEMMA TypesOfLeaseInv ==
    ASSUME LeaseInv
    PROVE  /\ now \in Nat /\ version \in Nat
           /\ leases \in SUBSET LeaseRow
           /\ Drift \in Nat /\ Hold \in Nat /\ Grant \in Nat /\ Hold + Drift <= Grant
           /\ \A l \in Lease : /\ lag[l] \in Nat /\ lag[l] <= Drift
                               /\ started[l] \in Int /\ deadline[l] \in Int
                               /\ receipt[l].expires \in Nat
                               /\ Clock(l) \in Int /\ Clock(l) <= now
BY LeaseAssumption, GrantAssumption
   DEF LeaseInv, TypeOK, StoreTypeOK, Clock, Receipt

-----------------------------------------------------------------------------
(* Steps of a holder alone *)

\* An attempt that is over claims nothing any more; it may have sent its
\* release when its claim has been answered.
LEMMA FinishKeepsInv ==
    ASSUME LeaseInv, NEW l \in Lease, NEW p \in {"closed", "failed"},
           phase[l] \in {"claiming", "open", "aborted"},
           Finish(l, p),
           \/ calls' = calls /\ p = "failed"
           \/ /\ calls' = calls \cup {Request("release", l, receipt[l].generation)}
              /\ p = "closed" /\ receipt[l] # NoReceipt,
           UNCHANGED <<storeVars, lag, kind>>
    PROVE  LeaseInv'
<1>1. /\ phase' = [phase EXCEPT ![l] = p]
      /\ receipt' = [receipt EXCEPT ![l] = NoReceipt]
      /\ started' = [started EXCEPT ![l] = 0]
      /\ deadline' = [deadline EXCEPT ![l] = 0]
      /\ renewal' = [renewal EXCEPT ![l] = "waiting"]
  BY DEF Finish, StopTimers
<1>2. StoreInv'
  BY StoreStutterKeepsInv DEF LeaseInv
<1>3. NoReceipt \in Receipt
  BY DEF NoReceipt, Receipt
<1>4. receipt[l] # NoReceipt => receipt[l].generation \in Generation
  BY DEF LeaseInv, ReceiptsAreHeld
<1>5. TypeOK'
  BY <1>1, <1>2, <1>3, <1>4
  DEF LeaseInv, TypeOK, StoreInv, Phase, Renewal, Call, Request
<1>6. CallsAreOfTheirAttempt'
  BY <1>1 DEF LeaseInv, TypeOK, CallsAreOfTheirAttempt, Request, Call
<1>7. ClaimedOnce'
  BY <1>1 DEF LeaseInv, ClaimedOnce, Request
<1>8. TimersAreConservative' /\ ReceiptsAreHeld' /\ ReceiptIsBacked'
  BY <1>1
  DEF LeaseInv, TypeOK, TimersAreConservative, ReceiptsAreHeld, ReceiptIsBacked, Clock, storeVars
<1>9. DeadlineIsBacked'
  BY <1>1 DEF LeaseInv, TypeOK, DeadlineIsBacked, Active, Clock, RowOutlives, storeVars
<1> QED
  BY <1>2, <1>5, <1>6, <1>7, <1>8, <1>9 DEF LeaseInv

\* An aborted lease keeps its receipt for the release and nothing else.
LEMMA InvalidateKeepsInv ==
    ASSUME LeaseInv, NEW l \in Lease, phase[l] = "open", Invalidate(l),
           UNCHANGED <<storeVars, lag, kind, receipt, calls>>
    PROVE  LeaseInv'
<1>1. /\ phase' = [phase EXCEPT ![l] = "aborted"]
      /\ started' = [started EXCEPT ![l] = 0]
      /\ deadline' = [deadline EXCEPT ![l] = 0]
      /\ renewal' = [renewal EXCEPT ![l] = "waiting"]
  BY DEF Invalidate, StopTimers
<1>2. StoreInv'
  BY StoreStutterKeepsInv DEF LeaseInv
<1>3. TypeOK'
  BY <1>1, <1>2 DEF LeaseInv, TypeOK, StoreInv, Phase, Renewal
<1>4. CallsAreOfTheirAttempt' /\ ClaimedOnce'
  BY <1>1 DEF LeaseInv, TypeOK, CallsAreOfTheirAttempt, ClaimedOnce, Call
<1>5. TimersAreConservative' /\ ReceiptsAreHeld' /\ ReceiptIsBacked'
  BY <1>1
  DEF LeaseInv, TypeOK, TimersAreConservative, ReceiptsAreHeld, ReceiptIsBacked, Clock, storeVars
<1>6. DeadlineIsBacked'
  BY <1>1 DEF LeaseInv, TypeOK, DeadlineIsBacked, Active, Clock, RowOutlives, storeVars
<1> QED
  BY <1>2, <1>3, <1>4, <1>5, <1>6 DEF LeaseInv

\* A new attempt has no receipt and nothing under way but its claim.
LEMMA StartClaimKeepsInv ==
    ASSUME LeaseInv, NEW l \in Lease, NEW k \in Kind, NEW g \in Generation, StartClaim(l, k, g)
    PROVE  LeaseInv'
<1> DEFINE call == [op |-> "claim", id |-> l, generation |-> g, kind |-> k]
<1>1. /\ UNCHANGED <<storeVars, lag, receipt, deadline, renewal>>
      /\ phase[l] = "idle"
      /\ phase' = [phase EXCEPT ![l] = "claiming"]
      /\ kind' = [kind EXCEPT ![l] = k]
      /\ started' = [started EXCEPT ![l] = Clock(l)]
      /\ calls' = calls \cup {call}
  BY DEF StartClaim
<1>2. receipt[l] = NoReceipt /\ \A c \in calls : c.id # l
  BY <1>1 DEF LeaseInv, TypeOK, ReceiptsAreHeld, CallsAreOfTheirAttempt, Call
<1>3. StoreInv'
  BY <1>1, StoreStutterKeepsInv DEF LeaseInv
<1>4. TypeOK'
  BY <1>1, <1>3, TypesOfLeaseInv DEF LeaseInv, TypeOK, StoreInv, Phase, Call
<1>5. CallsAreOfTheirAttempt' /\ ClaimedOnce'
  BY <1>1, <1>2 DEF LeaseInv, TypeOK, CallsAreOfTheirAttempt, ClaimedOnce, Call
<1>6. TimersAreConservative'
  BY <1>1, TypesOfLeaseInv DEF LeaseInv, TypeOK, TimersAreConservative, Clock, storeVars
<1>7. ReceiptsAreHeld' /\ ReceiptIsBacked'
  BY <1>1, <1>2 DEF LeaseInv, TypeOK, ReceiptsAreHeld, ReceiptIsBacked, storeVars
<1>8. DeadlineIsBacked'
  BY <1>1 DEF LeaseInv, TypeOK, DeadlineIsBacked, Active, Clock, RowOutlives, storeVars
<1> QED
  BY <1>3, <1>4, <1>5, <1>6, <1>7, <1>8 DEF LeaseInv

\* A holder's deadline is never later than Hold after its request.
LEMMA AdmissionDeadlineBound ==
    ASSUME LeaseInv, NEW l \in Lease, NEW wall \in Int
    PROVE  /\ AdmissionDeadline(l, wall) \in Int
           /\ AdmissionDeadline(l, wall) <= started[l] + Hold
BY TypesOfLeaseInv, LeaseAssumption DEF AdmissionDeadline

\* The lease opens on a row that outlives its deadline by more than the drift.
LEMMA AdmitKeepsInv ==
    ASSUME LeaseInv, NEW l \in Lease, NEW wall \in Int, Admit(l, wall)
    PROVE  LeaseInv'
<1> DEFINE d == AdmissionDeadline(l, wall)
<1>1. /\ UNCHANGED <<storeVars, lag, kind>>
      /\ phase[l] = "claiming" /\ receipt[l] # NoReceipt
  BY DEF Admit
<1>2. CASE Clock(l) >= d
  <2>1. /\ calls' = calls \cup {Request("release", l, receipt[l].generation)}
        /\ Finish(l, "closed")
    BY <1>2, AdmissionDeadlineBound, TypesOfLeaseInv DEF Admit
  <2> QED
    BY <1>1, <2>1, FinishKeepsInv
<1>3. CASE Clock(l) < d
  <2>1. /\ phase' = [phase EXCEPT ![l] = "open"]
        /\ deadline' = [deadline EXCEPT ![l] = d]
        /\ UNCHANGED <<started, receipt, renewal, calls>>
    BY <1>3, AdmissionDeadlineBound, TypesOfLeaseInv DEF Admit
  <2>2. d \in Int /\ d <= started[l] + Hold
    BY AdmissionDeadlineBound
  <2>3. StoreInv'
    BY <1>1, StoreStutterKeepsInv DEF LeaseInv
  <2>4. TypeOK'
    BY <1>1, <2>1, <2>2, <2>3 DEF LeaseInv, TypeOK, StoreInv, Phase
  <2>5. CallsAreOfTheirAttempt' /\ ClaimedOnce'
    BY <1>1, <2>1 DEF LeaseInv, TypeOK, CallsAreOfTheirAttempt, ClaimedOnce, Call
  <2>6. TimersAreConservative'
    BY <1>1, <2>1, <2>2 DEF LeaseInv, TypeOK, TimersAreConservative, Clock, storeVars
  <2>7. ReceiptsAreHeld' /\ ReceiptIsBacked'
    BY <1>1, <2>1 DEF LeaseInv, TypeOK, ReceiptsAreHeld, ReceiptIsBacked, storeVars
  <2>8. ASSUME kind[l] = "edit"
        PROVE  \E r \in leases : RowOutlives(r, l)'
    <3> DEFINE row == [id |-> l, generation |-> receipt[l].generation, kind |-> "edit",
                       expires |-> receipt[l].expires]
    <3>1. receipt[l].expires >= started[l] + Grant
      BY <1>1 DEF LeaseInv, ReceiptIsBacked
    <3>2. receipt[l].expires >= d + Drift /\ receipt[l].expires > now
      BY <1>3, <2>2, <3>1, TypesOfLeaseInv DEF Clock
    <3>3. PICK r \in leases : r = row
      BY <1>1, <2>8, <3>2 DEF LeaseInv, ReceiptIsBacked
    <3>4. RowOutlives(r, l)'
      BY <1>1, <2>1, <3>1, <3>2, <3>3 DEF LeaseInv, TypeOK, RowOutlives
    <3> QED
      BY <3>4
  <2>9. DeadlineIsBacked'
    BY <1>1, <2>1, <2>8 DEF LeaseInv, TypeOK, DeadlineIsBacked, Active, Clock, RowOutlives, storeVars
  <2> QED
    BY <2>3, <2>4, <2>5, <2>6, <2>7, <2>9 DEF LeaseInv
<1> QED
  BY <1>2, <1>3, AdmissionDeadlineBound, TypesOfLeaseInv

\* The request of a renewal is sent at the holder's current time.
LEMMA StartRenewKeepsInv ==
    ASSUME LeaseInv, NEW l \in Lease, StartRenew(l)
    PROVE  LeaseInv'
<1>1. /\ UNCHANGED <<storeVars, lag, kind, receipt>>
      /\ phase[l] = "open" /\ renewal[l] = "waiting"
  BY DEF StartRenew
<1>2. CASE ~Active(l)
  BY <1>1, <1>2, InvalidateKeepsInv DEF StartRenew
<1>3. CASE Active(l)
  <2> DEFINE call == Request("renew", l, receipt[l].generation)
  <2>1. /\ started' = [started EXCEPT ![l] = Clock(l)]
        /\ renewal' = [renewal EXCEPT ![l] = "sent"]
        /\ calls' = calls \cup {call}
        /\ UNCHANGED <<phase, deadline>>
    BY <1>3 DEF StartRenew
  <2>2. receipt[l].generation \in Generation
    BY <1>1 DEF LeaseInv, ReceiptsAreHeld
  <2>3. StoreInv'
    BY <1>1, StoreStutterKeepsInv DEF LeaseInv
  <2>4. TypeOK'
    BY <1>1, <2>1, <2>2, <2>3, TypesOfLeaseInv
    DEF LeaseInv, TypeOK, StoreInv, Renewal, Call, Request
  <2>5. CallsAreOfTheirAttempt' /\ ClaimedOnce'
    BY <1>1, <2>1 DEF LeaseInv, TypeOK, CallsAreOfTheirAttempt, ClaimedOnce, Call, Request
  <2>6. TimersAreConservative'
    BY <1>1, <2>1, TypesOfLeaseInv DEF LeaseInv, TypeOK, TimersAreConservative, Clock, storeVars
  <2>7. ReceiptsAreHeld' /\ ReceiptIsBacked'
    BY <1>1, <2>1 DEF LeaseInv, TypeOK, ReceiptsAreHeld, ReceiptIsBacked, storeVars
  <2>8. DeadlineIsBacked'
    BY <1>1, <2>1 DEF LeaseInv, TypeOK, DeadlineIsBacked, Active, Clock, RowOutlives, storeVars
  <2> QED
    BY <2>3, <2>4, <2>5, <2>6, <2>7, <2>8 DEF LeaseInv
<1> QED
  BY <1>2, <1>3

\* The deadline moves to Hold after the request, which the renewed row covers.
LEMMA FinishRenewKeepsInv ==
    ASSUME LeaseInv, NEW l \in Lease, FinishRenew(l)
    PROVE  LeaseInv'
<1>1. /\ UNCHANGED <<storeVars, lag, kind, receipt, calls>>
      /\ phase[l] = "open" /\ renewal[l] \in {"renewed", "denied"}
  BY DEF FinishRenew
<1>2. CASE ~Active(l) \/ renewal[l] = "denied"
  BY <1>1, <1>2, InvalidateKeepsInv DEF FinishRenew
<1>3. CASE Active(l) /\ renewal[l] = "renewed"
  <2>1. /\ deadline' = [deadline EXCEPT ![l] = started[l] + Hold]
        /\ renewal' = [renewal EXCEPT ![l] = "waiting"]
        /\ UNCHANGED <<phase, started>>
    BY <1>3 DEF FinishRenew
  <2>2. StoreInv'
    BY <1>1, StoreStutterKeepsInv DEF LeaseInv
  <2>3. TypeOK'
    BY <1>1, <2>1, <2>2, TypesOfLeaseInv DEF LeaseInv, TypeOK, StoreInv, Renewal
  <2>4. CallsAreOfTheirAttempt' /\ ClaimedOnce'
    BY <1>1, <2>1 DEF LeaseInv, TypeOK, CallsAreOfTheirAttempt, ClaimedOnce, Call
  <2>5. TimersAreConservative'
    BY <1>1, <2>1, TypesOfLeaseInv DEF LeaseInv, TypeOK, TimersAreConservative, Clock, storeVars
  <2>6. ReceiptsAreHeld' /\ ReceiptIsBacked'
    BY <1>1, <2>1 DEF LeaseInv, TypeOK, ReceiptsAreHeld, ReceiptIsBacked, storeVars
  <2>7. ASSUME kind[l] = "edit"
        PROVE  \E r \in leases : RowOutlives(r, l)'
    <3>1. PICK r \in leases : RowOutlives(r, l)
      BY <1>3, <2>7 DEF LeaseInv, DeadlineIsBacked
    <3>2. r.expires >= started[l] + Hold + Drift
      BY <1>3, <3>1, TypesOfLeaseInv DEF RowOutlives, LeaseRow
    <3>3. RowOutlives(r, l)'
      BY <1>1, <2>1, <3>1, <3>2, TypesOfLeaseInv DEF LeaseInv, TypeOK, RowOutlives, LeaseRow
    <3> QED
      BY <3>3
  <2>8. DeadlineIsBacked'
    BY <1>1, <1>3, <2>1, <2>7
    DEF LeaseInv, TypeOK, DeadlineIsBacked, Active, Clock, RowOutlives, storeVars
  <2> QED
    BY <2>2, <2>3, <2>4, <2>5, <2>6, <2>8 DEF LeaseInv
<1> QED
  BY <1>1, <1>2, <1>3

\* Every step of a holder.
LEMMA HolderStepKeepsInv ==
    ASSUME LeaseInv, NEW l \in Lease, HolderStep(l)
    PROVE  LeaseInv'
<1>1. ASSUME NEW k \in Kind, NEW g \in Generation, StartClaim(l, k, g)
      PROVE  LeaseInv'
  BY <1>1, StartClaimKeepsInv
<1>2. ASSUME NEW wall \in (now - WallSkew)..(now + WallSkew), Admit(l, wall)
      PROVE  LeaseInv'
  <2>1. wall \in Int
    OBVIOUS
  <2> QED
    BY <1>2, <2>1, AdmitKeepsInv
<1>3. CASE ClaimFails(l) \/ Crash(l)
  BY <1>3, FinishKeepsInv DEF ClaimFails, Crash
<1>4. CASE StartRenew(l)
  BY <1>4, StartRenewKeepsInv
<1>5. CASE FinishRenew(l)
  BY <1>5, FinishRenewKeepsInv
<1>6. CASE RenewFails(l) \/ Expire(l)
  BY <1>6, InvalidateKeepsInv DEF RenewFails, Expire
<1>7. CASE Close(l)
  <2>1. receipt[l] # NoReceipt
    BY <1>7 DEF Close, LeaseInv, ReceiptsAreHeld
  <2> QED
    BY <1>7, <2>1, FinishKeepsInv DEF Close
<1> QED
  BY <1>1, <1>2, <1>3, <1>4, <1>5, <1>6, <1>7 DEF HolderStep, HolderProgress

-----------------------------------------------------------------------------
(* Steps of the store *)

\* What the functions of the store leave of a live row they do not name.
LEMMA StoreKeepsRow ==
    ASSUME LeaseInv, NEW c \in calls, NEW r \in leases, r.id # c.id, Live(r),
           \/ Claim(c.id, c.generation, c.kind)
           \/ Renew(c.id, c.generation)
           \/ Release(c.id, c.generation)
    PROVE  r \in leases'
BY DEF Claim, Renew, Release, Renewable, LiveLeases

\* An active holder's row is live.
LEMMA BackingRowIsLive ==
    ASSUME LeaseInv, NEW l \in Lease, kind[l] = "edit", Active(l)
    PROVE  \E r \in leases : RowOutlives(r, l) /\ Live(r)
<1>1. PICK r \in leases : RowOutlives(r, l)
  BY DEF LeaseInv, DeadlineIsBacked
<1>2. Live(r)
  BY <1>1, TypesOfLeaseInv DEF RowOutlives, Live, Active, Clock, LeaseRow
<1> QED
  BY <1>1, <1>2

\* The store grants a lease no earlier than it was asked for.
LEMMA RunClaimKeepsInv ==
    ASSUME LeaseInv, NEW c \in calls, RunClaim(c)
    PROVE  LeaseInv'
<1> DEFINE l == c.id
           row == Granted(c.id, c.generation, c.kind)
<1>1. /\ c.op = "claim" /\ Claim(c.id, c.generation, c.kind)
      /\ calls' = calls \ {c}
      /\ UNCHANGED <<lag, kind>>
  BY DEF RunClaim
<1>2. /\ l \in Lease /\ c.generation \in Generation /\ c.kind \in Kind
      /\ c.kind = kind[l] /\ receipt[l] = NoReceipt
      /\ phase[l] \in {"claiming", "failed"}
      /\ \A d \in calls' : d.op = "claim" => d.id # l
  BY <1>1 DEF LeaseInv, TypeOK, Call, CallsAreOfTheirAttempt, ClaimedOnce
<1>3. StoreInv'
  BY <1>1, <1>2, ClaimKeepsInv DEF LeaseInv
<1>4. UNCHANGED <<now, generation, version, record, backups>>
  BY <1>1 DEF Claim, stateVars
<1>5. \A m \in Lease : m # l /\ kind[m] = "edit" /\ Active(m)
                         => \E r \in leases' : RowOutlives(r, m)
  BY <1>1, BackingRowIsLive, StoreKeepsRow DEF RowOutlives
<1>6. \A r \in leases : r.expires > now /\ r.id # l => r \in leases'
  BY <1>1, StoreKeepsRow DEF Live
<1>7. CASE /\ phase[l] = "claiming" /\ Claimable(c.id, c.kind)
           /\ receipt' = [receipt EXCEPT ![l] = [generation |-> row.generation,
                                                 expires |-> row.expires]]
           /\ UNCHANGED <<phase, started, deadline, renewal>>
  <2>1. /\ row \in leases' /\ row.id = l /\ row.kind = kind[l]
        /\ row.expires = now + Grant /\ row.generation \in Generation
    BY <1>1, <1>2, <1>7, GrantedIsAccepted DEF Claim, Granted, LeaseInv, LeaseRow
  <2>2. row = [id |-> l, generation |-> row.generation, kind |-> kind[l], expires |-> row.expires]
    BY <1>2 DEF Granted
  <2>3. TypeOK'
    <3>1. now + Grant \in Nat
      BY TypesOfLeaseInv
    <3>2. [generation |-> row.generation, expires |-> row.expires] \in Receipt
      BY <2>1, <3>1 DEF Receipt
    <3>3. receipt' \in [Lease -> Receipt]
      BY <1>2, <1>7, <3>2 DEF LeaseInv, TypeOK
    <3> QED
      BY <1>1, <1>3, <1>7, <3>3 DEF LeaseInv, TypeOK, StoreInv
  <2>4. CallsAreOfTheirAttempt' /\ ClaimedOnce'
    BY <1>1, <1>2, <1>7 DEF LeaseInv, TypeOK, CallsAreOfTheirAttempt, ClaimedOnce, Call
  <2>5. TimersAreConservative'
    BY <1>1, <1>4, <1>7 DEF LeaseInv, TimersAreConservative, Clock
  <2>6. ReceiptsAreHeld'
    BY <1>7, <2>1 DEF LeaseInv, TypeOK, ReceiptsAreHeld
  <2>7. ReceiptIsBacked'
    <3> SUFFICES ASSUME NEW m \in Lease, phase[m] = "claiming", receipt'[m] # NoReceipt
                 PROVE  /\ receipt'[m].expires >= started[m] + Grant
                        /\ kind[m] = "edit" /\ receipt'[m].expires > now =>
                             [id |-> m, generation |-> receipt'[m].generation, kind |-> "edit",
                              expires |-> receipt'[m].expires] \in leases'
      BY <1>1, <1>4, <1>7 DEF ReceiptIsBacked
    <3>1. CASE m = l
      <4>1. receipt'[m] = [generation |-> row.generation, expires |-> row.expires]
        BY <1>7, <3>1 DEF LeaseInv, TypeOK
      <4>2. now + Grant >= started[m] + Grant
        BY TypesOfLeaseInv DEF LeaseInv, TimersAreConservative
      <4> QED
        BY <3>1, <4>1, <4>2, <2>1, <2>2
    <3>2. CASE m # l
      BY <1>6, <1>7, <3>2 DEF LeaseInv, TypeOK, ReceiptIsBacked
    <3> QED
      BY <3>1, <3>2
  <2>8. DeadlineIsBacked'
    BY <1>1, <1>4, <1>5, <1>7 DEF LeaseInv, TypeOK, DeadlineIsBacked, Active, Clock, RowOutlives
  <2> QED
    BY <1>3, <2>3, <2>4, <2>5, <2>6, <2>7, <2>8 DEF LeaseInv
<1>8. CASE phase[l] = "claiming" /\ Finish(l, "failed")
  <2>1. /\ phase' = [phase EXCEPT ![l] = "failed"]
        /\ receipt' = [receipt EXCEPT ![l] = NoReceipt]
        /\ started' = [started EXCEPT ![l] = 0]
        /\ deadline' = [deadline EXCEPT ![l] = 0]
        /\ renewal' = [renewal EXCEPT ![l] = "waiting"]
    BY <1>8 DEF Finish, StopTimers
  <2>2. NoReceipt \in Receipt
    BY DEF NoReceipt, Receipt
  <2>3. TypeOK'
    <3>1. receipt' \in [Lease -> Receipt]
      BY <1>2, <2>1, <2>2 DEF LeaseInv, TypeOK
    <3>2. /\ phase' \in [Lease -> Phase]
          /\ started' \in [Lease -> Int] /\ deadline' \in [Lease -> Int]
          /\ renewal' \in [Lease -> Renewal]
      BY <1>2, <2>1 DEF LeaseInv, TypeOK, Phase, Renewal
    <3> QED
      BY <1>1, <1>3, <3>1, <3>2 DEF LeaseInv, TypeOK, StoreInv
  <2>4. CallsAreOfTheirAttempt' /\ ClaimedOnce'
    BY <1>1, <1>2, <2>1 DEF LeaseInv, TypeOK, CallsAreOfTheirAttempt, ClaimedOnce, Call
  <2>5. TimersAreConservative' /\ ReceiptsAreHeld'
    BY <1>1, <1>4, <2>1 DEF LeaseInv, TypeOK, TimersAreConservative, ReceiptsAreHeld, Clock
  <2>6. ReceiptIsBacked'
    BY <1>1, <1>4, <1>6, <2>1 DEF LeaseInv, TypeOK, ReceiptIsBacked
  <2>7. DeadlineIsBacked'
    BY <1>1, <1>4, <1>5, <2>1 DEF LeaseInv, TypeOK, DeadlineIsBacked, Active, Clock, RowOutlives
  <2> QED
    BY <1>3, <2>3, <2>4, <2>5, <2>6, <2>7 DEF LeaseInv
<1>9. CASE phase[l] # "claiming" /\ UNCHANGED <<phase, receipt, started, deadline, renewal>>
  <2>1. phase[l] # "open"
    BY <1>2
  <2>2. TypeOK'
    BY <1>1, <1>3, <1>9 DEF LeaseInv, TypeOK, StoreInv
  <2>3. CallsAreOfTheirAttempt' /\ ClaimedOnce'
    BY <1>1, <1>9 DEF LeaseInv, CallsAreOfTheirAttempt, ClaimedOnce
  <2>4. TimersAreConservative' /\ ReceiptsAreHeld'
    BY <1>1, <1>4, <1>9 DEF LeaseInv, TimersAreConservative, ReceiptsAreHeld, Clock
  <2>5. ReceiptIsBacked'
    BY <1>1, <1>4, <1>6, <1>9 DEF LeaseInv, ReceiptIsBacked
  <2>6. DeadlineIsBacked'
    BY <1>1, <1>4, <1>5, <1>9, <2>1 DEF LeaseInv, DeadlineIsBacked, Active, Clock, RowOutlives
  <2> QED
    BY <1>3, <2>2, <2>3, <2>4, <2>5, <2>6 DEF LeaseInv
<1> QED
  BY <1>7, <1>8, <1>9 DEF RunClaim

\* A renewal gives the row Grant from now, which covers the deadline it has
\* and the one its answer will set.
LEMMA RunRenewKeepsInv ==
    ASSUME LeaseInv, NEW c \in calls, RunRenew(c)
    PROVE  LeaseInv'
<1> DEFINE l == c.id
           later(r) == [r EXCEPT !.expires = now + Grant]
<1>1. /\ c.op = "renew" /\ Renew(c.id, c.generation)
      /\ calls' = calls \ {c}
      /\ UNCHANGED <<lag, phase, kind, started, receipt, deadline>>
      /\ phase[l] # "open" => renewal' = renewal
      /\ phase[l] = "open" => renewal' = [renewal EXCEPT ![l] =
             IF RenewOutcome(c.id, c.generation) THEN "renewed" ELSE "denied"]
  BY DEF RunRenew
<1>2. /\ l \in Lease /\ c.generation \in Generation /\ c.kind = kind[l]
      /\ phase[l] \notin {"idle", "claiming"}
      /\ phase[l] = "open" => c.generation = receipt[l].generation /\ renewal[l] = "sent"
      /\ phase[l] = "open" => \A d \in calls' : d.op = "renew" => d.id # l
  BY <1>1 DEF LeaseInv, TypeOK, Call, CallsAreOfTheirAttempt
<1>3. StoreInv'
  BY <1>1, <1>2, RenewKeepsInv DEF LeaseInv
<1>4. UNCHANGED <<now, generation, version, record, backups>>
  BY <1>1 DEF Renew, stateVars
<1>5. \A m \in Lease : m # l /\ kind[m] = "edit" /\ Active(m)
                         => \E r \in leases' : RowOutlives(r, m)
  BY <1>1, BackingRowIsLive, StoreKeepsRow DEF RowOutlives
<1>6. \A r \in leases : r.expires > now /\ r.id # l => r \in leases'
  BY <1>1, StoreKeepsRow DEF Live
<1>7. TypeOK'
  BY <1>1, <1>2, <1>3 DEF LeaseInv, TypeOK, StoreInv, Renewal
<1>8. CallsAreOfTheirAttempt' /\ ClaimedOnce'
  BY <1>1, <1>2 DEF LeaseInv, TypeOK, CallsAreOfTheirAttempt, ClaimedOnce, Call
<1>9. TimersAreConservative' /\ ReceiptsAreHeld'
  BY <1>1, <1>4 DEF LeaseInv, TimersAreConservative, ReceiptsAreHeld, Clock
<1>10. ReceiptIsBacked'
  BY <1>1, <1>2, <1>4, <1>6 DEF LeaseInv, ReceiptIsBacked
<1>11. ASSUME kind[l] = "edit", Active(l)
       PROVE  \E r \in leases' : RowOutlives(r, l)'
  <2>1. PICK r \in leases : RowOutlives(r, l) /\ Live(r)
    BY <1>2, <1>11, BackingRowIsLive
  <2>2. phase[l] = "open"
    BY <1>11 DEF Active
  <2>3. \A s \in leases : s.id = l => s = r
    BY <2>1 DEF LeaseInv, StoreInv, LeaseIdsUnique, RowOutlives
  <2>4. CASE r \in Renewable(c.id, c.generation)
    <3>1. PICK s \in leases' : s = later(r)
      BY <1>1, <2>4 DEF Renew
    <3>2. /\ s.id = r.id /\ s.generation = r.generation /\ s.kind = r.kind
          /\ s.expires = now + Grant
      BY <3>1, TypesOfLeaseInv DEF LeaseRow
    <3>3. now + Grant >= started[l] + Grant /\ now + Grant >= deadline[l] + Drift
      BY <1>2, <2>2, TypesOfLeaseInv DEF LeaseInv, TimersAreConservative
    <3>4. RowOutlives(s, l)'
      BY <1>1, <2>1, <3>2, <3>3 DEF RowOutlives
    <3> QED
      BY <3>4
  <2>5. CASE r \notin Renewable(c.id, c.generation)
    <3>1. r \in leases'
      BY <1>1, <2>5 DEF Renew
    <3>2. Renewable(c.id, c.generation) = {}
      BY <2>3, <2>5 DEF Renewable
    <3>3. renewal'[l] = "denied"
      BY <1>1, <1>2, <2>2, <3>2 DEF RenewOutcome, LeaseInv, TypeOK
    <3>4. RowOutlives(r, l)'
      BY <1>1, <2>1, <3>3 DEF RowOutlives
    <3> QED
      BY <3>1, <3>4
  <2> QED
    BY <2>4, <2>5
<1>12. DeadlineIsBacked'
  BY <1>1, <1>2, <1>4, <1>5, <1>11 DEF LeaseInv, TypeOK, DeadlineIsBacked, Active, Clock, RowOutlives
<1> QED
  BY <1>3, <1>7, <1>8, <1>9, <1>10, <1>12 DEF LeaseInv

\* A release reaches the store only after its holder gave the lease up.
LEMMA RunReleaseKeepsInv ==
    ASSUME LeaseInv, NEW c \in calls, RunRelease(c) \/ LoseCall(c)
    PROVE  LeaseInv'
<1> DEFINE l == c.id
<1>1. /\ calls' = calls \ {c}
      /\ UNCHANGED <<lag, phase, kind, started, receipt, deadline, renewal>>
      /\ \/ c.op = "release" /\ Release(c.id, c.generation)
         \/ UNCHANGED storeVars
  BY DEF RunRelease, LoseCall
<1>2. l \in Lease /\ c.generation \in Generation /\ c.op = "release" => phase[l] = "closed"
  BY DEF LeaseInv, TypeOK, Call, CallsAreOfTheirAttempt
<1>3. c \in Call
  BY DEF LeaseInv, TypeOK
<1>4. StoreInv'
  BY <1>1, <1>3, ReleaseKeepsInv, StoreStutterKeepsInv DEF LeaseInv, Call
<1>5. UNCHANGED <<now, generation, version, record, backups>>
  BY <1>1 DEF Release, stateVars, storeVars
<1>6. \A r \in leases : r \in leases' \/ (r.id = l /\ phase[l] = "closed")
  BY <1>1, <1>2, <1>3 DEF Release, storeVars, Call
<1>7. TypeOK'
  BY <1>1, <1>4 DEF LeaseInv, TypeOK, StoreInv
<1>8. CallsAreOfTheirAttempt' /\ ClaimedOnce'
  BY <1>1 DEF LeaseInv, CallsAreOfTheirAttempt, ClaimedOnce
<1>9. TimersAreConservative' /\ ReceiptsAreHeld'
  BY <1>1, <1>5 DEF LeaseInv, TimersAreConservative, ReceiptsAreHeld, Clock
<1>10. ReceiptIsBacked'
  BY <1>1, <1>5, <1>6 DEF LeaseInv, ReceiptIsBacked
<1>11. DeadlineIsBacked'
  BY <1>1, <1>5, <1>6 DEF LeaseInv, DeadlineIsBacked, Active, Clock, RowOutlives
<1> QED
  BY <1>4, <1>7, <1>8, <1>9, <1>10, <1>11 DEF LeaseInv

-----------------------------------------------------------------------------
(* Steps of the environment *)

\* A holder's clock does not go back, so no lease becomes active again.
LEMMA ElapseKeepsInv ==
    ASSUME LeaseInv, Elapse
    PROVE  LeaseInv'
<1>1. /\ Tick /\ lag' \in [Lease -> 0..Drift]
      /\ \A l \in Lease : lag'[l] <= lag[l] + 1
      /\ UNCHANGED <<phase, kind, started, receipt, deadline, renewal, calls>>
  BY DEF Elapse
<1>2. now' = now + 1 /\ UNCHANGED <<generation, version, record, leases, backups>>
  BY <1>1 DEF Tick, stateVars
<1>3. \A l \in Lease : /\ Clock(l)' \in Int /\ Clock(l) \in Int
                       /\ Clock(l) <= Clock(l)'
                       /\ started[l] \in Int /\ deadline[l] \in Int
  BY <1>1, <1>2, TypesOfLeaseInv DEF Clock
<1>4. StoreInv'
  BY <1>1, TickKeepsInv DEF LeaseInv
<1>5. TypeOK'
  BY <1>1, <1>4 DEF LeaseInv, TypeOK, StoreInv
<1>6. CallsAreOfTheirAttempt' /\ ClaimedOnce' /\ ReceiptsAreHeld'
  BY <1>1 DEF LeaseInv, CallsAreOfTheirAttempt, ClaimedOnce, ReceiptsAreHeld
<1>7. TimersAreConservative'
  BY <1>1, <1>3 DEF LeaseInv, TimersAreConservative
<1>8. ReceiptIsBacked'
  BY <1>1, <1>2, TypesOfLeaseInv DEF LeaseInv, ReceiptIsBacked
<1>9. \A l \in Lease : Active(l)' => Active(l)
  BY <1>1, <1>3 DEF Active
<1>10. DeadlineIsBacked'
  BY <1>1, <1>2, <1>9 DEF LeaseInv, DeadlineIsBacked, RowOutlives
<1> QED
  BY <1>4, <1>5, <1>6, <1>7, <1>8, <1>10 DEF LeaseInv

\* A live row of an editor keeps every recovery away.
LEMMA RecoverFindsNoEditLease ==
    ASSUME LeaseInv, NEW m \in Lease, NEW g \in Generation, NEW newGen \in Generation,
           NEW sha, NEW rec \in Record, Recover(m, g, newGen, sha, rec)
    PROVE  \A r \in leases : r.kind # "edit"
<1>1. PICK r \in leases : r.kind = "recovery"
  BY DEF Recover, Recoverable, LiveAs
<1>2. leases = {r}
  BY <1>1 DEF LeaseInv, StoreInv, RecoveryAlone
<1> QED
  BY <1>1, <1>2

\* Writing the room takes no lease from an active editor.
LEMMA WriteRoomKeepsInv ==
    ASSUME LeaseInv, WriteRoom
    PROVE  LeaseInv'
<1>1. UNCHANGED <<now, lag, phase, kind, started, receipt, deadline, renewal, calls>>
  BY DEF WriteRoom, holderVars, Exchange, Recover
<1>2. StoreInv' /\ (leases' = leases \/ \A r \in leases : r.kind # "edit")
  <2>1. ASSUME NEW l \in Lease, NEW g \in Generation, NEW rec \in Record,
               Exchange(l, g, version, rec)
        PROVE  StoreInv' /\ leases' = leases
    BY <2>1, ExchangeKeepsInv DEF LeaseInv, Exchange
  <2>2. ASSUME NEW l \in Lease, NEW g \in Generation, NEW newGen \in Generation,
               NEW rec \in Record, Recover(l, g, newGen, record, rec)
        PROVE  StoreInv' /\ \A r \in leases : r.kind # "edit"
    BY <2>2, RecoverKeepsInv, RecoverFindsNoEditLease DEF LeaseInv
  <2> QED
    BY <2>1, <2>2 DEF WriteRoom
<1>3. TypeOK'
  BY <1>1, <1>2 DEF LeaseInv, TypeOK, StoreInv
<1>4. CallsAreOfTheirAttempt' /\ ClaimedOnce' /\ ReceiptsAreHeld'
  BY <1>1 DEF LeaseInv, CallsAreOfTheirAttempt, ClaimedOnce, ReceiptsAreHeld
<1>5. TimersAreConservative'
  BY <1>1 DEF LeaseInv, TimersAreConservative, Clock
<1>6. ReceiptIsBacked' /\ DeadlineIsBacked'
  <2>1. CASE leases' = leases
    BY <1>1, <2>1 DEF LeaseInv, ReceiptIsBacked, DeadlineIsBacked, Active, Clock, RowOutlives
  <2>2. CASE \A r \in leases : r.kind # "edit"
    <3>1. \A l \in Lease : kind[l] = "edit" => ~Active(l)
      BY <2>2 DEF LeaseInv, DeadlineIsBacked, RowOutlives
    <3>2. DeadlineIsBacked'
      BY <1>1, <3>1 DEF DeadlineIsBacked, Active, Clock
    <3>3. \A l \in Lease : phase[l] = "claiming" /\ receipt[l] # NoReceipt /\ kind[l] = "edit"
                             => ~(receipt[l].expires > now)
      BY <2>2 DEF LeaseInv, ReceiptIsBacked
    <3>4. ReceiptIsBacked'
      BY <1>1, <3>3 DEF LeaseInv, ReceiptIsBacked
    <3> QED
      BY <3>2, <3>4
  <2> QED
    BY <1>2, <2>1, <2>2
<1> QED
  BY <1>2, <1>3, <1>4, <1>5, <1>6 DEF LeaseInv

LEMMA StutterKeepsInv ==
    ASSUME LeaseInv, UNCHANGED vars
    PROVE  LeaseInv'
<1>1. UNCHANGED <<now, lag, leases, phase, kind, started, receipt, deadline, renewal, calls>>
  BY DEF vars, holderVars, storeVars
<1>2. StoreInv'
  BY StoreStutterKeepsInv DEF LeaseInv, vars
<1>3. TypeOK'
  BY <1>1, <1>2 DEF LeaseInv, TypeOK, StoreInv
<1> QED
  BY <1>1, <1>2, <1>3
  DEF LeaseInv, CallsAreOfTheirAttempt, ClaimedOnce, ReceiptsAreHeld, TimersAreConservative,
      ReceiptIsBacked, DeadlineIsBacked, Active, Clock, RowOutlives

-----------------------------------------------------------------------------

LEMMA InitEstablishesInv == Init => LeaseInv
<1> SUFFICES ASSUME Init PROVE LeaseInv
  OBVIOUS
<1>1. StoreInv
  BY StoreInitInv DEF Init
<1>2. NoReceipt \in Receipt
  BY DEF NoReceipt, Receipt
<1>3. TypeOK
  BY <1>1, <1>2 DEF Init, TypeOK, StoreInv, Phase, Kind, Renewal
<1>4. \A l \in Lease : phase[l] = "idle" /\ receipt[l] = NoReceipt
  BY DEF Init
<1> QED
  BY <1>1, <1>3, <1>4
  DEF Init, LeaseInv, CallsAreOfTheirAttempt, ClaimedOnce, ReceiptsAreHeld,
      TimersAreConservative, ReceiptIsBacked, DeadlineIsBacked, Active

\* The two halves of the next-state relation: modules that give the store its
\* callers take the first as it is.
LEMMA LeaseStepKeepsInv ==
    ASSUME LeaseInv, LeaseStep
    PROVE  LeaseInv'
<1>1. ASSUME NEW c \in calls, StoreStep(c)
      PROVE  LeaseInv'
  BY <1>1, RunClaimKeepsInv, RunRenewKeepsInv, RunReleaseKeepsInv DEF StoreStep
<1> QED
  BY <1>1, HolderStepKeepsInv, ElapseKeepsInv DEF LeaseStep

\* The inductive invariant of the holders and the store.
THEOREM LeaseInvariant == Spec => []LeaseInv
<1>1. LeaseInv /\ [Next]_vars => LeaseInv'
  BY LeaseStepKeepsInv, WriteRoomKeepsInv, StutterKeepsInv DEF Next
<1> QED
  BY <1>1, InitEstablishesInv, PTL DEF Spec

\* Every variable keeps its type, with any leases and any generations.
THEOREM LeaseTypeCorrect == Spec => []TypeOK
<1>1. LeaseInv => TypeOK
  BY DEF LeaseInv
<1> QED
  BY <1>1, LeaseInvariant, PTL

LEMMA InvImpliesBacked == LeaseInv => ActiveIsBacked
<1> SUFFICES ASSUME LeaseInv, NEW l \in Lease, kind[l] = "edit", Active(l)
             PROVE  LiveAs(l, receipt[l].generation, "edit")
  BY DEF ActiveIsBacked
<1>1. \E r \in leases : RowOutlives(r, l) /\ Live(r)
  BY BackingRowIsLive
<1> QED
  BY <1>1 DEF RowOutlives, LiveAs

\* An editor that may act has a live lease in the store: whatever delays,
\* losses, clock drift and wall clocks there are.
THEOREM ActiveLeaseIsBacked == Spec => []ActiveIsBacked
BY LeaseInvariant, InvImpliesBacked, PTL

LEMMA InvImpliesGeneration == LeaseInv => ActiveHoldsGeneration
<1> SUFFICES ASSUME LeaseInv, NEW l \in Lease, kind[l] = "edit", Active(l), version > 0
             PROVE  receipt[l].generation = generation
  BY DEF ActiveHoldsGeneration
<1>1. LiveAs(l, receipt[l].generation, "edit")
  BY InvImpliesBacked DEF ActiveIsBacked
<1> QED
  BY <1>1 DEF LiveAs, LeaseInv, StoreInv, OneGeneration

\* An editor that may act is in the room's current generation.
THEOREM ActiveLeaseHoldsGeneration == Spec => []ActiveHoldsGeneration
BY LeaseInvariant, InvImpliesGeneration, PTL

LEMMA RoomStepIsStoreStep ==
    ASSUME LeaseInv, [Next]_vars
    PROVE  [StoreNext]_storeVars
<1>1. ASSUME NEW c \in calls, StoreStep(c)
      PROVE  [StoreNext]_storeVars
  <2>1. c \in Call
    BY DEF LeaseInv, TypeOK
  <2>2. CASE RunClaim(c)
    BY <2>1, <2>2 DEF RunClaim, Call, StoreNext
  <2>3. CASE RunRenew(c)
    BY <2>1, <2>3 DEF RunRenew, Call, StoreNext
  <2>4. CASE RunRelease(c)
    BY <2>1, <2>4 DEF RunRelease, Call, StoreNext
  <2>5. CASE LoseCall(c)
    BY <2>5 DEF LoseCall
  <2> QED
    BY <1>1, <2>2, <2>3, <2>4, <2>5 DEF StoreStep
<1>2. ASSUME NEW l \in Lease, HolderStep(l)
      PROVE  UNCHANGED storeVars
  <2>1. ASSUME NEW k \in Kind, NEW g \in Generation, StartClaim(l, k, g)
        PROVE  UNCHANGED storeVars
    BY <2>1 DEF StartClaim
  <2>2. ASSUME NEW wall, Admit(l, wall)
        PROVE  UNCHANGED storeVars
    BY <2>2 DEF Admit
  <2> QED
    BY <1>2, <2>1, <2>2
    DEF HolderStep, HolderProgress, ClaimFails, StartRenew, FinishRenew, RenewFails, Expire, Close, Crash
<1>3. CASE Elapse
  BY <1>3 DEF Elapse, StoreNext
<1>4. CASE WriteRoom
  BY <1>4 DEF WriteRoom, StoreNext
<1>5. CASE UNCHANGED vars
  BY <1>5 DEF vars
<1> QED
  BY <1>1, <1>2, <1>3, <1>4, <1>5 DEF Next, LeaseStep

\* The holders of leases use the store as AtomicRoomStore says.
THEOREM LeasesUseTheStore == Spec => StoreSpec
<1>1. Init => StoreInit
  BY DEF Init
<1>2. LeaseInv /\ [Next]_vars => [StoreNext]_storeVars
  BY RoomStepIsStoreStep
<1> QED
  BY <1>1, <1>2, LeaseInvariant, PTL DEF Spec, StoreSpec

\* A recovery never finds an active editor, on any instance.
THEOREM RecoveryExcludesEditors == Spec => RecoveryFindsNoEditor
<1>1. ASSUME LeaseInv, [Next]_vars, version > 0, generation' # generation
      PROVE  \A l \in Lease : kind[l] = "edit" => ~Active(l)
  <2>1. \A r \in leases : r.kind = "edit" => ~Live(r)
    BY <1>1, RoomStepIsStoreStep, GenerationChangeStep DEF LeaseInv
  <2> QED
    BY <1>1, <2>1, BackingRowIsLive DEF RowOutlives
<1>2. LeaseInv /\ [Next]_vars
        => [version > 0 /\ generation' # generation
              => \A l \in Lease : kind[l] = "edit" => ~Active(l)]_vars
  BY <1>1
<1> QED
  BY <1>2, LeaseInvariant, PTL DEF Spec, RecoveryFindsNoEditor

\* No late answer revives a lease that ran out.
THEOREM LeaseIsNotRevived == Spec => NoRevival
<1>1. ASSUME LeaseInv, [Next]_vars, NEW l \in Lease, phase[l] = "open", ~Active(l)
      PROVE  ~Active(l)'
  <2>1. Clock(l) \in Int /\ deadline[l] \in Int /\ Clock(l) >= deadline[l]
    BY <1>1, TypesOfLeaseInv DEF Active
  <2>2. ASSUME NEW m \in Lease, HolderStep(m)
        PROVE  ~Active(l)'
    <3>1. UNCHANGED <<now, lag>>
      BY <2>2 DEF HolderStep, HolderProgress, StartClaim, Admit, ClaimFails, StartRenew, FinishRenew, RenewFails,
                  Expire, Close, Crash, storeVars
    <3>2. CASE phase' = phase /\ deadline' = deadline
      BY <2>1, <3>1, <3>2 DEF Active, Clock
    <3>3. CASE Invalidate(m) \/ \E p \in Phase \ {"open"} : Finish(m, p)
      BY <1>1, <2>1, <3>1, <3>3
      DEF LeaseInv, TypeOK, Active, Clock, Invalidate, Finish, StopTimers
    <3>4. CASE Active(m) /\ FinishRenew(m)
      BY <1>1, <2>1, <3>1, <3>4
      DEF FinishRenew, LeaseInv, TypeOK, Active, Clock, Invalidate, StopTimers
    <3>5. ASSUME NEW k \in Kind, NEW g \in Generation, StartClaim(m, k, g)
          PROVE  ~Active(l)'
      BY <1>1, <2>1, <3>1, <3>5 DEF StartClaim, LeaseInv, TypeOK, Active, Clock
    <3>6. ASSUME NEW wall, Admit(m, wall)
          PROVE  ~Active(l)'
      <4>1. CASE Finish(m, "closed")
        BY <3>3, <4>1 DEF Phase
      <4>2. CASE /\ phase[m] = "claiming"
                 /\ phase' = [phase EXCEPT ![m] = "open"]
                 /\ deadline' = [deadline EXCEPT ![m] = AdmissionDeadline(m, wall)]
        BY <1>1, <2>1, <3>1, <4>2 DEF LeaseInv, TypeOK, Active, Clock
      <4> QED
        BY <3>6, <4>1, <4>2 DEF Admit
    <3>7. CASE ClaimFails(m) \/ RenewFails(m) \/ Expire(m) \/ Close(m) \/ Crash(m)
      <4>1. Invalidate(m) \/ Finish(m, "failed") \/ Finish(m, "closed")
        BY <3>7 DEF ClaimFails, RenewFails, Expire, Close, Crash
      <4> QED
        BY <3>3, <4>1 DEF Phase
    <3>8. CASE StartRenew(m)
      <4>1. Invalidate(m) \/ (phase' = phase /\ deadline' = deadline)
        BY <3>8 DEF StartRenew
      <4> QED
        BY <3>2, <3>3, <4>1
    <3>9. CASE ~Active(m) /\ FinishRenew(m)
      <4>1. Invalidate(m)
        BY <3>9 DEF FinishRenew
      <4> QED
        BY <3>3, <4>1
    <3> QED
      BY <2>2, <3>4, <3>5, <3>6, <3>7, <3>8, <3>9 DEF HolderStep, HolderProgress
  <2>3. ASSUME NEW c \in calls, StoreStep(c)
        PROVE  ~Active(l)'
    <3>1. UNCHANGED <<now, lag>>
      BY <2>3 DEF StoreStep, RunClaim, RunRenew, RunRelease, LoseCall, Claim, Renew, Release,
                  storeVars
    <3>2. CASE RunClaim(c)
      <4>1. CASE Finish(c.id, "failed")
        BY <1>1, <2>1, <3>1, <4>1 DEF LeaseInv, TypeOK, Active, Clock, Finish, StopTimers
      <4>2. CASE UNCHANGED <<phase, deadline>>
        BY <2>1, <3>1, <4>2 DEF Active, Clock
      <4> QED
        BY <3>2, <4>1, <4>2 DEF RunClaim
    <3>3. CASE RunRenew(c) \/ RunRelease(c) \/ LoseCall(c)
      BY <2>1, <3>1, <3>3 DEF RunRenew, RunRelease, LoseCall, Active, Clock
    <3> QED
      BY <2>3, <3>2, <3>3 DEF StoreStep
  <2>4. CASE Elapse
    BY <1>1, <2>1, <2>4, TypesOfLeaseInv DEF Elapse, Tick, Active, Clock
  <2>5. CASE WriteRoom
    BY <2>1, <2>5 DEF WriteRoom, Exchange, Recover, holderVars, Active, Clock
  <2>6. CASE UNCHANGED vars
    BY <2>1, <2>6 DEF vars, storeVars, holderVars, Active, Clock
  <2> QED
    BY <1>1, <2>2, <2>3, <2>4, <2>5, <2>6 DEF Next, LeaseStep
<1>2. LeaseInv /\ [Next]_vars
        => [\A l \in Lease : phase[l] = "open" /\ ~Active(l) => ~Active(l)']_vars
  BY <1>1
<1> QED
  BY <1>2, LeaseInvariant, PTL DEF Spec, NoRevival
=============================================================================
