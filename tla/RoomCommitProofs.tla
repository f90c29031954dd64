--------------------------- MODULE RoomCommitProofs ---------------------------
(***************************************************************************)
(* Proofs about RoomCommit, for any number of leases, edits, revisions and *)
(* attempts: what the clients of an active room see is stored, nothing     *)
(* they were ever sent is lost, and the instances together keep the        *)
(* promise of RoomHistory.                                                 *)
(*                                                                         *)
(* CommitInv is inductive.  Its core: a reading is of the past, so a write *)
(* that can still succeed contains the record it replaces, and the record  *)
(* of one generation only grows; what a job was told is committed, and     *)
(* what a room shows, is in the record as long as the lease is of the      *)
(* room's generation.  A generation never comes back, because the one that *)
(* a recovery starts is fresh.  LeaseInv says that an active editor is of  *)
(* the room's generation, whatever happened to its requests.               *)
(***************************************************************************)
EXTENDS RoomCommit, RoomLeaseProofs

\* No row, claim or receipt of the attempt can appear any more.
Spent(l) ==
    /\ phase[l] # "idle"
    /\ \A r \in leases : r.id # l
    /\ \A c \in calls : c.op = "claim" => c.id # l

\* A generation that a row, a receipt or a job's reading knows.
Known(g) ==
    \/ generation = g
    \/ \E r \in leases : r.generation = g
    \/ \E m \in Lease : receipt[m].generation = g \/ job[m].snap.generation = g

\* Every attempt claims once and with its own id, and the generation its recovery
\* starts is unknown until the recovery has taken its lease away: fresh ids.
ClaimsInv ==
    /\ \A r \in leases : phase[r.id] # "idle" /\ \A c \in calls : c.op = "claim" => c.id # r.id
    /\ \A c \in calls : c.op = "claim" => c.generation = Proposed(c.id)
    /\ \A l \in Lease : Known(Fresh(l)) => Spent(l)

Committing == {"load", "save", "merge"}

\* The jobs a lease has, by its kind and its phase.
JobInv(l) ==
    /\ job[l].op = "none" => job[l] = NoJob
    /\ job[l].op \in Committing \cup {"poll", "sync"} => kind[l] = "edit" /\ phase[l] = "open"
    /\ job[l].op = "recover" => kind[l] = "recovery" /\ phase[l] \in {"claiming", "open"}
    /\ job[l].op = "retired" => phase[l] = "open"
    /\ job[l].op \in {"load", "merge", "recover"} => job[l].source \in Revision
    /\ job[l].op = "save" /\ job[l].stage \in {"sent", "true", "false", "raise"}
         => job[l].snap.version > 0
    /\ job[l].op \in Committing /\ job[l].stage \in {"true", "accept", "accepted"} => version > 0

\* A reading is of the past: an equal version has the same content, and in its
\* generation the record has only grown since.
ReadingInv(s) ==
    /\ s.version = 0 => s = NoRow
    /\ s.version > 0 =>
         /\ s.record \in Record /\ s.generation \in Generation
         /\ s.version <= version
         /\ s.version = version => s = Row
         /\ s.generation = generation => /\ s.record.state \subseteq record.state
                                         /\ s.record.revision <= record.revision

Current(l) == version > 0 /\ receipt[l].generation = generation

\* What a job has been told is committed is in the record of its generation.
AnswerInv(l) ==
    Current(l) =>
        /\ job[l].op \in Committing /\ job[l].stage = "true"
             => Candidate(job[l]).state \subseteq record.state
        /\ job[l].op \in {"load", "merge"} /\ job[l].stage \in {"accept", "accepted"}
             => job[l].doc \subseteq record.state

\* A room shows only what the record of its generation has.
ShownInv(l) ==
    /\ phase[l] # "open" => room[l] = {} /\ shown[l] = 0 /\ ~opened[l]
    /\ opened[l] => kind[l] = "edit" /\ shown[l] >= 1
    /\ version = 0 => room[l] = {} /\ shown[l] = 0
    /\ Current(l) => room[l] \subseteq record.state /\ shown[l] <= record.revision

\* The write a job waits for.
SentWrite(l) ==
    IF job[l].op = "recover"
    THEN [op |-> "recover", id |-> l, generation |-> receipt[l].generation, version |-> 0,
          sha |-> job[l].snap.record,
          record |-> [state |-> {job[l].source}, revision |-> job[l].source], waited |-> TRUE]
    ELSE [op |-> "exchange", id |-> l, generation |-> receipt[l].generation,
          version |-> job[l].snap.version, sha |-> NoRecord,
          record |-> Candidate(job[l]), waited |-> TRUE]

\* A write that can still succeed contains the record it replaces; the job that
\* waits for it is the one that sent it.
WriteInv(w) ==
    /\ w.op = "exchange" /\ w.version > 0 =>
         /\ w.version <= version
         /\ w.version = version => /\ record.state \subseteq w.record.state
                                   /\ record.revision <= w.record.revision
    /\ w.waited => /\ phase[w.id] = "open" /\ job[w.id].stage = "sent"
                   /\ job[w.id].op \in Committing \cup {"recover"}
                   /\ w = SentWrite(w.id)

CommitInv ==
    /\ LeaseInv /\ CommitTypeOK
    /\ ClaimsInv
    /\ \A l \in Lease : JobInv(l) /\ ReadingInv(job[l].snap) /\ AnswerInv(l) /\ ShownInv(l)
    /\ \A w \in writes : WriteInv(w)
    /\ NothingToldIsLost

-----------------------------------------------------------------------------
(* Steps of the leases                                                      *)

\* The generations of attempts and of their recoveries are different ids.
LEMMA FreshIds ==
    ASSUME NEW l \in Lease, NEW m \in Lease
    PROVE  /\ Proposed(l) \in Generation /\ Fresh(l) \in Generation
           /\ Fresh(l) # Proposed(m) /\ Fresh(l) # NoGeneration
           /\ Fresh(l) = Fresh(m) => l = m
BY CommitAssumption, NullAssumption DEF Proposed, Fresh

\* What a step of the leases may change: attempts only go on, an open lease keeps
\* its receipt, and a new row or receipt has a generation that was known or is
\* the one its claim proposed.
LeasesMove ==
    /\ UNCHANGED <<generation, version, record, backups>>
    /\ \A m \in Lease : /\ phase[m] # "idle" => phase'[m] # "idle" /\ kind'[m] = kind[m]
                        /\ phase'[m] = "open" => phase[m] \in {"claiming", "open"}
                        /\ phase'[m] = "claiming" => phase[m] \in {"idle", "claiming"}
                        /\ phase[m] = "open" /\ phase'[m] = "open" => receipt'[m] = receipt[m]
    /\ \A m \in Lease : \/ receipt'[m] = receipt[m] \/ receipt'[m] = NoReceipt
                        \/ Known(receipt'[m].generation)
                        \/ \E n \in Lease : receipt'[m].generation = Proposed(n)
    /\ \A r \in leases' :
         \/ \E q \in leases : q.id = r.id /\ q.generation = r.generation
         \/ \E c \in calls \ calls' :
               /\ c.op = "claim" /\ c.id = r.id
               /\ Known(r.generation) \/ r.generation = Proposed(c.id)
    /\ \A c \in calls' : c.op = "claim" =>
         \/ c \in calls
         \/ phase[c.id] = "idle" /\ phase'[c.id] # "idle" /\ c.generation = Proposed(c.id)

\* Such a step keeps ids fresh.
LEMMA LeasesMoveKeepsClaims ==
    ASSUME CommitInv, LeasesMove, TypeOK',
           \A m \in Lease : job'[m].snap \in {job[m].snap, NoRow, Row}
    PROVE  ClaimsInv'
<1>1. /\ \A r \in leases : /\ r.id \in Lease /\ phase[r.id] # "idle"
                           /\ \A c \in calls : c.op = "claim" => c.id # r.id
      /\ \A r \in leases' : r.id \in Lease
      /\ \A c \in calls : c \in Call /\ c.id \in Lease
      /\ \A c \in calls' : c.id \in Lease
      /\ \A c \in calls : c.op = "claim" => c.generation = Proposed(c.id) /\ phase[c.id] # "idle"
      /\ \A c, d \in calls : c.op = "claim" /\ d.op = "claim" /\ c.id = d.id => c = d
  BY DEF CommitInv, ClaimsInv, LeaseInv, TypeOK, StoreTypeOK, LeaseRow, Call, CallsAreOfTheirAttempt,
         ClaimedOnce
<1>2. \A r \in leases' : phase'[r.id] # "idle" /\ \A c \in calls' : c.op = "claim" => c.id # r.id
  <2> SUFFICES ASSUME NEW r \in leases'
               PROVE  /\ phase'[r.id] # "idle"
                      /\ \A c \in calls' : c.op = "claim" => c.id # r.id
    OBVIOUS
  <2>1. CASE \E q \in leases : q.id = r.id
    BY <1>1, <2>1 DEF LeasesMove
  <2>2. CASE \E c \in calls \ calls' : c.op = "claim" /\ c.id = r.id
    BY <1>1, <2>2 DEF LeasesMove
  <2> QED
    BY <2>1, <2>2 DEF LeasesMove
<1>3. \A c \in calls' : c.op = "claim" => c.generation = Proposed(c.id)
  BY <1>1 DEF LeasesMove
<1>4. ASSUME NEW l \in Lease, Spent(l)
      PROVE  Spent(l)'
  <2>1. phase'[l] # "idle"
    BY <1>4 DEF Spent, LeasesMove
  <2>2. \A r \in leases' : r.id # l
    BY <1>4 DEF Spent, LeasesMove
  <2>3. \A c \in calls' : c.op = "claim" => c.id # l
    BY <1>4 DEF Spent, LeasesMove
  <2> QED
    BY <2>1, <2>2, <2>3 DEF Spent
<1>5. ASSUME NEW l \in Lease, Known(Fresh(l))'
      PROVE  Known(Fresh(l))
  <2>1. Fresh(l) # NoGeneration /\ \A n \in Lease : Fresh(l) # Proposed(n)
    BY FreshIds
  <2>2. CASE generation' = Fresh(l)
    BY <2>2 DEF LeasesMove, Known
  <2>3. ASSUME NEW r \in leases', r.generation = Fresh(l)
        PROVE  Known(Fresh(l))
    BY <1>1, <2>1, <2>3 DEF LeasesMove, Known
  <2>4. ASSUME NEW m \in Lease, receipt'[m].generation = Fresh(l)
        PROVE  Known(Fresh(l))
    BY <2>1, <2>4 DEF LeasesMove, Known, NoReceipt
  <2>5. ASSUME NEW m \in Lease, job'[m].snap.generation = Fresh(l)
        PROVE  Known(Fresh(l))
    BY <2>1, <2>5 DEF Known, NoRow, Row
  <2> QED
    BY <1>5, <2>2, <2>3, <2>4, <2>5 DEF Known, Fresh
<1>6. \A l \in Lease : Known(Fresh(l)) => Spent(l)
  BY DEF CommitInv, ClaimsInv
<1>7. \A l \in Lease : Known(Fresh(l))' => Spent(l)'
  BY <1>4, <1>5, <1>6
<1> QED
  BY <1>2, <1>3, <1>7 DEF ClaimsInv, Fresh

LEMMA TypesOfCommitInv ==
    ASSUME CommitInv
    PROVE  /\ LeaseInv /\ StoreInv /\ TypeOK
           /\ version \in Nat /\ leases \in SUBSET LeaseRow /\ calls \in SUBSET Call
           /\ version > 0 => record \in Record /\ generation \in Generation
           /\ version = 0 => generation = NoGeneration /\ record = NoRecord
           /\ phase \in [Lease -> Phase] /\ kind \in [Lease -> Kind] /\ receipt \in [Lease -> Receipt]
BY DEF CommitInv, LeaseInv, StoreInv, TypeOK, StoreTypeOK

LEMMA StartClaimMoves ==
    ASSUME CommitInv, NEW l \in Lease, NEW k \in Kind, StartClaim(l, k, Proposed(l))
    PROVE  LeasesMove
<1> DEFINE c0 == [op |-> "claim", id |-> l, generation |-> Proposed(l), kind |-> k]
<1>1. /\ UNCHANGED <<generation, version, record, leases, backups, receipt>>
      /\ phase[l] = "idle" /\ phase' = [phase EXCEPT ![l] = "claiming"]
      /\ kind' = [kind EXCEPT ![l] = k]
      /\ calls' = calls \cup {c0}
  BY DEF StartClaim, storeVars
<1>2. c0.id = l /\ c0.generation = Proposed(l)
  OBVIOUS
<1>3. \A m \in Lease : m # l => phase'[m] = phase[m] /\ kind'[m] = kind[m]
  BY <1>1, TypesOfCommitInv
<1>4. phase'[l] = "claiming"
  BY <1>1, TypesOfCommitInv
<1> QED
  BY <1>1, <1>2, <1>3, <1>4 DEF LeasesMove

\* A step of one holder: only its own attempt goes on.
LEMMA HolderProgressMoves ==
    ASSUME CommitInv, NEW l \in Lease, HolderProgress(l)
    PROVE  LeasesMove
<1>1. UNCHANGED <<storeVars, kind>>
  BY DEF HolderProgress, Admit, ClaimFails, StartRenew, FinishRenew, RenewFails, Expire, Close, Crash
<1> DEFINE PhaseGoesOn ==
             \/ phase' = phase
             \/ phase' = [phase EXCEPT ![l] = "open"] /\ phase[l] = "claiming"
             \/ \E p \in {"aborted", "closed", "failed"} :
                   phase' = [phase EXCEPT ![l] = p] /\ phase[l] # "idle"
           ReceiptStays ==
             \/ receipt' = receipt
             \/ receipt' = [receipt EXCEPT ![l] = NoReceipt] /\ phase'[l] # "open"
<1>2. PhaseGoesOn /\ ReceiptStays
  <2>1. ASSUME NEW wall, Admit(l, wall)
        PROVE  PhaseGoesOn /\ ReceiptStays
    BY <2>1, TypesOfCommitInv DEF Admit, Finish
  <2>2. CASE ClaimFails(l) \/ Close(l) \/ Crash(l)
    BY <2>2, TypesOfCommitInv DEF ClaimFails, Close, Crash, Finish
  <2>3. CASE StartRenew(l) \/ FinishRenew(l) \/ RenewFails(l) \/ Expire(l)
    <3>1. receipt' = receipt /\ phase[l] = "open"
      BY <2>3 DEF StartRenew, FinishRenew, RenewFails, Expire
    <3>2. phase' = phase \/ phase' = [phase EXCEPT ![l] = "aborted"]
      BY <2>3 DEF StartRenew, FinishRenew, RenewFails, Expire, Invalidate
    <3> QED
      BY <3>1, <3>2
  <2> QED
    BY <2>1, <2>2, <2>3 DEF HolderProgress
<1>3. \A c \in calls' : c.op = "claim" => c \in calls
  BY DEF HolderProgress, Admit, ClaimFails, StartRenew, FinishRenew, RenewFails, Expire, Close, Crash,
         Request
<1>4. \A m \in Lease :
        /\ phase[m] # "idle" => phase'[m] # "idle"
        /\ phase'[m] = "open" => phase[m] \in {"claiming", "open"}
        /\ phase'[m] = "claiming" => phase[m] \in {"idle", "claiming"}
        /\ phase[m] = "open" /\ phase'[m] = "open" => receipt'[m] = receipt[m]
        /\ receipt'[m] = receipt[m] \/ receipt'[m] = NoReceipt
  BY <1>2, TypesOfCommitInv
<1> QED
  BY <1>1, <1>3, <1>4 DEF LeasesMove, storeVars

\* What a claim grants is of a generation that is known, or of the proposed one.
LEMMA GrantedIsKnown ==
    ASSUME NEW l, NEW g, NEW k
    PROVE  /\ Known(Granted(l, g, k).generation) \/ Granted(l, g, k).generation = g
           /\ Granted(l, g, k).id = l
BY DEF Granted, AcceptedGeneration, LiveLeases, Known

LEMMA StoreStepMoves ==
    ASSUME CommitInv, NEW c \in calls, StoreStep(c)
    PROVE  LeasesMove
<1>1. c.id \in Lease /\ calls' = calls \ {c} /\ UNCHANGED kind
  BY TypesOfCommitInv DEF StoreStep, RunClaim, RunRenew, RunRelease, LoseCall, Call
<1>2. UNCHANGED <<generation, version, record, backups>>
  BY DEF StoreStep, RunClaim, RunRenew, RunRelease, LoseCall, Claim, Renew, Release, storeVars, stateVars
<1>3. CASE RunClaim(c)
  <2> DEFINE row == Granted(c.id, c.generation, c.kind)
  <2>1. c.op = "claim" /\ c.generation = Proposed(c.id)
    BY <1>3 DEF RunClaim, CommitInv, ClaimsInv
  <2>2. (Known(row.generation) \/ row.generation = Proposed(c.id)) /\ row.id = c.id
    BY <2>1, GrantedIsKnown
  <2>3. \A r \in leases' : r \in leases \/ r = row
    BY <1>3 DEF RunClaim, Claim, LiveLeases
  <2>4. /\ phase' = phase \/ (phase' = [phase EXCEPT ![c.id] = "failed"] /\ phase[c.id] = "claiming")
        /\ \/ receipt' = receipt
           \/ receipt' = [receipt EXCEPT ![c.id] = NoReceipt]
           \/ receipt' = [receipt EXCEPT ![c.id] =
                            [generation |-> row.generation, expires |-> row.expires]]
        /\ receipt' # receipt => phase[c.id] = "claiming"
    <3>1. CASE phase[c.id] = "claiming" /\ Claimable(c.id, c.kind)
      BY <1>3, <3>1 DEF RunClaim
    <3>2. CASE phase[c.id] = "claiming" /\ ~Claimable(c.id, c.kind)
      BY <1>3, <3>2 DEF RunClaim, Finish
    <3>3. CASE phase[c.id] # "claiming"
      <4>1. UNCHANGED <<phase, receipt>>
        BY <1>3, <3>3 DEF RunClaim
      <4> QED
        BY <4>1
    <3> QED
      BY <3>1, <3>2, <3>3
  <2>5. \A m \in Lease :
          /\ phase[m] # "idle" => phase'[m] # "idle"
          /\ phase'[m] = "open" => phase[m] \in {"claiming", "open"}
          /\ phase'[m] = "claiming" => phase[m] \in {"idle", "claiming"}
          /\ phase[m] = "open" /\ phase'[m] = "open" => receipt'[m] = receipt[m]
    BY <1>1, <2>4, TypesOfCommitInv
  <2>6. \A m \in Lease : \/ receipt'[m] = receipt[m] \/ receipt'[m] = NoReceipt
                         \/ receipt'[m].generation = row.generation
    BY <1>1, <2>4, TypesOfCommitInv
  <2> HIDE DEF row
  <2>7. \A m \in Lease : \/ receipt'[m] = receipt[m] \/ receipt'[m] = NoReceipt
                         \/ Known(receipt'[m].generation)
                         \/ \E n \in Lease : receipt'[m].generation = Proposed(n)
    <3> TAKE m \in Lease
    <3>1. CASE receipt'[m].generation = row.generation /\ Known(row.generation)
      BY <3>1 DEF Known
    <3>2. CASE receipt'[m].generation = row.generation /\ row.generation = Proposed(c.id)
      BY <1>1, <3>2
    <3> QED
      BY <2>2, <2>6, <3>1, <3>2
  <2>8. \A r \in leases' :
         \/ \E q \in leases : q.id = r.id /\ q.generation = r.generation
         \/ \E d \in calls \ calls' :
               /\ d.op = "claim" /\ d.id = r.id
               /\ Known(r.generation) \/ r.generation = Proposed(d.id)
    BY <1>1, <2>1, <2>2, <2>3
  <2> QED
    BY <1>1, <1>2, <2>5, <2>7, <2>8 DEF LeasesMove
<1>4. CASE RunRenew(c) \/ RunRelease(c) \/ LoseCall(c)
  <2>1. UNCHANGED <<phase, receipt>>
    BY <1>4 DEF RunRenew, RunRelease, LoseCall
  <2>2. \A r \in leases' : \E q \in leases : q.id = r.id /\ q.generation = r.generation
    <3>1. CASE RunRenew(c)
      <4>1. \A r \in leases' : r \in leases \/ \E q \in leases : r = [q EXCEPT !.expires = now + Grant]
        BY <3>1 DEF RunRenew, Renew, Renewable
      <4>2. \A q \in leases : LET r == [q EXCEPT !.expires = now + Grant] IN
                                 r.id = q.id /\ r.generation = q.generation
        BY TypesOfCommitInv DEF LeaseRow
      <4> QED
        BY <4>1, <4>2
    <3>2. CASE RunRelease(c) \/ LoseCall(c)
      BY <3>2 DEF RunRelease, LoseCall, Release, storeVars
    <3> QED
      BY <1>4, <3>1, <3>2
  <2> QED
    BY <1>1, <1>2, <2>1, <2>2 DEF LeasesMove
<1> QED
  BY <1>3, <1>4 DEF StoreStep

LEMMA ElapseMoves ==
    ASSUME CommitInv, Elapse
    PROVE  LeasesMove
BY DEF Elapse, Tick, stateVars, LeasesMove

-----------------------------------------------------------------------------
(* What the parts of CommitInv depend on                                    *)

LEMMA RecordFacts ==
    ASSUME NEW r \in Record
    PROVE  /\ r.state \in SUBSET Op /\ r.revision \in Revision
           /\ r.revision \in Int /\ 1 <= r.revision /\ r.revision <= MaxRevision
<1>1. r.state \in SUBSET Op /\ r.revision \in Revision
  BY CommitAssumption
<1> QED
  BY <1>1, CommitAssumption DEF Revision

\* The same write, that nobody waits for any more.
Forgotten(w) == [w EXCEPT !.waited = FALSE]

LEMMA ForgottenIsSame ==
    ASSUME NEW w \in Write
    PROVE  /\ Forgotten(w) \in Write /\ Forgotten(w).waited = FALSE
           /\ Forgotten(w).op = w.op /\ Forgotten(w).id = w.id
           /\ Forgotten(w).generation = w.generation /\ Forgotten(w).version = w.version
           /\ Forgotten(w).sha = w.sha /\ Forgotten(w).record = w.record
BY DEF Forgotten, Write

LEMMA ForgottenIsKept ==
    ASSUME NEW w \in Write, WriteInv(w)
    PROVE  WriteInv(Forgotten(w))
BY ForgottenIsSame DEF WriteInv

LEMMA PartsOfCommitInv ==
    ASSUME CommitInv
    PROVE  /\ LeaseInv /\ CommitTypeOK /\ ClaimsInv /\ NothingToldIsLost
           /\ \A l \in Lease : JobInv(l) /\ ReadingInv(job[l].snap) /\ AnswerInv(l) /\ ShownInv(l)
           /\ \A w \in writes : w \in Write /\ WriteInv(w)
           /\ \A l \in Lease : job[l] \in Job /\ phase[l] \in Phase
BY DEF CommitInv, CommitTypeOK, TypeOK

LEMMA NoJobType ==
    /\ NoJob \in Job /\ NoJob.op = "none" /\ NoJob.stage = "start" /\ NoJob.snap = NoRow
    /\ NoRow \in RowType /\ NoRow.version = 0 /\ NoRow.generation = NoGeneration
    /\ Retired \in Job /\ Retired.op = "retired" /\ Retired.stage = "start" /\ Retired.snap = NoRow
<1>1. NoRow \in RowType /\ 0 \in 0..Attempts /\ 0 \in 0..MaxRevision
  BY CommitAssumption DEF NoRow, RowType
<1>2. "none" \in JobKind /\ "retired" \in JobKind /\ "start" \in Stage
  BY DEF JobKind, Stage
<1>3. NoJob \in Job
  BY <1>1, <1>2 DEF NoJob, Job
<1>4. Retired \in Job /\ Retired.op = "retired" /\ Retired.stage = "start" /\ Retired.snap = NoRow
  BY <1>1, <1>2 DEF NoJob, Retired, Job
<1> QED
  BY <1>1, <1>3, <1>4 DEF NoJob, NoRow

\* Readings, and what they say, do not change while the row does not.
LEMMA ReadingStays ==
    ASSUME NEW s, ReadingInv(s), UNCHANGED <<generation, version, record>>
    PROVE  ReadingInv(s)'
BY DEF ReadingInv, Row

\* What a room and its job have to do with the record, when neither changes.
LEMMA RoomStays ==
    ASSUME CommitInv, NEW l \in Lease,
           UNCHANGED <<generation, version, record, phase[l], kind[l], receipt[l],
                       job[l], room[l], shown[l], opened[l]>>
    PROVE  JobInv(l)' /\ AnswerInv(l)' /\ ShownInv(l)'
BY PartsOfCommitInv DEF JobInv, AnswerInv, ShownInv, Current, Candidate, Coordinated

\* A write is good as long as its row, its lease and its job stay.
LEMMA WriteStays ==
    ASSUME NEW w, WriteInv(w), UNCHANGED <<generation, version, record>>,
           w.waited => UNCHANGED <<phase[w.id], receipt[w.id], job[w.id]>>
    PROVE  WriteInv(w)'
BY DEF WriteInv, SentWrite, Candidate, Coordinated

LEMMA ToldStays ==
    ASSUME NothingToldIsLost, UNCHANGED <<version, record, told, backups>>
    PROVE  NothingToldIsLost'
BY DEF NothingToldIsLost

-----------------------------------------------------------------------------
(* A lease that goes on, or is lost                                         *)

LEMMA LeaseProgressMoves ==
    ASSUME CommitInv, LeaseProgress
    PROVE  LeasesMove /\ LeaseInv' /\ DisposeRooms
<1>1. ASSUME NEW l \in Lease, StartClaim(l, "edit", Proposed(l))
      PROVE  LeasesMove /\ LeaseInv'
  BY <1>1, StartClaimMoves, StartClaimKeepsInv, FreshIds, PartsOfCommitInv DEF Kind
<1>2. ASSUME NEW l \in Lease, HolderProgress(l)
      PROVE  LeasesMove /\ LeaseInv'
  BY <1>2, HolderProgressMoves, HolderStepKeepsInv, PartsOfCommitInv DEF HolderStep
<1>3. ASSUME NEW c \in calls, StoreStep(c)
      PROVE  LeasesMove /\ LeaseInv'
  BY <1>3, StoreStepMoves, LeaseStepKeepsInv, PartsOfCommitInv DEF LeaseStep
<1>4. CASE Elapse
  BY <1>4, ElapseMoves, ElapseKeepsInv, PartsOfCommitInv DEF LeaseProgress
<1> QED
  BY <1>1, <1>2, <1>3, <1>4 DEF LeaseProgress

LEMMA LeaseProgressKeeps ==
    ASSUME CommitInv, LeaseProgress
    PROVE  CommitInv'
<1>1. LeasesMove /\ LeaseInv' /\ DisposeRooms
  BY LeaseProgressMoves
<1>2. TypeOK' /\ phase' \in [Lease -> Phase]
  BY <1>1 DEF LeaseInv, TypeOK
<1>3. /\ UNCHANGED <<generation, version, record, backups, told, cloud>>
      /\ CommitTypeOK
  BY <1>1, PartsOfCommitInv DEF LeasesMove, DisposeRooms
<1>4. \A m \in Lease :
        /\ phase'[m] = "open" => UNCHANGED <<room[m], shown[m], opened[m], job[m]>>
        /\ phase'[m] # "open" => room'[m] = {} /\ shown'[m] = 0 /\ ~opened'[m]
        /\ phase'[m] = "claiming" => job'[m] = job[m]
        /\ phase'[m] \notin {"open", "claiming"} => job'[m] = NoJob
  BY <1>1, <1>3 DEF DisposeRooms, CommitTypeOK
<1>5. CommitTypeOK'
  <2>1. room' \in [Lease -> SUBSET Op] /\ shown' \in [Lease -> 0..MaxRevision]
    BY <1>1, <1>3, CommitAssumption DEF DisposeRooms, CommitTypeOK
  <2>2. opened' \in [Lease -> BOOLEAN]
    BY <1>1 DEF DisposeRooms
  <2>3. job' \in [Lease -> Job]
    BY <1>1, <1>3, NoJobType DEF DisposeRooms, CommitTypeOK
  <2>4. writes' \in SUBSET Write
    BY <1>1, ForgottenIsSame, PartsOfCommitInv DEF DisposeRooms, Forgotten
  <2> QED
    BY <1>2, <1>3, <2>1, <2>2, <2>3, <2>4 DEF CommitTypeOK
<1>6. ClaimsInv'
  <2>1. \A m \in Lease : job'[m].snap \in {job[m].snap, NoRow}
    BY <1>2, <1>4, NoJobType DEF Phase
  <2> QED
    BY <1>1, <1>2, <2>1, LeasesMoveKeepsClaims
<1>7. ASSUME NEW m \in Lease
      PROVE  JobInv(m)' /\ ReadingInv(job[m].snap)' /\ AnswerInv(m)' /\ ShownInv(m)'
  <2>0. JobInv(m) /\ ReadingInv(job[m].snap) /\ AnswerInv(m) /\ ShownInv(m)
    BY PartsOfCommitInv
  <2>1. CASE phase[m] = "open" /\ phase'[m] = "open"
    <3>1. UNCHANGED <<kind[m], receipt[m], phase[m]>>
      BY <1>1, <2>1 DEF LeasesMove
    <3> QED
      BY <1>3, <1>4, <2>0, <2>1, <3>1, RoomStays, ReadingStays
  <2>2. CASE phase[m] = "claiming" /\ phase'[m] \in {"open", "claiming"}
    <3>1. kind'[m] = kind[m] /\ job'[m] = job[m]
      BY <1>1, <1>4, <2>2 DEF LeasesMove
    <3>2. room'[m] = {} /\ shown'[m] = 0 /\ ~opened'[m]
      BY <1>4, <2>0, <2>2 DEF ShownInv
    <3>3. job[m].op \in {"none", "recover"}
      BY <2>0, <2>2, PartsOfCommitInv DEF JobInv, Job, JobKind, Committing
    <3>4. JobInv(m)'
      BY <1>3, <2>0, <2>2, <3>1, <3>3 DEF JobInv, Committing
    <3>5. AnswerInv(m)'
      BY <3>1, <3>3 DEF AnswerInv, Committing
    <3>6. ShownInv(m)'
      BY <1>3, <3>2, TypesOfCommitInv, RecordFacts DEF ShownInv, Current
    <3>7. ReadingInv(job[m].snap)'
      BY <1>3, <2>0, <3>1, ReadingStays
    <3> QED
      BY <3>4, <3>5, <3>6, <3>7
  <2>3. CASE \/ phase'[m] \notin {"open", "claiming"}
             \/ phase[m] = "idle" /\ phase'[m] = "claiming"
    <3>1. job'[m] = NoJob
      BY <1>4, <2>0, <2>3, PartsOfCommitInv DEF JobInv, Job, JobKind, Committing
    <3>2. JobInv(m)' /\ AnswerInv(m)'
      BY <3>1, NoJobType DEF JobInv, AnswerInv, Committing
    <3>3. ShownInv(m)'
      BY <1>3, <1>4, <2>3, TypesOfCommitInv, RecordFacts DEF ShownInv, Current
    <3>4. ReadingInv(job[m].snap)'
      BY <3>1, NoJobType DEF ReadingInv
    <3> QED
      BY <3>2, <3>3, <3>4
  <2> QED
    BY <1>1, <2>1, <2>2, <2>3, PartsOfCommitInv DEF LeasesMove, Phase
<1>8. ASSUME NEW w \in writes'
      PROVE  WriteInv(w)'
  <2>1. PICK v \in writes : w = IF v.waited /\ phase'[v.id] # "open" THEN Forgotten(v) ELSE v
    BY <1>1 DEF DisposeRooms, Forgotten
  <2>2. v \in Write /\ WriteInv(v) /\ v.id \in Lease
    BY PartsOfCommitInv DEF Write
  <2>3. CASE v.waited /\ phase'[v.id] # "open"
    BY <1>3, <2>1, <2>2, <2>3, ForgottenIsKept, ForgottenIsSame, WriteStays
  <2>4. CASE ~(v.waited /\ phase'[v.id] # "open")
    <3>1. w = v
      BY <2>1, <2>4
    <3>2. w.waited => UNCHANGED <<phase[w.id], receipt[w.id], job[w.id]>>
      BY <1>1, <1>4, <2>2, <2>4, <3>1 DEF WriteInv, LeasesMove
    <3> QED
      BY <1>3, <2>2, <3>1, <3>2, WriteStays
  <2> QED
    BY <2>3, <2>4
<1>9. NothingToldIsLost'
  BY <1>3, PartsOfCommitInv, ToldStays
<1> QED
  BY <1>1, <1>5, <1>6, <1>7, <1>8, <1>9 DEF CommitInv

-----------------------------------------------------------------------------
(* Steps of one room                                                        *)

LEMMA RowIsReading ==
    ASSUME CommitInv
    PROVE  Row \in RowType /\ ReadingInv(Row) /\ ReadingInv(NoRow)
<1>1. Row \in RowType
  BY TypesOfCommitInv DEF Row, RowType
<1>2. ReadingInv(NoRow)
  BY NoJobType DEF ReadingInv
<1>3. /\ Row.version = version /\ Row.generation = generation /\ Row.record = record
      /\ version = 0 => Row = NoRow
  BY TypesOfCommitInv DEF Row, NoRow
<1>4. ReadingInv(Row)
  BY <1>3, TypesOfCommitInv, RecordFacts DEF ReadingInv
<1> QED
  BY <1>1, <1>2, <1>4

\* The step of a room that leaves the leases and the store as they are: what is
\* left to show is what it changes.
LEMMA RoomMoves ==
    ASSUME CommitInv, NEW l \in Lease, NEW j \in Job,
           UNCHANGED vars, SetJob(l, j), j.snap \in {job[l].snap, NoRow, Row},
           CommitTypeOK',
           \A m \in Lease : m # l => UNCHANGED <<room[m], shown[m], opened[m]>>,
           JobInv(l)', AnswerInv(l)', ShownInv(l)',
           \A w \in writes' : WriteInv(w)',
           NothingToldIsLost'
    PROVE  CommitInv'
<1>1. /\ UNCHANGED <<generation, version, record, leases, calls, phase, kind, receipt, backups>>
      /\ LeaseInv'
  BY StutterKeepsInv, PartsOfCommitInv DEF vars, storeVars, holderVars
<1>2. job'[l] = j /\ \A m \in Lease : m # l => job'[m] = job[m]
  BY PartsOfCommitInv DEF SetJob, CommitTypeOK
<1>3. ASSUME NEW m \in Lease
      PROVE  JobInv(m)' /\ ReadingInv(job[m].snap)' /\ AnswerInv(m)' /\ ShownInv(m)'
  <2>1. CASE m = l
    <3>1. ReadingInv(j.snap)
      BY RowIsReading, PartsOfCommitInv
    <3>2. ReadingInv(job[l].snap)'
      BY <1>1, <1>2, <3>1, ReadingStays
    <3> QED
      BY <2>1, <3>2
  <2>2. CASE m # l
    BY <1>1, <1>2, <2>2, RoomStays, ReadingStays, PartsOfCommitInv
  <2> QED
    BY <2>1, <2>2
<1>4. ClaimsInv'
  <2>1. \A m \in Lease : job'[m].snap \in {job[m].snap, NoRow, Row}
    BY <1>2
  <2>2. ASSUME NEW m \in Lease, Known(Fresh(m))'
        PROVE  Known(Fresh(m))
    <3>1. ASSUME NEW n \in Lease, job'[n].snap.generation = Fresh(m)
          PROVE  Known(Fresh(m))
      BY <2>1, <3>1, FreshIds, NoJobType DEF Known, Row
    <3> QED
      BY <1>1, <2>2, <3>1 DEF Known, Fresh
  <2>3. \A m \in Lease : Spent(m) => Spent(m)'
    BY <1>1 DEF Spent
  <2>4. ClaimsInv
    BY PartsOfCommitInv
  <2>5. \A m \in Lease : Known(Fresh(m))' => Spent(m)'
    BY <2>2, <2>3, <2>4 DEF ClaimsInv
  <2> QED
    BY <1>1, <2>4, <2>5 DEF ClaimsInv, Fresh, Proposed
<1> QED
  BY <1>1, <1>3, <1>4 DEF CommitInv

\* A step that only moves the job: nobody waits for a write of it.
LEMMA JobMoves ==
    ASSUME CommitInv, NEW l \in Lease, NEW j \in Job,
           UNCHANGED <<vars, cloud, roomVars, writes, told>>,
           SetJob(l, j), j.snap \in {job[l].snap, NoRow, Row},
           job[l].stage # "sent",
           JobInv(l)', AnswerInv(l)'
    PROVE  CommitInv'
<1>1. /\ UNCHANGED <<generation, version, record, phase, kind, receipt, backups>>
      /\ UNCHANGED <<vars, room, shown, opened, cloud, writes, told>>
  BY DEF vars, storeVars, holderVars, roomVars
<1>2. job'[l] = j /\ \A m \in Lease : m # l => job'[m] = job[m]
  BY PartsOfCommitInv DEF SetJob, CommitTypeOK
<1>3. CommitTypeOK'
  <2>1. job' \in [Lease -> Job] /\ CommitTypeOK
    BY PartsOfCommitInv DEF SetJob, CommitTypeOK
  <2>2. TypeOK'
    BY StutterKeepsInv, PartsOfCommitInv DEF LeaseInv
  <2> QED
    BY <1>1, <2>1, <2>2 DEF CommitTypeOK
<1>4. ShownInv(l)'
  BY <1>1, PartsOfCommitInv DEF ShownInv, Current
<1>5. ASSUME NEW w \in writes'
      PROVE  WriteInv(w)'
  <2>1. w \in Write /\ WriteInv(w)
    BY <1>1, PartsOfCommitInv
  <2>2. w.waited => w.id # l /\ w.id \in Lease
    BY <2>1 DEF WriteInv, Write
  <2> QED
    BY <1>1, <1>2, <2>1, <2>2, WriteStays
<1>6. NothingToldIsLost'
  BY <1>1, ToldStays, PartsOfCommitInv
<1> QED
  BY <1>1, <1>3, <1>4, <1>5, <1>6, RoomMoves

LEMMA ActiveIsCurrent ==
    ASSUME CommitInv, NEW l \in Lease, kind[l] = "edit", Active(l), version > 0
    PROVE  Current(l)
BY InvImpliesGeneration, PartsOfCommitInv DEF ActiveHoldsGeneration, Current

\* What the jobs of the actions are made of.
LEMMA NewJobFields ==
    ASSUME NEW o \in JobKind, NEW d \in SUBSET Op, NEW s \in 0..MaxRevision
    PROVE  LET j == NewJob(o, d, s) IN
             /\ j \in Job /\ j.op = o /\ j.stage = "read"
             /\ j.doc = d /\ j.source = s /\ j.snap = NoRow
<1>1. NoRow \in RowType /\ "read" \in Stage /\ 1 \in 0..Attempts
  BY NoJobType, CommitAssumption DEF Stage
<1> QED
  BY <1>1 DEF Job, NewJob, NoJob

LEMMA StageFields ==
    ASSUME NEW j \in Job, NEW s \in Stage
    PROVE  \E k \in Job : /\ k = [j EXCEPT !.stage = s]
                          /\ k.op = j.op /\ k.stage = s
                          /\ k.doc = j.doc /\ k.source = j.source /\ k.snap = j.snap
<1> DEFINE k == [j EXCEPT !.stage = s]
<1>1. k \in Job
  BY DEF Job
<1>2. k.op = j.op /\ k.stage = s /\ k.doc = j.doc /\ k.source = j.source /\ k.snap = j.snap
  BY DEF Job
<1> QED
  BY <1>1, <1>2

LEMMA RetryFields ==
    ASSUME NEW j \in Job, j.tries < Attempts
    PROVE  LET k == [j EXCEPT !.stage = "read", !.tries = @ + 1, !.snap = NoRow] IN
             /\ k \in Job /\ k.op = j.op /\ k.stage = "read"
             /\ k.doc = j.doc /\ k.source = j.source /\ k.snap = NoRow
<1>1. NoRow \in RowType /\ "read" \in Stage
  BY NoJobType DEF Stage
<1>2. j.tries + 1 \in 0..Attempts
  BY CommitAssumption DEF Job
<1> QED
  BY <1>1, <1>2 DEF Job

LEMMA AskFields ==
    ASSUME NEW j \in Job, NEW d \in SUBSET Op
    PROVE  \E k \in Job : /\ k = [j EXCEPT !.stage = "accept", !.doc = d, !.snap = NoRow]
                          /\ k.op = j.op /\ k.stage = "accept"
                          /\ k.doc = d /\ k.source = j.source /\ k.snap = NoRow
<1> DEFINE k == [j EXCEPT !.stage = "accept", !.doc = d, !.snap = NoRow]
<1>1. NoRow \in RowType /\ "accept" \in Stage
  BY NoJobType DEF Stage
<1>2. k \in Job
  BY <1>1 DEF Job
<1>3. k.op = j.op /\ k.stage = "accept" /\ k.doc = d /\ k.source = j.source /\ k.snap = NoRow
  BY <1>1 DEF Job
<1> QED
  BY <1>2, <1>3

\* What a job writes is a record, and depends on nothing but the job.
LEMMA CandidateIsRecord ==
    ASSUME CommitInv, NEW l \in Lease, job[l].op \in Committing,
           job[l].op = "save" => job[l].snap.version > 0
    PROVE  /\ Candidate(job[l]) \in Record
           /\ Candidate(job[l]).state \in SUBSET Op
<1> DEFINE s == job[l].snap
<1>1. JobInv(l) /\ ReadingInv(s) /\ job[l] \in Job
  BY PartsOfCommitInv
<1>2. s \in RowType /\ job[l].doc \in SUBSET Op /\ s.version \in Nat
  BY <1>1 DEF Job, RowType
<1>3. s.version > 0 => s.record \in [state : SUBSET Op, revision : Revision]
  BY <1>1, CommitAssumption DEF ReadingInv
<1> HIDE DEF s
<1>4. CASE job[l].op = "save"
  <2>1. Candidate(job[l]) = [s.record EXCEPT !.state = @ \cup job[l].doc]
    BY <1>4 DEF Candidate, s
  <2>2. Candidate(job[l]) \in [state : SUBSET Op, revision : Revision]
    BY <1>2, <1>3, <1>4, <2>1 DEF s
  <2> QED
    BY <2>2, CommitAssumption
<1>5. CASE job[l].op # "save"
  <2>1. job[l].source \in Revision /\ job[l].source \in Op
    BY <1>1, <1>5 DEF JobInv, Committing, Op
  <2>2. Coordinated(job[l]) \in [state : SUBSET Op, revision : Revision]
    <3>1. CASE s.version = 0
      BY <2>1, <3>1 DEF Coordinated, s
    <3>2. CASE s.version > 0
      BY <1>3, <2>1, <3>2 DEF Coordinated, s
    <3> QED
      BY <1>2, <3>1, <3>2
  <2> QED
    BY <1>5, <2>2, CommitAssumption DEF Candidate
<1> QED
  BY <1>4, <1>5

\* A job is created for an editor that is open, when none is under way.
LEMMA NewJobKeeps ==
    ASSUME CommitInv, NEW l \in Lease,
           phase[l] = "open", kind[l] = "edit", job[l].stage # "sent",
           NEW o \in {"load", "save", "poll", "merge", "sync"}, NEW d \in SUBSET Op,
           NEW s \in 0..MaxRevision, o \in {"load", "merge"} => s \in Revision,
           SetJob(l, NewJob(o, d, s)),
           UNCHANGED <<vars, cloud, roomVars, writes, told>>
    PROVE  CommitInv'
<1>1. PICK j \in Job : /\ j = NewJob(o, d, s) /\ j.op = o /\ j.stage = "read"
                       /\ j.doc = d /\ j.source = s /\ j.snap = NoRow
  BY NewJobFields DEF JobKind
<1>2. job'[l] = j /\ phase' = phase /\ kind' = kind
  BY <1>1, PartsOfCommitInv DEF SetJob, CommitTypeOK, vars, holderVars
<1>3. JobInv(l)'
  BY <1>1, <1>2 DEF JobInv, Committing
<1>4. AnswerInv(l)'
  BY <1>1, <1>2 DEF AnswerInv
<1> QED
  BY <1>1, <1>3, <1>4, JobMoves

LEMMA EndJobKeeps ==
    ASSUME CommitInv, NEW l \in Lease, job[l].stage # "sent",
           SetJob(l, NoJob), UNCHANGED <<vars, cloud, roomVars, writes, told>>
    PROVE  CommitInv'
<1>1. job'[l] = NoJob
  BY PartsOfCommitInv DEF SetJob, CommitTypeOK
<1>2. JobInv(l)' /\ AnswerInv(l)'
  BY <1>1, NoJobType DEF JobInv, AnswerInv, Committing
<1> QED
  BY <1>2, NoJobType, JobMoves

LEMMA StartKeeps ==
    ASSUME CommitInv, NEW l \in Lease,
           StartLoad(l) \/ StartPoll(l) \/ \E e \in Edit : StartSave(l, e)
    PROVE  CommitInv'
<1>1. Idle(l) /\ UNCHANGED <<vars, cloud, roomVars, writes, told>>
  BY DEF StartLoad, StartPoll, StartSave
<1>2. phase[l] = "open" /\ kind[l] = "edit" /\ job[l].stage # "sent"
  BY <1>1, NoJobType DEF Idle
<1>3. cloud \in Revision /\ cloud \in 0..MaxRevision /\ room[l] \in SUBSET Op /\ 0 \in 0..MaxRevision
  BY PartsOfCommitInv, CommitAssumption DEF CommitTypeOK, Revision
<1>4. CASE StartLoad(l)
  <2>1. SetJob(l, NewJob("load", {}, cloud))
    BY <1>4 DEF StartLoad
  <2> QED
    BY <1>1, <1>2, <1>3, <2>1, NewJobKeeps
<1>5. ASSUME NEW o \in {"poll", "sync"}, SetJob(l, NewJob(o, {}, 0))
      PROVE  CommitInv'
  BY <1>1, <1>2, <1>3, <1>5, NewJobKeeps
<1>6. ASSUME NEW e \in Edit, StartSave(l, e)
      PROVE  CommitInv'
  <2>1. SetJob(l, NewJob("save", room[l] \cup {e}, 0)) /\ room[l] \cup {e} \in SUBSET Op
    BY <1>3, <1>6 DEF StartSave, Op
  <2> QED
    BY <1>1, <1>2, <1>3, <2>1, NewJobKeeps
<1> QED
  BY <1>4, <1>5, <1>6 DEF StartPoll

LEMMA ReadRoomKeeps ==
    ASSUME CommitInv, NEW l \in Lease, ReadRoom(l)
    PROVE  CommitInv'
<1>0. PICK next \in {"answered", "accepted"} :
         next = IF job[l].stage = "read" THEN "answered" ELSE "accepted"
  OBVIOUS
<1>1. /\ job[l].stage \in {"read", "accept"} /\ phase[l] = "open"
      /\ SetJob(l, [job[l] EXCEPT !.snap = Row, !.stage = next])
      /\ UNCHANGED <<vars, cloud, roomVars, writes, told>>
  BY <1>0 DEF ReadRoom
<1>2. Row \in RowType /\ next \in Stage /\ job[l] \in Job /\ JobInv(l) /\ AnswerInv(l)
  BY RowIsReading, PartsOfCommitInv DEF Stage
<1>3. PICK j \in Job : /\ j = [job[l] EXCEPT !.snap = Row, !.stage = next]
                       /\ j.op = job[l].op /\ j.stage = next
                       /\ j.doc = job[l].doc /\ j.source = job[l].source /\ j.snap = Row
  <2>1. PICK r \in RowType : r = Row
    BY <1>2
  <2>2. PICK i \in Job : i = job[l]
    BY <1>2
  <2>3. \E j \in Job : /\ j = [i EXCEPT !.snap = r, !.stage = next]
                       /\ j.op = i.op /\ j.stage = next
                       /\ j.doc = i.doc /\ j.source = i.source /\ j.snap = r
    <3> DEFINE k == [i EXCEPT !.snap = r, !.stage = next]
    <3>1. next \in Stage
      BY <1>2
    <3>2. k \in Job
      BY <3>1 DEF Job
    <3>3. k.op = i.op /\ k.stage = next /\ k.doc = i.doc /\ k.source = i.source /\ k.snap = r
      BY DEF Job
    <3> QED
      BY <3>2, <3>3
  <2> QED
    BY <2>1, <2>2, <2>3
<1>4. job'[l] = j
  BY <1>1, <1>3, PartsOfCommitInv DEF SetJob, CommitTypeOK
<1>5. UNCHANGED <<generation, version, record, phase, kind, receipt>>
  BY <1>1 DEF vars, storeVars, holderVars
<1>6. job[l].op # "none"
  BY <1>1, <1>2, NoJobType DEF JobInv
<1>7. JobInv(l)'
  BY <1>0, <1>1, <1>2, <1>3, <1>4, <1>5, <1>6 DEF JobInv, Committing
<1>8. AnswerInv(l)'
  BY <1>0, <1>1, <1>2, <1>3, <1>4, <1>5 DEF AnswerInv, Current
<1> QED
  BY <1>1, <1>3, <1>7, <1>8, JobMoves

LEMMA RetryKeeps ==
    ASSUME CommitInv, NEW l \in Lease, Retry(l)
    PROVE  CommitInv'
<1>1. /\ job[l].op \in Committing /\ job[l].stage = "false" /\ job[l].tries < Attempts
      /\ SetJob(l, [job[l] EXCEPT !.stage = "read", !.tries = @ + 1, !.snap = NoRow])
      /\ UNCHANGED <<vars, cloud, roomVars, writes, told>>
  BY DEF Retry, Committing
<1>2. job[l] \in Job /\ JobInv(l)
  BY PartsOfCommitInv
<1>3. PICK j \in Job :
        /\ j = [job[l] EXCEPT !.stage = "read", !.tries = @ + 1, !.snap = NoRow]
        /\ j.op = job[l].op /\ j.stage = "read"
        /\ j.doc = job[l].doc /\ j.source = job[l].source /\ j.snap = NoRow
  BY <1>1, <1>2, RetryFields
<1>4. job'[l] = j /\ phase' = phase /\ kind' = kind
  BY <1>1, <1>3, PartsOfCommitInv DEF SetJob, CommitTypeOK, vars, holderVars
<1>5. JobInv(l)'
  BY <1>1, <1>2, <1>3, <1>4 DEF JobInv, Committing
<1>6. AnswerInv(l)'
  BY <1>3, <1>4 DEF AnswerInv
<1> QED
  BY <1>1, <1>3, <1>5, <1>6, JobMoves

LEMMA CheckRevisionKeeps ==
    ASSUME CommitInv, NEW l \in Lease, CheckRevision(l)
    PROVE  CommitInv'
<1>1. /\ job[l].op = "poll" /\ job[l].stage = "answered"
      /\ UNCHANGED <<vars, cloud, roomVars, writes, told>>
      /\ SetJob(l, NoJob) \/ SetJob(l, NewJob("merge", room[l], cloud))
  BY DEF CheckRevision
<1>2. kind[l] = "edit" /\ phase[l] = "open"
  BY <1>1, PartsOfCommitInv DEF JobInv
<1>3. cloud \in Revision /\ cloud \in 0..MaxRevision /\ room[l] \in SUBSET Op
  BY PartsOfCommitInv, CommitAssumption DEF CommitTypeOK, Revision
<1>4. CASE SetJob(l, NoJob)
  BY <1>1, <1>4, EndJobKeeps
<1>5. CASE SetJob(l, NewJob("merge", room[l], cloud))
  BY <1>1, <1>2, <1>3, <1>5, NewJobKeeps
<1> QED
  BY <1>1, <1>4, <1>5

LEMMA AskRevisionKeeps ==
    ASSUME CommitInv, NEW l \in Lease, AskRevision(l)
    PROVE  CommitInv'
<1> DEFINE d == Candidate(job[l]).state
<1>1. /\ job[l].op \in {"load", "merge"} /\ job[l].stage = "true"
      /\ SetJob(l, [job[l] EXCEPT !.stage = "accept", !.doc = d, !.snap = NoRow])
      /\ UNCHANGED <<vars, cloud, roomVars, writes, told>>
  BY DEF AskRevision
<1>2. job[l] \in Job /\ JobInv(l) /\ AnswerInv(l) /\ d \in SUBSET Op
  BY <1>1, PartsOfCommitInv, CandidateIsRecord DEF Committing
<1>3. Current(l) => d \subseteq record.state
  BY <1>1, <1>2 DEF AnswerInv, Committing
<1> HIDE DEF d
<1>4. PICK j \in Job :
        /\ j = [job[l] EXCEPT !.stage = "accept", !.doc = d, !.snap = NoRow]
        /\ j.op = job[l].op /\ j.stage = "accept"
        /\ j.doc = d /\ j.source = job[l].source /\ j.snap = NoRow
  BY <1>2, AskFields
<1>5. job'[l] = j
  BY <1>1, <1>4, PartsOfCommitInv DEF SetJob, CommitTypeOK
<1>6. UNCHANGED <<generation, version, record, phase, kind, receipt>>
  BY <1>1 DEF vars, storeVars, holderVars
<1>7. JobInv(l)'
  BY <1>1, <1>2, <1>4, <1>5, <1>6 DEF JobInv, Committing
<1>8. AnswerInv(l)'
  BY <1>1, <1>3, <1>4, <1>5, <1>6 DEF AnswerInv, Current
<1> QED
  BY <1>1, <1>4, <1>7, <1>8, JobMoves

\* A job's write contains what the job read.
LEMMA CandidateGrows ==
    ASSUME CommitInv, NEW l \in Lease, job[l].op \in Committing, job[l].snap.version > 0,
           job[l].op # "save" => job[l].source >= job[l].snap.record.revision
    PROVE  /\ job[l].snap.record.state \subseteq Candidate(job[l]).state
           /\ job[l].snap.record.revision <= Candidate(job[l]).revision
<1> DEFINE s == job[l].snap
<1>1. s.record \in [state : SUBSET Op, revision : Revision]
  BY PartsOfCommitInv, CommitAssumption DEF ReadingInv
<1>2. s.record.revision \in Int /\ job[l].source \in Int
  BY <1>1, PartsOfCommitInv, CommitAssumption DEF Revision, Job
<1> HIDE DEF s
<1>3. CASE job[l].op = "save"
  <2>1. Candidate(job[l]) = [s.record EXCEPT !.state = @ \cup job[l].doc]
    BY <1>3 DEF Candidate, s
  <2>2. Candidate(job[l]).state = s.record.state \cup job[l].doc
    BY <1>1, <2>1
  <2>3. Candidate(job[l]).revision = s.record.revision
    BY <1>1, <2>1
  <2> QED
    BY <1>2, <2>2, <2>3 DEF s
<1>4. CASE job[l].op # "save"
  <2>1. Candidate(job[l]) = [state |-> s.record.state \cup {job[l].source}, revision |-> job[l].source]
    BY <1>4 DEF Candidate, Coordinated, s
  <2>2. Candidate(job[l]).state = s.record.state \cup {job[l].source}
    BY <2>1
  <2>3. Candidate(job[l]).revision = job[l].source
    BY <2>1
  <2> QED
    BY <1>2, <1>4, <2>2, <2>3 DEF s
<1> QED
  BY <1>3, <1>4

\* A job sends its write and waits for it.
LEMMA SendMoves ==
    ASSUME CommitInv, NEW l \in Lease, NEW w \in Write,
           phase[l] = "open", job[l].stage # "sent",
           job[l].op \in Committing \cup {"recover"},
           job[l].op = "save" => job[l].snap.version > 0,
           w = SentWrite(l),
           w.op = "exchange" /\ w.version > 0 =>
               /\ w.version <= version
               /\ w.version = version => /\ record.state \subseteq w.record.state
                                         /\ record.revision <= w.record.revision,
           writes' = writes \cup {w},
           SetJob(l, [job[l] EXCEPT !.stage = "sent"]),
           UNCHANGED <<vars, cloud, roomVars, told>>
    PROVE  CommitInv'
<1>1. /\ UNCHANGED <<generation, version, record, phase, kind, receipt, backups>>
      /\ UNCHANGED <<vars, room, shown, opened, cloud, told>>
  BY DEF vars, storeVars, holderVars, roomVars
<1>2. PICK j \in Job : /\ j = [job[l] EXCEPT !.stage = "sent"]
                       /\ j.op = job[l].op /\ j.stage = "sent"
                       /\ j.doc = job[l].doc /\ j.source = job[l].source /\ j.snap = job[l].snap
  BY StageFields, PartsOfCommitInv DEF Stage
<1>3. job'[l] = j /\ \A m \in Lease : m # l => job'[m] = job[m]
  BY <1>2, PartsOfCommitInv DEF SetJob, CommitTypeOK
<1>4. CommitTypeOK'
  <2>1. job' \in [Lease -> Job] /\ CommitTypeOK
    BY <1>2, PartsOfCommitInv DEF SetJob, CommitTypeOK
  <2>2. TypeOK'
    BY <1>1, StutterKeepsInv, PartsOfCommitInv DEF LeaseInv
  <2> QED
    BY <1>1, <2>1, <2>2 DEF CommitTypeOK
<1>5. JobInv(l)'
  <2>1. JobInv(l) /\ job[l].op \notin {"none", "retired"}
    BY PartsOfCommitInv DEF Committing
  <2> QED
    BY <1>1, <1>2, <1>3, <2>1 DEF JobInv, Committing
<1>6. AnswerInv(l)'
  BY <1>2, <1>3 DEF AnswerInv
<1>7. ShownInv(l)'
  BY <1>1, PartsOfCommitInv DEF ShownInv, Current
<1>8. WriteInv(w)'
  <2>1. w.id = l
    BY DEF SentWrite
  <2>2. Candidate(job[l])' = Candidate(job[l])
    BY <1>2, <1>3 DEF Candidate, Coordinated
  <2>3. SentWrite(l)' = SentWrite(l)
    BY <1>1, <1>2, <1>3, <2>2 DEF SentWrite
  <2> QED
    BY <1>1, <1>2, <1>3, <2>1, <2>3 DEF WriteInv
<1>9. ASSUME NEW v \in writes
      PROVE  WriteInv(v)'
  <2>1. v \in Write /\ WriteInv(v)
    BY PartsOfCommitInv
  <2>2. v.waited => v.id # l /\ v.id \in Lease
    BY <2>1 DEF WriteInv, Write
  <2> QED
    BY <1>1, <1>3, <2>1, <2>2, WriteStays
<1>10. NothingToldIsLost'
  BY <1>1, ToldStays, PartsOfCommitInv
<1> QED
  BY <1>1, <1>2, <1>4, <1>5, <1>6, <1>7, <1>8, <1>9, <1>10, RoomMoves

LEMMA OpenIsOfGeneration ==
    ASSUME CommitInv, NEW l \in Lease, phase[l] = "open"
    PROVE  receipt[l].generation \in Generation
BY PartsOfCommitInv DEF LeaseInv, ReceiptsAreHeld

LEMMA SendWriteKeeps ==
    ASSUME CommitInv, NEW l \in Lease, SendWrite(l)
    PROVE  CommitInv'
<1> DEFINE w == [op |-> "exchange", id |-> l, generation |-> receipt[l].generation,
                 version |-> job[l].snap.version, sha |-> NoRecord,
                 record |-> Candidate(job[l]), waited |-> TRUE]
<1>1. /\ phase[l] = "open" /\ job[l].op \in Committing /\ job[l].stage = "answered"
      /\ job[l].op = "save" => job[l].snap.version > 0
      /\ job[l].op # "save" => Coordinable(job[l])
      /\ writes' = writes \cup {w}
      /\ SetJob(l, [job[l] EXCEPT !.stage = "sent"])
      /\ UNCHANGED <<vars, cloud, roomVars, told>>
  BY DEF SendWrite, Committing
<1>2. job[l] \in Job /\ ReadingInv(job[l].snap) /\ job[l].snap.version \in Nat
  BY PartsOfCommitInv DEF Job, RowType
<1>3. Candidate(job[l]) \in Record
  BY <1>1, CandidateIsRecord
<1>4. receipt[l].generation \in Generation
  BY <1>1, OpenIsOfGeneration
<1>5. w \in Write
  BY <1>2, <1>3, <1>4 DEF Write
<1>6. w = SentWrite(l)
  BY <1>1 DEF SentWrite, Committing
<1>7. ASSUME job[l].snap.version > 0
      PROVE  /\ job[l].snap.version <= version
             /\ job[l].snap.version = version =>
                  /\ record.state \subseteq Candidate(job[l]).state
                  /\ record.revision <= Candidate(job[l]).revision
  <2>1. job[l].op # "save" => job[l].source >= job[l].snap.record.revision
    BY <1>1, <1>7 DEF Coordinable
  <2>2. /\ job[l].snap.record.state \subseteq Candidate(job[l]).state
        /\ job[l].snap.record.revision <= Candidate(job[l]).revision
    BY <1>1, <1>7, <2>1, CandidateGrows
  <2>3. job[l].snap.version = version => job[l].snap.record = record
    BY <1>2, <1>7 DEF ReadingInv, Row
  <2> QED
    BY <1>2, <1>7, <2>2, <2>3 DEF ReadingInv
<1>8. /\ w.version = job[l].snap.version /\ w.record = Candidate(job[l])
  OBVIOUS
<1> HIDE DEF w
<1> QED
  BY <1>1, <1>5, <1>6, <1>7, <1>8, SendMoves

LEMMA SendRecoveryKeeps ==
    ASSUME CommitInv, NEW l \in Lease, SendRecovery(l)
    PROVE  CommitInv'
<1> DEFINE w == [op |-> "recover", id |-> l, generation |-> receipt[l].generation, version |-> 0,
                 sha |-> job[l].snap.record,
                 record |-> [state |-> {job[l].source}, revision |-> job[l].source],
                 waited |-> TRUE]
<1>1. /\ phase[l] = "open" /\ job[l].op = "recover" /\ job[l].stage = "start"
      /\ writes' = writes \cup {w}
      /\ SetJob(l, [job[l] EXCEPT !.stage = "sent"])
      /\ UNCHANGED <<vars, cloud, roomVars, told>>
  BY DEF SendRecovery
<1>2. job[l] \in Job /\ JobInv(l) /\ job[l].snap.record \in Record \cup {NoRecord}
  BY PartsOfCommitInv DEF Job, RowType
<1>3. job[l].source \in Revision /\ job[l].source \in Op
  BY <1>1, <1>2 DEF JobInv, Op
<1>4. [state |-> {job[l].source}, revision |-> job[l].source] \in Record
  BY <1>3, CommitAssumption
<1>5. receipt[l].generation \in Generation
  BY <1>1, OpenIsOfGeneration
<1>6. w \in Write
  BY <1>2, <1>4, <1>5 DEF Write
<1>7. w = SentWrite(l)
  BY <1>1 DEF SentWrite
<1>8. w.op = "recover"
  OBVIOUS
<1> HIDE DEF w
<1> QED
  BY <1>1, <1>6, <1>7, <1>8, SendMoves

\* A job that ends by giving up forgets its write.
LEMMA GiveUpKeeps ==
    ASSUME CommitInv, NEW l \in Lease, GiveUp(l)
    PROVE  CommitInv'
<1>1. /\ phase[l] = "open" /\ Abandon(l)
      /\ UNCHANGED <<vars, cloud, room, shown, told>>
      /\ \/ SetJob(l, NoJob) /\ opened' = opened
         \/ SetJob(l, Retired) /\ opened' = [opened EXCEPT ![l] = FALSE]
  BY DEF GiveUp
<1>2. UNCHANGED <<generation, version, record, phase, kind, receipt, backups>>
  BY <1>1 DEF vars, storeVars, holderVars
<1>3. PICK j \in {NoJob, Retired} : SetJob(l, j)
  BY <1>1
<1>4. job'[l] = j /\ \A m \in Lease : m # l => job'[m] = job[m]
  BY <1>3, PartsOfCommitInv DEF SetJob, CommitTypeOK
<1>5. j \in Job /\ j.snap = NoRow
  BY NoJobType
<1>6. \A m \in Lease : /\ m # l => opened'[m] = opened[m]
                       /\ opened'[m] => opened[m]
  BY <1>1, PartsOfCommitInv DEF CommitTypeOK
<1>7. CommitTypeOK'
  <2>1. CommitTypeOK /\ job' \in [Lease -> Job]
    BY <1>3, <1>5, PartsOfCommitInv DEF SetJob, CommitTypeOK
  <2>2. TypeOK'
    BY <1>1, StutterKeepsInv, PartsOfCommitInv DEF LeaseInv
  <2>3. opened' \in [Lease -> BOOLEAN]
    BY <1>1, <2>1 DEF CommitTypeOK
  <2>4. writes' \in SUBSET Write
    BY <1>1, ForgottenIsSame, PartsOfCommitInv DEF Abandon, Forgotten
  <2> QED
    BY <1>1, <2>1, <2>2, <2>3, <2>4 DEF CommitTypeOK
<1>8. JobInv(l)' /\ AnswerInv(l)'
  BY <1>1, <1>2, <1>4, NoJobType DEF JobInv, AnswerInv, Committing
<1>9. ShownInv(l)'
  BY <1>1, <1>2, <1>6, PartsOfCommitInv DEF ShownInv, Current
<1>10. ASSUME NEW w \in writes'
       PROVE  WriteInv(w)'
  <2>1. PICK v \in writes : w = IF v.waited /\ v.id = l THEN Forgotten(v) ELSE v
    BY <1>1 DEF Abandon, Forgotten
  <2>2. v \in Write /\ WriteInv(v) /\ v.id \in Lease
    BY PartsOfCommitInv DEF Write
  <2>3. CASE v.waited /\ v.id = l
    BY <1>2, <2>1, <2>2, <2>3, ForgottenIsKept, ForgottenIsSame, WriteStays
  <2>4. CASE ~(v.waited /\ v.id = l)
    <3>1. w = v
      BY <2>1, <2>4
    <3>2. w.waited => UNCHANGED <<phase[w.id], receipt[w.id], job[w.id]>>
      BY <1>2, <1>4, <2>2, <2>4, <3>1
    <3> QED
      BY <1>2, <2>2, <3>1, <3>2, WriteStays
  <2> QED
    BY <2>3, <2>4
<1>11. NothingToldIsLost'
  BY <1>1, <1>2, ToldStays, PartsOfCommitInv
<1>12. \A m \in Lease : m # l => UNCHANGED <<room[m], shown[m], opened[m]>>
  BY <1>1, <1>6
<1> QED
  BY <1>1, <1>3, <1>5, <1>7, <1>8, <1>9, <1>10, <1>11, <1>12, RoomMoves

-----------------------------------------------------------------------------
(* What a room takes in                                                     *)

\* An active editor takes operations of the stored record in, and may send them
\* to its clients.
LEMMA TellMoves ==
    ASSUME CommitInv, NEW l \in Lease, phase[l] = "open", kind[l] = "edit", job[l].stage # "sent",
           version > 0, NEW d \in SUBSET record.state,
           NEW j \in Job, SetJob(l, j), j.snap = NoRow, JobInv(l)', AnswerInv(l)',
           NEW x \in SUBSET (room[l] \cup d), room' = [room EXCEPT ![l] = x],
           told' \in {told, told \cup d},
           NEW s \in 0..record.revision, shown' = [shown EXCEPT ![l] = s],
           \/ opened' = opened /\ s = shown[l]
           \/ opened' = opened /\ s >= 1
           \/ opened' = [opened EXCEPT ![l] = TRUE] /\ s >= 1,
           UNCHANGED <<vars, cloud, writes>>
    PROVE  CommitInv'
<1>1. /\ UNCHANGED <<generation, version, record, phase, kind, receipt, backups>>
      /\ UNCHANGED <<vars, cloud, writes>>
  BY DEF vars, storeVars, holderVars
<1>2. job'[l] = j /\ \A m \in Lease : m # l => job'[m] = job[m]
  BY PartsOfCommitInv DEF SetJob, CommitTypeOK
<1>3. /\ \A m \in Lease : m # l => UNCHANGED <<room[m], shown[m], opened[m]>>
      /\ room'[l] = x /\ shown'[l] = s
      /\ opened'[l] => (opened[l] /\ s = shown[l]) \/ s >= 1
  BY PartsOfCommitInv DEF CommitTypeOK
<1>4. record \in Record /\ d \in SUBSET Op /\ s \in 0..MaxRevision /\ x \in SUBSET Op
  BY TypesOfCommitInv, RecordFacts, PartsOfCommitInv, CommitAssumption DEF CommitTypeOK
<1>5. CommitTypeOK'
  <2>1. CommitTypeOK /\ job' \in [Lease -> Job]
    BY PartsOfCommitInv DEF SetJob, CommitTypeOK
  <2>2. TypeOK'
    BY <1>1, StutterKeepsInv, PartsOfCommitInv DEF LeaseInv
  <2>3. room' \in [Lease -> SUBSET Op] /\ shown' \in [Lease -> 0..MaxRevision] /\ told' \in SUBSET Op
    BY <1>4, <2>1 DEF CommitTypeOK
  <2>4. opened' \in [Lease -> BOOLEAN]
    BY <2>1 DEF CommitTypeOK
  <2> QED
    BY <1>1, <2>1, <2>2, <2>3, <2>4 DEF CommitTypeOK
<1>6. ShownInv(l)'
  <2>1. ShownInv(l)
    BY PartsOfCommitInv
  <2>2. opened'[l] => s >= 1
    BY <1>3, <2>1 DEF ShownInv
  <2>3. Current(l)' => Current(l)
    BY <1>1 DEF Current
  <2>4. Current(l) => x \subseteq record.state /\ s <= record.revision
    BY <1>4, <2>1, RecordFacts DEF ShownInv
  <2> QED
    BY <1>1, <1>3, <2>2, <2>3, <2>4 DEF ShownInv
<1>7. ASSUME NEW w \in writes'
      PROVE  WriteInv(w)'
  <2>1. w \in Write /\ WriteInv(w)
    BY <1>1, PartsOfCommitInv
  <2>2. w.waited => w.id # l /\ w.id \in Lease
    BY <2>1 DEF WriteInv, Write
  <2> QED
    BY <1>1, <1>2, <2>1, <2>2, WriteStays
<1>8. NothingToldIsLost'
  BY <1>1, PartsOfCommitInv DEF NothingToldIsLost
<1> QED
  BY <1>1, <1>3, <1>5, <1>6, <1>7, <1>8, RoomMoves

\* What a committed job may take in.
LEMMA CommittedIsStored ==
    ASSUME CommitInv, NEW l \in Lease, Active(l),
           job[l].op \in Committing, job[l].stage = "true"
    PROVE  /\ kind[l] = "edit" /\ version > 0 /\ Current(l)
           /\ Candidate(job[l]).state \in SUBSET record.state
<1>1. JobInv(l) /\ AnswerInv(l)
  BY PartsOfCommitInv
<1>2. kind[l] = "edit" /\ version > 0
  BY <1>1 DEF JobInv
<1>3. Current(l)
  BY <1>2, ActiveIsCurrent
<1> QED
  BY <1>1, <1>2, <1>3 DEF AnswerInv

LEMMA CoordinatedIsStored ==
    ASSUME CommitInv, NEW l \in Lease, Admitted(l), job[l].snap.version > 0,
           job[l].op \in {"load", "merge"}, job[l].stage = "accepted"
    PROVE  /\ kind[l] = "edit" /\ version > 0 /\ Current(l)
           /\ job[l].doc \in SUBSET record.state
           /\ job[l].snap.record.revision \in 0..record.revision
           /\ job[l].snap.record.revision >= 1
<1>1. JobInv(l) /\ AnswerInv(l) /\ ReadingInv(job[l].snap)
  BY PartsOfCommitInv
<1>2. kind[l] = "edit" /\ version > 0
  BY <1>1 DEF JobInv, Committing
<1>3. Current(l)
  BY <1>2, ActiveIsCurrent DEF Admitted
<1>4. job[l].snap.generation = generation
  BY <1>1, <1>3, NullAssumption DEF Admitted, ReadingInv, Current
<1>5. job[l].snap.record.revision \in Int /\ 1 <= job[l].snap.record.revision
  BY <1>1, RecordFacts DEF ReadingInv
<1>6. record.revision \in Int
  BY <1>2, TypesOfCommitInv, RecordFacts
<1> QED
  BY <1>1, <1>2, <1>3, <1>4, <1>5, <1>6 DEF AnswerInv, ReadingInv

LEMMA SnapshotIsStored ==
    ASSUME CommitInv, NEW l \in Lease, Admitted(l), job[l].snap.version > 0, job[l].op = "sync"
    PROVE  /\ kind[l] = "edit" /\ version > 0 /\ Current(l)
           /\ job[l].snap.record.state \in SUBSET record.state
           /\ job[l].snap.record.revision \in 0..record.revision
           /\ job[l].snap.record.revision >= 1
<1>1. JobInv(l) /\ ReadingInv(job[l].snap) /\ job[l].snap.version \in Nat
  BY PartsOfCommitInv DEF Job, RowType
<1>2. kind[l] = "edit" /\ version > 0
  BY <1>1, TypesOfCommitInv DEF JobInv, ReadingInv
<1>3. Current(l)
  BY <1>2, ActiveIsCurrent DEF Admitted
<1>4. job[l].snap.generation = generation
  BY <1>1, <1>3, NullAssumption DEF Admitted, ReadingInv, Current
<1>5. job[l].snap.record.revision \in Int /\ 1 <= job[l].snap.record.revision
  BY <1>1, RecordFacts DEF ReadingInv
<1>6. record.revision \in Int
  BY <1>2, TypesOfCommitInv, RecordFacts
<1> QED
  BY <1>1, <1>2, <1>3, <1>4, <1>5, <1>6 DEF ReadingInv

LEMMA FinishSaveKeeps ==
    ASSUME CommitInv, NEW l \in Lease, FinishSave(l)
    PROVE  CommitInv'
<1> DEFINE d == Candidate(job[l]).state
<1>1. /\ phase[l] = "open" /\ job[l].op \in Committing /\ job[l].stage = "true" /\ Active(l)
      /\ Tell(l, d) /\ SetJob(l, NoJob)
      /\ UNCHANGED <<vars, cloud, shown, opened, writes>>
  BY DEF FinishSave, Committing
<1>2. /\ kind[l] = "edit" /\ version > 0 /\ Current(l)
      /\ d \in SUBSET record.state
  BY <1>1, CommittedIsStored
<1> HIDE DEF d
<1>3. /\ room' = [room EXCEPT ![l] = room[l] \cup d]
      /\ told' = told \cup d
  BY <1>1 DEF Tell
<1>4. shown' = [shown EXCEPT ![l] = shown[l]] /\ shown[l] \in 0..record.revision
  <2>1. shown \in [Lease -> 0..MaxRevision] /\ ShownInv(l)
    BY PartsOfCommitInv DEF CommitTypeOK
  <2>2. shown[l] <= record.revision /\ shown[l] \in Int /\ 0 <= shown[l]
    BY <1>2, <2>1, CommitAssumption DEF ShownInv
  <2> QED
    BY <1>1, <1>2, <2>1, <2>2, TypesOfCommitInv, RecordFacts
<1>5. job'[l] = NoJob
  BY <1>1, PartsOfCommitInv DEF SetJob, CommitTypeOK
<1>6. JobInv(l)' /\ AnswerInv(l)'
  BY <1>5, NoJobType DEF JobInv, AnswerInv, Committing
<1>7. room[l] \cup d \in SUBSET (room[l] \cup d)
  OBVIOUS
<1>8. /\ job[l].stage # "sent" /\ opened' = opened /\ UNCHANGED <<vars, cloud, writes>>
      /\ NoJob \in Job /\ NoJob.snap = NoRow
  BY <1>1, NoJobType
<1> QED
  BY <1>1, <1>2, <1>3, <1>4, <1>6, <1>7, <1>8, TellMoves

LEMMA FinishCoordinationKeeps ==
    ASSUME CommitInv, NEW l \in Lease, FinishCoordination(l)
    PROVE  CommitInv'
<1> DEFINE d == job[l].doc
           s == job[l].snap.record.revision
<1>1. /\ phase[l] = "open" /\ job[l].op \in {"load", "merge"} /\ job[l].stage = "accepted"
      /\ Admitted(l) /\ job[l].snap.version > 0
      /\ shown' = [shown EXCEPT ![l] = s]
      /\ opened' = opened /\ UNCHANGED <<vars, cloud, writes>>
  BY DEF FinishCoordination
<1>2. /\ kind[l] = "edit" /\ version > 0 /\ Current(l)
      /\ d \in SUBSET record.state /\ s \in 0..record.revision /\ s >= 1
  BY <1>1, CoordinatedIsStored
<1>3. \/ Tell(l, d) /\ SetJob(l, NoJob)
      \/ room' = [room EXCEPT ![l] = d] /\ SetJob(l, NewJob("sync", {}, 0)) /\ told' = told
  BY DEF FinishCoordination
<1> HIDE DEF d, s
<1>4. CASE Tell(l, d) /\ SetJob(l, NoJob)
  <2>1. /\ room' = [room EXCEPT ![l] = room[l] \cup d] /\ told' \in {told, told \cup d}
        /\ room[l] \cup d \in SUBSET (room[l] \cup d)
    BY <1>4 DEF Tell
  <2>2. job'[l] = NoJob
    BY <1>4, PartsOfCommitInv DEF SetJob, CommitTypeOK
  <2>3. JobInv(l)' /\ AnswerInv(l)'
    BY <2>2, NoJobType DEF JobInv, AnswerInv, Committing
  <2>4. NoJob \in Job /\ NoJob.snap = NoRow
    BY NoJobType
  <2> QED
    BY <1>1, <1>2, <1>4, <2>1, <2>3, <2>4, TellMoves
<1>5. CASE room' = [room EXCEPT ![l] = d] /\ SetJob(l, NewJob("sync", {}, 0)) /\ told' = told
  <2>1. 0 \in 0..MaxRevision /\ {} \in SUBSET Op /\ "sync" \in JobKind
    BY CommitAssumption DEF JobKind
  <2>2. PICK j \in Job : /\ j = NewJob("sync", {}, 0) /\ j.op = "sync" /\ j.stage = "read"
                         /\ j.snap = NoRow
    BY <2>1, NewJobFields
  <2>3. job'[l] = j /\ phase' = phase /\ kind' = kind
    BY <1>1, <1>5, <2>2, PartsOfCommitInv DEF SetJob, CommitTypeOK, vars, holderVars
  <2>4. JobInv(l)' /\ AnswerInv(l)'
    BY <1>1, <1>2, <2>2, <2>3 DEF JobInv, AnswerInv, Committing
  <2>5. d \in SUBSET (room[l] \cup d) /\ told' \in {told, told \cup d}
    BY <1>5
  <2> QED
    BY <1>1, <1>2, <1>5, <2>2, <2>4, <2>5, TellMoves
<1> QED
  BY <1>3, <1>4, <1>5

LEMMA AcceptSnapshotKeeps ==
    ASSUME CommitInv, NEW l \in Lease, AcceptSnapshot(l)
    PROVE  CommitInv'
<1> DEFINE d == job[l].snap.record.state
           s == job[l].snap.record.revision
<1>1. /\ phase[l] = "open" /\ job[l].op = "sync" /\ job[l].stage = "answered"
      /\ Admitted(l) /\ job[l].snap.version > 0
      /\ Tell(l, d) /\ SetJob(l, NoJob)
      /\ shown' = [shown EXCEPT ![l] = s]
      /\ opened' = [opened EXCEPT ![l] = TRUE] /\ UNCHANGED <<vars, cloud, writes>>
  BY DEF AcceptSnapshot
<1>2. /\ kind[l] = "edit" /\ version > 0 /\ Current(l)
      /\ d \in SUBSET record.state /\ s \in 0..record.revision /\ s >= 1
  BY <1>1, SnapshotIsStored
<1> HIDE DEF d, s
<1>3. /\ room' = [room EXCEPT ![l] = room[l] \cup d] /\ told' \in {told, told \cup d}
      /\ room[l] \cup d \in SUBSET (room[l] \cup d)
  BY <1>1 DEF Tell
<1>4. job'[l] = NoJob
  BY <1>1, PartsOfCommitInv DEF SetJob, CommitTypeOK
<1>5. JobInv(l)' /\ AnswerInv(l)'
  BY <1>4, NoJobType DEF JobInv, AnswerInv, Committing
<1>6. NoJob \in Job /\ NoJob.snap = NoRow /\ job[l].stage # "sent"
  BY <1>1, NoJobType
<1> QED
  BY <1>1, <1>2, <1>3, <1>5, <1>6, TellMoves

-----------------------------------------------------------------------------
(* A recovery begins                                                        *)

LEMMA ClaimRecoveryKeeps ==
    ASSUME CommitInv, NEW l \in Lease, ClaimRecovery(l)
    PROVE  CommitInv'
<1>1. /\ StartClaim(l, "recovery", Proposed(l))
      /\ SetJob(l, [NoJob EXCEPT !.op = "recover", !.snap = Row, !.source = cloud])
      /\ UNCHANGED <<cloud, room, shown, opened, writes, told>>
  BY DEF ClaimRecovery, roomVars
<1>2. LeasesMove /\ LeaseInv'
  BY <1>1, StartClaimMoves, StartClaimKeepsInv, FreshIds, PartsOfCommitInv DEF Kind
<1>3. /\ UNCHANGED <<generation, version, record, backups, receipt>>
      /\ phase[l] = "idle" /\ phase' = [phase EXCEPT ![l] = "claiming"]
      /\ kind' = [kind EXCEPT ![l] = "recovery"]
  BY <1>1 DEF StartClaim, storeVars
<1>4. /\ phase'[l] = "claiming" /\ kind'[l] = "recovery"
      /\ \A m \in Lease : m # l => phase'[m] = phase[m] /\ kind'[m] = kind[m]
  BY <1>3, TypesOfCommitInv
<1>5. cloud \in Revision /\ cloud \in 0..MaxRevision
  BY PartsOfCommitInv, CommitAssumption DEF CommitTypeOK, Revision
<1>6. PICK j \in Job : /\ j = [NoJob EXCEPT !.op = "recover", !.snap = Row, !.source = cloud]
                       /\ j.op = "recover" /\ j.stage = "start"
                       /\ j.source = cloud /\ j.snap = Row
  <2>1. "start" \in Stage /\ 0 \in 0..Attempts /\ "recover" \in JobKind /\ Row \in RowType
    BY RowIsReading, CommitAssumption DEF Stage, JobKind
  <2> DEFINE k == [NoJob EXCEPT !.op = "recover", !.snap = Row, !.source = cloud]
  <2>2. k \in Job
    BY <1>5, <2>1 DEF NoJob, Job
  <2>3. k.op = "recover" /\ k.stage = "start" /\ k.source = cloud /\ k.snap = Row
    BY DEF NoJob
  <2> QED
    BY <2>2, <2>3
<1>7. job'[l] = j /\ \A m \in Lease : m # l => job'[m] = job[m]
  BY <1>1, <1>6, PartsOfCommitInv DEF SetJob, CommitTypeOK
<1>8. CommitTypeOK'
  <2>1. CommitTypeOK /\ job' \in [Lease -> Job]
    BY <1>1, <1>6, PartsOfCommitInv DEF SetJob, CommitTypeOK
  <2> QED
    BY <1>1, <1>2, <2>1 DEF CommitTypeOK, LeaseInv
<1>9. ClaimsInv'
  <2>1. \A m \in Lease : job'[m].snap \in {job[m].snap, NoRow, Row}
    BY <1>6, <1>7
  <2> QED
    BY <1>2, <2>1, LeasesMoveKeepsClaims DEF LeaseInv
<1>10. ASSUME NEW m \in Lease
       PROVE  JobInv(m)' /\ ReadingInv(job[m].snap)' /\ AnswerInv(m)' /\ ShownInv(m)'
  <2>1. CASE m = l
    <3>1. JobInv(l)' /\ AnswerInv(l)'
      BY <1>4, <1>5, <1>6, <1>7 DEF JobInv, AnswerInv, Committing
    <3>2. ShownInv(l)'
      BY <1>1, <1>3, <1>4, PartsOfCommitInv DEF ShownInv, Current
    <3>3. ReadingInv(j.snap)
      BY <1>6, RowIsReading
    <3>4. ReadingInv(job[l].snap)'
      BY <1>3, <1>7, <3>3, ReadingStays
    <3> QED
      BY <2>1, <3>1, <3>2, <3>4
  <2>2. CASE m # l
    BY <1>1, <1>3, <1>4, <1>7, <2>2, RoomStays, ReadingStays, PartsOfCommitInv
  <2> QED
    BY <2>1, <2>2
<1>11. ASSUME NEW w \in writes'
       PROVE  WriteInv(w)'
  <2>1. w \in Write /\ WriteInv(w)
    BY <1>1, PartsOfCommitInv
  <2>2. w.waited => w.id # l /\ w.id \in Lease
    BY <1>3, <2>1 DEF WriteInv, Write
  <2> QED
    BY <1>3, <1>4, <1>7, <2>1, <2>2, WriteStays
<1>12. NothingToldIsLost'
  BY <1>1, <1>3, ToldStays, PartsOfCommitInv
<1> QED
  BY <1>2, <1>8, <1>9, <1>10, <1>11, <1>12 DEF CommitInv

-----------------------------------------------------------------------------
(* The store runs a write, or it is lost                                    *)

\* An answer moves the job that waits for it, and no other write is waited for
\* by that job.
LEMMA AnswerMoves ==
    ASSUME CommitInv, NEW w \in writes, NEW outcome \in {"true", "false", "raise"},
           Answered(w, outcome)
    PROVE  /\ job' \in [Lease -> Job]
           /\ \A m \in Lease : /\ job'[m].op = job[m].op /\ job'[m].doc = job[m].doc
                               /\ job'[m].source = job[m].source /\ job'[m].snap = job[m].snap
                               /\ Candidate(job[m])' = Candidate(job[m])
                               /\ ~w.waited \/ m # w.id => job'[m] = job[m]
           /\ w.waited => job'[w.id].stage = outcome
           /\ \A v \in writes \ {w} : v.waited => job'[v.id] = job[v.id]
<1>0. PICK l \in Lease : l = w.id
  BY PartsOfCommitInv DEF Write
<1>1. w \in Write /\ WriteInv(w) /\ job \in [Lease -> Job] /\ outcome \in Stage
  BY PartsOfCommitInv DEF CommitTypeOK, Stage
<1>2. CASE ~w.waited
  <2>1. job' = job
    BY <1>2 DEF Answered
  <2> QED
    BY <1>1, <1>2, <2>1 DEF Candidate, Coordinated
<1>3. CASE w.waited
  <2>1. PICK j \in Job : /\ j = [job[l] EXCEPT !.stage = outcome]
                         /\ j.op = job[l].op /\ j.stage = outcome
                         /\ j.doc = job[l].doc /\ j.source = job[l].source /\ j.snap = job[l].snap
    <3>1. PICK i \in Job : i = job[l]
      BY <1>1
    <3>2. \E j \in Job : /\ j = [i EXCEPT !.stage = outcome]
                         /\ j.op = i.op /\ j.stage = outcome
                         /\ j.doc = i.doc /\ j.source = i.source /\ j.snap = i.snap
      BY <1>1, StageFields
    <3> QED
      BY <3>1, <3>2
  <2>2. job' = [job EXCEPT ![l] = j]
    BY <1>0, <1>3, <2>1 DEF Answered
  <2>3. job' \in [Lease -> Job] /\ job'[l] = j /\ \A m \in Lease : m # l => job'[m] = job[m]
    BY <1>1, <2>2
  <2>4. ASSUME NEW m \in Lease
        PROVE  /\ job'[m].op = job[m].op /\ job'[m].doc = job[m].doc
               /\ job'[m].source = job[m].source /\ job'[m].snap = job[m].snap
    BY <2>1, <2>3
  <2>5. \A m \in Lease : Candidate(job[m])' = Candidate(job[m])
    BY <2>4 DEF Candidate, Coordinated
  <2>6. ASSUME NEW v \in writes \ {w}, v.waited
        PROVE  v.id # l /\ v.id \in Lease
    BY <1>0, <1>1, <1>3, <2>6, PartsOfCommitInv DEF WriteInv, Write
  <2> QED
    BY <1>0, <1>1, <1>3, <2>1, <2>3, <2>4, <2>5, <2>6
<1> QED
  BY <1>2, <1>3

\* What the store does not run, or refuses, changes nothing but the job.
LEMMA RefusedWriteKeeps ==
    ASSUME CommitInv, NEW w \in writes, NEW outcome \in {"false", "raise"},
           Answered(w, outcome), writes' = writes \ {w},
           UNCHANGED <<vars, cloud, roomVars, told>>
    PROVE  CommitInv'
<1> DEFINE l == w.id
<1>1. /\ UNCHANGED <<generation, version, record, phase, kind, receipt, backups>>
      /\ UNCHANGED <<vars, room, shown, opened, cloud, told>>
  BY DEF vars, storeVars, holderVars, roomVars
<1>2. w \in Write /\ WriteInv(w) /\ l \in Lease
  BY PartsOfCommitInv DEF Write
<1>3. /\ job' \in [Lease -> Job]
      /\ \A m \in Lease : m # l => job'[m] = job[m]
      /\ ~w.waited => job'[l] = job[l]
      /\ w.waited => job'[l].stage = outcome
      /\ job'[l].op = job[l].op /\ job'[l].snap = job[l].snap /\ job'[l].source = job[l].source
      /\ \A v \in writes \ {w} : v.waited => job'[v.id] = job[v.id]
  BY <1>2, AnswerMoves
<1>4. PICK j \in Job : j = job'[l]
  BY <1>2, <1>3
<1>5. SetJob(l, j) /\ j.snap = job[l].snap
  BY <1>2, <1>3, <1>4, PartsOfCommitInv DEF SetJob, CommitTypeOK
<1>6. CommitTypeOK'
  <2>1. CommitTypeOK
    BY PartsOfCommitInv
  <2>2. TypeOK'
    BY <1>1, StutterKeepsInv, PartsOfCommitInv DEF LeaseInv
  <2> QED
    BY <1>1, <1>3, <2>1, <2>2 DEF CommitTypeOK
<1>7. JobInv(l)' /\ AnswerInv(l)'
  <2>1. CASE w.waited
    <3>1. job[l].stage = "sent" /\ job[l].op \in Committing \cup {"recover"} /\ JobInv(l)
      BY <1>2, <2>1, PartsOfCommitInv DEF WriteInv
    <3> QED
      BY <1>1, <1>3, <2>1, <3>1 DEF JobInv, AnswerInv, Committing
  <2>2. CASE ~w.waited
    BY <1>1, <1>2, <1>3, <2>2, RoomStays
  <2> QED
    BY <2>1, <2>2
<1>8. ShownInv(l)'
  BY <1>1, <1>2, PartsOfCommitInv DEF ShownInv, Current
<1>9. \A v \in writes' : WriteInv(v)'
  BY <1>1, <1>3, WriteStays, PartsOfCommitInv
<1>10. NothingToldIsLost'
  BY <1>1, ToldStays, PartsOfCommitInv
<1> QED
  BY <1>1, <1>2, <1>5, <1>6, <1>7, <1>8, <1>9, <1>10, RoomMoves

\* A write of the version it read: the record only grows.
LEMMA CommittedWriteKeeps ==
    ASSUME CommitInv, NEW w \in writes, w.op = "exchange",
           Exchange(w.id, w.generation, w.version, w.record),
           Answered(w, "true"), writes' = writes \ {w},
           UNCHANGED <<holderVars, cloud, roomVars, told>>
    PROVE  CommitInv'
<1> DEFINE l == w.id
<1>1. w \in Write /\ WriteInv(w) /\ l \in Lease /\ w.generation \in Generation /\ w.record \in Record
  BY PartsOfCommitInv DEF Write
<1>2. /\ w.version = version /\ LiveAs(l, w.generation, "edit")
      /\ version > 0 => generation = w.generation
      /\ generation' = w.generation /\ version' = version + 1 /\ record' = w.record
      /\ UNCHANGED <<now, leases, backups>>
  BY DEF Exchange, ExchangeWrites
<1>3. UNCHANGED <<lag, phase, kind, started, receipt, deadline, renewal, calls, room, shown, opened>>
  BY DEF holderVars, roomVars
<1>4. LeaseInv'
  <2>1. WriteRoom
    BY <1>1, <1>2 DEF WriteRoom
  <2> QED
    BY <2>1, WriteRoomKeepsInv, PartsOfCommitInv
<1>5. /\ job' \in [Lease -> Job]
      /\ \A m \in Lease : /\ job'[m].op = job[m].op /\ job'[m].doc = job[m].doc
                          /\ job'[m].source = job[m].source /\ job'[m].snap = job[m].snap
                          /\ Candidate(job[m])' = Candidate(job[m])
                          /\ ~w.waited \/ m # l => job'[m] = job[m]
      /\ w.waited => job'[l].stage = "true"
      /\ \A v \in writes \ {w} : v.waited => job'[v.id] = job[v.id]
  BY AnswerMoves
<1>6. version \in Nat /\ version' > 0
  BY <1>2, TypesOfCommitInv
<1>7. version > 0 => /\ record.state \subseteq record'.state
                     /\ record.revision <= record'.revision
                     /\ record.revision \in Int /\ record'.revision \in Int
  BY <1>1, <1>2, TypesOfCommitInv, RecordFacts DEF WriteInv
<1>8. CommitTypeOK'
  <2>1. CommitTypeOK
    BY PartsOfCommitInv
  <2> QED
    BY <1>3, <1>4, <1>5, <2>1 DEF CommitTypeOK, LeaseInv
<1>9. ClaimsInv'
  <2>1. ClaimsInv
    BY PartsOfCommitInv
  <2>2. Known(w.generation)
    BY <1>2 DEF LiveAs, Known
  <2>3. \A m \in Lease : Known(Fresh(m))' => Known(Fresh(m))
    BY <1>2, <1>3, <1>5, <2>2 DEF Known, Fresh
  <2>4. \A m \in Lease : Spent(m) => Spent(m)'
    BY <1>2, <1>3 DEF Spent
  <2> QED
    BY <1>2, <1>3, <2>1, <2>3, <2>4 DEF ClaimsInv, Fresh, Proposed
<1>10. ASSUME NEW m \in Lease
       PROVE  JobInv(m)' /\ ReadingInv(job[m].snap)' /\ AnswerInv(m)' /\ ShownInv(m)'
  <2>1. /\ JobInv(m) /\ ReadingInv(job[m].snap) /\ AnswerInv(m) /\ ShownInv(m)
        /\ job[m].snap.version \in Nat
    BY PartsOfCommitInv DEF Job, RowType
  <2>2. Current(m)' => version = 0 \/ Current(m)
    BY <1>2, <1>3, <1>6 DEF Current
  <2>3. w.waited /\ m = l => /\ job[m].stage = "sent" /\ job[m].op \in Committing
                             /\ Candidate(job[m]) = w.record
    BY <1>1 DEF WriteInv, SentWrite
  <2>4. JobInv(m)'
    <3>1. CASE w.waited /\ m = l
      BY <1>3, <1>5, <1>6, <2>1, <2>3, <3>1 DEF JobInv, Committing
    <3>2. CASE ~(w.waited /\ m = l)
      BY <1>3, <1>5, <1>6, <2>1, <3>2 DEF JobInv, Committing
    <3> QED
      BY <3>1, <3>2
  <2>5. ReadingInv(job[m].snap)'
    <3>1. PICK s \in RowType : s = job[m].snap /\ s = job'[m].snap
      BY <1>5, PartsOfCommitInv DEF Job
    <3>2. ReadingInv(s) /\ s.version \in Nat
      BY <2>1, <3>1
    <3>3. s.version > 0 => s.record.revision \in Int
      BY <3>2, RecordFacts DEF ReadingInv
    <3>4. ReadingInv(s)'
      BY <1>2, <1>6, <1>7, <3>2, <3>3 DEF ReadingInv
    <3> QED
      BY <3>1, <3>4
  <2>6. AnswerInv(m)'
    <3>1. CASE w.waited /\ m = l
      BY <1>2, <1>5, <2>3, <3>1 DEF AnswerInv
    <3>2. CASE ~(w.waited /\ m = l)
      BY <1>5, <1>6, <1>7, <2>1, <2>2, <3>2 DEF AnswerInv, JobInv, Current, Committing
    <3> QED
      BY <3>1, <3>2
  <2>7. ShownInv(m)'
    <3>1. Current(m)' => room[m] \subseteq record'.state /\ shown[m] <= record'.revision
      <4>1. CASE version = 0
        BY <1>1, <1>2, <2>1, <4>1, RecordFacts DEF ShownInv
      <4>2. CASE version > 0 /\ Current(m)
        <5>1. shown[m] \in Int
          BY PartsOfCommitInv, CommitAssumption DEF CommitTypeOK
        <5> QED
          BY <1>7, <2>1, <4>2, <5>1 DEF ShownInv
      <4> QED
        BY <2>2, <4>1, <4>2 DEF Current
    <3> QED
      BY <1>3, <1>6, <2>1, <3>1 DEF ShownInv
  <2> QED
    BY <2>4, <2>5, <2>6, <2>7
<1>11. ASSUME NEW v \in writes'
       PROVE  WriteInv(v)'
  <2>1. v \in writes \ {w} /\ v \in Write /\ WriteInv(v) /\ v.version \in Nat /\ v.id \in Lease
    BY PartsOfCommitInv DEF Write
  <2>2. v.op = "exchange" /\ v.version > 0 => v.version < version'
    BY <1>2, <1>6, <2>1 DEF WriteInv
  <2>3. v.waited => job'[v.id] = job[v.id] /\ SentWrite(v.id)' = SentWrite(v.id)
    BY <1>3, <1>5, <2>1 DEF SentWrite
  <2> QED
    BY <1>2, <1>3, <1>6, <2>1, <2>2, <2>3 DEF WriteInv
<1>12. NothingToldIsLost'
  BY <1>2, <1>6, <1>7, PartsOfCommitInv DEF NothingToldIsLost
<1> QED
  BY <1>4, <1>8, <1>9, <1>10, <1>11, <1>12 DEF CommitInv

LEMMA RunExchangeKeeps ==
    ASSUME CommitInv, NEW w \in writes, RunExchange(w)
    PROVE  CommitInv'
<1> DEFINE outcome == ExchangeOutcome(w.id, w.generation, w.version)
<1>1. /\ w.op = "exchange" /\ Answered(w, outcome) /\ writes' = writes \ {w}
      /\ UNCHANGED <<holderVars, cloud, roomVars, told>>
      /\ outcome \in {"true", "false", "raise"}
      /\ outcome = "true" => Exchange(w.id, w.generation, w.version, w.record)
      /\ outcome # "true" => UNCHANGED storeVars
  BY DEF RunExchange, ExchangeOutcome
<1> HIDE DEF outcome
<1>2. CASE outcome = "true"
  BY <1>1, <1>2, CommittedWriteKeeps
<1>3. CASE outcome # "true"
  BY <1>1, <1>3, RefusedWriteKeeps DEF vars
<1> QED
  BY <1>2, <1>3

\* A recovery starts a generation that nobody knows: nothing that was read or
\* answered before speaks of the new row.
LEMMA RecoveredKeeps ==
    ASSUME CommitInv, NEW w \in writes, w.op = "recover",
           Recover(w.id, w.generation, Fresh(w.id), w.sha, w.record),
           Answered(w, "true"), writes' = writes \ {w},
           UNCHANGED <<holderVars, cloud, roomVars, told>>
    PROVE  CommitInv'
<1>0. PICK l \in Lease : l = w.id
  BY PartsOfCommitInv DEF Write
<1>1. w \in Write /\ WriteInv(w) /\ w.generation \in Generation /\ w.record \in Record
  BY PartsOfCommitInv DEF Write
<1>2. /\ version > 0 /\ record = w.sha /\ LiveAs(l, w.generation, "recovery")
      /\ generation' = Fresh(l) /\ version' = version + 1 /\ record' = w.record
      /\ leases' = {} /\ now' = now
      /\ \/ backups' = backups /\ \E b \in backups : b.record = record
         \/ backups' = backups \cup {[generation |-> w.generation, record |-> record]}
  BY <1>0 DEF Recover, Recoverable
<1>3. UNCHANGED <<lag, phase, kind, started, receipt, deadline, renewal, calls, room, shown, opened>>
  BY DEF holderVars, roomVars
<1>4. LeaseInv'
  <2>1. Recover(w.id, w.generation, Fresh(w.id), record, w.record)
    BY <1>2
  <2>2. WriteRoom
    BY <1>0, <1>1, <2>1, FreshIds DEF WriteRoom
  <2> QED
    BY <2>2, WriteRoomKeepsInv, PartsOfCommitInv
<1>5. /\ job' \in [Lease -> Job]
      /\ \A m \in Lease : /\ job'[m].op = job[m].op /\ job'[m].doc = job[m].doc
                          /\ job'[m].source = job[m].source /\ job'[m].snap = job[m].snap
                          /\ ~w.waited \/ m # l => job'[m] = job[m]
      /\ w.waited => job'[l].stage = "true"
      /\ \A v \in writes \ {w} : v.waited => job'[v.id] = job[v.id]
  BY <1>0, AnswerMoves
<1>6. version \in Nat /\ version' > 0
  BY <1>2, TypesOfCommitInv
<1>7. /\ Spent(l)'
      /\ ~Known(Fresh(l))
  <2>1. PICK r \in leases : r.id = l
    BY <1>2 DEF LiveAs
  <2>2. ClaimsInv
    BY PartsOfCommitInv
  <2>3. phase[l] # "idle" /\ \A c \in calls : c.op = "claim" => c.id # l
    BY <2>1, <2>2 DEF ClaimsInv
  <2>4. ~Spent(l)
    BY <2>1 DEF Spent
  <2> QED
    BY <1>2, <1>3, <2>2, <2>3, <2>4 DEF ClaimsInv, Spent
<1>8. CommitTypeOK'
  <2>1. CommitTypeOK
    BY PartsOfCommitInv
  <2> QED
    BY <1>3, <1>4, <1>5, <2>1 DEF CommitTypeOK, LeaseInv
<1>9. ClaimsInv'
  <2>1. ClaimsInv
    BY PartsOfCommitInv
  <2>2. \A m \in Lease : Known(Fresh(m))' => m = l \/ Known(Fresh(m))
    <3>1. \A m \in Lease : Fresh(m) = Fresh(l) => m = l
      BY FreshIds
    <3> QED
      BY <1>2, <1>3, <1>5, <3>1 DEF Known, Fresh
  <2>3. \A m \in Lease : Spent(m) => Spent(m)'
    BY <1>2, <1>3 DEF Spent
  <2>4. \A m \in Lease : Known(Fresh(m))' => Spent(m)'
    BY <1>7, <2>1, <2>2, <2>3 DEF ClaimsInv
  <2> QED
    BY <1>2, <1>3, <2>1, <2>4 DEF ClaimsInv, Fresh, Proposed
<1>10. \A m \in Lease : ~Current(m)'
  BY <1>2, <1>3, <1>7 DEF Current, Known
<1>11. ASSUME NEW m \in Lease
       PROVE  JobInv(m)' /\ ReadingInv(job[m].snap)' /\ AnswerInv(m)' /\ ShownInv(m)'
  <2>1. JobInv(m) /\ ReadingInv(job[m].snap) /\ ShownInv(m)
    BY PartsOfCommitInv
  <2>2. w.waited /\ m = l => job[m].op = "recover"
    BY <1>0, <1>1 DEF WriteInv, SentWrite
  <2>3. JobInv(m)'
    <3>1. CASE w.waited /\ m = l
      BY <1>3, <1>5, <2>1, <2>2, <3>1 DEF JobInv, Committing
    <3>2. CASE ~(w.waited /\ m = l)
      BY <1>3, <1>5, <1>6, <2>1, <3>2 DEF JobInv, Committing
    <3> QED
      BY <3>1, <3>2
  <2>4. ReadingInv(job[m].snap)'
    <3>1. PICK s \in RowType : s = job[m].snap /\ s = job'[m].snap
      BY <1>5, PartsOfCommitInv DEF Job
    <3>2. ReadingInv(s) /\ s.version \in Nat /\ s.generation # Fresh(l)
      BY <1>7, <2>1, <3>1 DEF RowType, Known
    <3>3. ReadingInv(s)'
      BY <1>2, <1>6, <3>2 DEF ReadingInv
    <3> QED
      BY <3>1, <3>3
  <2>5. AnswerInv(m)' /\ ShownInv(m)'
    BY <1>3, <1>6, <1>10, <2>1 DEF AnswerInv, ShownInv
  <2> QED
    BY <2>3, <2>4, <2>5
<1>12. ASSUME NEW v \in writes'
       PROVE  WriteInv(v)'
  <2>1. v \in writes \ {w} /\ v \in Write /\ WriteInv(v) /\ v.version \in Nat /\ v.id \in Lease
    BY PartsOfCommitInv DEF Write
  <2>2. v.op = "exchange" /\ v.version > 0 => v.version < version'
    BY <1>2, <1>6, <2>1 DEF WriteInv
  <2>3. v.waited => job'[v.id] = job[v.id] /\ SentWrite(v.id)' = SentWrite(v.id)
    BY <1>3, <1>5, <2>1 DEF SentWrite, Candidate, Coordinated
  <2> QED
    BY <1>2, <1>3, <1>6, <2>1, <2>2, <2>3 DEF WriteInv
<1>13. NothingToldIsLost'
  <2> DEFINE kept == [generation |-> w.generation, record |-> record]
  <2>0. kept.record = record
    OBVIOUS
  <2> HIDE DEF kept
  <2>1. \E b \in backups' : b.record = record
    <3>1. CASE backups' = backups \cup {kept}
      BY <2>0, <3>1
    <3> QED
      BY <1>2, <3>1 DEF kept
  <2>2. backups \subseteq backups'
    BY <1>2
  <2> QED
    BY <2>1, <2>2, PartsOfCommitInv DEF NothingToldIsLost
<1> QED
  BY <1>4, <1>8, <1>9, <1>11, <1>12, <1>13 DEF CommitInv

LEMMA RunRecoveryKeeps ==
    ASSUME CommitInv, NEW w \in writes, RunRecovery(w)
    PROVE  CommitInv'
<1>1. /\ w.op = "recover" /\ writes' = writes \ {w}
      /\ UNCHANGED <<holderVars, cloud, roomVars, told>>
  BY DEF RunRecovery
<1>2. CASE Recoverable(w.id, w.generation, Fresh(w.id), w.sha)
  <2>1. Recover(w.id, w.generation, Fresh(w.id), w.sha, w.record) /\ Answered(w, "true")
    BY <1>2 DEF RunRecovery
  <2> QED
    BY <1>1, <2>1, RecoveredKeeps
<1>3. CASE ~Recoverable(w.id, w.generation, Fresh(w.id), w.sha)
  <2>1. UNCHANGED storeVars /\ Answered(w, "raise")
    BY <1>3 DEF RunRecovery
  <2> QED
    BY <1>1, <2>1, RefusedWriteKeeps DEF vars
<1> QED
  BY <1>2, <1>3

\* A write is lost, the cloud copy changes, or nothing happens.
LEMMA QuietKeeps ==
    ASSUME CommitInv, cloud' \in Revision, writes' \subseteq writes,
           UNCHANGED <<vars, roomVars, job, told>>
    PROVE  CommitInv'
<1>1. /\ UNCHANGED <<vars, room, shown, opened, job, told>>
      /\ UNCHANGED <<generation, version, record, leases, calls, phase, kind, receipt, backups>>
  BY DEF roomVars, vars, storeVars, holderVars
<1>2. LeaseInv'
  BY <1>1, StutterKeepsInv, PartsOfCommitInv
<1>3. CommitTypeOK'
  <2>1. CommitTypeOK
    BY PartsOfCommitInv
  <2> QED
    BY <1>1, <1>2, <2>1 DEF CommitTypeOK, LeaseInv
<1>4. ClaimsInv'
  <2>1. ClaimsInv
    BY PartsOfCommitInv
  <2>2. \A m \in Lease : Known(Fresh(m))' => Known(Fresh(m))
    BY <1>1 DEF Known, Fresh
  <2>3. \A m \in Lease : Spent(m) => Spent(m)'
    BY <1>1 DEF Spent
  <2> QED
    BY <1>1, <2>1, <2>2, <2>3 DEF ClaimsInv, Fresh, Proposed
<1>5. \A m \in Lease : JobInv(m)' /\ ReadingInv(job[m].snap)' /\ AnswerInv(m)' /\ ShownInv(m)'
  BY <1>1, RoomStays, ReadingStays, PartsOfCommitInv
<1>6. \A v \in writes' : WriteInv(v)'
  BY <1>1, WriteStays, PartsOfCommitInv
<1>7. NothingToldIsLost'
  BY <1>1, ToldStays, PartsOfCommitInv
<1> QED
  BY <1>2, <1>3, <1>4, <1>5, <1>6, <1>7 DEF CommitInv

-----------------------------------------------------------------------------
(* The invariant                                                            *)

LEMMA InitCommitInv == CommitInit => CommitInv
<1> SUFFICES ASSUME CommitInit
             PROVE  CommitInv
  OBVIOUS
<1>1. LeaseInv
  BY InitEstablishesInv DEF CommitInit
<1>2. /\ version = 0 /\ generation = NoGeneration /\ leases = {} /\ calls = {}
      /\ \A l \in Lease : phase[l] = "idle" /\ receipt[l] = NoReceipt /\ job[l] = NoJob
      /\ \A l \in Lease : room[l] = {} /\ shown[l] = 0 /\ opened[l] = FALSE
      /\ writes = {} /\ told = {}
  BY DEF CommitInit, Init, StoreInit
<1>3. CommitTypeOK
  <2>1. 1 \in Revision /\ 0 \in 0..MaxRevision
    BY CommitAssumption DEF Revision
  <2> QED
    BY <1>1, <2>1, NoJobType DEF CommitInit, CommitTypeOK, LeaseInv
<1>4. ClaimsInv
  <2>1. \A l \in Lease : ~Known(Fresh(l))
    BY <1>2, FreshIds, NoJobType DEF Known, NoReceipt
  <2> QED
    BY <1>2, <2>1 DEF ClaimsInv
<1>5. \A l \in Lease : JobInv(l) /\ ReadingInv(job[l].snap) /\ AnswerInv(l) /\ ShownInv(l)
  BY <1>2, NoJobType DEF JobInv, ReadingInv, AnswerInv, ShownInv, Current, Committing
<1> QED
  BY <1>1, <1>2, <1>3, <1>4, <1>5 DEF CommitInv, NothingToldIsLost

LEMMA StepKeepsCommitInv == CommitInv /\ [CommitNext]_allVars => CommitInv'
<1> SUFFICES ASSUME CommitInv, [CommitNext]_allVars
             PROVE  CommitInv'
  OBVIOUS
<1>1. CASE LeaseProgress
  BY <1>1, LeaseProgressKeeps
<1>2. ASSUME NEW l \in Lease, RoomStep(l)
      PROVE  CommitInv'
  BY <1>2, StartKeeps, ReadRoomKeeps, SendWriteKeeps, RetryKeeps, FinishSaveKeeps,
     CheckRevisionKeeps, AskRevisionKeeps, FinishCoordinationKeeps, AcceptSnapshotKeeps,
     GiveUpKeeps, ClaimRecoveryKeeps, SendRecoveryKeeps
  DEF RoomStep
<1>3. ASSUME NEW w \in writes, RunExchange(w) \/ RunRecovery(w)
      PROVE  CommitInv'
  BY <1>3, RunExchangeKeeps, RunRecoveryKeeps
<1>4. CASE (\E w \in writes : LoseWrite(w)) \/ SaveCloud \/ UNCHANGED allVars
  <2>1. cloud' \in Revision
    BY <1>4, PartsOfCommitInv, CommitAssumption
    DEF LoseWrite, SaveCloud, allVars, commitVars, CommitTypeOK, Revision
  <2>2. writes' \subseteq writes /\ UNCHANGED <<vars, roomVars, job, told>>
    BY <1>4 DEF LoseWrite, SaveCloud, allVars, commitVars, roomVars
  <2> QED
    BY <2>1, <2>2, QuietKeeps
<1> QED
  BY <1>1, <1>2, <1>3, <1>4 DEF CommitNext, WriteStep

\* The inductive invariant of the rooms served under leases.
THEOREM CommitInvariant == CommitSpec => []CommitInv
BY InitCommitInv, StepKeepsCommitInv, PTL DEF CommitSpec

\* Every variable of a room, a job or a write keeps its type.
THEOREM CommitTypeCorrect == CommitSpec => []CommitTypeOK
<1>1. CommitInv => CommitTypeOK
  BY PartsOfCommitInv
<1> QED
  BY <1>1, CommitInvariant, PTL

\* What clients of an active room see is in the stored record, whichever
\* instance, retry, lost answer or late write there was.
THEOREM ActiveRoomsAreStored == CommitSpec => []ActiveRoomIsStored
<1>1. CommitInv => ActiveRoomIsStored
  <2> SUFFICES ASSUME CommitInv, NEW l \in Lease, opened[l], Active(l)
               PROVE  version > 0 /\ room[l] \subseteq record.state
    BY DEF ActiveRoomIsStored
  <2>1. ShownInv(l) /\ version \in Nat
    BY PartsOfCommitInv, TypesOfCommitInv
  <2>2. kind[l] = "edit" /\ version > 0
    BY <2>1 DEF ShownInv
  <2> QED
    BY <2>1, <2>2, ActiveIsCurrent DEF ShownInv
<1> QED
  BY <1>1, CommitInvariant, PTL

\* No operation a client has ever been sent is lost, however many rooms of the
\* diagram were opened, lost and recovered since.
THEOREM ToldIsKept == CommitSpec => []NothingToldIsLost
<1>1. CommitInv => NothingToldIsLost
  BY PartsOfCommitInv
<1> QED
  BY <1>1, CommitInvariant, PTL

\* An active room shows a revision that the shared record has accepted.
THEOREM ShownRevisionIsAccepted == CommitSpec => []ShownIsAccepted
<1>1. CommitInv => ShownIsAccepted
  <2> SUFFICES ASSUME CommitInv, NEW l \in Lease, opened[l], Active(l)
               PROVE  shown[l] \in 1..record.revision
    BY DEF ShownIsAccepted
  <2>1. ShownInv(l) /\ version \in Nat /\ shown[l] \in Int
    BY PartsOfCommitInv, TypesOfCommitInv, CommitAssumption DEF CommitTypeOK
  <2>2. kind[l] = "edit" /\ version > 0
    BY <2>1 DEF ShownInv
  <2>3. record.revision \in Int
    BY <2>2, TypesOfCommitInv, RecordFacts
  <2> QED
    BY <2>1, <2>2, <2>3, ActiveIsCurrent DEF ShownInv
<1> QED
  BY <1>1, CommitInvariant, PTL

-----------------------------------------------------------------------------
(* What one step may not do                                                 *)

\* The steps that change a room are those of an active editor that was admitted
\* to the current generation.
LEMMA RoomTakesIn ==
    ASSUME CommitInv, NEW l \in Lease, RoomStep(l)
    PROVE  room' = room \/ (Current(l) /\ \A m \in Lease : m # l => room'[m] = room[m])
<1>1. CASE FinishSave(l)
  BY <1>1, CommittedIsStored, PartsOfCommitInv DEF FinishSave, Tell, Committing, CommitTypeOK
<1>2. CASE FinishCoordination(l)
  BY <1>2, CoordinatedIsStored, PartsOfCommitInv DEF FinishCoordination, Tell, CommitTypeOK
<1>3. CASE AcceptSnapshot(l)
  BY <1>3, SnapshotIsStored, PartsOfCommitInv DEF AcceptSnapshot, Tell, CommitTypeOK
<1>4. CASE \/ StartLoad(l) \/ StartPoll(l) \/ ReadRoom(l) \/ SendWrite(l) \/ Retry(l)
           \/ \E e \in Edit : StartSave(l, e)
           \/ CheckRevision(l) \/ AskRevision(l) \/ GiveUp(l) \/ ClaimRecovery(l) \/ SendRecovery(l)
  BY <1>4 DEF StartLoad, StartPoll, ReadRoom, SendWrite, Retry, StartSave, CheckRevision,
              AskRevision, GiveUp, ClaimRecovery, SendRecovery, roomVars
<1> QED
  BY <1>1, <1>2, <1>3, <1>4 DEF RoomStep

\* A room takes nothing in after the loss of its lease.
THEOREM NothingIsAcceptedAfterLoss == CommitSpec => NoAcceptanceAfterLoss
<1>1. ASSUME CommitInv, [CommitNext]_allVars, NEW l \in Lease,
             room'[l] # room[l], phase'[l] = "open"
      PROVE  receipt[l].generation = generation
  <2>1. CASE LeaseProgress
    BY <1>1, <2>1 DEF LeaseProgress, DisposeRooms
  <2>2. ASSUME NEW m \in Lease, RoomStep(m)
        PROVE  receipt[l].generation = generation
    BY <1>1, <2>2, RoomTakesIn DEF Current
  <2>3. ASSUME NEW w \in writes, WriteStep(w)
        PROVE  room' = room
    BY <2>3 DEF WriteStep, RunExchange, RunRecovery, LoseWrite, roomVars
  <2>4. CASE SaveCloud \/ UNCHANGED allVars
    BY <1>1, <2>4 DEF SaveCloud, allVars, commitVars, roomVars
  <2> QED
    BY <1>1, <2>1, <2>2, <2>3, <2>4 DEF CommitNext
<1>2. CommitInv /\ [CommitNext]_allVars
        => [\A l \in Lease : room'[l] # room[l] /\ phase'[l] = "open"
              => receipt[l].generation = generation]_allVars
  BY <1>1
<1> QED
  BY <1>2, CommitInvariant, PTL DEF CommitSpec, NoAcceptanceAfterLoss

-----------------------------------------------------------------------------
(* The callers keep the protocol of the leases, and so that of the store    *)

LEMMA CommitStepIsLeaseStep ==
    ASSUME CommitInv, [CommitNext]_allVars
    PROVE  [Next]_vars
<1>1. CASE LeaseProgress
  <2>1. ASSUME NEW l \in Lease, StartClaim(l, "edit", Proposed(l))
        PROVE  HolderStep(l)
    BY <2>1, FreshIds DEF HolderStep, Kind
  <2>2. LeaseStep
    BY <1>1, <2>1 DEF LeaseProgress, LeaseStep, HolderStep
  <2> QED
    BY <2>2 DEF Next
<1>2. ASSUME NEW l \in Lease, RoomStep(l)
      PROVE  [Next]_vars
  <2>1. CASE ClaimRecovery(l)
    <3>1. HolderStep(l)
      BY <2>1, FreshIds DEF ClaimRecovery, HolderStep, Kind
    <3> QED
      BY <3>1 DEF Next, LeaseStep
  <2>2. CASE ~ClaimRecovery(l)
    <3>1. UNCHANGED vars
      BY <1>2, <2>2
      DEF RoomStep, StartLoad, StartPoll, ReadRoom, SendWrite, Retry, StartSave, FinishSave,
          CheckRevision, AskRevision, FinishCoordination, AcceptSnapshot, GiveUp, SendRecovery
    <3> QED
      BY <3>1
  <2> QED
    BY <2>1, <2>2
<1>3. ASSUME NEW w \in writes, WriteStep(w)
      PROVE  [Next]_vars
  <2>1. w.id \in Lease /\ w.generation \in Generation /\ w.record \in Record /\ Fresh(w.id) \in Generation
    BY PartsOfCommitInv, FreshIds DEF Write
  <2>2. CASE RunExchange(w)
    <3>1. CASE Exchange(w.id, w.generation, w.version, w.record) /\ UNCHANGED holderVars
      <4>1. w.version = version
        BY <3>1 DEF Exchange, ExchangeWrites
      <4>2. WriteRoom
        BY <2>1, <3>1, <4>1 DEF WriteRoom
      <4> QED
        BY <4>2 DEF Next
    <3> QED
      BY <2>2, <3>1 DEF RunExchange, vars
  <2>3. CASE RunRecovery(w)
    <3>1. CASE Recover(w.id, w.generation, Fresh(w.id), w.sha, w.record) /\ UNCHANGED holderVars
      <4>1. w.sha = record
        BY <3>1 DEF Recover, Recoverable
      <4>2. WriteRoom
        BY <2>1, <3>1, <4>1 DEF WriteRoom
      <4> QED
        BY <4>2 DEF Next
    <3> QED
      BY <2>3, <3>1 DEF RunRecovery, vars
  <2>4. CASE LoseWrite(w)
    BY <2>4 DEF LoseWrite
  <2> QED
    BY <1>3, <2>2, <2>3, <2>4 DEF WriteStep
<1>4. CASE SaveCloud \/ UNCHANGED allVars
  BY <1>4 DEF SaveCloud, allVars
<1> QED
  BY <1>1, <1>2, <1>3, <1>4 DEF CommitNext

\* The rooms use the leases as RoomLease says: whatever is proved of the leases
\* holds for the rooms served under them.
THEOREM CommitImplementsLeases == CommitSpec => Spec
<1>1. CommitInit => Init
  BY DEF CommitInit
<1>2. CommitInv /\ [CommitNext]_allVars => [Next]_vars
  BY CommitStepIsLeaseStep
<1> QED
  BY <1>1, <1>2, CommitInvariant, PTL DEF CommitSpec, Spec

\* A generation is replaced only when nobody can be editing it.
THEOREM CommitChangeIsFenced == CommitSpec => GenerationChangeIsFenced
BY CommitImplementsLeases, LeasesUseTheStore, StoreGenerationChangeIsFenced, PTL

\* What an owner's recovery replaces is never lost.
THEOREM CommitReplacedIsKept == CommitSpec => ReplacedRecordIsKept
BY CommitImplementsLeases, LeasesUseTheStore, StoreReplacedRecordIsKept, PTL

\* A version of a room names one content for ever.
THEOREM CommitVersionNamesContent == CommitSpec => VersionNamesContent
BY CommitImplementsLeases, LeasesUseTheStore, StoreVersionNamesContent, PTL

-----------------------------------------------------------------------------
(* The rooms implement RoomHistory                                          *)

\* What a step does to the record, the backups and the operations sent.
LEMMA RecordMoves ==
    ASSUME CommitInv, [CommitNext]_allVars
    PROVE  \/ UNCHANGED <<version, record, backups, told>>
           \/ /\ UNCHANGED <<version, record, backups>> /\ version > 0
              /\ \E d \in SUBSET record.state : told' = told \cup d
           \/ /\ version' = version + 1 /\ record' \in Record /\ UNCHANGED <<backups, told>>
              /\ version > 0 => /\ record.state \subseteq record'.state
                                /\ record.revision <= record'.revision
           \/ /\ version > 0 /\ version' = version + 1 /\ record' \in Record /\ UNCHANGED told
              /\ backups \subseteq backups'
              /\ \A b \in backups' : b \in backups \/ b.record = record
              /\ \E b \in backups' : b.record = record
<1> DEFINE Same == UNCHANGED <<version, record, backups, told>>
           Told == /\ UNCHANGED <<version, record, backups>> /\ version > 0
                   /\ \E d \in SUBSET record.state : told' = told \cup d
           Written == /\ version' = version + 1 /\ record' \in Record /\ UNCHANGED <<backups, told>>
                      /\ version > 0 => /\ record.state \subseteq record'.state
                                        /\ record.revision <= record'.revision
           Replaced == /\ version > 0 /\ version' = version + 1 /\ record' \in Record /\ UNCHANGED told
                       /\ backups \subseteq backups'
                       /\ \A b \in backups' : b \in backups \/ b.record = record
                       /\ \E b \in backups' : b.record = record
<1>1. ASSUME LeaseProgress
      PROVE  Same
  <2>1. Same
    BY <1>1, LeaseProgressMoves DEF LeasesMove, DisposeRooms
  <2> QED
    BY <2>1
<1>2. ASSUME NEW l \in Lease, RoomStep(l)
      PROVE  Same \/ Told
  <2>1. UNCHANGED <<version, record, backups>>
    BY <1>2
    DEF RoomStep, StartLoad, StartPoll, ReadRoom, SendWrite, Retry, StartSave, FinishSave,
        CheckRevision, AskRevision, FinishCoordination, AcceptSnapshot, GiveUp, SendRecovery,
        ClaimRecovery, StartClaim, vars, storeVars
  <2>2. CASE FinishSave(l)
    BY <2>1, <2>2, CommittedIsStored DEF FinishSave, Tell, Committing
  <2>3. CASE FinishCoordination(l)
    BY <2>1, <2>3, CoordinatedIsStored DEF FinishCoordination, Tell
  <2>4. CASE AcceptSnapshot(l)
    BY <2>1, <2>4, SnapshotIsStored DEF AcceptSnapshot, Tell
  <2>5. CASE \/ StartLoad(l) \/ StartPoll(l) \/ ReadRoom(l) \/ SendWrite(l) \/ Retry(l)
             \/ \E e \in Edit : StartSave(l, e)
             \/ CheckRevision(l) \/ AskRevision(l) \/ GiveUp(l) \/ ClaimRecovery(l) \/ SendRecovery(l)
    BY <2>1, <2>5 DEF StartLoad, StartPoll, ReadRoom, SendWrite, Retry, StartSave, CheckRevision,
                      AskRevision, GiveUp, ClaimRecovery, SendRecovery
  <2> QED
    BY <1>2, <2>2, <2>3, <2>4, <2>5 DEF RoomStep
<1>3. ASSUME NEW w \in writes, WriteStep(w)
      PROVE  Same \/ Written \/ Replaced
  <2>1. w \in Write /\ WriteInv(w) /\ w.record \in Record /\ told' = told
    BY <1>3, PartsOfCommitInv DEF Write, WriteStep, RunExchange, RunRecovery, LoseWrite
  <2>2. CASE w.op = "exchange" /\ Exchange(w.id, w.generation, w.version, w.record)
    BY <2>1, <2>2 DEF Exchange, ExchangeWrites, WriteInv
  <2>3. CASE Recover(w.id, w.generation, Fresh(w.id), w.sha, w.record)
    <3> DEFINE kept == [generation |-> w.generation, record |-> record]
    <3>1. /\ version > 0 /\ version' = version + 1 /\ record' = w.record
          /\ \/ backups' = backups /\ \E b \in backups : b.record = record
             \/ backups' = backups \cup {kept}
      BY <2>3 DEF Recover, Recoverable
    <3>2. kept.record = record
      OBVIOUS
    <3> HIDE DEF kept
    <3>3. /\ backups \subseteq backups'
          /\ \A b \in backups' : b \in backups \/ b.record = record
          /\ \E b \in backups' : b.record = record
      BY <3>1, <3>2
    <3> QED
      BY <2>1, <3>1, <3>3
  <2>4. CASE UNCHANGED storeVars
    BY <2>1, <2>4 DEF storeVars
  <2> QED
    BY <1>3, <2>2, <2>3, <2>4 DEF WriteStep, RunExchange, RunRecovery, LoseWrite, vars
<1>4. ASSUME SaveCloud \/ UNCHANGED allVars
      PROVE  Same
  BY <1>4 DEF SaveCloud, allVars, commitVars, vars, storeVars
<1> HIDE DEF Same, Told, Written, Replaced
<1>5. Same \/ Told \/ Written \/ Replaced
  BY <1>1, <1>2, <1>3, <1>4 DEF CommitNext
<1> QED
  BY <1>5 DEF Same, Told, Written, Replaced

\* A write is a commit of RoomHistory, a recovery a restart, an answer to the
\* clients a tell; everything else is invisible.
LEMMA HistoryStep ==
    ASSUME CommitInv, [CommitNext]_allVars
    PROVE  [History!HistoryNext]_(History!historyVars)
<1> DEFINE document == IF version = 0 THEN {} ELSE record.state
           revision == IF version = 0 THEN 0 ELSE record.revision
           archive == {b.record.state : b \in backups}
<1>0. version \in Nat
  BY TypesOfCommitInv
<1>1. version > 0 => /\ record.state \in SUBSET Op /\ record.revision \in Int
                     /\ 1 <= record.revision /\ record.revision <= MaxRevision
  BY TypesOfCommitInv, RecordFacts
<1>2. record' \in Record => /\ record'.state \in SUBSET Op /\ record'.revision \in Int
                            /\ 1 <= record'.revision /\ record'.revision <= MaxRevision
  BY RecordFacts
<1>3. CASE UNCHANGED <<version, record, backups, told>>
  BY <1>3 DEF History!historyVars
<1>4. CASE /\ UNCHANGED <<version, record, backups>> /\ version > 0
           /\ \E d \in SUBSET record.state : told' = told \cup d
  <2>1. History!Tell
    BY <1>4 DEF History!Tell
  <2> QED
    BY <2>1 DEF History!HistoryNext
<1>5. CASE /\ version' = version + 1 /\ record' \in Record /\ UNCHANGED <<backups, told>>
           /\ version > 0 => /\ record.state \subseteq record'.state
                             /\ record.revision <= record'.revision
  <2>1. document' = document \cup record'.state
    BY <1>0, <1>5
  <2>2. revision' \in (IF revision = 0 THEN 1 ELSE revision)..MaxRevision
    BY <1>0, <1>1, <1>2, <1>5, CommitAssumption
  <2>3. History!Commit
    BY <1>2, <1>5, <2>1, <2>2 DEF History!Commit
  <2> QED
    BY <2>3 DEF History!HistoryNext
<1>6. CASE /\ version > 0 /\ version' = version + 1 /\ record' \in Record /\ UNCHANGED told
           /\ backups \subseteq backups'
           /\ \A b \in backups' : b \in backups \/ b.record = record
           /\ \E b \in backups' : b.record = record
  <2>1. archive' = archive \cup {document}
    BY <1>6
  <2>2. document' \in SUBSET Op /\ revision' \in 1..MaxRevision /\ revision > 0
    BY <1>0, <1>1, <1>2, <1>6, CommitAssumption
  <2>3. History!Restart
    BY <1>6, <2>1, <2>2 DEF History!Restart
  <2> QED
    BY <2>3 DEF History!HistoryNext
<1> QED
  BY <1>3, <1>4, <1>5, <1>6, RecordMoves

\* The instances together keep the promise of RoomHistory.
THEOREM CommitImplementsHistory == CommitSpec => ImplementsHistory
<1>1. CommitInit => History!HistoryInit
  BY DEF CommitInit, Init, StoreInit, History!HistoryInit
<1>2. CommitInv /\ [CommitNext]_allVars => [History!HistoryNext]_(History!historyVars)
  BY HistoryStep
<1> QED
  BY <1>1, <1>2, CommitInvariant, PTL DEF CommitSpec, ImplementsHistory, History!HistorySpec
=============================================================================
