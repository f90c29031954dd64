------------------------------ MODULE RoomCommit ------------------------------
(***************************************************************************)
(* The rooms that server instances serve under their leases: loading,      *)
(* saving an edit, coordination with the cloud copy of the diagram,        *)
(* synchronisation with other instances, and recovery                      *)
(* (atomicRoomCommit.ts, atomicCheckpointPersistence.ts, the coordinators, *)
(* the synchroniser and the calls server.ts makes to them).                *)
(*                                                                         *)
(* A document is the set of operations merged into it, as a CRDT is; the   *)
(* content of cloud revision r, once reconciled into a document, is the    *)
(* operation r.  Every call of the store is a request of its own: the read *)
(* or the write happens at some later time, after the caller gave up too.  *)
(* One room queue per instance lets one job run at a time.                 *)
(***************************************************************************)
EXTENDS RoomLease

CONSTANTS
    Edit,         \* edits of clients
    MaxRevision,  \* revisions of the cloud diagram (a bound of the model only)
    Attempts      \* compare-and-swap attempts of one job (8)

Revision == 1..MaxRevision
Op == Edit \cup Revision

\* The generation a lease proposes and the one its recovery starts: fresh ids.
Proposed(l) == <<l, "claim">>
Fresh(l) == <<l, "recovery">>

ASSUME CommitAssumption ==
    /\ MaxRevision \in Nat \ {0} /\ Attempts \in Nat \ {0}
    /\ Edit \cap Revision = {}
    /\ \A l \in Lease : {Proposed(l), Fresh(l)} \subseteq Generation
    /\ Record = [state : SUBSET Op, revision : Revision]

VARIABLES
    cloud,     \* current revision of the diagram in the cloud
    room,      \* room[l]: room.doc of the room served under lease l
    shown,     \* shown[l]: room.cloudRevision
    opened,    \* opened[l]: the room accepts clients
    job,       \* job[l]: the operation at the head of room.queue
    writes,    \* exchanges and recoveries under way in the store
    told       \* operations clients have ever been sent (history)

roomVars == <<room, shown, opened>>
commitVars == <<cloud, room, shown, opened, job, writes, told>>
allVars == <<vars, commitVars>>

Row == [generation |-> generation, version |-> version, record |-> record]
NoRow == [generation |-> NoGeneration, version |-> 0, record |-> NoRecord]
RowType == [generation : Generation \cup {NoGeneration}, version : Nat,
            record : Record \cup {NoRecord}]

JobKind == {"none", "load", "save", "poll", "merge", "sync", "recover", "retired"}
Stage == {"start", "read", "answered", "sent", "true", "false", "raise", "accept", "accepted"}
Job == [op : JobKind, stage : Stage, doc : SUBSET Op, source : 0..MaxRevision,
        tries : 0..Attempts, snap : RowType]
NoJob == [op |-> "none", stage |-> "start", doc |-> {}, source |-> 0, tries |-> 0, snap |-> NoRow]
Retired == [NoJob EXCEPT !.op = "retired"]

\* waited: the job of lease id still waits for the answer.
Write == [op : {"exchange", "recover"}, id : Lease, generation : Generation, version : Nat,
          sha : Record \cup {NoRecord}, record : Record, waited : BOOLEAN]

CommitTypeOK ==
    /\ TypeOK
    /\ cloud \in Revision
    /\ room \in [Lease -> SUBSET Op]
    /\ shown \in [Lease -> 0..MaxRevision]
    /\ opened \in [Lease -> BOOLEAN]
    /\ job \in [Lease -> Job]
    /\ writes \in SUBSET Write
    /\ told \in SUBSET Op

-----------------------------------------------------------------------------
(* Jobs of an admitted room                                                 *)

\* Mutant of Admitted: the lease is not looked at again after the call.
AdmittedOnce(l) == job[l].snap.generation \in {NoGeneration, receipt[l].generation}

\* Every call of the bound store checks the lease before and after it, and the
\* generation of what it read.
Admitted(l) == Active(l) /\ job[l].snap.generation \in {NoGeneration, receipt[l].generation}

SetJob(l, j) == job' = [job EXCEPT ![l] = j]
Idle(l) == phase[l] = "open" /\ kind[l] = "edit" /\ job[l] = NoJob

\* A job that gives up: its write may still run.
Abandon(l) ==
    writes' = {IF w.waited /\ w.id = l THEN [w EXCEPT !.waited = FALSE] ELSE w : w \in writes}

NewJob(o, doc, source) ==
    [NoJob EXCEPT !.op = o, !.stage = "read", !.doc = doc, !.source = source, !.tries = 1]

\* getRoom's loader: read the cloud copy, then coordinate the stored record.
StartLoad(l) ==
    /\ Idle(l) /\ ~opened[l]
    /\ SetJob(l, NewJob("load", {}, cloud))
    /\ UNCHANGED <<vars, cloud, roomVars, writes, told>>

\* applyUpdate: what is saved is the room's document with the update.
StartSave(l, e) ==
    /\ Idle(l) /\ opened[l] /\ Active(l)
    /\ e \notin room[l]
    /\ SetJob(l, NewJob("save", room[l] \cup {e}, 0))
    /\ UNCHANGED <<vars, cloud, roomVars, writes, told>>

\* The recheck timer, and a notice or the catch-up timer of the synchroniser.
StartPoll(l) ==
    /\ Idle(l) /\ opened[l] /\ Active(l)
    /\ \E o \in {"poll", "sync"} : SetJob(l, NewJob(o, {}, 0))
    /\ UNCHANGED <<vars, cloud, roomVars, writes, told>>

\* vizly_read_atomic_room runs.
ReadRoom(l) ==
    /\ phase[l] = "open"
    /\ \/ job[l].stage = "read" /\ SetJob(l, [job[l] EXCEPT !.snap = Row, !.stage = "answered"])
       \/ job[l].stage = "accept" /\ SetJob(l, [job[l] EXCEPT !.snap = Row, !.stage = "accepted"])
    /\ UNCHANGED <<vars, cloud, roomVars, writes, told>>

\* What a job writes over the row it read.  A cloud revision older than the
\* checkpoint is a conflict; a room without a row is not coordinated with a live
\* document; and the stored document must not omit the live one.
Coordinated(j) ==
    IF j.snap.version = 0 THEN [state |-> {j.source}, revision |-> j.source]
    ELSE [state |-> j.snap.record.state \cup {j.source}, revision |-> j.source]

\* Mutant of Coordinable: the age of the cloud copy is not looked at.
CoordinableOutOfOrder(j) ==
    /\ j.snap.version = 0 => j.op = "load"
    /\ j.snap.version > 0 /\ j.op = "merge" => j.doc \subseteq j.snap.record.state

Coordinable(j) ==
    /\ j.snap.version = 0 => j.op = "load"
    /\ j.snap.version > 0 => /\ j.source >= j.snap.record.revision
                             /\ j.op = "merge" => j.doc \subseteq j.snap.record.state

Candidate(j) ==
    IF j.op = "save" THEN [j.snap.record EXCEPT !.state = @ \cup j.doc] ELSE Coordinated(j)

SendWrite(l) ==
    /\ phase[l] = "open"
    /\ job[l].op \in {"load", "save", "merge"} /\ job[l].stage = "answered"
    /\ Admitted(l)
    /\ IF job[l].op = "save" THEN job[l].snap.version > 0 ELSE Coordinable(job[l])
    /\ writes' = writes \cup {[op |-> "exchange", id |-> l, generation |-> receipt[l].generation,
                               version |-> job[l].snap.version, sha |-> NoRecord,
                               record |-> Candidate(job[l]), waited |-> TRUE]}
    /\ SetJob(l, [job[l] EXCEPT !.stage = "sent"])
    /\ UNCHANGED <<vars, cloud, roomVars, told>>

Answered(w, outcome) ==
    job' = IF w.waited THEN [job EXCEPT ![w.id].stage = outcome] ELSE job

RunExchange(w) ==
    /\ w \in writes /\ w.op = "exchange"
    /\ LET outcome == ExchangeOutcome(w.id, w.generation, w.version) IN
       /\ Answered(w, outcome)
       /\ IF outcome = "true" THEN Exchange(w.id, w.generation, w.version, w.record)
                              ELSE UNCHANGED storeVars
    /\ writes' = writes \ {w}
    /\ UNCHANGED <<holderVars, cloud, roomVars, told>>

LoseWrite(w) ==
    /\ w \in writes
    /\ writes' = writes \ {w}
    /\ UNCHANGED <<vars, cloud, roomVars, job, told>>

Tell(l, doc) ==
    /\ room' = [room EXCEPT ![l] = @ \cup doc]
    /\ told' = told \cup doc

\* Mutant of FinishSave: any answer counts as a commit.
FinishSaveUnconfirmed(l) ==
    /\ phase[l] = "open"
    /\ job[l].op = "save" /\ job[l].stage \in {"true", "false"}
    /\ Active(l)
    /\ Tell(l, Candidate(job[l]).state)
    /\ SetJob(l, NoJob)
    /\ UNCHANGED <<vars, cloud, shown, opened, writes>>

\* The save is committed: only then the clients see it.
FinishSave(l) ==
    /\ phase[l] = "open"
    /\ job[l].op = "save" /\ job[l].stage = "true"
    /\ Active(l)
    /\ Tell(l, Candidate(job[l]).state)
    /\ SetJob(l, NoJob)
    /\ UNCHANGED <<vars, cloud, shown, opened, writes>>

\* Another write came first: read again and recompute.
Retry(l) ==
    /\ phase[l] = "open"
    /\ job[l].op \in {"load", "save", "merge"} /\ job[l].stage = "false"
    /\ Active(l)
    /\ job[l].tries < Attempts
    /\ SetJob(l, [job[l] EXCEPT !.stage = "read", !.tries = @ + 1, !.snap = NoRow])
    /\ UNCHANGED <<vars, cloud, roomVars, writes, told>>

\* createActiveRoomCoordinator: nothing to do, or coordinate the live document
\* with the newer cloud copy.
CheckRevision(l) ==
    /\ phase[l] = "open"
    /\ job[l].op = "poll" /\ job[l].stage = "answered"
    /\ Admitted(l) /\ job[l].snap.version > 0
    /\ cloud >= job[l].snap.record.revision
    /\ SetJob(l, IF cloud = job[l].snap.record.revision THEN NoJob
                 ELSE NewJob("merge", room[l], cloud))
    /\ UNCHANGED <<vars, cloud, roomVars, writes, told>>

\* The coordination is committed; the accepted revision is read by a request of
\* its own (readAcceptedRoomRevision).
AskRevision(l) ==
    /\ phase[l] = "open"
    /\ job[l].op \in {"load", "merge"} /\ job[l].stage = "true"
    /\ Active(l)
    /\ SetJob(l, [job[l] EXCEPT !.stage = "accept", !.doc = Candidate(job[l]).state, !.snap = NoRow])
    /\ UNCHANGED <<vars, cloud, roomVars, writes, told>>

\* The room takes the document it coordinated and the revision it read.  A room
\* that was loading then opens its synchronisation, which reads once more.
FinishCoordination(l) ==
    /\ phase[l] = "open"
    /\ job[l].op \in {"load", "merge"} /\ job[l].stage = "accepted"
    /\ Admitted(l) /\ job[l].snap.version > 0
    /\ shown' = [shown EXCEPT ![l] = job[l].snap.record.revision]
    /\ \/ /\ job[l].op = "merge"
          /\ Tell(l, job[l].doc)
          /\ SetJob(l, NoJob)
       \/ /\ job[l].op = "load"
          /\ room' = [room EXCEPT ![l] = job[l].doc]
          /\ SetJob(l, NewJob("sync", {}, 0))
          /\ UNCHANGED told
    /\ UNCHANGED <<vars, cloud, opened, writes>>

\* The synchroniser accepts what it read: nothing of the room may be missing
\* from it, and its revision may not go back.
AcceptSnapshot(l) ==
    /\ phase[l] = "open"
    /\ job[l].op = "sync" /\ job[l].stage = "answered"
    /\ Admitted(l) /\ job[l].snap.version > 0
    /\ room[l] \subseteq job[l].snap.record.state
    /\ job[l].snap.record.revision >= shown[l]
    /\ Tell(l, job[l].snap.record.state)
    /\ shown' = [shown EXCEPT ![l] = job[l].snap.record.revision]
    /\ opened' = [opened EXCEPT ![l] = TRUE]
    /\ SetJob(l, NoJob)
    /\ UNCHANGED <<vars, cloud, writes>>

\* A call fails or times out, a guard throws, a document conflicts, the budget is
\* used up.  A failed save closes its connection only; every other failure closes
\* the room to its clients.
GiveUp(l) ==
    /\ phase[l] = "open"
    /\ job[l].op \notin {"none", "retired"}
    /\ Abandon(l)
    /\ IF job[l].op = "save"
       THEN SetJob(l, NoJob) /\ UNCHANGED opened
       ELSE SetJob(l, Retired) /\ opened' = [opened EXCEPT ![l] = FALSE]
    /\ UNCHANGED <<vars, cloud, room, shown, told>>

-----------------------------------------------------------------------------
(* Recovery                                                                 *)

\* The owner has confirmed the record and the cloud revision it inspected; then
\* recoverCheckpoint claims the room.
ClaimRecovery(l) ==
    /\ version > 0
    /\ StartClaim(l, "recovery", Proposed(l))
    /\ SetJob(l, [NoJob EXCEPT !.op = "recover", !.snap = Row, !.source = cloud])
    /\ UNCHANGED <<cloud, roomVars, writes, told>>

SendRecovery(l) ==
    /\ phase[l] = "open"
    /\ job[l].op = "recover" /\ job[l].stage = "start"
    /\ Active(l)
    /\ writes' = writes \cup {[op |-> "recover", id |-> l, generation |-> receipt[l].generation,
                               version |-> 0, sha |-> job[l].snap.record,
                               record |-> [state |-> {job[l].source}, revision |-> job[l].source],
                               waited |-> TRUE]}
    /\ SetJob(l, [job[l] EXCEPT !.stage = "sent"])
    /\ UNCHANGED <<vars, cloud, roomVars, told>>

RunRecovery(w) ==
    /\ w \in writes /\ w.op = "recover"
    /\ IF Recoverable(w.id, w.generation, Fresh(w.id), w.sha)
       THEN /\ Recover(w.id, w.generation, Fresh(w.id), w.sha, w.record)
            /\ Answered(w, "true")
       ELSE UNCHANGED storeVars /\ Answered(w, "raise")
    /\ writes' = writes \ {w}
    /\ UNCHANGED <<holderVars, cloud, roomVars, told>>

-----------------------------------------------------------------------------

\* A room whose lease is no longer open serves nobody: it is disposed, and what
\* it still waits for is abandoned.
DisposeRooms ==
    /\ room' = [l \in Lease |-> IF phase'[l] = "open" THEN room[l] ELSE {}]
    /\ shown' = [l \in Lease |-> IF phase'[l] = "open" THEN shown[l] ELSE 0]
    /\ opened' = [l \in Lease |-> phase'[l] = "open" /\ opened[l]]
    /\ job' = [l \in Lease |-> IF phase'[l] \in {"open", "claiming"} THEN job[l] ELSE NoJob]
    /\ writes' = {IF w.waited /\ phase'[w.id] # "open" THEN [w EXCEPT !.waited = FALSE] ELSE w
                    : w \in writes}
    /\ UNCHANGED <<cloud, told>>

LeaseProgress ==
    /\ \/ \E l \in Lease : StartClaim(l, "edit", Proposed(l)) \/ HolderProgress(l)
       \/ \E c \in calls : StoreStep(c)
       \/ Elapse
    /\ DisposeRooms

\* Somebody saves the diagram to the cloud: a new revision.
SaveCloud ==
    /\ cloud < MaxRevision
    /\ cloud' = cloud + 1
    /\ UNCHANGED <<vars, roomVars, job, writes, told>>

RoomStep(l) ==
    \/ StartLoad(l) \/ StartPoll(l) \/ ReadRoom(l) \/ SendWrite(l) \/ Retry(l)
    \/ \E e \in Edit : StartSave(l, e)
    \/ FinishSave(l) \/ CheckRevision(l) \/ AskRevision(l) \/ FinishCoordination(l)
    \/ AcceptSnapshot(l) \/ GiveUp(l) \/ ClaimRecovery(l) \/ SendRecovery(l)

WriteStep(w) == RunExchange(w) \/ RunRecovery(w) \/ LoseWrite(w)

CommitInit ==
    /\ Init
    /\ cloud = 1
    /\ room = [l \in Lease |-> {}]
    /\ shown = [l \in Lease |-> 0]
    /\ opened = [l \in Lease |-> FALSE]
    /\ job = [l \in Lease |-> NoJob]
    /\ writes = {}
    /\ told = {}

CommitNext ==
    \/ LeaseProgress
    \/ \E l \in Lease : RoomStep(l)
    \/ \E w \in writes : WriteStep(w)
    \/ SaveCloud

CommitSpec == CommitInit /\ [][CommitNext]_allVars

-----------------------------------------------------------------------------
(* Properties *)

\* What the clients of an active room see is in the stored record: whichever
\* instance, retry, lost answer or late write there was.
ActiveRoomIsStored ==
    \A l \in Lease : opened[l] /\ Active(l) =>
        version > 0 /\ room[l] \subseteq record.state

\* No operation a client has ever been sent is lost, however many rooms of the
\* diagram were opened, lost and recovered since.
NothingToldIsLost ==
    \A o \in told : \/ version > 0 /\ o \in record.state
                    \/ \E b \in backups : o \in b.record.state

\* The instances together keep the promise of RoomHistory: no write loses another
\* instance's write, none takes the checkpoint revision back, a recovery keeps
\* what it replaces and nothing is sent to clients before it is stored.
History ==
    INSTANCE RoomHistory WITH
        document <- IF version = 0 THEN {} ELSE record.state,
        revision <- IF version = 0 THEN 0 ELSE record.revision,
        archive  <- {b.record.state : b \in backups}

ImplementsHistory == History!HistorySpec

\* A room takes in operations only while it is admitted to the room's current
\* generation: never from an answer that came after the loss of the lease.
NoAcceptanceAfterLoss ==
    [][\A l \in Lease : room'[l] # room[l] /\ phase'[l] = "open"
        => receipt[l].generation = generation]_allVars

\* The revision a room shows its clients is one the shared record has accepted.
ShownIsAccepted ==
    \A l \in Lease : opened[l] /\ Active(l) => shown[l] \in 1..record.revision

\* "The accepted checkpoint revision is paired with the already sent document"
\* (cloudRevisionProtocol.ts): a client told of a revision has its content.
RevisionIsMerged == \A l \in Lease : opened[l] => shown[l] \in room[l]
=============================================================================
