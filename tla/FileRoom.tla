------------------------------ MODULE FileRoom ------------------------------
(***************************************************************************)
(* The server that runs alone and keeps each room in a file (index.ts):    *)
(* its clients with their Yjs documents and send queues, the room's queue, *)
(* the record file, the recheck timer, and an owner's recovery             *)
(* (server.ts, persistence.ts, roomRecoveryStore.ts, roomRecovery.ts,      *)
(* the coordinators, collaborationSocket.ts, YjsProviderHooks.ts).         *)
(*                                                                         *)
(* One diagram.  A document is the set of operations merged into it; the   *)
(* content of cloud revision r, reconciled into a document, is operation r.*)
(* What the server sends is merged by its receiver at once: documents only *)
(* grow, so a later merge would show the same operations later.            *)
(***************************************************************************)
EXTENDS Sequences, Integers

CONSTANTS
    Client,
    Edit,          \* edits of the clients, made once each
    MaxRevision,   \* revisions of the cloud diagram (a bound of the model only)
    QueueLimit,    \* messages of one connection in the room's queue (16)
    Troubles       \* crashes, drops, failures, withdrawals and recoveries (a bound)

Revision == 1..MaxRevision
Op == Edit \cup Revision
Record == [state : SUBSET Op, revision : Revision]
NoRecord == [state |-> {}, revision |-> 0]

ASSUME FileAssumption ==
    /\ MaxRevision \in Nat \ {0} /\ QueueLimit \in Nat \ {0} /\ Troubles \in Nat
    /\ Edit \cap Revision = {}

VARIABLES
    made,      \* made[c]: the client's Yjs document
    unmade,    \* edits nobody has made yet
    pending,   \* pending[c]: the client's queue of updates to send
    wire,      \* wire[c]: messages on their way to the server
    conn,      \* conn[c]: the socket, as client and server see it
    synced,    \* synced[c]: connectionState.synced, connectionRef.hasSynced
    access,    \* access[c]: what the authorization service answers
    greeting,  \* greeting[c]: what the server sends next of its greeting
    room,      \* "none", "loading", "open"
    doc,       \* room.doc
    queue,     \* room.queue: waiting tasks
    job,       \* its running task, or the loader
    queued,    \* queued[c]: connection.queuedDocument
    held,      \* held[c]: connection.pending
    checking,  \* the recheck's flag: its coordination is queued or runs
    file,      \* the room's record file
    backups,   \* files of recovery-backups: [record, whole]
    recovery,  \* the owner's recovery: what was inspected, and its stage
    cloud,     \* current revision of the diagram in the cloud
    told,      \* operations clients have ever been sent (history)
    troubles   \* troubles so far

clientVars == <<made, unmade, pending, wire, conn, synced, access, greeting>>
roomVars == <<room, doc, queue, job, queued, held, checking>>
diskVars == <<file, backups, recovery>>
vars == <<clientVars, roomVars, diskVars, cloud, told, troubles>>

Socket == {"away", "joining", "open", "leaving", "closing", "stopped"}
Message == [kind : {"step1", "step2", "update"}, ops : SUBSET Op]
\* from: the connection a task came from, while that exists.
Task == [kind : {"step1", "step2", "update", "coordinate"}, from : SUBSET Client, ops : SUBSET Op]
Coordinate == [kind |-> "coordinate", from |-> {}, ops |-> {}]
Stage == {"start", "read", "revision", "cloud", "write", "tell"}
NoJob == [kind |-> "none"]
Job == [kind : {"step1", "step2", "update", "coordinate", "load"}, from : SUBSET Client,
        ops : SUBSET Op, stage : Stage, record : Record \cup {NoRecord}]
NoRecovery == [stage |-> "none"]
Recovery == [stage : {"inspected", "backup", "verify"}, record : Record, revision : Revision]

FileTypeOK ==
    /\ made \in [Client -> SUBSET Op] /\ unmade \in SUBSET Edit
    /\ pending \in [Client -> SUBSET Edit]
    /\ wire \in [Client -> Seq(Message)]
    /\ conn \in [Client -> Socket]
    /\ synced \in [Client -> {"never", "now", "before"}]
    /\ access \in [Client -> {"editor", "viewer", "none"}]
    /\ greeting \in [Client -> {"access", "question", "none"}]
    /\ room \in {"none", "loading", "open"} /\ doc \in SUBSET Op
    /\ queue \in Seq(Task) /\ job \in Job \cup {NoJob}
    /\ queued \in [Client -> SUBSET Edit] /\ held \in [Client -> Nat]
    /\ checking \in BOOLEAN
    /\ file \in Record \cup {NoRecord}
    /\ backups \in SUBSET [record : Record, whole : BOOLEAN]
    /\ recovery \in Recovery \cup {NoRecovery}
    /\ cloud \in Revision /\ told \in SUBSET Op /\ troubles \in 0..Troubles

FileInit ==
    /\ made = [c \in Client |-> {}] /\ unmade = Edit
    /\ pending = [c \in Client |-> {}] /\ wire = [c \in Client |-> <<>>]
    /\ conn = [c \in Client |-> "away"] /\ synced = [c \in Client |-> "never"]
    /\ access = [c \in Client |-> "editor"] /\ greeting = [c \in Client |-> "none"]
    /\ room = "none" /\ doc = {} /\ queue = <<>> /\ job = NoJob
    /\ queued = [c \in Client |-> {}] /\ held = [c \in Client |-> 0] /\ checking = FALSE
    /\ file = NoRecord /\ backups = {} /\ recovery = NoRecovery
    /\ cloud = 1 /\ told = {} /\ troubles = 0

NewJob(k, cs, ops, stage) ==
    [kind |-> k, from |-> cs, ops |-> ops, stage |-> stage, record |-> NoRecord]

Trouble == troubles < Troubles /\ troubles' = troubles + 1
Calm == UNCHANGED troubles
\* The sockets the server finds open, and those of the room; a client that leaves
\* has not reached the server yet.
Open == {c \in Client : conn[c] \in {"open", "leaving"}}
Connected == Open \cup {c \in Client : conn[c] = "closing"}

-----------------------------------------------------------------------------
(* Clients                                                                  *)

\* pushLocalChangesToYjs: an editor that is in sync and has been told its access,
\* or was in sync before it lost the connection; the provider hands the update to
\* the socket's queue.
Make(c, e) ==
    /\ e \in unmade /\ unmade' = unmade \ {e}
    /\ \/ conn[c] = "open" /\ synced[c] = "now" /\ greeting[c] # "access"
       \/ conn[c] \in {"away", "joining"} /\ synced[c] = "before"
    /\ made' = [made EXCEPT ![c] = @ \cup {e}]
    /\ pending' = [pending EXCEPT ![c] = IF conn[c] = "open" THEN @ \cup {e} ELSE @]
    /\ UNCHANGED <<wire, conn, synced, access, greeting, roomVars, diskVars, cloud, told>> /\ Calm

\* The merged updates of the last 200 ms.
Flush(c) ==
    /\ conn[c] = "open" /\ pending[c] # {}
    /\ wire' = [wire EXCEPT ![c] = Append(@, [kind |-> "update", ops |-> pending[c]])]
    /\ pending' = [pending EXCEPT ![c] = {}]
    /\ UNCHANGED <<made, unmade, conn, synced, access, greeting, roomVars, diskVars, cloud, told>> /\ Calm

\* The client asks for what it lacks; the server begins to greet it.
Join(cs) ==
    /\ conn' = [c \in Client |-> IF c \in cs THEN "open" ELSE conn[c]]
    /\ wire' = [c \in Client |-> IF c \in cs THEN << [kind |-> "step1", ops |-> {}] >> ELSE wire[c]]
    /\ greeting' = [c \in Client |-> IF c \in cs THEN "access" ELSE greeting[c]]

\* An upgrade request: authorized, kept out by a recovery, joined to the open
\* room or to its loading.  A room whose clients are all leaving, or gone, is
\* waited for.
Connect(c) ==
    /\ conn[c] = "away" /\ access[c] # "none"
    /\ recovery.stage \notin {"backup", "verify"}
    /\ \/ /\ room # "open" /\ room' = "loading"
          /\ job' = IF room = "none" THEN NewJob("load", {}, {}, "read") ELSE job
          /\ conn' = [conn EXCEPT ![c] = "joining"]
          /\ UNCHANGED <<wire, greeting>>
       \/ /\ room = "open" /\ Open # {}
          /\ UNCHANGED <<room, job>> /\ Join({c})
    /\ UNCHANGED <<made, unmade, pending, synced, access, doc, queue, queued, held, checking,
                   diskVars, cloud, told>> /\ Calm

\* The socket's close event: what was not sent, or not received, is gone.
Gone(cs) ==
    /\ conn' = [c \in Client |-> IF c \in cs THEN "away" ELSE conn[c]]
    /\ wire' = [c \in Client |-> IF c \in cs THEN <<>> ELSE wire[c]]
    /\ pending' = [c \in Client |-> IF c \in cs THEN {} ELSE pending[c]]
    /\ synced' = [c \in Client |-> IF c \in cs /\ synced[c] = "now" THEN "before" ELSE synced[c]]
    /\ greeting' = [c \in Client |-> IF c \in cs THEN "none" ELSE greeting[c]]

\* Its tasks ask first whether their socket is open, so those that wait do nothing
\* any more; one that has asked before may still save.
Orphan(c) ==
    IF job = NoJob THEN job
    ELSE IF job.from = {c} /\ job.stage = "start" THEN NoJob
    ELSE [job EXCEPT !.from = @ \ {c}]

\* The tasks that are not the connection's.
Without(q, c) ==
    LET kept[i \in 0..Len(q)] ==
            IF i = 0 THEN <<>>
            ELSE IF q[i].from = {c} THEN kept[i - 1]
            ELSE Append(kept[i - 1], q[i])
    IN kept[Len(q)]

Closed(c) ==
    /\ \/ conn[c] = "closing"
       \/ conn[c] = "leaving" /\ wire[c] = <<>>
    /\ Gone({c})
    /\ queue' = Without(queue, c)
    /\ held' = [held EXCEPT ![c] = 0] /\ queued' = [queued EXCEPT ![c] = {}]
    /\ job' = Orphan(c)
    /\ UNCHANGED <<made, unmade, access, room, doc, checking, diskVars, cloud, told>> /\ Calm

\* The page is closed: the last batch goes out before the close frame, and the
\* document is destroyed.
Leave(c) ==
    /\ conn[c] = "open" /\ conn' = [conn EXCEPT ![c] = "leaving"]
    /\ wire' = IF pending[c] = {} THEN wire
               ELSE [wire EXCEPT ![c] = Append(@, [kind |-> "update", ops |-> pending[c]])]
    /\ pending' = [pending EXCEPT ![c] = {}]
    /\ made' = [made EXCEPT ![c] = {}] /\ synced' = [synced EXCEPT ![c] = "never"]
    /\ UNCHANGED <<unmade, access, greeting, roomVars, diskVars, cloud, told>> /\ Calm

\* A lost network, before or after the client is in the room.
Drop(c) ==
    /\ Trouble
    /\ \/ conn[c] = "open" /\ conn' = [conn EXCEPT ![c] = "closing"]
       \/ conn[c] = "joining" /\ conn' = [conn EXCEPT ![c] = "away"]
    /\ UNCHANGED <<made, unmade, pending, wire, synced, access, greeting, roomVars, diskVars, cloud, told>>

\* The user chooses to connect anew after a coordination problem: a new document.
Retry(c) ==
    /\ conn[c] = "stopped"
    /\ conn' = [conn EXCEPT ![c] = "away"]
    /\ made' = [made EXCEPT ![c] = {}] /\ synced' = [synced EXCEPT ![c] = "never"]
    /\ UNCHANGED <<unmade, pending, wire, access, greeting, roomVars, diskVars, cloud, told>> /\ Calm

Withdraw(c) ==
    /\ Trouble
    /\ access[c] # "none"
    /\ \E a \in {"viewer", "none"} \ {access[c]} : access' = [access EXCEPT ![c] = a]
    /\ UNCHANGED <<made, unmade, pending, wire, conn, synced, greeting, roomVars, diskVars, cloud, told>>

\* A client saves its canvas to the cloud, which accepts a new revision.
SaveCloud ==
    /\ cloud < MaxRevision /\ cloud' = cloud + 1
    /\ UNCHANGED <<clientVars, roomVars, diskVars, told>> /\ Calm

-----------------------------------------------------------------------------
(* The room's queue                                                         *)

\* What the client answers to the server's question: what the room lacks.  The code
\* asks with the state of the room before the second authorization; what the room
\* has taken since, it has, and it would take no notice of getting it again.
Answer(c) == [kind |-> "step2", ops |-> made[c] \ doc]

Closing(cs) == conn' = [c \in Client |-> IF c \in cs \cap Open THEN "closing" ELSE conn[c]]

\* Mutant of Greet: the server asks nothing.
GreetWithoutQuestion(c) ==
    /\ c \in Open /\ greeting[c] # "none"
    /\ greeting' = [greeting EXCEPT ![c] = "none"]
    /\ Closing({d \in {c} : access[d] = "none"})
    /\ UNCHANGED <<made, unmade, pending, wire, synced, access, roomVars, diskVars, cloud, told>> /\ Calm

\* The server tells the client its access, then asks what the room lacks; it is
\* authorized before either, while its messages are being handled.
Greet(c) ==
    /\ c \in Open /\ greeting[c] # "none"
    /\ greeting' = [greeting EXCEPT ![c] = IF @ = "access" THEN "question" ELSE "none"]
    /\ Closing({d \in {c} : access[d] = "none"})
    /\ wire' = IF greeting[c] = "question" /\ conn[c] = "open" /\ access[c] # "none"
               THEN [wire EXCEPT ![c] = Append(@, Answer(c))] ELSE wire
    /\ UNCHANGED <<made, unmade, pending, synced, access, roomVars, diskVars, cloud, told>> /\ Calm

\* Mutant of Merged: every update is a task of its own.
MergedNever(c, m) == FALSE

\* An update that finds another one of its connection waiting joins it.
Merged(c, m) == m.kind = "update" /\ queued[c] # {}

\* The socket's message handler.
Deliver(c) ==
    /\ c \in Connected /\ wire[c] # <<>>
    /\ wire' = [wire EXCEPT ![c] = Tail(@)]
    /\ LET m == Head(wire[c]) IN
         /\ queued' = IF m.kind = "update" THEN [queued EXCEPT ![c] = @ \cup m.ops] ELSE queued
         /\ IF Merged(c, m) THEN UNCHANGED <<queue, held, conn>>
            ELSE /\ held' = [held EXCEPT ![c] = @ + 1]
                 /\ IF held[c] >= QueueLimit
                    THEN conn' = [conn EXCEPT ![c] = "closing"] /\ UNCHANGED queue
                    ELSE /\ queue' = Append(queue, [kind |-> m.kind, from |-> {c},
                                      ops |-> IF m.kind = "step2" THEN m.ops ELSE {}])
                         /\ UNCHANGED conn
    /\ UNCHANGED <<made, unmade, pending, synced, access, greeting, room, doc, job, checking, diskVars,
                   cloud, told>> /\ Calm

\* The next task starts; it takes the merged updates with it.
Start ==
    /\ room = "open" /\ job = NoJob /\ queue # <<>>
    /\ queue' = Tail(queue)
    /\ LET t == Head(queue) IN
         \/ /\ t.kind \in {"step1", "step2", "coordinate"}
            /\ job' = NewJob(t.kind, t.from, t.ops, "start")
            /\ UNCHANGED queued
         \/ /\ t.kind = "update"
            /\ job' = NewJob("update", t.from, UNION {queued[c] : c \in t.from}, "start")
            /\ queued' = [c \in Client |-> IF c \in t.from THEN {} ELSE queued[c]]
    /\ UNCHANGED <<clientVars, room, doc, held, checking, diskVars, cloud, told>> /\ Calm

\* Mutant of EndTask: a coordination that finds nobody to act for leaves the
\* recheck's flag up.
EndTaskWithoutFinally ==
    /\ job' = NoJob
    /\ held' = [c \in Client |-> IF c \in job.from /\ held[c] > 0 THEN held[c] - 1 ELSE held[c]]
    /\ checking' = (checking /\ (job.kind = "coordinate" => job.stage = "start"))

\* The task ends: connection.pending--, or the recheck may start again.
EndTask ==
    /\ job' = NoJob
    /\ held' = [c \in Client |-> IF c \in job.from /\ held[c] > 0 THEN held[c] - 1 ELSE held[c]]
    /\ checking' = (checking /\ job.kind # "coordinate")

\* send: each receiver is authorized again; one that has lost access is closed.
Send(cs, ops) ==
    /\ made' = [c \in Client |-> IF c \in cs /\ conn[c] = "open" /\ access[c] # "none"
                                 THEN made[c] \cup ops ELSE made[c]]
    /\ told' = IF \E c \in cs \cap Open : access[c] # "none" THEN told \cup ops ELSE told
    /\ Closing({c \in cs : access[c] = "none"})

Advance(stage, ops, record) ==
    /\ job' = [kind |-> job.kind, from |-> job.from, ops |-> ops, stage |-> stage, record |-> record]
    /\ UNCHANGED <<held, checking>>

\* handleMessage: authorized, then answered, ignored, refused or saved.
Handle ==
    /\ job # NoJob /\ job.kind \in {"step1", "step2", "update"} /\ job.stage = "start"
    /\ LET allowed == {c \in job.from \cap Open : access[c] # "none"} IN
         IF allowed = {} THEN EndTask /\ Closing(job.from) /\ UNCHANGED <<made, synced, told>>
         ELSE IF job.kind = "step1"
         THEN /\ Advance("tell", {}, job.record) /\ Send(allowed, doc)
              /\ synced' = [c \in Client |-> IF c \in allowed /\ conn[c] = "open" THEN "now" ELSE synced[c]]
         ELSE /\ UNCHANGED <<made, synced, told>>
              /\ IF job.ops \subseteq doc THEN EndTask /\ UNCHANGED conn
                 ELSE IF \E c \in allowed : access[c] # "editor" THEN EndTask /\ Closing(allowed)
                 ELSE Advance("read", job.ops, job.record) /\ UNCHANGED conn
    /\ UNCHANGED <<unmade, pending, wire, access, greeting, room, doc, queue, queued, diskVars, cloud>> /\ Calm

\* A client that has been answered is sent the accepted revision, for which it is
\* authorized again; its task lasts until then, and the client goes on meanwhile.
TellRevision ==
    /\ job # NoJob /\ job.kind = "step1" /\ job.stage = "tell"
    /\ EndTask /\ Send(job.from, {})
    /\ UNCHANGED <<unmade, pending, wire, synced, access, greeting, room, doc, queue, queued, diskVars, cloud>>
    /\ Calm

\* save reads the record first, to keep the baseline of the cloud.
ReadRecord ==
    /\ job # NoJob /\ job.kind \in {"step2", "update"} /\ job.stage = "read"
    /\ Advance("write", job.ops, file)
    /\ UNCHANGED <<clientVars, room, doc, queue, queued, diskVars, cloud, told>> /\ Calm

\* Mutant of WriteRecord: the room takes the update before it is stored.
WriteRecordAfterwards ==
    /\ job # NoJob /\ job.kind \in {"step2", "update"} /\ job.stage = "write"
    /\ doc' = doc \cup job.ops /\ Advance("tell", job.ops, job.record)
    /\ UNCHANGED <<clientVars, room, queue, queued, diskVars, cloud, told>> /\ Calm

\* The temporary file is renamed over the record; the room takes the update.
WriteRecord ==
    /\ job # NoJob /\ job.kind \in {"step2", "update"} /\ job.stage = "write"
    /\ file' = [job.record EXCEPT !.state = doc \cup job.ops]
    /\ doc' = doc \cup job.ops
    /\ Advance("tell", job.ops, job.record)
    /\ UNCHANGED <<clientVars, room, queue, queued, backups, recovery, cloud, told>> /\ Calm

\* The record cannot be read or written: the sender is closed.
SaveFails ==
    /\ job # NoJob /\ job.kind \in {"step2", "update"} /\ job.stage \in {"read", "write"}
    /\ Trouble
    /\ EndTask /\ Closing(job.from)
    /\ UNCHANGED <<made, unmade, pending, wire, synced, access, greeting, room, doc, queue, queued, diskVars,
                   cloud, told>>

Broadcast ==
    /\ job # NoJob /\ job.kind \in {"step2", "update"} /\ job.stage = "tell"
    /\ EndTask /\ Send(Client, job.ops)
    /\ UNCHANGED <<unmade, pending, wire, synced, access, greeting, room, doc, queue, queued, diskVars, cloud>>
    /\ Calm

-----------------------------------------------------------------------------
(* Coordination with the cloud, when a room is loaded and at every recheck  *)

\* The timer closes who has lost access and, when somebody is left in the
\* room, queues a coordination and waits for it.
Recheck ==
    /\ ~checking /\ Connected # {} /\ room = "open"
    /\ Closing({c \in Client : access[c] = "none"})
    /\ queue' = Append(queue, Coordinate) /\ checking' = TRUE
    /\ UNCHANGED <<made, unmade, pending, wire, synced, access, greeting, room, doc, job, queued, held,
                   diskVars, cloud, told>> /\ Calm

Coordinating(stage) == job # NoJob /\ job.kind \in {"coordinate", "load"} /\ job.stage = stage

\* The coordination of an open room acts for one of its clients.
ActFor ==
    /\ Coordinating("start")
    /\ \/ \E c \in Open : IF access[c] # "none" THEN Advance("read", job.ops, job.record) /\ UNCHANGED conn
                         ELSE EndTask /\ Closing({c})
       \/ Open = {} /\ EndTask /\ UNCHANGED conn
    /\ UNCHANGED <<made, unmade, pending, wire, synced, access, greeting, room, doc, queue, queued, diskVars,
                   cloud, told>> /\ Calm

\* The record, then the revision of the cloud: an open room is only coordinated
\* with a newer one.
ReadBaseline ==
    /\ Coordinating("read")
    /\ Advance(IF job.kind = "load" THEN "cloud" ELSE "revision", {}, file)
    /\ UNCHANGED <<clientVars, room, doc, queue, queued, diskVars, cloud, told>> /\ Calm

ReadRevision ==
    /\ Coordinating("revision")
    /\ IF cloud > job.record.revision THEN Advance("cloud", job.ops, job.record) ELSE EndTask
    /\ UNCHANGED <<clientVars, room, doc, queue, queued, diskVars, cloud, told>> /\ Calm

ReadCloud ==
    /\ Coordinating("cloud")
    /\ Advance("write", {cloud}, job.record)
    /\ UNCHANGED <<clientVars, room, doc, queue, queued, diskVars, cloud, told>> /\ Calm

\* What is coordinated: the stored document, or the live one.
Reconciled(r) ==
    [state |-> (IF job.kind = "load" THEN job.record.state ELSE doc) \cup {r}, revision |-> r]

WriteCheckpoint ==
    /\ Coordinating("write")
    /\ \E r \in job.ops : file' = Reconciled(r)
    /\ Advance("tell", job.ops, job.record)
    /\ UNCHANGED <<clientVars, room, doc, queue, queued, backups, recovery, cloud, told>> /\ Calm

\* The stored revision is read once more; then the room takes the document and
\* its clients are told, or those that waited for the loading come in.
Accept ==
    /\ Coordinating("tell")
    /\ EndTask
    /\ doc' = IF job.kind = "load" THEN job.record.state \cup job.ops ELSE doc \cup job.ops
    /\ IF job.kind = "load"
       THEN /\ room' = "open" /\ Join({c \in Client : conn[c] = "joining"})
            /\ UNCHANGED <<made, told>>
       ELSE Send(Client, job.ops) /\ UNCHANGED <<room, wire, greeting>>
    /\ UNCHANGED <<unmade, pending, synced, access, queue, queued, diskVars, cloud>> /\ Calm

\* Mutant of Fail: the clients stay in the room.
FailQuietly == UNCHANGED <<conn, wire, pending, synced, greeting>>

\* A status for everybody, whose connections are then closed: the clients stop
\* until their user connects anew.
Fail ==
    LET cs == IF job.kind = "load" THEN {c \in Client : conn[c] = "joining"} ELSE Open IN
    /\ conn' = [c \in Client |-> IF c \in cs /\ conn[c] # "leaving" /\ access[c] # "none" THEN "stopped"
                                 ELSE IF c \in cs THEN "away" ELSE conn[c]]
    /\ wire' = [c \in Client |-> IF c \in cs THEN <<>> ELSE wire[c]]
    /\ pending' = [c \in Client |-> IF c \in cs THEN {} ELSE pending[c]]
    /\ synced' = [c \in Client |-> IF c \in cs /\ synced[c] = "now" THEN "before" ELSE synced[c]]
    /\ greeting' = [c \in Client |-> IF c \in cs THEN "none" ELSE greeting[c]]

\* A source that cannot be read, a conflict, a disk: the room's queue goes on,
\* but nobody is left whose tasks it would run.
CoordinationFails ==
    /\ Trouble
    /\ \E stage \in {"read", "revision", "cloud", "write", "tell"} : Coordinating(stage)
    /\ Fail /\ EndTask
    /\ room' = IF job.kind = "load" THEN "none" ELSE room
    /\ UNCHANGED <<made, unmade, access, doc, queue, queued, diskVars, cloud, told>>

\* The last client is gone and the queue has run.
Dispose ==
    /\ room = "open" /\ Connected = {} /\ queue = <<>> /\ job = NoJob
    /\ room' = "none" /\ doc' = {}
    /\ UNCHANGED <<clientVars, queue, job, queued, held, checking, diskVars, cloud, told>> /\ Calm

-----------------------------------------------------------------------------
(* Recovery by the owner, and crashes                                       *)

\* reserveIdleRoom: no room, no loading, no upgrade on its way.
Idle == room = "none"

\* The owner is shown the digest of the record and the cloud's revision.
Inspect ==
    /\ Trouble
    /\ Idle /\ recovery.stage = "none" /\ file # NoRecord
    /\ recovery' = [stage |-> "inspected", record |-> file, revision |-> cloud]
    /\ UNCHANGED <<clientVars, roomVars, file, backups, cloud, told>>

\* The confirmation arrives, or arrives again after a failure; the room may have
\* been opened and edited since.
Confirm ==
    /\ recovery.stage = "inspected"
    /\ recovery' = IF Idle /\ cloud = recovery.revision /\ file = recovery.record
                   THEN [recovery EXCEPT !.stage = "backup"] ELSE NoRecovery
    /\ UNCHANGED <<clientVars, roomVars, file, backups, cloud, told>> /\ Calm

Backup(whole) == [record |-> recovery.record, whole |-> whole]
HasBackup == \E b \in backups : b.record = recovery.record

\* A backup of that name that is there already is left alone.
BackUp ==
    /\ recovery.stage = "backup"
    /\ backups' = IF HasBackup THEN backups ELSE backups \cup {Backup(TRUE)}
    /\ recovery' = [recovery EXCEPT !.stage = "verify"]
    /\ UNCHANGED <<clientVars, roomVars, file, cloud, told>> /\ Calm

\* The backup is read back, its digest is that of the confirmed record, and so
\* is still that of the file.
Verified == Backup(TRUE) \in backups /\ file = recovery.record

Replace ==
    /\ recovery.stage = "verify"
    /\ file' = IF Verified THEN [state |-> {recovery.revision}, revision |-> recovery.revision] ELSE file
    /\ recovery' = NoRecovery
    /\ UNCHANGED <<clientVars, roomVars, backups, cloud, told>> /\ Calm

\* What an interrupted write leaves of a backup.
Torn == IF recovery.stage = "backup" /\ ~HasBackup THEN backups \cup {Backup(FALSE)} ELSE backups

RecoveryFails ==
    /\ Trouble
    /\ recovery.stage \in {"backup", "verify"}
    /\ recovery' = [recovery EXCEPT !.stage = "inspected"] /\ backups' \in {backups, Torn}
    /\ UNCHANGED <<clientVars, roomVars, file, cloud, told>>

\* The process dies and is started again.  The record is the old one or the new
\* one, as the rename is atomic; only files survive.
Crash ==
    /\ Trouble
    /\ Gone({c \in Client : conn[c] # "stopped"})
    /\ room' = "none" /\ doc' = {} /\ queue' = <<>> /\ job' = NoJob
    /\ queued' = [c \in Client |-> {}] /\ held' = [c \in Client |-> 0] /\ checking' = FALSE
    /\ recovery' = IF recovery.stage = "none" THEN recovery ELSE [recovery EXCEPT !.stage = "inspected"]
    /\ backups' \in {backups, Torn}
    /\ UNCHANGED <<made, unmade, access, file, cloud, told>>

-----------------------------------------------------------------------------

ClientStep(c) ==
    \/ \E e \in Edit : Make(c, e)
    \/ Flush(c) \/ Connect(c) \/ Closed(c) \/ Leave(c) \/ Drop(c) \/ Retry(c) \/ Withdraw(c) \/ Greet(c) \/ Deliver(c)

RoomStep ==
    \/ Start \/ Handle \/ TellRevision \/ ReadRecord \/ WriteRecord \/ Broadcast
    \/ ActFor \/ ReadBaseline \/ ReadRevision \/ ReadCloud \/ WriteCheckpoint \/ Accept

FileNext ==
    \/ \E c \in Client : ClientStep(c)
    \/ SaveCloud \/ RoomStep \/ Recheck \/ Dispose \/ SaveFails \/ CoordinationFails
    \/ Inspect \/ Confirm \/ BackUp \/ Replace \/ RecoveryFails \/ Crash

FileSpec == FileInit /\ [][FileNext]_vars

\* Sockets deliver and reconnect, file and network calls end (the requests have
\* deadlines), timers fire, and a confirmed recovery runs to its end.  Nobody
\* has to edit, to save to the cloud, to retry or to recover, and no trouble
\* has to happen.
FileFairness ==
    /\ \A c \in Client : /\ WF_vars(Flush(c)) /\ WF_vars(Connect(c)) /\ WF_vars(Closed(c))
                         /\ WF_vars(Greet(c)) /\ WF_vars(Deliver(c))
    /\ WF_vars(RoomStep) /\ WF_vars(Recheck) /\ WF_vars(Dispose)
    /\ WF_vars(BackUp) /\ WF_vars(Replace)

FairFileSpec == FileSpec /\ FileFairness

-----------------------------------------------------------------------------
(* Properties                                                               *)

BackedUp == UNION {b.record.state : b \in {b \in backups : b.whole}}
Kept == file.state \cup BackedUp

\* Whatever a client was ever sent, of others or of the cloud, is in the record
\* file or in a backup that can be read, also after crashes and recoveries
\* (applyUpdate saves before it tells, recover backs up and reads back before it
\* replaces; README.md of the server, "persisted before it is broadcast").
ToldIsDurable == told \subseteq Kept

\* A revision recorded as the baseline of a record has been merged into its
\* document, whatever fails between the checkpoint and the room's taking it: the
\* next save writes the room's document under the file's baseline (persistence.ts).
BaselineIsMerged == file # NoRecord => file.revision \in file.state

\* However fast a client edits and however slow the room is, at most three messages
\* of a connection about the document count as pending, the one whose task runs
\* included: its answer to the server's question and one update may wait behind
\* what runs, and every other update joins the one that waits.  A client is never
\* closed for the length of its queue (server.ts, queuedDocument and pending).
QueueIsBounded == \A c \in Client : held[c] <= 3

\* An edit of somebody who goes on being an editor is stored in the end, through
\* closed sockets, cancelled queues, failed saves and crashes, unless its page is
\* closed or a coordination problem stops it (the provider resends what the room
\* lacks).
EditIsStored ==
    \A c \in Client, e \in Edit :
        e \in made[c] ~> e \in Kept \/ e \notin made[c] \/ access[c] # "editor" \/ conn[c] = "stopped"

\* Who has lost access is closed in the end, even who never sends anything and
\* whatever becomes of the coordination the recheck waits for.
RevokedIsClosed ==
    \A c \in Client : access[c] = "none" /\ conn[c] = "open" ~> conn[c] # "open"

-----------------------------------------------------------------------------
(* The inductive invariant behind ToldIsDurable and BaselineIsMerged        *)

Saving == job.kind \in {"step2", "update"}
Stored == job.kind = "coordinate" /\ job.stage = "tell"

\* What the proof needs of the variables' types.
FileShape ==
    /\ conn \in [Client -> Socket] /\ cloud \in Revision
    /\ room \in {"none", "loading", "open"}
    /\ file = [state |-> file.state, revision |-> file.revision]
    /\ \/ job = NoJob
       \/ /\ job = [kind |-> job.kind, from |-> job.from, ops |-> job.ops, stage |-> job.stage,
                   record |-> job.record]
          /\ job.kind \in {"step1", "step2", "update", "coordinate", "load"}
    /\ \/ recovery = NoRecovery
       \/ /\ recovery = [stage |-> recovery.stage, record |-> recovery.record,
                         revision |-> recovery.revision]
          /\ recovery.revision \in Revision

\* Tasks run in an open room, loaders in none, and a recovery excludes both.
StagesAgree ==
    /\ job.kind \in {"step1", "step2", "update", "coordinate"} => room = "open"
    /\ job.kind = "load" <=> room = "loading"
    /\ job.kind = "load" => job.from = {}
    /\ job.kind = "step1" => job.stage \in {"start", "tell"}
    /\ Saving => job.stage \in {"start", "read", "write", "tell"}
    /\ job.kind = "coordinate" => job.stage \in {"start", "read", "revision", "cloud", "write", "tell"}
    /\ job.kind = "load" => job.stage \in {"read", "cloud", "write", "tell"}
    /\ recovery.stage \in {"backup", "verify"} => room = "none"
    /\ Connected # {} => room = "open"

\* An open room holds what its clients were told, and the file what the room
\* holds, and what the running job is about to add to it.
RoomIsStored ==
    /\ room = "open" => told \subseteq doc \cup BackedUp /\ doc \subseteq file.state
    /\ Saving /\ job.stage = "tell" => job.ops \subseteq doc
    /\ Stored => job.ops \subseteq file.state

\* What a loader has read is what nobody else writes.
LoadIsCurrent ==
    /\ job.kind = "load" /\ job.stage \in {"cloud", "write"} => job.record = file
    /\ job.kind = "load" /\ job.stage = "tell" =>
           file # NoRecord /\ file.state = job.record.state \cup job.ops
    /\ job.kind \in {"coordinate", "load"} /\ job.stage = "write" =>
           \E r \in Revision : job.ops = {r}

\* While anybody can save, the room holds the file's baseline, unless the
\* coordination that has just stored it is about to merge it.
RoomHasBaseline ==
    /\ room = "open" => file # NoRecord
    /\ room = "open" /\ ~Stored /\ (Open # {} \/ (Saving /\ job.stage \in {"read", "write"})) =>
           file.revision \in doc
    /\ Saving /\ job.stage = "write" => job.record = file
    /\ Stored => file.revision \in job.ops

FileInv ==
    /\ FileShape /\ ToldIsDurable /\ BaselineIsMerged
    /\ StagesAgree /\ RoomIsStored /\ LoadIsCurrent /\ RoomHasBaseline
=============================================================================
