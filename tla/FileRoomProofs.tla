--------------------------- MODULE FileRoomProofs ---------------------------
(***************************************************************************)
(* Proofs about FileRoom, for any number of clients, edits, revisions and  *)
(* troubles: what clients were told stays in the record file or in a       *)
(* backup, the file's baseline is merged into its document, the variables  *)
(* keep their types, and a client never has more than three tasks in the   *)
(* room's queue.                                                           *)
(***************************************************************************)
EXTENDS FileRoom, WellFoundedInduction, TLAPS

\* What the invariant reads of the state.
core == <<conn, cloud, room, doc, job, file, backups, recovery, told>>

\* Changing one field of a job gives a job.
LEMMA JobUpdate ==
    ASSUME FileShape, job # NoJob, NEW x
    PROVE  [job EXCEPT !.from = x] = [kind |-> job.kind, from |-> x, ops |-> job.ops,
                                      stage |-> job.stage, record |-> job.record]
<1>1. PICK k, f, o, s, r : job = [kind |-> k, from |-> f, ops |-> o, stage |-> s, record |-> r]
  BY Zenon DEF FileShape
<1>2. job.kind = k /\ job.from = f /\ job.ops = o /\ job.stage = s /\ job.record = r
  BY <1>1
<1> QED
  BY <1>1, <1>2

LEMMA FileUpdate ==
    ASSUME FileShape, NEW x
    PROVE  [file EXCEPT !.state = x] = [state |-> x, revision |-> file.revision]
<1>1. PICK s, r : file = [state |-> s, revision |-> r]
  BY Zenon DEF FileShape
<1>2. file.state = s /\ file.revision = r
  BY <1>1
<1> QED
  BY <1>1, <1>2

LEMMA RecoveryUpdate ==
    ASSUME FileShape, recovery # NoRecovery, NEW x
    PROVE  /\ [recovery EXCEPT !.stage = x] =
                 [stage |-> x, record |-> recovery.record, revision |-> recovery.revision]
           /\ [recovery EXCEPT !.stage = x].stage = x
<1>1. PICK s, r, v : recovery = [stage |-> s, record |-> r, revision |-> v]
  BY Zenon DEF FileShape
<1>2. recovery.stage = s /\ recovery.record = r /\ recovery.revision = v
  BY <1>1
<1> QED
  BY <1>1, <1>2

LEMMA InitInv == FileInit => FileInv
<1> SUFFICES ASSUME FileInit PROVE FileInv
  OBVIOUS
<1>1. FileShape
  BY FileAssumption DEF FileInit, FileShape, NoRecord, NoRecovery, Socket, Revision
<1>2. ToldIsDurable /\ BaselineIsMerged
  BY DEF FileInit, ToldIsDurable, BaselineIsMerged
<1>3. StagesAgree
  BY DEF FileInit, StagesAgree, NoJob, NoRecovery, Saving, Connected, Open
<1>4. RoomIsStored /\ LoadIsCurrent /\ RoomHasBaseline
  BY DEF FileInit, RoomIsStored, LoadIsCurrent, RoomHasBaseline, NoJob, Saving, Stored
<1> QED
  BY <1>1, <1>2, <1>3, <1>4 DEF FileInv

\* A step that changes nothing of the room, the disk and the history keeps the
\* invariant, if it opens no socket of a room that has none.
LEMMA QuietStep ==
    ASSUME FileInv, UNCHANGED <<room, doc, job, file, backups, recovery, told>>,
           conn' \in [Client -> Socket], cloud' \in Revision,
           Open' # {} => Open # {}, Connected' # {} => room = "open"
    PROVE  FileInv'
<1>1. FileShape'
  BY DEF FileInv, FileShape
<1>2. ToldIsDurable' /\ BaselineIsMerged' /\ RoomIsStored' /\ LoadIsCurrent'
  BY DEF FileInv, ToldIsDurable, Kept, BackedUp, BaselineIsMerged, RoomIsStored, LoadIsCurrent,
         Saving, Stored
<1>3. StagesAgree'
  BY DEF FileInv, StagesAgree, Saving
<1>4. RoomHasBaseline'
  BY DEF FileInv, RoomHasBaseline, Saving, Stored
<1> QED
  BY <1>1, <1>2, <1>3, <1>4 DEF FileInv

\* Closing sockets opens none.
LEMMA ClosingFact ==
    ASSUME FileShape, NEW cs, Closing(cs) \/ UNCHANGED conn
    PROVE  conn' \in [Client -> Socket] /\ Open' \subseteq Open /\ Connected' \subseteq Connected
BY DEF Closing, FileShape, Socket, Open, Connected

LEMMA ClientInv ==
    ASSUME FileInv, NEW c \in Client, ClientStep(c)
    PROVE  FileInv'
<1> USE DEF FileInv
<1>1. CASE \E e \in Edit : Make(c, e)
  <2>1. UNCHANGED core
    BY <1>1 DEF Make, core, roomVars, diskVars
  <2> QED
    BY <2>1, QuietStep DEF core, FileShape, StagesAgree, Open, Connected
<1>2. CASE Flush(c) \/ Withdraw(c)
  <2>1. UNCHANGED core
    BY <1>2 DEF Flush, Withdraw, core, roomVars, diskVars
  <2> QED
    BY <2>1, QuietStep DEF core, FileShape, StagesAgree, Open, Connected
<1>3. CASE Connect(c)
  <2>1. CASE room # "open"
    <3>1. /\ room' = "loading" /\ conn' = [conn EXCEPT ![c] = "joining"]
          /\ job' = IF room = "none" THEN NewJob("load", {}, {}, "read") ELSE job
          /\ recovery.stage \notin {"backup", "verify"}
          /\ UNCHANGED <<cloud, doc, file, backups, recovery, told>>
      BY <1>3, <2>1 DEF Connect, diskVars
    <3>2. conn' \in [Client -> Socket] /\ Open' = {} /\ Connected' = {}
      BY <2>1, <3>1 DEF FileShape, StagesAgree, Open, Connected, Socket
    <3>3. FileShape'
      BY <3>1, <3>2 DEF FileShape, NewJob
    <3>4. ToldIsDurable' /\ BaselineIsMerged'
      BY <3>1 DEF ToldIsDurable, Kept, BackedUp, BaselineIsMerged
    <3>5. job'.kind = "load" /\ job'.from = {} /\ (job' = job \/ job'.stage = "read")
      BY <2>1, <3>1 DEF FileShape, StagesAgree, NewJob, NoJob
    <3> QED
      BY <3>1, <3>2, <3>3, <3>4, <3>5
      DEF StagesAgree, RoomIsStored, LoadIsCurrent, RoomHasBaseline, Saving, Stored
  <2>2. CASE room = "open"
    <3>1. UNCHANGED <<cloud, room, doc, job, file, backups, recovery, told>> /\ Open # {}
      BY <1>3, <2>2 DEF Connect, diskVars
    <3>2. conn' \in [Client -> Socket]
      BY <1>3, <2>2 DEF Connect, Join, FileShape, Socket
    <3> QED
      BY <2>2, <3>1, <3>2, QuietStep DEF FileShape
  <2> QED
    BY <2>1, <2>2
<1>4. CASE Closed(c)
  <2>1. /\ UNCHANGED <<cloud, room, doc, file, backups, recovery, told>>
        /\ job' = Orphan(c) /\ conn' = [d \in Client |-> IF d \in {c} THEN "away" ELSE conn[d]]
    BY <1>4 DEF Closed, Gone, diskVars
  <2>2. conn' \in [Client -> Socket] /\ Open' \subseteq Open /\ Connected' \subseteq Connected
    BY <2>1 DEF FileShape, Socket, Open, Connected
  <2>3. \/ job' = NoJob
        \/ /\ job' = [kind |-> job.kind, from |-> job'.from, ops |-> job.ops, stage |-> job.stage,
                      record |-> job.record]
           /\ job'.kind = job.kind /\ job'.stage = job.stage /\ job'.ops = job.ops
           /\ job'.record = job.record
        \/ job' = job
    BY <2>1, JobUpdate DEF Orphan
  <2>10. job' # NoJob => job # NoJob
    BY <2>1 DEF Orphan
  <2>4. job' = NoJob => job.kind # "load" \/ job = NoJob
    BY <2>1, JobUpdate DEF Orphan, StagesAgree, NoJob
  <2>5. FileShape'
    <3>1. CASE job' = NoJob
      BY <2>1, <2>2, <3>1 DEF FileShape
    <3>2. CASE job' # NoJob
      BY <2>1, <2>2, <2>3, <2>10, <3>2 DEF FileShape
    <3> QED
      BY <3>1, <3>2
  <2>6. ToldIsDurable' /\ BaselineIsMerged'
    BY <2>1 DEF ToldIsDurable, Kept, BackedUp, BaselineIsMerged
  <2>7. StagesAgree'
    <3>1. job.kind = "load" => job'.from = {}
      BY <2>1, JobUpdate DEF Orphan, StagesAgree
    <3> QED
      BY <2>1, <2>2, <2>3, <2>4, <3>1 DEF StagesAgree, Saving, NoJob
  <2>8. RoomIsStored' /\ LoadIsCurrent'
    BY <2>1, <2>3 DEF RoomIsStored, LoadIsCurrent, Saving, Stored, BackedUp, NoJob
  <2>9. RoomHasBaseline'
    <3>1. ~Stored' => ~Stored
      BY <2>1, <2>3 DEF Orphan, Stored, NoJob
    <3> QED
      BY <2>1, <2>2, <2>3, <3>1 DEF RoomHasBaseline, Saving, Stored, NoJob
  <2> QED
    BY <2>5, <2>6, <2>7, <2>8, <2>9
<1>5. CASE Leave(c)
  <2>1. UNCHANGED <<cloud, room, doc, job, file, backups, recovery, told>>
    BY <1>5 DEF Leave, roomVars, diskVars
  <2>2. conn[c] = "open" /\ conn' = [conn EXCEPT ![c] = "leaving"]
    BY <1>5 DEF Leave
  <2> QED
    BY <2>1, <2>2, QuietStep DEF FileShape, StagesAgree, Socket, Open, Connected
<1>6. CASE Drop(c)
  <2>1. UNCHANGED <<cloud, room, doc, job, file, backups, recovery, told>>
    BY <1>6 DEF Drop, roomVars, diskVars
  <2>2. \/ conn[c] = "open" /\ conn' = [conn EXCEPT ![c] = "closing"]
        \/ conn[c] = "joining" /\ conn' = [conn EXCEPT ![c] = "away"]
    BY <1>6 DEF Drop
  <2> QED
    BY <2>1, <2>2, QuietStep DEF FileShape, StagesAgree, Socket, Open, Connected
<1>7. CASE Retry(c)
  <2>1. UNCHANGED <<cloud, room, doc, job, file, backups, recovery, told>>
    BY <1>7 DEF Retry, roomVars, diskVars
  <2>2. conn[c] = "stopped" /\ conn' = [conn EXCEPT ![c] = "away"]
    BY <1>7 DEF Retry
  <2> QED
    BY <2>1, <2>2, QuietStep DEF FileShape, StagesAgree, Socket, Open, Connected
<1>8. CASE Deliver(c)
  <2>1. UNCHANGED <<cloud, room, doc, job, file, backups, recovery, told>>
    BY <1>8 DEF Deliver, diskVars
  <2>2. c \in Connected /\ (conn' = conn \/ conn' = [conn EXCEPT ![c] = "closing"])
    BY <1>8 DEF Deliver
  <2> QED
    BY <2>1, <2>2, QuietStep DEF FileShape, StagesAgree, Socket, Open, Connected
<1>9. CASE Greet(c)
  <2>1. /\ UNCHANGED <<cloud, room, doc, job, file, backups, recovery, told>>
        /\ Closing({d \in {c} : access[d] = "none"})
    BY <1>9 DEF Greet, roomVars, diskVars
  <2> QED
    BY <2>1, ClosingFact, QuietStep DEF FileShape, StagesAgree
<1> QED
  BY <1>1, <1>2, <1>3, <1>4, <1>5, <1>6, <1>7, <1>8, <1>9 DEF ClientStep

\* A task that ends without having stored anything keeps the invariant.
LEMMA EndInv ==
    ASSUME FileInv, job # NoJob, job.kind # "load", ~Stored, job' = NoJob,
           UNCHANGED <<cloud, room, doc, file, backups, recovery>>,
           conn' \in [Client -> Socket], Open' \subseteq Open, Connected' \subseteq Connected,
           told' \subseteq told \cup doc
    PROVE  FileInv'
<1> USE DEF FileInv
<1>1. FileShape'
  BY DEF FileShape
<1>2. room = "open"
  BY DEF StagesAgree, FileShape, NoJob
<1>3. ToldIsDurable' /\ BaselineIsMerged'
  BY <1>2 DEF ToldIsDurable, Kept, BackedUp, BaselineIsMerged, RoomIsStored
<1>4. StagesAgree' /\ RoomIsStored' /\ LoadIsCurrent' /\ RoomHasBaseline'
  BY <1>2 DEF StagesAgree, RoomIsStored, LoadIsCurrent, RoomHasBaseline, NoJob, Saving, Stored, BackedUp
<1> QED
  BY <1>1, <1>3, <1>4

\* So does a question that is answered and whose task goes on.
LEMMA AnsweredInv ==
    ASSUME FileInv, job # NoJob, job.kind = "step1", Advance("tell", {}, job.record),
           UNCHANGED <<cloud, room, doc, file, backups, recovery>>,
           conn' \in [Client -> Socket], Open' \subseteq Open, Connected' \subseteq Connected,
           told' \subseteq told \cup doc
    PROVE  FileInv'
<1> USE DEF FileInv
<1>1. job'.kind = "step1" /\ job'.stage = "tell"
  BY DEF Advance
<1>2. FileShape'
  BY <1>1 DEF FileShape, Advance
<1>3. room = "open"
  BY DEF StagesAgree
<1>4. ToldIsDurable' /\ BaselineIsMerged'
  BY <1>3 DEF ToldIsDurable, Kept, BackedUp, BaselineIsMerged, RoomIsStored
<1>5. StagesAgree' /\ RoomIsStored' /\ LoadIsCurrent' /\ RoomHasBaseline'
  BY <1>1, <1>3 DEF StagesAgree, RoomIsStored, LoadIsCurrent, RoomHasBaseline, Saving, Stored, BackedUp
<1> QED
  BY <1>2, <1>4, <1>5

\* So does one that goes on, when what it is to write agrees with the file.
LEMMA AdvanceInv ==
    ASSUME FileInv, job # NoJob, NEW stage, NEW ops, NEW record,
           job' = [kind |-> job.kind, from |-> job.from, ops |-> ops, stage |-> stage, record |-> record],
           UNCHANGED <<cloud, room, doc, file, backups, recovery, told>>,
           conn' \in [Client -> Socket], Open' \subseteq Open, Connected' \subseteq Connected,
           stage \in {"read", "revision", "cloud", "write"}, ~Stored,
           job.kind # "step1", Saving => stage \in {"read", "write"},
           job.kind = "load" => stage # "revision",
           Saving => Open # {} \/ job.stage \in {"read", "write"},
           Saving /\ stage = "write" => record = file,
           job.kind = "load" /\ stage \in {"cloud", "write"} => record = file,
           job.kind \in {"coordinate", "load"} /\ stage = "write" => \E r \in Revision : ops = {r}
    PROVE  FileInv'
<1> USE DEF FileInv
<1>1. /\ job'.kind = job.kind /\ job'.stage = stage /\ job'.ops = ops /\ job'.record = record
      /\ job'.from = job.from
  OBVIOUS
<1>2. FileShape'
  BY <1>1 DEF FileShape
<1>3. ToldIsDurable' /\ BaselineIsMerged'
  BY DEF ToldIsDurable, Kept, BackedUp, BaselineIsMerged
<1>4. StagesAgree'
  BY <1>1 DEF StagesAgree, Saving
<1>5. RoomIsStored' /\ LoadIsCurrent'
  BY <1>1 DEF RoomIsStored, LoadIsCurrent, Saving, Stored, BackedUp
<1>6. RoomHasBaseline'
  BY <1>1 DEF RoomHasBaseline, Saving, Stored
<1> QED
  BY <1>2, <1>3, <1>4, <1>5, <1>6

LEMMA TaskInv ==
    ASSUME FileInv,
           Start \/ Handle \/ TellRevision \/ ReadRecord \/ WriteRecord \/ Broadcast \/ SaveFails
    PROVE  FileInv'
<1> USE DEF FileInv
<1>1. CASE Start
  <2>1. /\ UNCHANGED <<conn, cloud, room, doc, file, backups, recovery, told>>
        /\ room = "open" /\ job = NoJob
    BY <1>1 DEF Start, clientVars, diskVars
  <2>2. PICK k \in {"step1", "step2", "update", "coordinate"} : \E f, o :
            job' = [kind |-> k, from |-> f, ops |-> o, stage |-> "start", record |-> NoRecord]
    BY <1>1 DEF Start, NewJob
  <2>3. FileShape' /\ job'.kind = k /\ job'.stage = "start"
    BY <2>1, <2>2 DEF FileShape
  <2>4. ToldIsDurable' /\ BaselineIsMerged'
    BY <2>1 DEF ToldIsDurable, Kept, BackedUp, BaselineIsMerged
  <2>5. StagesAgree' /\ RoomIsStored' /\ LoadIsCurrent' /\ RoomHasBaseline'
    BY <2>1, <2>3 DEF StagesAgree, RoomIsStored, LoadIsCurrent, RoomHasBaseline, Saving, Stored,
       BackedUp, Connected, Open, NoJob
  <2> QED
    BY <2>3, <2>4, <2>5
<1>2. CASE Handle
  <2> DEFINE allowed == {c \in job.from \cap Open : access[c] # "none"}
  <2>1. /\ job # NoJob /\ job.kind \in {"step1", "step2", "update"} /\ job.stage = "start"
        /\ UNCHANGED <<room, doc, file, backups, recovery, cloud>>
    BY <1>2 DEF Handle, diskVars
  <2>2. ~Stored /\ job.kind # "load" /\ job.kind # "coordinate"
    BY <2>1 DEF Stored
  <2>3. CASE allowed = {}
    <3>1. job' = NoJob /\ Closing(job.from) /\ told' = told
      BY <1>2, <2>3 DEF Handle, EndTask
    <3> QED
      BY <2>1, <2>2, <3>1, ClosingFact, EndInv
  <2>4. CASE allowed # {} /\ job.kind = "step1"
    <3>1. Advance("tell", {}, job.record) /\ Send(allowed, doc)
      BY <1>2, <2>4 DEF Handle
    <3>2. Closing({c \in allowed : access[c] = "none"}) /\ told' \subseteq told \cup doc
      BY <3>1 DEF Send
    <3> QED
      BY <2>1, <2>4, <3>1, <3>2, ClosingFact, AnsweredInv
  <2>5. CASE allowed # {} /\ job.kind # "step1" /\ (job.ops \subseteq doc \/ \E c \in allowed : access[c] # "editor")
    <3>1. job' = NoJob /\ told' = told /\ (UNCHANGED conn \/ Closing(allowed))
      BY <1>2, <2>5 DEF Handle, EndTask
    <3> QED
      BY <2>1, <2>2, <3>1, ClosingFact, EndInv
  <2>6. CASE allowed # {} /\ job.kind # "step1" /\ ~(job.ops \subseteq doc) /\ ~(\E c \in allowed : access[c] # "editor")
    <3>1. Advance("read", job.ops, job.record) /\ UNCHANGED <<conn, told>>
      BY <1>2, <2>6 DEF Handle
    <3>2. job' = [kind |-> job.kind, from |-> job.from, ops |-> job.ops, stage |-> "read", record |-> job.record]
      BY <3>1 DEF Advance
    <3>3. Open # {}
      BY <2>6
    <3> HIDE DEF allowed
    <3> QED
      BY <2>1, <2>2, <2>6, <3>1, <3>2, <3>3, ClosingFact, AdvanceInv DEF Saving
  <2> QED
    BY <2>3, <2>4, <2>5, <2>6
<1>3. CASE ReadRecord
  <2>1. /\ job # NoJob /\ job.kind \in {"step2", "update"} /\ job.stage = "read"
        /\ Advance("write", job.ops, file)
        /\ UNCHANGED <<conn, room, doc, file, backups, recovery, cloud, told>>
    BY <1>3 DEF ReadRecord, clientVars, diskVars
  <2>2. job' = [kind |-> job.kind, from |-> job.from, ops |-> job.ops, stage |-> "write", record |-> file]
    BY <2>1 DEF Advance
  <2> QED
    BY <2>1, <2>2, ClosingFact, AdvanceInv DEF Saving, Stored
<1>4. CASE WriteRecord
  <2>1. /\ job # NoJob /\ job.kind \in {"step2", "update"} /\ job.stage = "write"
        /\ file' = [job.record EXCEPT !.state = doc \cup job.ops]
        /\ doc' = doc \cup job.ops /\ Advance("tell", job.ops, job.record)
        /\ UNCHANGED <<conn, room, backups, recovery, cloud, told>>
    BY <1>4 DEF WriteRecord, clientVars
  <2>2. job' = [kind |-> job.kind, from |-> job.from, ops |-> job.ops, stage |-> "tell", record |-> job.record]
    BY <2>1 DEF Advance
  <2>3. /\ job'.kind = job.kind /\ job'.stage = "tell" /\ job'.ops = job.ops
    BY <2>2
  <2>4. job.record = file /\ room = "open" /\ file.revision \in doc
    BY <2>1 DEF RoomHasBaseline, StagesAgree, Saving, Stored
  <2>5. file' = [state |-> doc \cup job.ops, revision |-> file.revision]
    BY <2>1, <2>4, FileUpdate
  <2>6. file'.state = doc \cup job.ops /\ file'.revision = file.revision
    BY <2>5
  <2>7. FileShape'
    BY <2>1, <2>2, <2>3, <2>5, <2>6 DEF FileShape
  <2>8. ToldIsDurable' /\ BaselineIsMerged' /\ RoomIsStored'
    BY <2>1, <2>3, <2>4, <2>6 DEF ToldIsDurable, Kept, BackedUp, BaselineIsMerged, RoomIsStored, Stored
  <2>9. StagesAgree' /\ LoadIsCurrent'
    BY <2>1, <2>3, <2>4 DEF StagesAgree, LoadIsCurrent, Saving, Connected, Open
  <2>10. RoomHasBaseline'
    <3>1. file' # NoRecord
      BY <2>4, <2>6 DEF NoRecord
    <3> QED
      BY <2>1, <2>3, <2>4, <2>6, <3>1 DEF RoomHasBaseline, Saving, Stored
  <2> QED
    BY <2>7, <2>8, <2>9, <2>10
<1>5. CASE Broadcast
  <2>1. /\ job # NoJob /\ job.kind \in {"step2", "update"} /\ job.stage = "tell"
        /\ job' = NoJob /\ Send(Client, job.ops)
        /\ UNCHANGED <<room, doc, file, backups, recovery, cloud>>
    BY <1>5 DEF Broadcast, diskVars, EndTask
  <2>2. job.ops \subseteq doc /\ ~Stored
    BY <2>1 DEF RoomIsStored, Saving, Stored
  <2>3. Closing({c \in Client : access[c] = "none"}) /\ told' \subseteq told \cup doc
    BY <2>1, <2>2 DEF Send
  <2> QED
    BY <2>1, <2>2, <2>3, ClosingFact, EndInv
<1>6. CASE SaveFails
  <2>1. /\ job # NoJob /\ job.kind \in {"step2", "update"} /\ job' = NoJob /\ Closing(job.from)
        /\ UNCHANGED <<room, doc, file, backups, recovery, cloud, told>>
    BY <1>6 DEF SaveFails, diskVars, EndTask
  <2> QED
    BY <2>1, ClosingFact, EndInv DEF Stored
<1>7. CASE TellRevision
  <2>1. /\ job # NoJob /\ job.kind = "step1" /\ job' = NoJob /\ Send(job.from, {})
        /\ UNCHANGED <<room, doc, file, backups, recovery, cloud>>
    BY <1>7 DEF TellRevision, diskVars, EndTask
  <2>2. Closing({c \in job.from : access[c] = "none"}) /\ told' = told
    BY <2>1 DEF Send
  <2> QED
    BY <2>1, <2>2, ClosingFact, EndInv DEF Stored
<1> QED
  BY <1>1, <1>2, <1>3, <1>4, <1>5, <1>6, <1>7

LEMMA CoordinationInv ==
    ASSUME FileInv,
           \/ ActFor \/ ReadBaseline \/ ReadRevision \/ ReadCloud \/ WriteCheckpoint \/ Accept
           \/ CoordinationFails
    PROVE  FileInv'
<1> USE DEF FileInv
<1>1. CASE ActFor
  <2>1. /\ job # NoJob /\ job.kind \in {"coordinate", "load"} /\ job.stage = "start"
        /\ UNCHANGED <<room, doc, file, backups, recovery, cloud, told>>
    BY <1>1 DEF ActFor, Coordinating, diskVars
  <2>2. job.kind = "coordinate" /\ ~Stored /\ ~Saving
    BY <2>1 DEF StagesAgree, Stored, Saving
  <2>3. \/ Advance("read", job.ops, job.record) /\ UNCHANGED conn
        \/ job' = NoJob /\ ((\E c \in Open : Closing({c})) \/ UNCHANGED conn)
    BY <1>1 DEF ActFor, EndTask
  <2>4. CASE Advance("read", job.ops, job.record) /\ UNCHANGED conn
    BY <2>1, <2>2, <2>4, ClosingFact, AdvanceInv DEF Advance
  <2>5. CASE job' = NoJob /\ ((\E c \in Open : Closing({c})) \/ UNCHANGED conn)
    BY <2>1, <2>2, <2>5, ClosingFact, EndInv
  <2> QED
    BY <2>3, <2>4, <2>5
<1>2. CASE ReadBaseline
  <2>1. /\ job # NoJob /\ job.kind \in {"coordinate", "load"} /\ job.stage = "read"
        /\ Advance(IF job.kind = "load" THEN "cloud" ELSE "revision", {}, file)
        /\ UNCHANGED <<conn, room, doc, file, backups, recovery, cloud, told>>
    BY <1>2 DEF ReadBaseline, Coordinating, clientVars, diskVars
  <2>2. ~Stored /\ ~Saving /\ job.kind # "step1"
    BY <2>1 DEF Stored, Saving
  <2> QED
    BY <2>1, <2>2, ClosingFact, AdvanceInv DEF Advance
<1>3. CASE ReadRevision
  <2>1. /\ job # NoJob /\ job.kind \in {"coordinate", "load"} /\ job.stage = "revision"
        /\ Advance("cloud", job.ops, job.record) \/ job' = NoJob
        /\ UNCHANGED <<conn, room, doc, file, backups, recovery, cloud, told>>
    BY <1>3 DEF ReadRevision, Coordinating, clientVars, diskVars, EndTask
  <2>2. ~Stored /\ ~Saving /\ job.kind = "coordinate"
    BY <2>1 DEF Stored, Saving, StagesAgree
  <2>3. CASE Advance("cloud", job.ops, job.record)
    BY <2>1, <2>2, <2>3, ClosingFact, AdvanceInv DEF Advance
  <2>4. CASE job' = NoJob
    BY <2>1, <2>2, <2>4, ClosingFact, EndInv
  <2> QED
    BY <2>1, <2>3, <2>4
<1>4. CASE ReadCloud
  <2>1. /\ job # NoJob /\ job.kind \in {"coordinate", "load"} /\ job.stage = "cloud"
        /\ Advance("write", {cloud}, job.record)
        /\ UNCHANGED <<conn, room, doc, file, backups, recovery, cloud, told>>
    BY <1>4 DEF ReadCloud, Coordinating, clientVars, diskVars
  <2>2. ~Stored /\ ~Saving /\ job.kind # "step1" /\ cloud \in Revision
    BY <2>1 DEF Stored, Saving, FileShape
  <2>3. job.kind = "load" => job.record = file
    BY <2>1 DEF LoadIsCurrent
  <2> QED
    BY <2>1, <2>2, <2>3, ClosingFact, AdvanceInv DEF Advance
<1>5. CASE WriteCheckpoint
  <2>1. PICK r \in job.ops :
           /\ file' = Reconciled(r) /\ Advance("tell", job.ops, job.record)
           /\ job # NoJob /\ job.kind \in {"coordinate", "load"} /\ job.stage = "write"
           /\ UNCHANGED <<conn, room, doc, backups, recovery, cloud, told>>
    BY <1>5 DEF WriteCheckpoint, Coordinating, clientVars
  <2>2. r \in Revision /\ job.ops = {r}
    BY <2>1 DEF LoadIsCurrent
  <2>3. job'.kind = job.kind /\ job'.stage = "tell" /\ job'.ops = {r} /\ job'.from = job.from
        /\ job'.record = job.record
    BY <2>1, <2>2 DEF Advance
  <2>4. /\ file'.state = (IF job.kind = "load" THEN job.record.state ELSE doc) \cup {r}
        /\ file'.revision = r /\ file' # NoRecord
    BY <2>1, <2>2, FileAssumption DEF Reconciled, NoRecord, Revision
  <2>5. FileShape'
    BY <2>1, <2>3, <2>4 DEF FileShape, Advance, Reconciled
  <2>6. StagesAgree'
    BY <2>1, <2>3 DEF StagesAgree, Saving, Connected, Open
  <2>7. CASE job.kind = "load"
    <3>1. job.record = file /\ room = "loading"
      BY <2>1, <2>7 DEF LoadIsCurrent, StagesAgree
    <3>2. ToldIsDurable' /\ BaselineIsMerged'
      BY <2>1, <2>4, <2>7, <3>1 DEF ToldIsDurable, Kept, BackedUp, BaselineIsMerged
    <3>3. RoomIsStored' /\ LoadIsCurrent' /\ RoomHasBaseline'
      BY <2>1, <2>3, <2>4, <2>7, <3>1
      DEF RoomIsStored, LoadIsCurrent, RoomHasBaseline, Saving, Stored
    <3> QED
      BY <2>5, <2>6, <3>2, <3>3
  <2>8. CASE job.kind = "coordinate"
    <3>1. room = "open" /\ ~(job.kind = "load")
      BY <2>1, <2>8 DEF StagesAgree
    <3>2. ToldIsDurable' /\ BaselineIsMerged'
      BY <2>1, <2>4, <2>8, <3>1 DEF ToldIsDurable, Kept, BackedUp, BaselineIsMerged, RoomIsStored
    <3>3. RoomIsStored' /\ LoadIsCurrent' /\ RoomHasBaseline'
      BY <2>1, <2>3, <2>4, <2>8, <3>1
      DEF RoomIsStored, LoadIsCurrent, RoomHasBaseline, Saving, Stored, BackedUp
    <3> QED
      BY <2>5, <2>6, <3>2, <3>3
  <2> QED
    BY <2>1, <2>7, <2>8
<1>6. CASE Accept
  <2>1. /\ job # NoJob /\ job.kind \in {"coordinate", "load"} /\ job.stage = "tell" /\ job' = NoJob
        /\ doc' = IF job.kind = "load" THEN job.record.state \cup job.ops ELSE doc \cup job.ops
        /\ UNCHANGED <<file, backups, recovery, cloud>>
    BY <1>6 DEF Accept, Coordinating, EndTask, diskVars
  <2>2. CASE job.kind = "load"
    <3>1. room' = "open" /\ conn' \in [Client -> Socket] /\ told' = told
      BY <1>6, <2>1, <2>2 DEF Accept, Join, FileShape, Socket
    <3>2. doc' = file.state /\ file # NoRecord /\ room = "loading"
      BY <2>1, <2>2 DEF LoadIsCurrent, StagesAgree
    <3>3. FileShape' /\ ToldIsDurable' /\ BaselineIsMerged'
      BY <2>1, <3>1 DEF FileShape, ToldIsDurable, Kept, BackedUp, BaselineIsMerged
    <3>4. StagesAgree'
      BY <2>1, <3>1, <3>2 DEF StagesAgree, NoJob, Saving
    <3>5. RoomIsStored' /\ LoadIsCurrent' /\ RoomHasBaseline'
      BY <2>1, <3>1, <3>2
      DEF RoomIsStored, LoadIsCurrent, RoomHasBaseline, NoJob, Saving, Stored, ToldIsDurable, Kept,
          BackedUp, BaselineIsMerged
    <3> QED
      BY <3>3, <3>4, <3>5
  <2>3. CASE job.kind = "coordinate"
    <3>1. room' = room /\ Send(Client, job.ops) /\ room = "open" /\ ~(job.kind = "load")
      BY <1>6, <2>1, <2>3 DEF Accept, StagesAgree
    <3>2. Closing({c \in Client : access[c] = "none"}) /\ told' \subseteq told \cup job.ops
      BY <3>1 DEF Send
    <3>3. conn' \in [Client -> Socket] /\ Open' \subseteq Open /\ Connected' \subseteq Connected
      BY <3>2, ClosingFact
    <3>4. job.ops \subseteq file.state /\ file.revision \in job.ops /\ doc' = doc \cup job.ops
      BY <2>1, <2>3, <3>1 DEF RoomIsStored, RoomHasBaseline, Stored
    <3>5. FileShape' /\ ToldIsDurable' /\ BaselineIsMerged'
      BY <2>1, <3>1, <3>2, <3>3, <3>4 DEF FileShape, ToldIsDurable, Kept, BackedUp, BaselineIsMerged
    <3>6. StagesAgree'
      BY <2>1, <3>1, <3>3 DEF StagesAgree, NoJob, Saving
    <3>7. RoomIsStored' /\ LoadIsCurrent' /\ RoomHasBaseline'
      BY <2>1, <3>1, <3>2, <3>4
      DEF RoomIsStored, LoadIsCurrent, RoomHasBaseline, NoJob, Saving, Stored, BackedUp
    <3> QED
      BY <3>5, <3>6, <3>7
  <2> QED
    BY <2>1, <2>2, <2>3
<1>7. CASE CoordinationFails
  <2>1. /\ job # NoJob /\ job.kind \in {"coordinate", "load"} /\ Fail /\ job' = NoJob
        /\ room' = IF job.kind = "load" THEN "none" ELSE room
        /\ UNCHANGED <<doc, file, backups, recovery, cloud, told>>
    BY <1>7 DEF CoordinationFails, Coordinating, EndTask, diskVars
  <2>2. conn' \in [Client -> Socket] /\ Open' \subseteq Open /\ Connected' \subseteq Connected
    BY <2>1 DEF Fail, FileShape, Socket, Open, Connected
  <2>3. FileShape' /\ ToldIsDurable' /\ BaselineIsMerged'
    BY <2>1, <2>2 DEF FileShape, ToldIsDurable, Kept, BackedUp, BaselineIsMerged
  <2>4. CASE job.kind = "load"
    <3>1. room = "loading" /\ room' = "none"
      BY <2>1, <2>4 DEF StagesAgree
    <3> QED
      BY <2>1, <2>2, <2>3, <3>1
      DEF StagesAgree, RoomIsStored, LoadIsCurrent, RoomHasBaseline, NoJob, Saving, Stored
  <2>5. CASE job.kind = "coordinate"
    <3>1. room = "open" /\ room' = "open" /\ ~(job.kind = "load")
      BY <2>1, <2>5 DEF StagesAgree
    <3>2. Open' = {}
      BY <2>1, <3>1 DEF Fail, FileShape, Open
    <3> QED
      BY <2>1, <2>2, <2>3, <3>1, <3>2
      DEF StagesAgree, RoomIsStored, LoadIsCurrent, RoomHasBaseline, NoJob, Saving, Stored, BackedUp
  <2> QED
    BY <2>1, <2>4, <2>5
<1> QED
  BY <1>1, <1>2, <1>3, <1>4, <1>5, <1>6, <1>7

LEMMA ServerInv ==
    ASSUME FileInv,
           \/ SaveCloud \/ Recheck \/ Dispose \/ Inspect \/ Confirm \/ BackUp \/ Replace
           \/ RecoveryFails \/ Crash
    PROVE  FileInv'
<1> USE DEF FileInv
<1>1. CASE SaveCloud
  <2>1. UNCHANGED <<conn, room, doc, job, file, backups, recovery, told>> /\ cloud' \in Revision
    BY <1>1, FileAssumption DEF SaveCloud, clientVars, roomVars, diskVars, FileShape, Revision
  <2> QED
    BY <2>1, QuietStep DEF FileShape, StagesAgree, Open, Connected
<1>2. CASE Recheck
  <2>1. /\ UNCHANGED <<cloud, room, doc, job, file, backups, recovery, told>>
        /\ Closing({c \in Client : access[c] = "none"})
    BY <1>2 DEF Recheck, diskVars
  <2> QED
    BY <2>1, ClosingFact, QuietStep DEF FileShape, StagesAgree
<1>3. CASE Dispose
  <2>1. /\ UNCHANGED <<conn, cloud, job, file, backups, recovery, told>>
        /\ room = "open" /\ room' = "none" /\ job = NoJob /\ Connected = {}
    BY <1>3 DEF Dispose, clientVars, diskVars
  <2>2. FileShape' /\ ToldIsDurable' /\ BaselineIsMerged'
    BY <2>1 DEF FileShape, ToldIsDurable, Kept, BackedUp, BaselineIsMerged
  <2>3. Connected' = {}
    BY <2>1 DEF Connected, Open
  <2> QED
    BY <2>1, <2>2, <2>3
    DEF StagesAgree, RoomIsStored, LoadIsCurrent, RoomHasBaseline, NoJob, Saving, Stored
<1>4. CASE Inspect \/ Confirm
  <2>1. UNCHANGED <<conn, cloud, room, doc, job, file, backups, told>>
    BY <1>4 DEF Inspect, Confirm, clientVars, roomVars
  <2>2. /\ recovery' = NoRecovery \/ /\ recovery' = [stage |-> recovery'.stage, record |-> recovery'.record,
                                                   revision |-> recovery'.revision]
                                     /\ recovery'.revision \in Revision
        /\ recovery'.stage \in {"backup", "verify"} => room = "none"
    <3>1. CASE Inspect
      BY <3>1 DEF Inspect, FileShape
    <3>2. CASE Confirm
      <4>1. recovery # NoRecovery /\ recovery.stage = "inspected"
        BY <3>2 DEF Confirm, NoRecovery
      <4>2. recovery' = NoRecovery \/ (recovery' = [recovery EXCEPT !.stage = "backup"] /\ room = "none")
        BY <3>2 DEF Confirm, Idle
      <4> QED
        BY <4>1, <4>2, RecoveryUpdate DEF NoRecovery, FileShape
    <3> QED
      BY <1>4, <3>1, <3>2
  <2>3. FileShape'
    BY <2>1, <2>2 DEF FileShape
  <2>4. ToldIsDurable' /\ BaselineIsMerged' /\ RoomIsStored' /\ LoadIsCurrent' /\ RoomHasBaseline'
    BY <2>1 DEF ToldIsDurable, Kept, BackedUp, BaselineIsMerged, RoomIsStored, LoadIsCurrent,
       RoomHasBaseline, Saving, Stored, Open
  <2>5. StagesAgree'
    BY <2>1, <2>2 DEF StagesAgree, Saving, Connected, Open
  <2> QED
    BY <2>3, <2>4, <2>5
<1>5. CASE BackUp \/ RecoveryFails
  <2>1. /\ UNCHANGED <<conn, cloud, room, doc, job, file, told>> /\ backups \subseteq backups'
        /\ recovery.stage \in {"backup", "verify"}
        /\ \E s \in {"inspected", "verify"} : recovery' = [recovery EXCEPT !.stage = s]
    BY <1>5 DEF BackUp, RecoveryFails, Torn, clientVars, roomVars
  <2>2. recovery # NoRecovery
    BY <2>1 DEF NoRecovery
  <2>3. FileShape'
    BY <2>1, <2>2, RecoveryUpdate DEF FileShape
  <2>4. BackedUp \subseteq BackedUp'
    BY <2>1 DEF BackedUp
  <2>5. ToldIsDurable' /\ BaselineIsMerged' /\ RoomIsStored' /\ LoadIsCurrent' /\ RoomHasBaseline'
    BY <2>1, <2>4 DEF ToldIsDurable, Kept, BaselineIsMerged, RoomIsStored, LoadIsCurrent,
       RoomHasBaseline, Saving, Stored, Open
  <2>6. StagesAgree'
    BY <2>1 DEF StagesAgree, Saving, Connected, Open
  <2> QED
    BY <2>3, <2>5, <2>6
<1>6. CASE Replace
  <2>1. /\ UNCHANGED <<conn, cloud, room, doc, job, backups, told>> /\ recovery.stage = "verify"
        /\ file' = IF Verified THEN [state |-> {recovery.revision}, revision |-> recovery.revision] ELSE file
        /\ recovery' = NoRecovery
    BY <1>6 DEF Replace, clientVars, roomVars
  <2>2. room = "none"
    BY <2>1 DEF StagesAgree
  <2>3. FileShape' /\ BaselineIsMerged'
    BY <2>1 DEF FileShape, BaselineIsMerged
  <2>4. ToldIsDurable'
    <3>1. CASE Verified
      <4>1. /\ Backup(TRUE) \in backups /\ Backup(TRUE).whole /\ Backup(TRUE).record = file
        BY <3>1 DEF Verified, Backup
      <4>2. file.state \subseteq BackedUp
        BY <4>1 DEF BackedUp
      <4> QED
        BY <2>1, <4>2 DEF ToldIsDurable, Kept, BackedUp
    <3>2. CASE ~Verified
      BY <2>1, <3>2 DEF ToldIsDurable, Kept, BackedUp
    <3> QED
      BY <3>1, <3>2
  <2>5. StagesAgree' /\ RoomIsStored' /\ LoadIsCurrent' /\ RoomHasBaseline'
    BY <2>1, <2>2 DEF StagesAgree, RoomIsStored, LoadIsCurrent, RoomHasBaseline, FileShape, NoJob,
       Saving, Stored, NoRecovery, Connected, Open
  <2> QED
    BY <2>3, <2>4, <2>5
<1>7. CASE Crash
  <2>1. /\ UNCHANGED <<cloud, file, told>> /\ backups \subseteq backups' /\ room' = "none" /\ job' = NoJob
        /\ recovery' = IF recovery.stage = "none" THEN recovery ELSE [recovery EXCEPT !.stage = "inspected"]
        /\ conn' = [d \in Client |-> IF d \in {c \in Client : conn[c] # "stopped"} THEN "away" ELSE conn[d]]
    BY <1>7 DEF Crash, Gone, Torn
  <2>2. conn' \in [Client -> Socket] /\ Connected' = {}
    BY <2>1 DEF FileShape, Socket, Connected, Open
  <2>3. recovery.stage # "none" => recovery # NoRecovery
    BY DEF NoRecovery
  <2>4. FileShape'
    BY <2>1, <2>2, <2>3, RecoveryUpdate DEF FileShape
  <2>5. recovery'.stage \notin {"backup", "verify"}
    BY <2>1, <2>3, RecoveryUpdate
  <2>6. BackedUp \subseteq BackedUp'
    BY <2>1 DEF BackedUp
  <2>7. ToldIsDurable' /\ BaselineIsMerged'
    BY <2>1, <2>6 DEF ToldIsDurable, Kept, BaselineIsMerged
  <2> QED
    BY <2>1, <2>2, <2>4, <2>5, <2>7
    DEF StagesAgree, RoomIsStored, LoadIsCurrent, RoomHasBaseline, NoJob, Saving, Stored
<1> QED
  BY <1>1, <1>2, <1>3, <1>4, <1>5, <1>6, <1>7

LEMMA StepInv == FileInv /\ [FileNext]_vars => FileInv'
<1> SUFFICES ASSUME FileInv, [FileNext]_vars PROVE FileInv'
  OBVIOUS
<1>1. CASE UNCHANGED vars
  <2>1. UNCHANGED core
    BY <1>1 DEF vars, core, clientVars, roomVars, diskVars
  <2> QED
    BY <2>1, QuietStep DEF core, FileInv, FileShape, StagesAgree, Open, Connected
<1>2. CASE \E c \in Client : ClientStep(c)
  BY <1>2, ClientInv
<1>3. CASE RoomStep \/ SaveFails \/ CoordinationFails
  BY <1>3, TaskInv, CoordinationInv DEF RoomStep
<1>4. CASE SaveCloud \/ Recheck \/ Dispose \/ Inspect \/ Confirm \/ BackUp \/ Replace \/ RecoveryFails \/ Crash
  BY <1>4, ServerInv
<1> QED
  BY <1>1, <1>2, <1>3, <1>4 DEF FileNext

\* The room's tasks, loaders and recoveries exclude each other as server.ts and
\* persistence.ts need: the invariant the two theorems below rest on.
THEOREM FileRoomInvariant == FileSpec => []FileInv
<1>1. FileInit => FileInv
  BY InitInv
<1>2. FileInv /\ [FileNext]_vars => FileInv'
  BY StepInv
<1> QED
  BY <1>1, <1>2, PTL DEF FileSpec

\* For any number of clients, crashes, failures and recoveries: what the server has
\* sent to a client is in the record file or in a readable backup (applyUpdate,
\* recover).
THEOREM ToldStaysDurable == FileSpec => []ToldIsDurable
<1>1. FileInv => ToldIsDurable
  BY DEF FileInv
<1> QED
  BY <1>1, FileRoomInvariant, PTL

\* The file's recorded cloud baseline is always merged into its document, whatever
\* fails between the two (createRoomCoordinator, save).
THEOREM BaselineStaysMerged == FileSpec => []BaselineIsMerged
<1>1. FileInv => BaselineIsMerged
  BY DEF FileInv
<1> QED
  BY <1>1, FileRoomInvariant, PTL

-----------------------------------------------------------------------------
(* What is left of a queue without one connection's tasks: by the least     *)
(* prefix of the queue of which it would not hold                           *)

\* "Less than" in the form the library's least-element lemma asks for.
LEMMA LessIsWellFounded == IsWellFoundedOn({p \in Nat \X Nat : p[1] < p[2]}, Nat)
BY NatLessThanWellFounded DEF OpToRel

\* Every set of natural numbers with a member has a least one.
LEMMA LeastNumber ==
    ASSUME NEW T, T \subseteq Nat, T # {}
    PROVE  \E x \in T : \A y \in T : x <= y
<1> DEFINE R == {p \in Nat \X Nat : p[1] < p[2]}
<1>1. IsWellFoundedOn(R, Nat)
  BY LessIsWellFounded
<1>2. \A x, y \in Nat : <<y, x>> \notin R => x <= y
  OBVIOUS
<1> HIDE DEF R
<1>3. PICK x \in T : \A y \in T : ~ (<<y, x>> \in R)
  BY <1>1, WFMin
<1> QED
  BY <1>2, <1>3

\* g is the table of the prefixes' results, up to n.
Prefixes(g, q, c, n) ==
    \A i \in 0..n : g[i] = IF i = 0 THEN <<>> ELSE IF q[i].from = {c} THEN g[i - 1] ELSE Append(g[i - 1], q[i])

\* Without is defined on every prefix.
LEMMA PrefixesExist ==
    ASSUME NEW S, NEW q \in Seq(S), NEW c
    PROVE  \A n \in 0..Len(q) : \E g \in [0..n -> Seq(S)] : Prefixes(g, q, c, n)
<1> DEFINE Bad == {n \in 0..Len(q) : ~\E g \in [0..n -> Seq(S)] : Prefixes(g, q, c, n)}
<1> SUFFICES ASSUME Bad # {} PROVE FALSE
  OBVIOUS
<1>0. Len(q) \in Nat /\ Bad \subseteq Nat
  OBVIOUS
<1>1. PICK m \in Bad : \A y \in Bad : m <= y
  BY <1>0, LeastNumber
<1>2. CASE m = 0
  <2> DEFINE g == [i \in 0..0 |-> <<>>]
  <2>1. g \in [0..0 -> Seq(S)] /\ Prefixes(g, q, c, 0)
    BY DEF Prefixes
  <2> QED
    BY <1>1, <1>2, <2>1
<1>3. CASE m # 0
  <2>1. m - 1 \in 0..Len(q) /\ m - 1 \notin Bad /\ m \in 1..Len(q)
    <3>1. m \in 0..Len(q) /\ m \in Nat /\ m - 1 \in Nat /\ ~(m <= m - 1)
      BY <1>0, <1>1, <1>3
    <3> HIDE DEF Bad
    <3> QED
      BY <1>0, <1>1, <3>1
  <2>2. PICK g \in [0..(m - 1) -> Seq(S)] : Prefixes(g, q, c, m - 1)
    BY <2>1
  <2>3. PICK s \in Seq(S) : s = IF q[m].from = {c} THEN g[m - 1] ELSE Append(g[m - 1], q[m])
    <3>1. g[m - 1] \in Seq(S) /\ q[m] \in S
      BY <2>1
    <3>2. Append(g[m - 1], q[m]) \in Seq(S)
      BY <3>1
    <3> HIDE DEF Bad
    <3> QED
      BY <3>1, <3>2
  <2> DEFINE h == [i \in 0..m |-> IF i = m THEN s ELSE g[i]]
  <2>4. h \in [0..m -> Seq(S)]
    BY <2>1
  <2>5. ASSUME NEW i \in 0..m
        PROVE  h[i] = IF i = 0 THEN <<>> ELSE IF q[i].from = {c} THEN h[i - 1] ELSE Append(h[i - 1], q[i])
    <3>1. CASE i = m
      <4>1. h[i] = s /\ h[i - 1] = g[m - 1]
        BY <2>1, <3>1
      <4> HIDE DEF h
      <4> QED
        BY <4>1, <2>3, <1>3, <3>1
    <3>2. CASE i # m
      <4>1. h[i] = g[i] /\ i \in 0..(m - 1) /\ (i # 0 => h[i - 1] = g[i - 1])
        BY <2>1, <3>2
      <4> HIDE DEF h
      <4> QED
        BY <4>1, <2>2 DEF Prefixes
    <3> QED
      BY <3>1, <3>2
  <2>6. Prefixes(h, q, c, m)
    BY <2>5 DEF Prefixes
  <2> QED
    BY <2>4, <2>6, <1>1
<1> QED
  BY <1>2, <1>3

\* kept is the table that Without makes of the prefixes of q.
LEMMA WithoutTable ==
    ASSUME NEW S, NEW q \in Seq(S), NEW c
    PROVE  \E kept : Prefixes(kept, q, c, Len(q)) /\ Without(q, c) = kept[Len(q)]
<1> DEFINE Table(h) == [i \in 0..Len(q) |->
                  IF i = 0 THEN <<>> ELSE IF q[i].from = {c} THEN h[i - 1] ELSE Append(h[i - 1], q[i])]
           kept == CHOOSE h : h = Table(h)
<1>0. Len(q) \in 0..Len(q)
  OBVIOUS
<1>1. PICK g \in [0..Len(q) -> Seq(S)] : Prefixes(g, q, c, Len(q))
  BY <1>0, PrefixesExist
<1>2. g = Table(g)
  BY <1>1 DEF Prefixes
<1>3. kept = Table(kept)
  <2> HIDE DEF Table
  <2> QED
    BY <1>2
<1>4. Without(q, c) = kept[Len(q)]
  BY DEF Without
<1>5. Prefixes(kept, q, c, Len(q))
  <2> HIDE DEF kept
  <2> QED
    BY <1>3 DEF Prefixes
<1> QED
  BY <1>4, <1>5

\* s is what is left of the first n tasks of q when those of c are taken out.
Filtered(s, q, c, n) ==
    \E at \in [1..Len(s) -> 1..n] :
        /\ \A i, j \in 1..Len(s) : i < j => at[i] < at[j]
        /\ \A i \in 1..Len(s) : s[i] = q[at[i]] /\ q[at[i]].from # {c}
        /\ \A k \in 1..n : q[k].from # {c} => \E i \in 1..Len(s) : at[i] = k

\* What the table says of a prefix is that prefix without the tasks of c.
LEMMA PrefixesAreFiltered ==
    ASSUME NEW S, NEW q \in Seq(S), NEW c, NEW g, Prefixes(g, q, c, Len(q))
    PROVE  \A n \in 0..Len(q) : g[n] \in Seq(S) /\ Filtered(g[n], q, c, n)
<1> DEFINE Good(n) == g[n] \in Seq(S) /\ Filtered(g[n], q, c, n)
           Bad == {n \in 0..Len(q) : ~Good(n)}
<1> SUFFICES ASSUME Bad # {} PROVE FALSE
  OBVIOUS
<1>0. Len(q) \in Nat /\ Bad \subseteq Nat
  OBVIOUS
<1>1. PICK m \in Bad : \A y \in Bad : m <= y
  BY <1>0, LeastNumber
<1>2. m \in 0..Len(q) /\ ~Good(m)
  BY <1>1
<1>3. g[m] = IF m = 0 THEN <<>> ELSE IF q[m].from = {c} THEN g[m - 1] ELSE Append(g[m - 1], q[m])
  BY <1>2 DEF Prefixes
<1>4. CASE m = 0
  <2>1. g[m] = <<>>
    BY <1>3, <1>4
  <2> DEFINE s == g[m]
             at == [i \in {} |-> 0]
  <2>2. s \in Seq(S) /\ 1..Len(s) = {} /\ at \in [{} -> 1..0]
    BY <2>1
  <2> HIDE DEF s, at
  <2>3. Filtered(s, q, c, 0)
    BY <2>2 DEF Filtered
  <2> QED
    BY <1>2, <1>4, <2>2, <2>3 DEF s
<1>5. CASE m # 0
  <2>1. m \in 1..Len(q) /\ m - 1 \in 0..Len(q) /\ m \in Nat /\ ~(m <= m - 1)
    BY <1>0, <1>2, <1>5
  <2>2. Good(m - 1)
    <3> HIDE DEF Good
    <3> QED
      BY <1>1, <2>1
  <2> DEFINE s == g[m - 1]
  <2>3. s \in Seq(S) /\ q[m] \in S
    BY <2>1, <2>2
  <2>4. PICK at \in [1..Len(s) -> 1..(m - 1)] :
            /\ \A i, j \in 1..Len(s) : i < j => at[i] < at[j]
            /\ \A i \in 1..Len(s) : s[i] = q[at[i]] /\ q[at[i]].from # {c}
            /\ \A k \in 1..(m - 1) : q[k].from # {c} => \E i \in 1..Len(s) : at[i] = k
    BY <2>2 DEF Filtered
  <2> HIDE DEF s
  <2>5. CASE q[m].from = {c}
    <3>1. g[m] = s
      BY <1>3, <1>5, <2>5 DEF s
    <3>2. at \in [1..Len(s) -> 1..m]
      BY <2>1, <2>4
    <3>3. \A k \in 1..m : q[k].from # {c} => \E i \in 1..Len(s) : at[i] = k
      BY <2>1, <2>4, <2>5
    <3>4. Filtered(s, q, c, m)
      BY <2>4, <3>2, <3>3 DEF Filtered
    <3> QED
      BY <1>2, <2>3, <3>1, <3>4
  <2>6. CASE q[m].from # {c}
    <3> DEFINE t == Append(s, q[m])
               new == [i \in 1..Len(t) |-> IF i = Len(t) THEN m ELSE at[i]]
    <3>1. g[m] = t
      BY <1>3, <1>5, <2>6 DEF s
    <3>2. /\ t \in Seq(S) /\ Len(t) = Len(s) + 1 /\ t[Len(t)] = q[m] /\ Len(s) \in Nat
          /\ \A i \in 1..Len(s) : t[i] = s[i]
      BY <2>3
    <3> HIDE DEF t
    <3>3. new \in [1..Len(t) -> 1..m] /\ new[Len(t)] = m /\ \A i \in 1..Len(s) : new[i] = at[i]
      BY <2>1, <2>4, <3>2
    <3> HIDE DEF new
    <3>4. \A i, j \in 1..Len(t) : i < j => new[i] < new[j]
      <4> SUFFICES ASSUME NEW i \in 1..Len(t), NEW j \in 1..Len(t), i < j
                   PROVE  new[i] < new[j]
        OBVIOUS
      <4>1. i \in 1..Len(s) /\ new[i] = at[i] /\ at[i] \in 1..(m - 1)
        <5>1. i \in 1..Len(s)
          BY <3>2
        <5> QED
          BY <2>4, <3>3, <5>1
      <4>2. CASE j = Len(t)
        BY <2>1, <3>3, <4>1, <4>2
      <4>3. CASE j # Len(t)
        BY <2>4, <3>2, <3>3, <4>1, <4>3
      <4> QED
        BY <4>2, <4>3
    <3>5. \A i \in 1..Len(t) : t[i] = q[new[i]] /\ q[new[i]].from # {c}
      <4> SUFFICES ASSUME NEW i \in 1..Len(t)
                   PROVE  t[i] = q[new[i]] /\ q[new[i]].from # {c}
        OBVIOUS
      <4>1. CASE i = Len(t)
        BY <2>6, <3>2, <3>3, <4>1
      <4>2. CASE i # Len(t)
        <5>1. i \in 1..Len(s)
          BY <3>2, <4>2
        <5> QED
          BY <2>4, <3>2, <3>3, <5>1
      <4> QED
        BY <4>1, <4>2
    <3>6. \A k \in 1..m : q[k].from # {c} => \E i \in 1..Len(t) : new[i] = k
      <4> SUFFICES ASSUME NEW k \in 1..m, q[k].from # {c}
                   PROVE  \E i \in 1..Len(t) : new[i] = k
        OBVIOUS
      <4>1. CASE k = m
        <5>1. Len(t) \in 1..Len(t)
          BY <3>2
        <5> QED
          BY <3>3, <4>1, <5>1
      <4>2. CASE k # m
        <5>1. PICK i \in 1..Len(s) : at[i] = k
          BY <2>1, <2>4, <4>2
        <5>2. i \in 1..Len(t)
          BY <3>2
        <5> QED
          BY <3>3, <5>1, <5>2
      <4> QED
        BY <4>1, <4>2
    <3>7. Filtered(t, q, c, m)
      BY <3>3, <3>4, <3>5, <3>6 DEF Filtered
    <3> QED
      BY <1>2, <3>1, <3>2, <3>7
  <2> QED
    BY <2>5, <2>6
<1> QED
  BY <1>4, <1>5

\* A closed connection's tasks leave the queue; the others stay, in their order.
LEMMA WithoutFilters ==
    ASSUME NEW S, NEW q \in Seq(S), NEW c
    PROVE  Without(q, c) \in Seq(S) /\ Filtered(Without(q, c), q, c, Len(q))
BY WithoutTable, PrefixesAreFiltered

-----------------------------------------------------------------------------
(* A client's messages and tasks: the invariant behind QueueIsBounded       *)

Kind == {"step1", "step2", "update"}

\* In which order a client's messages come: its question before all others, its
\* answer once, and its updates before or after the answer.
Before(k, l) == l = "update" \/ (l = "step2" /\ k # "step2")

\* Kinds of a client's messages that are on their way, that wait in the room's
\* queue, and whether one of its tasks runs.
Sent(c, k) == \E i \in 1..Len(wire[c]) : wire[c][i].kind = k
Waits(c, k) == \E i \in 1..Len(queue) : queue[i].from = {c} /\ queue[i].kind = k
Runs(c) == job # NoJob /\ c \in job.from
UnderWay(c, k) == Sent(c, k) \/ Waits(c, k) \/ (Runs(c) /\ job.kind = k)
\* The client's question has not been answered yet.
Asks(c) == Sent(c, "step1") \/ Waits(c, "step1") \/ (Runs(c) /\ job.kind = "step1" /\ job.stage = "start")

UpdatesAreEdits ==
    \A c \in Client : \A i \in 1..Len(wire[c]) :
        wire[c][i].kind = "update" => wire[c][i].ops # {} /\ wire[c][i].ops \subseteq Edit

WireInOrder ==
    \A c \in Client : \A i, j \in 1..Len(wire[c]) :
        i < j => Before(wire[c][i].kind, wire[c][j].kind)

\* A task is a coordination or comes from one client; two tasks of a client are
\* of different kinds.
TasksHaveSenders ==
    /\ \A i \in 1..Len(queue) :
           \/ queue[i].from = {} /\ queue[i].kind = "coordinate"
           \/ \E c \in Client : queue[i].from = {c} /\ queue[i].kind \in Kind
    /\ job # NoJob => job.from = {} \/ \E c \in Client : job.from = {c} /\ job.kind \in Kind

QueueInOrder ==
    \A i, j \in 1..Len(queue) :
        i < j /\ queue[i].from = queue[j].from /\ queue[i].from # {} =>
            Before(queue[i].kind, queue[j].kind) /\ queue[i].kind # queue[j].kind

\* What runs came before what waits, and that before what is on its way; a client
\* that has not had its question answered makes no update, and one that has not
\* been asked yet has answered nothing.
InOrder(c) ==
    /\ \A k, l \in Kind : Waits(c, k) /\ Sent(c, l) => Before(k, l)
    /\ \A l \in Kind : Runs(c) /\ (Waits(c, l) \/ Sent(c, l)) => Before(job.kind, l)
    /\ Asks(c) => ~UnderWay(c, "update") /\ pending[c] = {} /\ synced[c] # "now"
    /\ greeting[c] # "none" => ~UnderWay(c, "step2")

UpdateIsCollected(c) == Waits(c, "update") => queued[c] # {}

One(b) == IF b THEN 1 ELSE 0
HeldIsCounted(c) ==
    held[c] <= One(Waits(c, "step1")) + One(Waits(c, "step2")) + One(Waits(c, "update")) + One(Runs(c))

AwayIsQuiet(c) ==
    conn[c] \in {"away", "joining", "stopped"} =>
        wire[c] = <<>> /\ pending[c] = {} /\ synced[c] # "now" /\ greeting[c] = "none"

\* Nobody joins an open room while tasks of a lost connection are in it.
TasksHaveSockets(c) ==
    Open # {} /\ c \notin Connected => ~Runs(c) /\ \A k \in Kind : ~Waits(c, k)

ClientQueueInv(c) ==
    /\ InOrder(c) /\ UpdateIsCollected(c) /\ HeldIsCounted(c) /\ AwayIsQuiet(c) /\ TasksHaveSockets(c)

QueueInv ==
    /\ FileTypeOK /\ UpdatesAreEdits /\ WireInOrder /\ TasksHaveSenders /\ QueueInOrder
    /\ room # "open" => queue = <<>>
    /\ \A c \in Client : ClientQueueInv(c)

-----------------------------------------------------------------------------
(* The variables have their types                                           *)

LEMMA InitTypes == FileInit => FileTypeOK
<1> SUFFICES ASSUME FileInit PROVE FileTypeOK
  OBVIOUS
<1>1. 1 \in Revision /\ 0 \in 0..Troubles /\ Edit \in SUBSET Edit
  BY FileAssumption DEF Revision
<1>2. /\ wire \in [Client -> Seq(Message)] /\ queue \in Seq(Task)
      /\ made \in [Client -> SUBSET Op] /\ pending \in [Client -> SUBSET Edit]
  BY DEF FileInit
<1>3. /\ conn \in [Client -> Socket] /\ synced \in [Client -> {"never", "now", "before"}]
      /\ access \in [Client -> {"editor", "viewer", "none"}]
      /\ greeting \in [Client -> {"access", "question", "none"}]
      /\ queued \in [Client -> SUBSET Edit] /\ held \in [Client -> Nat]
  BY DEF FileInit, Socket
<1> QED
  BY <1>1, <1>2, <1>3 DEF FileInit, FileTypeOK

\* The fields of a job.
LEMMA JobFields ==
    ASSUME FileTypeOK, job # NoJob
    PROVE  /\ job.kind \in {"step1", "step2", "update", "coordinate", "load"}
           /\ job.from \in SUBSET Client /\ job.ops \in SUBSET Op /\ job.stage \in Stage
           /\ job.record \in Record \cup {NoRecord}
BY DEF FileTypeOK, Job

LEMMA NewJobTypes ==
    ASSUME NEW k \in {"step1", "step2", "update", "coordinate", "load"}, NEW f \in SUBSET Client,
           NEW o \in SUBSET Op, NEW s \in Stage
    PROVE  NewJob(k, f, o, s) \in Job
BY DEF NewJob, Job

\* A job that goes on is a job.
LEMMA AdvancedTypes ==
    ASSUME FileTypeOK, job # NoJob, NEW o \in SUBSET Op, NEW s \in Stage,
           NEW r \in Record \cup {NoRecord}, Advance(s, o, r)
    PROVE  job' \in Job \cup {NoJob} /\ held' \in [Client -> Nat] /\ checking' \in BOOLEAN
BY JobFields DEF Advance, Job, FileTypeOK

LEMMA EndTypes ==
    ASSUME FileTypeOK, EndTask
    PROVE  job' \in Job \cup {NoJob} /\ held' \in [Client -> Nat] /\ checking' \in BOOLEAN
<1>1. held' \in [Client -> Nat]
  BY DEF FileTypeOK, EndTask
<1>2. checking' \in BOOLEAN
  BY Zenon DEF FileTypeOK, EndTask
<1> QED
  BY <1>1, <1>2 DEF EndTask

\* The sockets after a closing, and what else sending does.
LEMMA ClosingTypes ==
    ASSUME FileTypeOK, NEW cs, Closing(cs) \/ UNCHANGED conn
    PROVE  conn' \in [Client -> Socket]
BY DEF Closing, FileTypeOK, Socket

LEMMA SendTypes ==
    ASSUME FileTypeOK, NEW cs, NEW o \in SUBSET Op, Send(cs, o)
    PROVE  made' \in [Client -> SUBSET Op] /\ told' \in SUBSET Op /\ conn' \in [Client -> Socket]
<1>1. made' \in [Client -> SUBSET Op]
  BY DEF Send, FileTypeOK
<1>2. told' \in SUBSET Op
  BY DEF Send, FileTypeOK
<1> QED
  BY <1>1, <1>2, ClosingTypes DEF Send

LEMMA JoinTypes ==
    ASSUME FileTypeOK, NEW cs, Join(cs)
    PROVE  /\ conn' \in [Client -> Socket] /\ wire' \in [Client -> Seq(Message)]
           /\ greeting' \in [Client -> {"access", "question", "none"}]
<1>1. conn' \in [Client -> Socket]
  BY DEF Join, FileTypeOK, Socket
<1>2. greeting' \in [Client -> {"access", "question", "none"}]
  BY DEF Join, FileTypeOK
<1> DEFINE m == [kind |-> "step1", ops |-> {}]
<1>3. m \in Message
  BY DEF Message
<1>4. wire' = [c \in Client |-> IF c \in cs THEN <<m>> ELSE wire[c]]
  BY DEF Join
<1> HIDE DEF m
<1>5. wire' \in [Client -> Seq(Message)]
  BY <1>3, <1>4 DEF FileTypeOK
<1> QED
  BY <1>1, <1>2, <1>5

LEMMA ClientTypes ==
    ASSUME FileTypeOK, FileShape, UpdatesAreEdits, NEW c \in Client, ClientStep(c)
    PROVE  FileTypeOK'
<1> USE DEF clientVars, roomVars, diskVars, Calm
<1>1. CASE \E e \in Edit : Make(c, e)
  <2>1. PICK e \in Edit : Make(c, e)
    BY <1>1
  <2>2. made' \in [Client -> SUBSET Op] /\ pending' \in [Client -> SUBSET Edit] /\ unmade' \in SUBSET Edit
    BY <2>1 DEF Make, FileTypeOK, Op
  <2> QED
    BY <2>1, <2>2 DEF Make, FileTypeOK
<1>2. CASE Flush(c) \/ Leave(c)
  <2>1. pending' = [pending EXCEPT ![c] = {}]
    BY <1>2 DEF Flush, Leave
  <2>2. pending' \in [Client -> SUBSET Edit]
    BY <2>1 DEF FileTypeOK
  <2> DEFINE m == [kind |-> "update", ops |-> pending[c]]
  <2>3. m \in Message
    BY DEF FileTypeOK, Message, Op
  <2>4. wire' = wire \/ wire' = [wire EXCEPT ![c] = Append(@, m)]
    BY <1>2 DEF Flush, Leave
  <2> HIDE DEF m
  <2>5. wire' \in [Client -> Seq(Message)]
    <3>1. wire[c] \in Seq(Message)
      BY DEF FileTypeOK
    <3>2. Append(wire[c], m) \in Seq(Message)
      BY <2>3, <3>1
    <3> QED
      BY <2>4, <3>2 DEF FileTypeOK
  <2>6. /\ conn' = conn \/ conn' = [conn EXCEPT ![c] = "leaving"]
        /\ made' = made \/ made' = [made EXCEPT ![c] = {}]
        /\ synced' = synced \/ synced' = [synced EXCEPT ![c] = "never"]
    BY <1>2 DEF Flush, Leave
  <2>7. /\ conn' \in [Client -> Socket] /\ made' \in [Client -> SUBSET Op]
        /\ synced' \in [Client -> {"never", "now", "before"}]
    BY <2>6 DEF FileTypeOK, Socket
  <2>8. UNCHANGED <<unmade, access, greeting, roomVars, diskVars, cloud, told, troubles>>
    BY <1>2 DEF Flush, Leave
  <2> QED
    BY <2>2, <2>5, <2>7, <2>8 DEF FileTypeOK
<1>3. CASE Connect(c)
  <2>1. UNCHANGED <<made, unmade, pending, synced, access, queue, queued, held, checking, diskVars, cloud,
                    told, troubles, doc>>
    BY <1>3 DEF Connect
  <2>2. CASE room # "open"
    <3>1. /\ room' = "loading" /\ UNCHANGED <<wire, greeting>> /\ conn' = [conn EXCEPT ![c] = "joining"]
          /\ job' = IF room = "none" THEN NewJob("load", {}, {}, "read") ELSE job
      BY <1>3, <2>2 DEF Connect
    <3>2. conn' \in [Client -> Socket]
      BY <3>1 DEF FileTypeOK, Socket
    <3>3. job' \in Job \cup {NoJob}
      BY <3>1, NewJobTypes DEF FileTypeOK, Stage
    <3> QED
      BY <2>1, <3>1, <3>2, <3>3 DEF FileTypeOK
  <2>3. CASE room = "open"
    <3>1. UNCHANGED <<room, job>> /\ Join({c})
      BY <1>3, <2>3 DEF Connect
    <3>2. /\ conn' \in [Client -> Socket] /\ wire' \in [Client -> Seq(Message)]
          /\ greeting' \in [Client -> {"access", "question", "none"}]
      BY <3>1, JoinTypes
    <3> QED
      BY <2>1, <3>1, <3>2 DEF FileTypeOK
  <2> QED
    BY <2>2, <2>3
<1>4. CASE Closed(c)
  <2>1. /\ Gone({c}) /\ job' = Orphan(c) /\ queue' = Without(queue, c)
        /\ held' = [held EXCEPT ![c] = 0] /\ queued' = [queued EXCEPT ![c] = {}]
        /\ UNCHANGED <<made, unmade, access, room, doc, checking, diskVars, cloud, told, troubles>>
    BY <1>4 DEF Closed
  <2>2. /\ conn' \in [Client -> Socket] /\ pending' \in [Client -> SUBSET Edit]
        /\ synced' \in [Client -> {"never", "now", "before"}]
        /\ greeting' \in [Client -> {"access", "question", "none"}]
    BY <2>1 DEF Gone, FileTypeOK, Socket
  <2>3. wire' \in [Client -> Seq(Message)]
    BY <2>1 DEF Gone, FileTypeOK
  <2>4. held' \in [Client -> Nat] /\ queued' \in [Client -> SUBSET Edit]
    BY <2>1 DEF FileTypeOK
  <2>5. queue' \in Seq(Task)
    BY <2>1, WithoutFilters DEF FileTypeOK
  <2>6. job' \in Job \cup {NoJob}
    <3>1. CASE job = NoJob \/ (job.from = {c} /\ job.stage = "start")
      BY <2>1, <3>1 DEF Orphan
    <3>2. CASE job # NoJob /\ ~(job.from = {c} /\ job.stage = "start")
      <4>1. job' = [kind |-> job.kind, from |-> job.from \ {c}, ops |-> job.ops, stage |-> job.stage,
                    record |-> job.record]
        BY <2>1, <3>2, JobUpdate DEF Orphan
      <4> QED
        BY <3>2, <4>1, JobFields DEF Job
    <3> QED
      BY <3>1, <3>2
  <2> QED
    BY <2>1, <2>2, <2>3, <2>4, <2>5, <2>6 DEF FileTypeOK
<1>5. CASE Drop(c) \/ Retry(c) \/ Withdraw(c)
  <2>1. \/ conn' = conn \/ conn' = [conn EXCEPT ![c] = "closing"] \/ conn' = [conn EXCEPT ![c] = "away"]
    BY <1>5 DEF Drop, Retry, Withdraw
  <2>2. /\ made' = made \/ made' = [made EXCEPT ![c] = {}]
        /\ synced' = synced \/ synced' = [synced EXCEPT ![c] = "never"]
        /\ access' = access \/ \E a \in {"viewer", "none"} : access' = [access EXCEPT ![c] = a]
    BY <1>5 DEF Drop, Retry, Withdraw
  <2>3. conn' \in [Client -> Socket] /\ made' \in [Client -> SUBSET Op]
    BY <2>1, <2>2 DEF FileTypeOK, Socket
  <2>4. synced' \in [Client -> {"never", "now", "before"}] /\ access' \in [Client -> {"editor", "viewer", "none"}]
    BY <2>2 DEF FileTypeOK
  <2>5. troubles' = troubles \/ (troubles < Troubles /\ troubles' = troubles + 1)
    BY <1>5 DEF Drop, Retry, Withdraw, Trouble
  <2>6. troubles' \in 0..Troubles
    BY <2>5, FileAssumption DEF FileTypeOK
  <2>7. UNCHANGED <<unmade, pending, wire, greeting, roomVars, diskVars, cloud, told>>
    BY <1>5 DEF Drop, Retry, Withdraw
  <2> QED
    BY <2>3, <2>4, <2>6, <2>7 DEF FileTypeOK
<1>6. CASE Deliver(c)
  <2> DEFINE m == Head(wire[c])
             t == [kind |-> m.kind, from |-> {c}, ops |-> IF m.kind = "step2" THEN m.ops ELSE {}]
  <2>1. /\ wire[c] # <<>> /\ wire' = [wire EXCEPT ![c] = Tail(@)]
        /\ queued' = IF m.kind = "update" THEN [queued EXCEPT ![c] = @ \cup m.ops] ELSE queued
        /\ held' = held \/ held' = [held EXCEPT ![c] = @ + 1]
        /\ conn' = conn \/ conn' = [conn EXCEPT ![c] = "closing"]
        /\ queue' = queue \/ queue' = Append(queue, t)
        /\ UNCHANGED <<made, unmade, pending, synced, access, greeting, room, doc, job, checking, diskVars, cloud,
                       told, troubles>>
    BY <1>6 DEF Deliver
  <2>2. m \in Message /\ Tail(wire[c]) \in Seq(Message)
    BY <2>1 DEF FileTypeOK
  <2>3. t \in Task
    BY <2>2 DEF Task, Message
  <2> HIDE DEF t
  <2>4. wire' \in [Client -> Seq(Message)]
    BY <2>1, <2>2 DEF FileTypeOK
  <2>5. queue' \in Seq(Task)
    <3>1. Append(queue, t) \in Seq(Task)
      BY <2>3 DEF FileTypeOK
    <3> QED
      BY <2>1, <3>1 DEF FileTypeOK
  <2>6. held' \in [Client -> Nat] /\ conn' \in [Client -> Socket]
    <3>1. held[c] + 1 \in Nat
      BY DEF FileTypeOK
    <3>2. held' \in [Client -> Nat]
      BY <2>1, <3>1 DEF FileTypeOK
    <3> QED
      BY <2>1, <3>2 DEF FileTypeOK, Socket
  <2>7. m.kind = "update" => m.ops \in SUBSET Edit
    <3>1. 1 \in 1..Len(wire[c]) /\ Head(wire[c]) = wire[c][1]
      BY <2>1 DEF FileTypeOK
    <3> QED
      BY <3>1 DEF UpdatesAreEdits
  <2>8. queued' \in [Client -> SUBSET Edit]
    BY <2>1, <2>7 DEF FileTypeOK
  <2> QED
    BY <2>1, <2>4, <2>5, <2>6, <2>8 DEF FileTypeOK
<1>7. CASE Greet(c)
  <2>1. /\ greeting' = [greeting EXCEPT ![c] = IF @ = "access" THEN "question" ELSE "none"]
        /\ Closing({d \in {c} : access[d] = "none"})
        /\ wire' = wire \/ wire' = [wire EXCEPT ![c] = Append(@, Answer(c))]
        /\ UNCHANGED <<made, unmade, pending, synced, access, roomVars, diskVars, cloud, told, troubles>>
    BY <1>7 DEF Greet
  <2>2. conn' \in [Client -> Socket] /\ greeting' \in [Client -> {"access", "question", "none"}]
    BY <2>1, ClosingTypes DEF FileTypeOK
  <2>3. Answer(c) \in Message
    BY DEF Answer, Message, FileTypeOK
  <2>4. wire' \in [Client -> Seq(Message)]
    <3>1. Append(wire[c], Answer(c)) \in Seq(Message)
      BY <2>3 DEF FileTypeOK
    <3> QED
      BY <2>1, <3>1 DEF FileTypeOK
  <2> QED
    BY <2>1, <2>2, <2>4 DEF FileTypeOK
<1> QED
  BY <1>1, <1>2, <1>3, <1>4, <1>5, <1>6, <1>7 DEF ClientStep

LEMMA TaskTypes ==
    ASSUME FileTypeOK, FileInv,
           Start \/ Handle \/ TellRevision \/ ReadRecord \/ WriteRecord \/ Broadcast \/ SaveFails
    PROVE  FileTypeOK'
<1> USE DEF clientVars, roomVars, diskVars, Calm
<1>1. CASE Start
  <2>1. /\ queue # <<>> /\ queue' = Tail(queue)
        /\ UNCHANGED <<clientVars, room, doc, held, checking, diskVars, cloud, told, troubles>>
    BY <1>1 DEF Start
  <2> DEFINE t == Head(queue)
             o == UNION {queued[c] : c \in t.from}
  <2>2. t \in Task /\ Tail(queue) \in Seq(Task)
    BY <2>1 DEF FileTypeOK
  <2>3. t.kind \in {"step1", "step2", "update", "coordinate"} /\ t.from \in SUBSET Client /\ t.ops \in SUBSET Op
    BY <2>2 DEF Task
  <2>4. o \in SUBSET Op
    BY <2>3 DEF FileTypeOK, Op
  <2>5. /\ job' = NewJob(t.kind, t.from, t.ops, "start") \/ job' = NewJob("update", t.from, o, "start")
        /\ queued' = queued \/ queued' = [c \in Client |-> IF c \in t.from THEN {} ELSE queued[c]]
    BY <1>1 DEF Start
  <2> HIDE DEF o, t
  <2>6. job' \in Job
    BY <2>3, <2>4, <2>5, NewJobTypes DEF Stage
  <2>7. queued' \in [Client -> SUBSET Edit]
    BY <2>5 DEF FileTypeOK
  <2> QED
    BY <2>1, <2>2, <2>6, <2>7 DEF FileTypeOK
<1>2. CASE Handle
  <2> DEFINE allowed == {c \in job.from \cap Open : access[c] # "none"}
             greeted == [c \in Client |-> IF c \in allowed /\ conn[c] = "open" THEN "now" ELSE synced[c]]
  <2>1. /\ job # NoJob
        /\ UNCHANGED <<unmade, pending, wire, access, greeting, room, doc, queue, queued, diskVars, cloud, troubles>>
    BY <1>2 DEF Handle
  <2>2. /\ EndTask \/ Advance("read", job.ops, job.record) \/ Advance("tell", {}, job.record)
        /\ \/ Closing(job.from) /\ UNCHANGED <<made, synced, told>>
           \/ Closing(allowed) /\ UNCHANGED <<made, synced, told>>
           \/ UNCHANGED <<conn, made, synced, told>>
           \/ Send(allowed, doc) /\ synced' = greeted
    BY <1>2 DEF Handle
  <2>3. job' \in Job \cup {NoJob} /\ held' \in [Client -> Nat] /\ checking' \in BOOLEAN
    BY <2>1, <2>2, EndTypes, AdvancedTypes, JobFields DEF Stage
  <2>4. greeted \in [Client -> {"never", "now", "before"}] /\ doc \in SUBSET Op
    BY DEF FileTypeOK
  <2> HIDE DEF greeted, allowed
  <2>5. /\ made' \in [Client -> SUBSET Op] /\ told' \in SUBSET Op /\ conn' \in [Client -> Socket]
        /\ synced' \in [Client -> {"never", "now", "before"}]
    BY <2>2, <2>4, ClosingTypes, SendTypes DEF FileTypeOK
  <2> QED
    BY <2>1, <2>3, <2>5 DEF FileTypeOK
<1>3. CASE ReadRecord
  <2>1. job # NoJob /\ Advance("write", job.ops, file) /\ file \in Record \cup {NoRecord}
        /\ UNCHANGED <<clientVars, room, doc, queue, queued, diskVars, cloud, told, troubles>>
    BY <1>3 DEF ReadRecord, FileTypeOK
  <2>2. job' \in Job \cup {NoJob} /\ held' \in [Client -> Nat] /\ checking' \in BOOLEAN
    BY <2>1, AdvancedTypes, JobFields DEF Stage
  <2> QED
    BY <2>1, <2>2 DEF FileTypeOK
<1>4. CASE WriteRecord
  <2>1. /\ job # NoJob /\ job.kind \in {"step2", "update"} /\ job.stage = "write"
        /\ file' = [job.record EXCEPT !.state = doc \cup job.ops]
        /\ doc' = doc \cup job.ops /\ Advance("tell", job.ops, job.record)
        /\ UNCHANGED <<clientVars, room, queue, queued, backups, recovery, cloud, told, troubles>>
    BY <1>4 DEF WriteRecord
  <2>2. job' \in Job \cup {NoJob} /\ held' \in [Client -> Nat] /\ checking' \in BOOLEAN
    BY <2>1, AdvancedTypes, JobFields DEF Stage
  <2>3. doc' \in SUBSET Op
    BY <2>1, JobFields DEF FileTypeOK
  <2>4. job.record = file /\ file # NoRecord
    BY <2>1 DEF FileInv, RoomHasBaseline, StagesAgree, Saving
  <2>5. file' = [state |-> doc', revision |-> file.revision] /\ file.revision \in Revision
    BY <2>1, <2>4, FileUpdate DEF FileInv, FileTypeOK, Record
  <2>6. file' \in Record
    BY <2>3, <2>5 DEF Record
  <2> QED
    BY <2>1, <2>2, <2>3, <2>6 DEF FileTypeOK
<1>5. CASE Broadcast \/ TellRevision
  <2>1. /\ job # NoJob /\ EndTask /\ (Send(Client, job.ops) \/ Send(job.from, {}))
        /\ UNCHANGED <<unmade, pending, wire, synced, access, greeting, room, doc, queue, queued, diskVars, cloud,
                       troubles>>
    BY <1>5 DEF Broadcast, TellRevision
  <2>2. made' \in [Client -> SUBSET Op] /\ told' \in SUBSET Op /\ conn' \in [Client -> Socket]
    <3>1. {} \in SUBSET Op
      OBVIOUS
    <3> QED
      BY <2>1, <3>1, JobFields, SendTypes
  <2>3. job' \in Job \cup {NoJob} /\ held' \in [Client -> Nat] /\ checking' \in BOOLEAN
    BY <2>1, EndTypes
  <2> QED
    BY <2>1, <2>2, <2>3 DEF FileTypeOK
<1>6. CASE SaveFails
  <2>1. /\ EndTask /\ Closing(job.from) /\ Trouble
        /\ UNCHANGED <<made, unmade, pending, wire, synced, access, greeting, room, doc, queue, queued, diskVars,
                       cloud, told>>
    BY <1>6 DEF SaveFails
  <2>2. /\ job' \in Job \cup {NoJob} /\ held' \in [Client -> Nat] /\ checking' \in BOOLEAN
        /\ conn' \in [Client -> Socket]
    BY <2>1, EndTypes, ClosingTypes
  <2>3. troubles' \in 0..Troubles
    BY <2>1, FileAssumption DEF Trouble, FileTypeOK
  <2> QED
    BY <2>1, <2>2, <2>3 DEF FileTypeOK
<1> QED
  BY <1>1, <1>2, <1>3, <1>4, <1>5, <1>6

LEMMA CoordinationTypes ==
    ASSUME FileTypeOK, FileInv,
           \/ ActFor \/ ReadBaseline \/ ReadRevision \/ ReadCloud \/ WriteCheckpoint \/ Accept
           \/ CoordinationFails \/ Recheck
    PROVE  FileTypeOK'
<1> USE DEF clientVars, roomVars, diskVars, Calm
<1>1. CASE ActFor \/ ReadBaseline \/ ReadRevision \/ ReadCloud
  <2>1. job # NoJob /\ UNCHANGED <<made, unmade, pending, wire, synced, access, greeting, room, doc, queue, queued,
                                  diskVars, cloud, told, troubles>>
    BY <1>1 DEF ActFor, ReadBaseline, ReadRevision, ReadCloud, Coordinating
  <2>2. \/ EndTask
        \/ Advance("read", job.ops, job.record)
        \/ Advance("cloud", {}, file) \/ Advance("revision", {}, file)
        \/ Advance("cloud", job.ops, job.record)
        \/ Advance("write", {cloud}, job.record)
    BY <1>1 DEF ActFor, ReadBaseline, ReadRevision, ReadCloud
  <2>3. {cloud} \in SUBSET Op /\ {} \in SUBSET Op /\ file \in Record \cup {NoRecord}
    BY DEF FileTypeOK, Op
  <2>4. job' \in Job \cup {NoJob} /\ held' \in [Client -> Nat] /\ checking' \in BOOLEAN
    BY <2>1, <2>2, <2>3, AdvancedTypes, EndTypes, JobFields DEF Stage
  <2>5. (\E cs : Closing(cs)) \/ UNCHANGED conn
    BY <1>1 DEF ActFor, ReadBaseline, ReadRevision, ReadCloud
  <2>6. conn' \in [Client -> Socket]
    BY <2>5, ClosingTypes
  <2> QED
    BY <2>1, <2>4, <2>6 DEF FileTypeOK
<1>2. CASE WriteCheckpoint
  <2>1. /\ job # NoJob /\ Advance("tell", job.ops, job.record)
        /\ UNCHANGED <<clientVars, room, doc, queue, queued, backups, recovery, cloud, told, troubles>>
        /\ job.kind \in {"coordinate", "load"} /\ job.stage = "write"
    BY <1>2 DEF WriteCheckpoint, Coordinating
  <2>2. PICK r \in job.ops : file' = Reconciled(r)
    BY <1>2 DEF WriteCheckpoint
  <2>3. job' \in Job \cup {NoJob} /\ held' \in [Client -> Nat] /\ checking' \in BOOLEAN
    BY <2>1, AdvancedTypes, JobFields DEF Stage
  <2>4. r \in Revision /\ r \in Op
    BY <2>1, <2>2 DEF FileInv, LoadIsCurrent, Op
  <2>5. job.record.state \in SUBSET Op /\ doc \in SUBSET Op
    BY <2>1, JobFields DEF FileTypeOK, Record, NoRecord
  <2>6. file' \in Record
    BY <2>2, <2>4, <2>5 DEF Reconciled, Record
  <2> QED
    BY <2>1, <2>3, <2>6 DEF FileTypeOK
<1>3. CASE Accept
  <2>1. /\ job # NoJob /\ EndTask
        /\ doc' = IF job.kind = "load" THEN job.record.state \cup job.ops ELSE doc \cup job.ops
        /\ UNCHANGED <<unmade, pending, synced, access, queue, queued, diskVars, cloud, troubles>>
    BY <1>3 DEF Accept, Coordinating
  <2>2. job' \in Job \cup {NoJob} /\ held' \in [Client -> Nat] /\ checking' \in BOOLEAN
    BY <2>1, EndTypes
  <2>3. job.record.state \in SUBSET Op /\ doc \in SUBSET Op /\ job.ops \in SUBSET Op
    BY <2>1, JobFields DEF FileTypeOK, Record, NoRecord
  <2>4. doc' \in SUBSET Op
    BY <2>1, <2>3
  <2>5. CASE job.kind = "load"
    <3>1. room' = "open" /\ Join({c \in Client : conn[c] = "joining"}) /\ UNCHANGED <<made, told>>
      BY <1>3, <2>5 DEF Accept
    <3>2. /\ conn' \in [Client -> Socket] /\ wire' \in [Client -> Seq(Message)]
          /\ greeting' \in [Client -> {"access", "question", "none"}]
      BY <3>1, JoinTypes
    <3> QED
      BY <2>1, <2>2, <2>4, <3>1, <3>2 DEF FileTypeOK
  <2>6. CASE job.kind # "load"
    <3>1. Send(Client, job.ops) /\ UNCHANGED <<room, wire, greeting>>
      BY <1>3, <2>6 DEF Accept
    <3>2. made' \in [Client -> SUBSET Op] /\ told' \in SUBSET Op /\ conn' \in [Client -> Socket]
      BY <2>3, <3>1, SendTypes
    <3> QED
      BY <2>1, <2>2, <2>4, <3>1, <3>2 DEF FileTypeOK
  <2> QED
    BY <2>5, <2>6
<1>4. CASE CoordinationFails
  <2>1. /\ Trouble /\ Fail /\ EndTask /\ room' \in {"none", room}
        /\ UNCHANGED <<made, unmade, access, doc, queue, queued, diskVars, cloud, told>>
    BY <1>4 DEF CoordinationFails
  <2>2. job' \in Job \cup {NoJob} /\ held' \in [Client -> Nat] /\ checking' \in BOOLEAN
    BY <2>1, EndTypes
  <2>3. PICK cs \in SUBSET Client :
            /\ conn' = [c \in Client |-> IF c \in cs /\ conn[c] # "leaving" /\ access[c] # "none" THEN "stopped"
                                         ELSE IF c \in cs THEN "away" ELSE conn[c]]
            /\ wire' = [c \in Client |-> IF c \in cs THEN <<>> ELSE wire[c]]
            /\ pending' = [c \in Client |-> IF c \in cs THEN {} ELSE pending[c]]
            /\ synced' = [c \in Client |-> IF c \in cs /\ synced[c] = "now" THEN "before" ELSE synced[c]]
            /\ greeting' = [c \in Client |-> IF c \in cs THEN "none" ELSE greeting[c]]
    BY <2>1 DEF Fail, Open
  <2>4. /\ conn' \in [Client -> Socket] /\ pending' \in [Client -> SUBSET Edit]
        /\ synced' \in [Client -> {"never", "now", "before"}]
        /\ greeting' \in [Client -> {"access", "question", "none"}]
    BY <2>3 DEF FileTypeOK, Socket
  <2>5. wire' \in [Client -> Seq(Message)]
    BY <2>3 DEF FileTypeOK
  <2>6. troubles' \in 0..Troubles /\ room' \in {"none", "loading", "open"}
    BY <2>1, FileAssumption DEF Trouble, FileTypeOK
  <2> QED
    BY <2>1, <2>2, <2>4, <2>5, <2>6 DEF FileTypeOK
<1>5. CASE Recheck
  <2>1. /\ Closing({c \in Client : access[c] = "none"}) /\ queue' = Append(queue, Coordinate) /\ checking' = TRUE
        /\ UNCHANGED <<made, unmade, pending, wire, synced, access, greeting, room, doc, job, queued, held, diskVars,
                       cloud, told, troubles>>
    BY <1>5 DEF Recheck
  <2>2. Coordinate \in Task
    BY DEF Coordinate, Task
  <2>3. queue' \in Seq(Task)
    BY <2>1, <2>2 DEF FileTypeOK
  <2>4. conn' \in [Client -> Socket]
    BY <2>1, ClosingTypes
  <2> QED
    BY <2>1, <2>3, <2>4 DEF FileTypeOK
<1> QED
  BY <1>1, <1>2, <1>3, <1>4, <1>5

LEMMA BackupTypes ==
    ASSUME recovery.record \in Record
    PROVE  /\ Backup(TRUE) \in [record : Record, whole : BOOLEAN]
           /\ Backup(FALSE) \in [record : Record, whole : BOOLEAN]
<1> DEFINE t == TRUE
           f == FALSE
<1>1. t \in BOOLEAN /\ f \in BOOLEAN
  OBVIOUS
<1> HIDE DEF t, f
<1>2. \A w \in BOOLEAN : [record |-> recovery.record, whole |-> w] \in [record : Record, whole : BOOLEAN]
  OBVIOUS
<1>3. Backup(TRUE) = [record |-> recovery.record, whole |-> TRUE] /\ Backup(FALSE) = [record |-> recovery.record, whole |-> FALSE]
  BY DEF Backup
<1> QED
  BY <1>2, <1>3

LEMMA ServerTypes ==
    ASSUME FileTypeOK, FileInv,
           \/ SaveCloud \/ Dispose \/ Inspect \/ Confirm \/ BackUp \/ Replace \/ RecoveryFails \/ Crash
    PROVE  FileTypeOK'
<1> USE DEF clientVars, roomVars, diskVars, Calm
<1>1. CASE SaveCloud
  <2>1. cloud' \in Revision /\ UNCHANGED <<clientVars, roomVars, diskVars, told, troubles>>
    BY <1>1, FileAssumption DEF SaveCloud, FileTypeOK, Revision
  <2> QED
    BY <2>1 DEF FileTypeOK
<1>2. CASE Dispose
  BY <1>2 DEF Dispose, FileTypeOK
<1>3. CASE Inspect
  <2>1. /\ recovery' = [stage |-> "inspected", record |-> file, revision |-> cloud] /\ file # NoRecord
        /\ UNCHANGED <<clientVars, roomVars, file, backups, cloud, told>> /\ Trouble
    BY <1>3 DEF Inspect
  <2>2. recovery' \in Recovery
    BY <2>1 DEF Recovery, FileTypeOK
  <2>3. troubles' \in 0..Troubles
    BY <2>1, FileAssumption DEF Trouble, FileTypeOK
  <2> QED
    BY <2>1, <2>2, <2>3 DEF FileTypeOK
<1>4. CASE Confirm
  <2>1. /\ recovery' = NoRecovery \/ recovery' = [recovery EXCEPT !.stage = "backup"]
        /\ recovery.stage = "inspected"
        /\ UNCHANGED <<clientVars, roomVars, file, backups, cloud, told, troubles>>
    BY <1>4 DEF Confirm
  <2>2. recovery' \in Recovery \cup {NoRecovery}
    <3>1. recovery # NoRecovery
      BY <2>1 DEF NoRecovery
    <3>2. [recovery EXCEPT !.stage = "backup"] =
              [stage |-> "backup", record |-> recovery.record, revision |-> recovery.revision]
      BY <3>1, RecoveryUpdate DEF FileInv
    <3> QED
      BY <2>1, <3>1, <3>2 DEF Recovery, FileTypeOK
  <2> QED
    BY <2>1, <2>2 DEF FileTypeOK
<1>5. CASE BackUp \/ RecoveryFails \/ Replace
  <2>1. /\ recovery.stage \in {"backup", "verify"}
        /\ \/ recovery' = NoRecovery
           \/ \E s \in {"inspected", "verify"} : recovery' = [recovery EXCEPT !.stage = s]
        /\ backups' \subseteq backups \cup {Backup(TRUE), Backup(FALSE)}
        /\ file' = file \/ file' = [state |-> {recovery.revision}, revision |-> recovery.revision]
        /\ UNCHANGED <<clientVars, roomVars, cloud, told>>
        /\ troubles' = troubles \/ Trouble
    BY <1>5 DEF BackUp, RecoveryFails, Replace, Torn
  <2>2. recovery # NoRecovery
    BY <2>1 DEF NoRecovery
  <2>3. recovery.record \in Record /\ recovery.revision \in Revision
    BY <2>2 DEF FileTypeOK, Recovery
  <2>4. recovery' \in Recovery \cup {NoRecovery}
    <3>1. \A s : [recovery EXCEPT !.stage = s] =
              [stage |-> s, record |-> recovery.record, revision |-> recovery.revision]
      BY <2>2, RecoveryUpdate DEF FileInv
    <3> QED
      BY <2>1, <2>3, <3>1 DEF Recovery
  <2>5. file' \in Record \cup {NoRecord}
    BY <2>1, <2>3 DEF FileTypeOK, Record, Op
  <2>6. backups' \in SUBSET [record : Record, whole : BOOLEAN]
    BY <2>1, <2>3, BackupTypes DEF FileTypeOK
  <2>7. troubles' \in 0..Troubles
    BY <2>1, FileAssumption DEF Trouble, FileTypeOK
  <2> QED
    BY <2>1, <2>4, <2>5, <2>6, <2>7 DEF FileTypeOK
<1>6. CASE Crash
  <2>1. /\ Trouble /\ Gone({c \in Client : conn[c] # "stopped"})
        /\ room' = "none" /\ doc' = {} /\ queue' = <<>> /\ job' = NoJob
        /\ queued' = [c \in Client |-> {}] /\ held' = [c \in Client |-> 0] /\ checking' = FALSE
        /\ recovery' = IF recovery.stage = "none" THEN recovery ELSE [recovery EXCEPT !.stage = "inspected"]
        /\ backups' \in {backups, Torn}
        /\ UNCHANGED <<made, unmade, access, file, cloud, told>>
    BY <1>6 DEF Crash
  <2>2. /\ conn' \in [Client -> Socket] /\ pending' \in [Client -> SUBSET Edit]
        /\ synced' \in [Client -> {"never", "now", "before"}]
        /\ greeting' \in [Client -> {"access", "question", "none"}]
    BY <2>1 DEF Gone, FileTypeOK, Socket
  <2>3. wire' \in [Client -> Seq(Message)] /\ queue' \in Seq(Task)
    BY <2>1 DEF Gone, FileTypeOK
  <2>4. troubles' \in 0..Troubles
    BY <2>1, FileAssumption DEF Trouble, FileTypeOK
  <2>5. recovery' \in Recovery \cup {NoRecovery}
    <3>1. CASE recovery.stage = "none"
      BY <2>1, <3>1 DEF FileTypeOK
    <3>2. CASE recovery.stage # "none"
      <4>1. recovery # NoRecovery
        BY <3>2 DEF NoRecovery
      <4>2. recovery' = [stage |-> "inspected", record |-> recovery.record, revision |-> recovery.revision]
        BY <2>1, <3>2, <4>1, RecoveryUpdate DEF FileInv
      <4> QED
        BY <4>1, <4>2 DEF FileTypeOK, Recovery
    <3> QED
      BY <3>1, <3>2
  <2>6. backups' \in SUBSET [record : Record, whole : BOOLEAN]
    <3>1. Torn = backups \/ (recovery.stage = "backup" /\ Torn = backups \cup {Backup(FALSE)})
      BY DEF Torn
    <3>2. recovery.stage = "backup" => recovery.record \in Record
      BY DEF FileTypeOK, Recovery, NoRecovery
    <3> QED
      BY <2>1, <3>1, <3>2, BackupTypes DEF FileTypeOK
  <2> QED
    BY <2>1, <2>2, <2>3, <2>4, <2>5, <2>6 DEF FileTypeOK
<1> QED
  BY <1>1, <1>2, <1>3, <1>4, <1>5, <1>6

-----------------------------------------------------------------------------
(* Every step keeps the queues in order                                     *)

LEMMA QueueInit == FileInit => QueueInv
<1> SUFFICES ASSUME FileInit PROVE QueueInv
  OBVIOUS
<1>1. FileTypeOK
  BY InitTypes
<1>2. queue = <<>> /\ \A c \in Client : wire[c] = <<>>
  BY DEF FileInit
<1>3. Len(queue) = 0 /\ \A c \in Client : Len(wire[c]) = 0
  BY <1>2
<1>4. job = NoJob
  BY DEF FileInit
<1>5. UpdatesAreEdits /\ WireInOrder /\ TasksHaveSenders /\ QueueInOrder
  BY <1>3, <1>4 DEF UpdatesAreEdits, WireInOrder, TasksHaveSenders, QueueInOrder
<1>6. ASSUME NEW c \in Client PROVE ClientQueueInv(c)
  <2>1. ~Runs(c) /\ \A k : ~Sent(c, k) /\ ~Waits(c, k)
    BY <1>3, <1>4 DEF Runs, Sent, Waits
  <2>2. held[c] = 0 /\ pending[c] = {} /\ synced[c] = "never" /\ greeting[c] = "none"
    BY DEF FileInit
  <2>3. HeldIsCounted(c)
    BY <2>1, <2>2 DEF HeldIsCounted, One
  <2> QED
    BY <1>2, <2>1, <2>2, <2>3 DEF ClientQueueInv, InOrder, Asks, UnderWay, UpdateIsCollected, AwayIsQuiet, TasksHaveSockets
<1> QED
  BY <1>1, <1>2, <1>5, <1>6 DEF QueueInv

\* The order survives when nothing new gets under way.
LEMMA FewerStayInOrder ==
    ASSUME NEW c \in Client, InOrder(c),
           \A k \in Kind : (Sent(c, k)' => Sent(c, k)) /\ (Waits(c, k)' => Waits(c, k)),
           Runs(c)' => Runs(c) /\ job'.kind = job.kind /\ (job'.stage = "start" => job.stage = "start"),
           pending'[c] \subseteq pending[c], synced'[c] = "now" => synced[c] = "now",
           greeting'[c] # "none" => greeting[c] # "none"
    PROVE  InOrder(c)'
BY DEF InOrder, Asks, UnderWay, Kind

\* A step that leaves the queue, its job and what it counts alone.
LEMMA SameQueue ==
    ASSUME QueueInv, UNCHANGED <<queue, job, queued, held>>
    PROVE  /\ TasksHaveSenders' /\ QueueInOrder'
           /\ \A c \in Client : /\ Runs(c)' <=> Runs(c)
                                /\ \A k \in Kind : Waits(c, k)' <=> Waits(c, k)
                                /\ UpdateIsCollected(c)' /\ HeldIsCounted(c)'
<1>1. ASSUME NEW c \in Client
      PROVE  /\ Runs(c)' <=> Runs(c)
             /\ \A k : Waits(c, k)' <=> Waits(c, k)
  BY DEF Runs, Waits
<1>2. ASSUME NEW c \in Client
      PROVE  UpdateIsCollected(c)' /\ HeldIsCounted(c)'
  BY <1>1 DEF QueueInv, ClientQueueInv, UpdateIsCollected, HeldIsCounted, One
<1> QED
  BY <1>1, <1>2 DEF QueueInv, TasksHaveSenders, QueueInOrder

LEMMA SameWire ==
    ASSUME QueueInv, UNCHANGED wire
    PROVE  UpdatesAreEdits' /\ WireInOrder' /\ \A c \in Client : \A k \in Kind : Sent(c, k)' <=> Sent(c, k)
BY DEF QueueInv, UpdatesAreEdits, WireInOrder, Sent

\* A message is sent after whatever else is on its way.
LEMMA SendMessage ==
    ASSUME QueueInv, NEW c \in Client, NEW m \in Message,
           m.kind = "update" => m.ops # {} /\ m.ops \subseteq Edit,
           \A k \in Kind : Sent(c, k) => Before(k, m.kind),
           wire' = [wire EXCEPT ![c] = Append(@, m)]
    PROVE  /\ UpdatesAreEdits' /\ WireInOrder'
           /\ \A k \in Kind : Sent(c, k)' => Sent(c, k) \/ k = m.kind
           /\ \A d \in Client \ {c} : wire'[d] = wire[d] /\ \A k \in Kind : Sent(d, k)' <=> Sent(d, k)
<1>1. wire[c] \in Seq(Message) /\ wire \in [Client -> Seq(Message)]
  BY DEF QueueInv, FileTypeOK
<1>2. /\ Len(wire'[c]) = Len(wire[c]) + 1 /\ wire'[c][Len(wire[c]) + 1] = m
      /\ \A i \in 1..Len(wire[c]) : wire'[c][i] = wire[c][i]
      /\ Len(wire[c]) \in Nat
  BY <1>1
<1>3. \A d \in Client \ {c} : wire'[d] = wire[d]
  BY <1>1
<1>4. \A i \in 1..Len(wire'[c]) : i \in 1..Len(wire[c]) \/ i = Len(wire[c]) + 1
  BY <1>2
<1>5. UpdatesAreEdits'
  BY <1>2, <1>3, <1>4 DEF QueueInv, UpdatesAreEdits
<1>6. WireInOrder'
  <2>1. ASSUME NEW i \in 1..Len(wire'[c]), NEW j \in 1..Len(wire'[c]), i < j
        PROVE  Before(wire'[c][i].kind, wire'[c][j].kind)
    <3>1. i \in 1..Len(wire[c])
      BY <1>2, <2>1
    <3>2. CASE j \in 1..Len(wire[c])
      BY <1>2, <2>1, <3>1, <3>2 DEF QueueInv, WireInOrder
    <3>3. CASE j = Len(wire[c]) + 1
      <4>1. wire[c][i].kind \in Kind
        <5>1. wire[c][i] \in Message
          BY <1>1, <3>1
        <5> QED
          BY <5>1 DEF Message, Kind
      <4>2. Sent(c, wire[c][i].kind)
        BY <3>1 DEF Sent
      <4> QED
        BY <1>2, <3>1, <3>3, <4>1, <4>2
    <3> QED
      BY <1>4, <3>2, <3>3
  <2>2. ASSUME NEW d \in Client \ {c}, NEW i \in 1..Len(wire'[d]), NEW j \in 1..Len(wire'[d]), i < j
        PROVE  Before(wire'[d][i].kind, wire'[d][j].kind)
    BY <1>3, <2>2 DEF QueueInv, WireInOrder
  <2> QED
    BY <2>1, <2>2 DEF WireInOrder
<1>7. \A k \in Kind : Sent(c, k)' => Sent(c, k) \/ k = m.kind
  BY <1>2, <1>4 DEF Sent
<1> QED
  BY <1>3, <1>5, <1>6, <1>7 DEF Sent

LEMMA SingleFacts ==
    ASSUME NEW s, NEW a, s = <<a>>
    PROVE  Len(s) = 1 /\ s[1] = a
OBVIOUS

\* Sockets are emptied, or begin with the client's question.
LEMMA FreshWires ==
    ASSUME QueueInv, NEW cs \in SUBSET Client, NEW fresh, NEW m, m.kind = "step1",
           \A c \in cs : fresh[c] \in {<<>>, <<m>>},
           \A c \in Client : wire'[c] = IF c \in cs THEN fresh[c] ELSE wire[c]
    PROVE  /\ UpdatesAreEdits' /\ WireInOrder'
           /\ \A c \in cs : \A k \in Kind : Sent(c, k)' => k = "step1" /\ fresh[c] # <<>>
           /\ \A c \in Client \ cs : wire'[c] = wire[c] /\ \A k \in Kind : Sent(c, k)' <=> Sent(c, k)
<1>1. \A c \in Client : wire'[c] = IF c \in cs THEN fresh[c] ELSE wire[c]
  OBVIOUS
<1>2. ASSUME NEW c \in cs
      PROVE  /\ \A i, j \in 1..Len(wire'[c]) : i < j => Before(wire'[c][i].kind, wire'[c][j].kind)
             /\ \A i \in 1..Len(wire'[c]) : wire'[c][i].kind = "step1"
             /\ fresh[c] = <<>> => 1..Len(wire'[c]) = {}
  <2>1. wire'[c] = fresh[c]
    BY <1>1
  <2>2. CASE fresh[c] = <<>>
    BY <2>1, <2>2
  <2>3. CASE fresh[c] = <<m>>
    <3>1. Len(fresh[c]) = 1 /\ fresh[c][1] = m
      BY <2>3, SingleFacts
    <3>2. fresh[c] # <<>>
      BY <3>1
    <3> QED
      BY <2>1, <3>1, <3>2
  <2> QED
    BY <2>2, <2>3
<1>3. UpdatesAreEdits' /\ WireInOrder'
  BY <1>1, <1>2 DEF QueueInv, UpdatesAreEdits, WireInOrder
<1> QED
  BY <1>1, <1>2, <1>3 DEF Sent

\* A step of one client's side of its socket.
LEMMA ClientSide ==
    ASSUME QueueInv, FileTypeOK', NEW c \in Client, UNCHANGED <<queue, job, queued, held, room>>,
           \A d \in Client \ {c} : /\ UNCHANGED <<conn[d], pending[d], synced[d], wire[d], greeting[d]>>
                                   /\ \A k \in Kind : Sent(d, k)' <=> Sent(d, k),
           UpdatesAreEdits', WireInOrder', InOrder(c)', AwayIsQuiet(c)',
           Open' # {} => Open # {}, c \in Connected => c \in Connected'
    PROVE  QueueInv'
<1>1. TasksHaveSenders' /\ QueueInOrder'
  BY SameQueue
<1>2. \A d \in Client : /\ Runs(d)' <=> Runs(d)
                        /\ \A k \in Kind : Waits(d, k)' <=> Waits(d, k)
                        /\ UpdateIsCollected(d)' /\ HeldIsCounted(d)'
  BY SameQueue
<1>3. ASSUME NEW d \in Client
      PROVE  InOrder(d)' /\ AwayIsQuiet(d)' /\ TasksHaveSockets(d)'
  <2>1. ClientQueueInv(d)
    BY DEF QueueInv
  <2>2. TasksHaveSockets(d)'
    <3>1. d \in Connected => d \in Connected'
      BY DEF Connected, Open
    <3> QED
      BY <1>2, <2>1, <3>1 DEF ClientQueueInv, TasksHaveSockets
  <2>3. CASE d = c
    BY <2>2, <2>3
  <2>4. CASE d # c
    <3>1. AwayIsQuiet(d)'
      BY <2>1, <2>4 DEF ClientQueueInv, AwayIsQuiet
    <3>2. InOrder(d)'
      BY <1>2, <2>1, <2>4, FewerStayInOrder DEF ClientQueueInv
    <3> QED
      BY <2>2, <3>1, <3>2
  <2> QED
    BY <2>3, <2>4
<1> QED
  BY <1>1, <1>2, <1>3 DEF QueueInv, ClientQueueInv

LEMMA ClientSideSteps ==
    ASSUME QueueInv, FileTypeOK', NEW c \in Client,
           (\E e \in Edit : Make(c, e)) \/ Flush(c) \/ Leave(c) \/ Drop(c) \/ Retry(c) \/ Withdraw(c)
    PROVE  QueueInv'
<1> USE DEF roomVars
<1>0. /\ ClientQueueInv(c) /\ conn \in [Client -> Socket] /\ pending \in [Client -> SUBSET Edit]
      /\ synced \in [Client -> {"never", "now", "before"}]
  BY DEF QueueInv, FileTypeOK
<1>1. UNCHANGED <<queue, job, queued, held, room, greeting>>
  BY DEF Make, Flush, Leave, Drop, Retry, Withdraw
<1>2. /\ \A k \in Kind : Waits(c, k)' <=> Waits(c, k)
      /\ Runs(c)' <=> Runs(c)
      /\ job'.kind = job.kind
  BY <1>1, SameQueue
<1>5. InOrder(c)
  BY <1>0 DEF ClientQueueInv
<1>3. CASE (\E e \in Edit : Make(c, e)) \/ Drop(c) \/ Retry(c) \/ Withdraw(c)
  <2>1. UNCHANGED wire
    BY <1>3 DEF Make, Drop, Retry, Withdraw
  <2>2. UpdatesAreEdits' /\ WireInOrder' /\ \A d \in Client : \A k \in Kind : Sent(d, k)' <=> Sent(d, k)
    BY <2>1, SameWire
  <2>3. /\ \/ UNCHANGED conn
           \/ conn[c] = "open" /\ conn' = [conn EXCEPT ![c] = "closing"]
           \/ conn[c] \in {"joining", "stopped"} /\ conn' = [conn EXCEPT ![c] = "away"]
        /\ synced' = synced \/ synced' = [synced EXCEPT ![c] = "never"]
        /\ \/ UNCHANGED pending
           \/ /\ conn[c] = "open" /\ synced[c] = "now" /\ UNCHANGED <<conn, synced>>
              /\ \E e \in Edit : pending' = [pending EXCEPT ![c] = @ \cup {e}]
    <3>1. CASE \E e \in Edit : Make(c, e)
      <4>1. PICK e \in Edit : Make(c, e)
        BY <3>1
      <4>2. UNCHANGED <<conn, synced>> /\ (conn[c] = "open" => synced[c] = "now")
        BY <4>1 DEF Make
      <4>3. pending' = [pending EXCEPT ![c] = IF conn[c] = "open" THEN @ \cup {e} ELSE @]
        BY <4>1 DEF Make
      <4>4. CASE conn[c] = "open"
        BY <4>2, <4>3, <4>4
      <4>5. CASE conn[c] # "open"
        BY <1>0, <4>2, <4>3, <4>5
      <4> QED
        BY <4>4, <4>5
    <3>2. CASE Drop(c) \/ Retry(c) \/ Withdraw(c)
      BY <3>2 DEF Drop, Retry, Withdraw
    <3> QED
      BY <1>3, <3>1, <3>2
  <2>4. \A d \in Client \ {c} : UNCHANGED <<conn[d], pending[d], synced[d], wire[d]>>
    BY <1>0, <2>1, <2>3
  <2>5. (Open' # {} => Open # {}) /\ (c \in Connected => c \in Connected')
    BY <1>0, <2>3 DEF Open, Connected
  <2>6. InOrder(c)'
    <3>1. CASE UNCHANGED pending
      <4>1. pending'[c] \subseteq pending[c] /\ (synced'[c] = "now" => synced[c] = "now")
        BY <1>0, <2>3, <3>1
      <4> QED
        BY <1>1, <1>2, <1>5, <2>2, <4>1, FewerStayInOrder
    <3>2. CASE synced[c] = "now"
      <4>1. ~Asks(c)
        BY <1>5, <3>2 DEF InOrder
      <4>2. ~Asks(c)' /\ \A k \in Kind : UnderWay(c, k)' => UnderWay(c, k)
        BY <1>1, <1>2, <2>2, <4>1 DEF Asks, UnderWay, Kind
      <4> QED
        BY <1>1, <1>2, <1>5, <2>2, <4>2 DEF InOrder, Kind
    <3> QED
      BY <2>3, <3>1, <3>2
  <2>7. AwayIsQuiet(c)'
    BY <1>0, <1>1, <2>1, <2>3 DEF ClientQueueInv, AwayIsQuiet
  <2> QED
    BY <1>1, <2>2, <2>4, <2>5, <2>6, <2>7, ClientSide
<1>4. CASE Flush(c) \/ Leave(c)
  <2>1. /\ conn[c] = "open" /\ (conn' = conn \/ conn' = [conn EXCEPT ![c] = "leaving"])
        /\ synced' = synced \/ synced' = [synced EXCEPT ![c] = "never"]
        /\ pending' = [pending EXCEPT ![c] = {}]
        /\ \/ UNCHANGED wire
           \/ pending[c] # {} /\ wire' = [wire EXCEPT ![c] = Append(@, [kind |-> "update", ops |-> pending[c]])]
    BY <1>4 DEF Flush, Leave
  <2>2. conn'[c] \in {"open", "leaving"} /\ pending'[c] = {} /\ (synced'[c] = "now" => synced[c] = "now")
    BY <1>0, <2>1
  <2>3. (Open' # {} => Open # {}) /\ (c \in Connected => c \in Connected')
    BY <2>1, <2>2 DEF Open, Connected
  <2>4. AwayIsQuiet(c)'
    BY <2>2 DEF AwayIsQuiet
  <2>5. \A d \in Client \ {c} : UNCHANGED <<conn[d], pending[d], synced[d]>>
    BY <1>0, <2>1
  <2>6. CASE UNCHANGED wire
    <3>1. UpdatesAreEdits' /\ WireInOrder' /\ \A d \in Client : \A k \in Kind : Sent(d, k)' <=> Sent(d, k)
      BY <2>6, SameWire
    <3>2. InOrder(c)'
      <4>1. pending'[c] \subseteq pending[c]
        BY <2>2
      <4> QED
        BY <1>1, <1>2, <1>5, <2>2, <3>1, <4>1, FewerStayInOrder
    <3> QED
      BY <1>1, <2>3, <2>4, <2>5, <2>6, <3>1, <3>2, ClientSide
  <2>7. CASE pending[c] # {} /\ wire' = [wire EXCEPT ![c] = Append(@, [kind |-> "update", ops |-> pending[c]])]
    <3> DEFINE m == [kind |-> "update", ops |-> pending[c]]
    <3>1. m \in Message /\ m.kind = "update" /\ m.ops # {} /\ m.ops \subseteq Edit
      BY <1>0, <2>7 DEF Message, Op
    <3>2. wire' = [wire EXCEPT ![c] = Append(@, m)]
      BY <2>7
    <3> HIDE DEF m
    <3>3. /\ UpdatesAreEdits' /\ WireInOrder'
          /\ \A k \in Kind : Sent(c, k)' => Sent(c, k) \/ k = "update"
          /\ \A d \in Client \ {c} : wire'[d] = wire[d] /\ \A k \in Kind : Sent(d, k)' <=> Sent(d, k)
      BY <3>1, <3>2, SendMessage DEF Before
    <3>4. ~Asks(c)
      BY <1>5, <2>7 DEF InOrder
    <3>5. ~Asks(c)' /\ (UnderWay(c, "step2")' => UnderWay(c, "step2"))
      BY <1>1, <1>2, <3>3, <3>4 DEF Asks, UnderWay, Kind
    <3>6. InOrder(c)'
      BY <1>1, <1>2, <1>5, <3>3, <3>5 DEF InOrder, Before
    <3> QED
      BY <1>1, <2>3, <2>4, <2>5, <3>3, <3>6, ClientSide
  <2> QED
    BY <2>1, <2>6, <2>7
<1> QED
  BY <1>3, <1>4

\* The server's question is answered once: before it, no answer is under way.
LEMMA GreetKeepsQueue ==
    ASSUME QueueInv, FileTypeOK', NEW c \in Client, Greet(c)
    PROVE  QueueInv'
<1>1. /\ c \in Open /\ greeting[c] # "none" /\ Closing({d \in {c} : access[d] = "none"})
      /\ greeting' = [greeting EXCEPT ![c] = IF @ = "access" THEN "question" ELSE "none"]
      /\ \/ UNCHANGED wire
         \/ greeting[c] = "question" /\ wire' = [wire EXCEPT ![c] = Append(@, Answer(c))]
      /\ UNCHANGED <<queue, job, queued, held, room, pending, synced>>
  BY DEF Greet, roomVars
<1>2. /\ ClientQueueInv(c) /\ InOrder(c) /\ conn \in [Client -> Socket]
      /\ greeting \in [Client -> {"access", "question", "none"}]
  BY DEF QueueInv, ClientQueueInv, FileTypeOK
<1>3. /\ \A d \in Client \ {c} : UNCHANGED <<conn[d], pending[d], synced[d], greeting[d]>>
      /\ conn'[c] \in {"open", "leaving", "closing"} /\ (greeting[c] = "question" => greeting'[c] = "none")
  BY <1>1, <1>2 DEF Closing, Open
<1>4. (Open' # {} => Open # {}) /\ (c \in Connected => c \in Connected')
  BY <1>1, <1>2, <1>3 DEF Connected, Open
<1>5. AwayIsQuiet(c)'
  BY <1>3 DEF AwayIsQuiet
<1>6. (\A k \in Kind : Waits(c, k)' <=> Waits(c, k)) /\ (Runs(c)' <=> Runs(c)) /\ ~UnderWay(c, "step2")
  BY <1>1, <1>2, SameQueue DEF InOrder
<1>7. CASE UNCHANGED wire
  <2>1. UpdatesAreEdits' /\ WireInOrder' /\ \A d \in Client : \A k \in Kind : Sent(d, k)' <=> Sent(d, k)
    BY <1>7, SameWire
  <2>2. InOrder(c)'
    BY <1>1, <1>2, <1>6, <2>1, FewerStayInOrder
  <2> QED
    BY <1>1, <1>3, <1>4, <1>5, <1>7, <2>1, <2>2, ClientSide
<1>8. CASE greeting[c] = "question" /\ wire' = [wire EXCEPT ![c] = Append(@, Answer(c))]
  <2>1. PICK m : m = Answer(c)
    OBVIOUS
  <2>2. m \in Message /\ m.kind = "step2"
    BY <2>1 DEF Answer, Message, QueueInv, FileTypeOK
  <2>3. \A k \in Kind : Sent(c, k) => Before(k, m.kind)
    BY <1>6, <2>2 DEF UnderWay, Before
  <2>4. wire' = [wire EXCEPT ![c] = Append(@, m)]
    BY <1>8, <2>1
  <2>5. /\ UpdatesAreEdits' /\ WireInOrder'
        /\ \A k \in Kind : Sent(c, k)' => Sent(c, k) \/ k = "step2"
        /\ \A d \in Client \ {c} : wire'[d] = wire[d] /\ \A k \in Kind : Sent(d, k)' <=> Sent(d, k)
    BY <2>2, <2>3, <2>4, SendMessage
  <2>6. InOrder(c)'
    <3>1. Asks(c)' => Asks(c)
      BY <1>1, <1>6, <2>5 DEF Asks, Kind
    <3>2. UnderWay(c, "update")' => UnderWay(c, "update")
      BY <1>1, <1>6, <2>5 DEF UnderWay, Kind
    <3>3. \A k, l \in Kind : Waits(c, k)' /\ Sent(c, l)' => Before(k, l)
      BY <1>2, <1>6, <2>5 DEF InOrder, UnderWay, Before
    <3>4. \A l \in Kind : Runs(c)' /\ (Waits(c, l)' \/ Sent(c, l)') => Before(job'.kind, l)
      BY <1>1, <1>2, <1>6, <2>5 DEF InOrder, UnderWay, Before
    <3> QED
      BY <1>1, <1>2, <1>3, <1>8, <3>1, <3>2, <3>3, <3>4 DEF InOrder
  <2> QED
    BY <1>1, <1>3, <1>4, <1>5, <2>5, <2>6, ClientSide
<1> QED
  BY <1>1, <1>7, <1>8

\* An open socket begins with the client's question; nothing of an earlier one is left.
LEMMA JoinKeepsQueue ==
    ASSUME QueueInv, FileTypeOK', NEW cs \in SUBSET Client, Join(cs),
           \A c \in cs : conn[c] \in {"away", "joining"},
           \/ Open # {} /\ UNCHANGED job
           \/ queue = <<>> /\ job' = NoJob /\ \A c \in Client : ~Runs(c),
           UNCHANGED <<queue, queued, pending, synced>>, room' = "open",
           \A c \in Client : held'[c] = held[c]
    PROVE  QueueInv'
<1>0. PICK m : m = [kind |-> "step1", ops |-> {}]
  OBVIOUS
<1>1. PICK fresh : fresh = [c \in Client |-> <<m>>]
  OBVIOUS
<1>2. /\ m.kind = "step1" /\ \A c \in cs : fresh[c] = <<m>>
      /\ \A c \in Client : wire'[c] = IF c \in cs THEN fresh[c] ELSE wire[c]
  BY <1>0, <1>1 DEF Join
<1>3. /\ UpdatesAreEdits' /\ WireInOrder'
      /\ \A c \in cs : \A k \in Kind : Sent(c, k)' => k = "step1"
      /\ \A c \in Client \ cs : wire'[c] = wire[c] /\ \A k \in Kind : Sent(c, k)' <=> Sent(c, k)
  BY <1>2, FreshWires
<1>4. \A c \in Client : /\ Runs(c)' <=> Runs(c)
                        /\ \A k \in Kind : Waits(c, k)' <=> Waits(c, k)
                        /\ Runs(c) => job' = job
  BY DEF Runs, Waits
<1>5. TasksHaveSenders' /\ QueueInOrder'
  BY DEF QueueInv, TasksHaveSenders, QueueInOrder
<1>6. ASSUME NEW c \in Client PROVE UpdateIsCollected(c)' /\ HeldIsCounted(c)'
  BY <1>4 DEF QueueInv, ClientQueueInv, UpdateIsCollected, HeldIsCounted, One, Kind
<1>7. \A c \in Client : /\ conn'[c] = IF c \in cs THEN "open" ELSE conn[c]
                        /\ c \notin cs => greeting'[c] = greeting[c]
  BY DEF Join
<1>8. ASSUME NEW c \in cs PROVE InOrder(c)' /\ AwayIsQuiet(c)' /\ TasksHaveSockets(c)'
  <2>1. c \in Client /\ ClientQueueInv(c) /\ conn[c] \in {"away", "joining"}
    BY DEF QueueInv
  <2>2. ~Runs(c) /\ \A k \in Kind : ~Waits(c, k)
    <3>1. CASE Open # {}
      <4>1. c \notin Connected
        BY <2>1 DEF Connected, Open
      <4> QED
        BY <2>1, <3>1, <4>1 DEF ClientQueueInv, TasksHaveSockets
    <3>2. CASE queue = <<>> /\ ~Runs(c)
      BY <3>2 DEF Waits
    <3> QED
      BY <2>1, <3>1, <3>2
  <2>3. pending[c] = {} /\ synced[c] # "now"
    BY <2>1 DEF ClientQueueInv, AwayIsQuiet
  <2>4. InOrder(c)'
    BY <1>3, <1>4, <2>1, <2>2, <2>3 DEF InOrder, Asks, UnderWay, Kind
  <2>5. conn'[c] = "open" /\ c \in Connected'
    BY <1>7, <2>1 DEF Connected, Open
  <2> QED
    BY <2>4, <2>5 DEF AwayIsQuiet, TasksHaveSockets
<1>9. ASSUME NEW c \in Client \ cs PROVE InOrder(c)' /\ AwayIsQuiet(c)' /\ TasksHaveSockets(c)'
  <2>1. ClientQueueInv(c) /\ conn'[c] = conn[c]
    BY <1>7 DEF QueueInv
  <2>2. InOrder(c)
    BY <2>1 DEF ClientQueueInv
  <2>3. Runs(c)' => Runs(c) /\ job'.kind = job.kind /\ (job'.stage = "start" => job.stage = "start")
    BY <1>4
  <2>4. \A k \in Kind : (Sent(c, k)' => Sent(c, k)) /\ (Waits(c, k)' => Waits(c, k))
    BY <1>3, <1>4
  <2>5. InOrder(c)'
    BY <1>7, <2>2, <2>3, <2>4, FewerStayInOrder
  <2>6. AwayIsQuiet(c)'
    BY <1>3, <1>7, <2>1 DEF ClientQueueInv, AwayIsQuiet
  <2>7. TasksHaveSockets(c)'
    <3>1. c \in Connected' <=> c \in Connected
      BY <2>1 DEF Connected, Open
    <3>2. CASE Open # {}
      BY <1>4, <2>1, <3>1, <3>2 DEF ClientQueueInv, TasksHaveSockets
    <3>3. CASE queue = <<>> /\ ~Runs(c)
      BY <1>4, <3>3 DEF TasksHaveSockets, Waits
    <3> QED
      BY <3>2, <3>3
  <2> QED
    BY <2>5, <2>6, <2>7
<1> QED
  BY <1>3, <1>5, <1>6, <1>8, <1>9 DEF QueueInv, ClientQueueInv

LEMMA ConnectKeepsQueue ==
    ASSUME QueueInv, FileInv, FileTypeOK', NEW c \in Client, Connect(c)
    PROVE  QueueInv'
<1>1. conn[c] = "away" /\ UNCHANGED <<pending, synced, queue, queued, held, checking, doc>>
  BY DEF Connect
<1>2. CASE room # "open"
  <2>1. /\ UNCHANGED <<wire, greeting>> /\ conn' = [conn EXCEPT ![c] = "joining"] /\ room' = "loading"
        /\ job' = IF room = "none" THEN NewJob("load", {}, {}, "read") ELSE job
    BY <1>2 DEF Connect
  <2>2. Open' = Open /\ Connected' = Connected /\ \A d \in Client \ {c} : conn'[d] = conn[d]
    BY <1>1, <2>1 DEF Open, Connected, QueueInv, FileTypeOK, Socket
  <2>3. queue = <<>> /\ \A d \in Client : ~Runs(d)
    BY <1>2 DEF QueueInv, FileInv, FileShape, StagesAgree, Runs
  <2>4. (job' = NoJob \/ job'.from = {}) /\ \A d \in Client : ~Runs(d)'
    BY <2>1, <2>3 DEF NewJob, Runs, QueueInv, TasksHaveSenders
  <2>5. UpdatesAreEdits' /\ WireInOrder' /\ \A d \in Client : \A k \in Kind : Sent(d, k)' <=> Sent(d, k)
    BY <2>1, SameWire
  <2>6. TasksHaveSenders' /\ QueueInOrder'
    BY <1>1, <2>3, <2>4 DEF TasksHaveSenders, QueueInOrder
  <2>7. ASSUME NEW d \in Client PROVE ClientQueueInv(d)'
    <3>1. ClientQueueInv(d) /\ InOrder(d)
      BY DEF QueueInv, ClientQueueInv
    <3>2. \A k \in Kind : Waits(d, k)' <=> Waits(d, k)
      BY <1>1 DEF Waits
    <3>3. InOrder(d)'
      BY <1>1, <2>1, <2>4, <2>5, <3>1, <3>2, FewerStayInOrder
    <3>4. UpdateIsCollected(d)' /\ HeldIsCounted(d)'
      BY <1>1, <2>3, <2>4, <3>1, <3>2 DEF ClientQueueInv, UpdateIsCollected, HeldIsCounted, One, Kind
    <3>5. AwayIsQuiet(d)'
      BY <1>1, <2>1, <2>2, <3>1 DEF ClientQueueInv, AwayIsQuiet
    <3>6. TasksHaveSockets(d)'
      BY <2>2, <2>4, <3>1, <3>2 DEF ClientQueueInv, TasksHaveSockets
    <3> QED
      BY <3>3, <3>4, <3>5, <3>6 DEF ClientQueueInv
  <2> QED
    BY <1>1, <2>3, <2>5, <2>6, <2>7 DEF QueueInv
<1>3. CASE room = "open"
  <2>1. Open # {} /\ UNCHANGED <<room, job>> /\ Join({c})
    BY <1>3 DEF Connect
  <2> QED
    BY <1>1, <1>3, <2>1, JoinKeepsQueue
<1> QED
  BY <1>2, <1>3

\* What the queue is without a closed connection's tasks.
LEMMA QueueWithout ==
    ASSUME QueueInv, NEW c \in Client, queue' = Without(queue, c)
    PROVE  /\ QueueInOrder'
           /\ \A i \in 1..Len(queue') :
                  \/ queue'[i].from = {} /\ queue'[i].kind = "coordinate"
                  \/ \E d \in Client : queue'[i].from = {d} /\ queue'[i].kind \in Kind
           /\ \A k \in Kind : ~Waits(c, k)'
           /\ \A d \in Client \ {c} : \A k \in Kind : Waits(d, k)' <=> Waits(d, k)
<1>1. queue \in Seq(Task)
  BY DEF QueueInv, FileTypeOK
<1>2. PICK at \in [1..Len(queue') -> 1..Len(queue)] :
          /\ \A i, j \in 1..Len(queue') : i < j => at[i] < at[j]
          /\ \A i \in 1..Len(queue') : queue'[i] = queue[at[i]] /\ queue[at[i]].from # {c}
          /\ \A k \in 1..Len(queue) : queue[k].from # {c} => \E i \in 1..Len(queue') : at[i] = k
  <2>1. Filtered(Without(queue, c), queue, c, Len(queue))
    BY <1>1, WithoutFilters
  <2>2. Filtered(queue', queue, c, Len(queue))
    BY <2>1
  <2> QED
    BY <2>2 DEF Filtered
<1>3. \A i \in 1..Len(queue') : at[i] \in 1..Len(queue)
  BY <1>2
<1>4. QueueInOrder'
  <2> SUFFICES ASSUME NEW i \in 1..Len(queue'), NEW j \in 1..Len(queue'), i < j,
                      queue'[i].from = queue'[j].from, queue'[i].from # {}
               PROVE  Before(queue'[i].kind, queue'[j].kind) /\ queue'[i].kind # queue'[j].kind
    BY DEF QueueInOrder
  <2>1. at[i] \in 1..Len(queue) /\ at[j] \in 1..Len(queue) /\ at[i] < at[j]
    BY <1>2, <1>3
  <2>2. queue'[i] = queue[at[i]] /\ queue'[j] = queue[at[j]]
    BY <1>2
  <2> QED
    BY <2>1, <2>2 DEF QueueInv, QueueInOrder
<1>5. \A i \in 1..Len(queue') :
          \/ queue'[i].from = {} /\ queue'[i].kind = "coordinate"
          \/ \E d \in Client : queue'[i].from = {d} /\ queue'[i].kind \in Kind
  BY <1>2, <1>3 DEF QueueInv, TasksHaveSenders
<1>6. \A k \in Kind : ~Waits(c, k)'
  BY <1>2 DEF Waits
<1>7. ASSUME NEW d \in Client \ {c}, NEW k \in Kind
      PROVE  Waits(d, k)' <=> Waits(d, k)
  <2>1. ASSUME Waits(d, k)' PROVE Waits(d, k)
    <3>1. PICK i \in 1..Len(queue') : queue'[i].from = {d} /\ queue'[i].kind = k
      BY <2>1 DEF Waits
    <3>2. at[i] \in 1..Len(queue) /\ queue[at[i]].from = {d} /\ queue[at[i]].kind = k
      BY <1>2, <1>3, <3>1
    <3> QED
      BY <3>2 DEF Waits
  <2>2. ASSUME Waits(d, k) PROVE Waits(d, k)'
    <3>1. PICK n \in 1..Len(queue) : queue[n].from = {d} /\ queue[n].kind = k
      BY <2>2 DEF Waits
    <3>2. PICK i \in 1..Len(queue') : at[i] = n
      BY <1>2, <3>1
    <3>3. queue'[i].from = {d} /\ queue'[i].kind = k
      BY <1>2, <3>1, <3>2
    <3> QED
      BY <3>3 DEF Waits
  <2> QED
    BY <2>1, <2>2
<1> QED
  BY <1>4, <1>5, <1>6, <1>7

LEMMA ClosedKeepsQueue ==
    ASSUME QueueInv, FileInv, FileTypeOK', NEW c \in Client, Closed(c)
    PROVE  QueueInv'
<1>1. /\ queue' = Without(queue, c) /\ job' = Orphan(c) /\ Gone({c})
      /\ held' = [held EXCEPT ![c] = 0] /\ queued' = [queued EXCEPT ![c] = {}]
      /\ UNCHANGED room /\ conn[c] \in {"closing", "leaving"}
  BY DEF Closed
<1>2. /\ \A d \in Client : /\ wire'[d] = IF d \in {c} THEN <<>> ELSE wire[d]
                           /\ conn'[d] = IF d = c THEN "away" ELSE conn[d]
                           /\ pending'[d] = IF d = c THEN {} ELSE pending[d]
                           /\ synced'[d] = IF d = c /\ synced[d] = "now" THEN "before" ELSE synced[d]
                           /\ greeting'[d] = IF d = c THEN "none" ELSE greeting[d]
  BY <1>1 DEF Gone
<1>3. \A d \in Client \ {c} : held'[d] = held[d] /\ queued'[d] = queued[d]
  BY <1>1 DEF QueueInv, FileTypeOK
<1>4. held'[c] = 0
  BY <1>1 DEF QueueInv, FileTypeOK
<1>5. c \in Connected /\ room = "open"
  <2>1. c \in Connected
    BY <1>1 DEF Connected, Open
  <2> QED
    BY <2>1 DEF FileInv, StagesAgree
<1>6. /\ UpdatesAreEdits' /\ WireInOrder'
      /\ \A k \in Kind : ~Sent(c, k)'
      /\ \A d \in Client \ {c} : wire'[d] = wire[d] /\ \A k \in Kind : Sent(d, k)' <=> Sent(d, k)
  <2>1. PICK fresh : fresh = [d \in {c} |-> <<>>]
    OBVIOUS
  <2>2. fresh[c] = <<>>
    BY <2>1
  <2>3. \A d \in Client : wire'[d] = IF d \in {c} THEN fresh[d] ELSE wire[d]
    BY <1>2, <2>1
  <2>4. PICK m : m = [kind |-> "step1", ops |-> {}]
    OBVIOUS
  <2>5. m.kind = "step1" /\ {c} \in SUBSET Client /\ \A d \in {c} : fresh[d] \in {<<>>, <<m>>}
    BY <2>2, <2>4
  <2>6. /\ UpdatesAreEdits' /\ WireInOrder'
        /\ \A e \in {c} : \A k \in Kind : Sent(e, k)' => k = "step1" /\ fresh[e] # <<>>
        /\ \A d \in Client \ {c} : wire'[d] = wire[d] /\ \A k \in Kind : Sent(d, k)' <=> Sent(d, k)
    BY <2>3, <2>5, FreshWires
  <2> QED
    BY <2>2, <2>6
<1>7. /\ QueueInOrder'
      /\ \A i \in 1..Len(queue') :
             \/ queue'[i].from = {} /\ queue'[i].kind = "coordinate"
             \/ \E d \in Client : queue'[i].from = {d} /\ queue'[i].kind \in Kind
      /\ \A k \in Kind : ~Waits(c, k)'
      /\ \A d \in Client \ {c} : \A k \in Kind : Waits(d, k)' <=> Waits(d, k)
  BY <1>1, QueueWithout
<1>8. /\ ~Runs(c)' /\ \A d \in Client \ {c} : (Runs(d)' <=> Runs(d)) /\ (Runs(d) => job'.kind = job.kind /\ job'.stage = job.stage)
      /\ job' # NoJob => job'.from = {} \/ \E d \in Client : job'.from = {d} /\ job'.kind \in Kind
  <2>1. CASE job = NoJob
    <3>1. job' = NoJob
      BY <1>1, <2>1 DEF Orphan
    <3> QED
      BY <2>1, <3>1 DEF Runs
  <2>2. CASE job # NoJob /\ job.from = {c} /\ job.stage = "start"
    <3>1. job' = NoJob
      BY <1>1, <2>2 DEF Orphan
    <3> QED
      BY <2>2, <3>1 DEF Runs
  <2>3. CASE job # NoJob /\ ~(job.from = {c} /\ job.stage = "start")
    <3>1. job' = [kind |-> job.kind, from |-> job.from \ {c}, ops |-> job.ops, stage |-> job.stage,
                  record |-> job.record]
      BY <1>1, <2>3, JobUpdate DEF Orphan, FileInv
    <3>2. job'.kind = job.kind /\ job'.from = job.from \ {c} /\ job'.stage = job.stage
      BY <3>1
    <3>3. job' # NoJob
      BY <2>3, <3>1, <3>2, JobFields DEF NoJob, QueueInv
    <3>4. job.from = {} \/ \E d \in Client : job.from = {d} /\ job.kind \in Kind
      BY <2>3 DEF QueueInv, TasksHaveSenders
    <3> QED
      BY <2>3, <3>2, <3>3, <3>4 DEF Runs
  <2> QED
    BY <2>1, <2>2, <2>3
<1>9. TasksHaveSenders'
  BY <1>7, <1>8 DEF TasksHaveSenders
<1>10. ClientQueueInv(c)'
  <2>1. pending'[c] = {} /\ synced'[c] # "now" /\ wire'[c] = <<>> /\ greeting'[c] = "none"
    BY <1>2
  <2>2. InOrder(c)' /\ UpdateIsCollected(c)' /\ AwayIsQuiet(c)' /\ TasksHaveSockets(c)'
    BY <1>6, <1>7, <1>8, <2>1 DEF InOrder, Asks, UnderWay, UpdateIsCollected, AwayIsQuiet, TasksHaveSockets, Kind
  <2>3. HeldIsCounted(c)'
    BY <1>4 DEF HeldIsCounted, One
  <2> QED
    BY <2>2, <2>3 DEF ClientQueueInv
<1>11. ASSUME NEW d \in Client \ {c} PROVE ClientQueueInv(d)'
  <2>1. ClientQueueInv(d) /\ InOrder(d)
    BY DEF QueueInv, ClientQueueInv
  <2>2. UNCHANGED <<conn[d], pending[d], synced[d], wire[d], greeting[d], held[d], queued[d]>>
    BY <1>2, <1>3
  <2>3. InOrder(d)'
    <3>1. pending'[d] \subseteq pending[d] /\ (synced'[d] = "now" => synced[d] = "now")
      BY <2>2
    <3>2. \A k \in Kind : (Sent(d, k)' => Sent(d, k)) /\ (Waits(d, k)' => Waits(d, k))
      BY <1>6, <1>7
    <3> QED
      BY <1>8, <2>1, <2>2, <3>1, <3>2, FewerStayInOrder
  <2>4. UpdateIsCollected(d)' /\ HeldIsCounted(d)' /\ AwayIsQuiet(d)'
    BY <1>7, <1>8, <2>1, <2>2 DEF ClientQueueInv, UpdateIsCollected, HeldIsCounted, AwayIsQuiet, One, Kind
  <2>5. TasksHaveSockets(d)'
    <3>1. (d \in Connected' <=> d \in Connected) /\ Open' \subseteq Open
      BY <1>2 DEF Connected, Open
    <3> QED
      BY <1>7, <1>8, <2>1, <3>1 DEF ClientQueueInv, TasksHaveSockets
  <2> QED
    BY <2>3, <2>4, <2>5 DEF ClientQueueInv
<1> QED
  BY <1>1, <1>5, <1>6, <1>7, <1>9, <1>10, <1>11 DEF QueueInv

\* What is delivered came before the rest, and what it joins the queue behind came
\* before it: at most two tasks of its connection are there.
LEMMA HeldIsSmall ==
    ASSUME QueueInv, NEW c \in Client, wire[c] # <<>>, ~Merged(c, Head(wire[c]))
    PROVE  /\ held[c] <= 2 /\ ~Waits(c, Head(wire[c]).kind) /\ Head(wire[c]).kind \in Kind
           /\ Sent(c, Head(wire[c]).kind)
<1> DEFINE k == Head(wire[c]).kind
<1>1. wire[c] \in Seq(Message) /\ Head(wire[c]) = wire[c][1] /\ 1 \in 1..Len(wire[c])
  BY DEF QueueInv, FileTypeOK
<1>2. k \in Kind /\ Sent(c, k)
  <2>1. wire[c][1] \in Message /\ k = wire[c][1].kind
    BY <1>1
  <2>2. k \in Kind
    BY <2>1 DEF Message, Kind
  <2> QED
    BY <1>1, <2>1, <2>2 DEF Sent
<1>3. InOrder(c) /\ UpdateIsCollected(c) /\ HeldIsCounted(c)
  BY DEF QueueInv, ClientQueueInv
<1>4. k = "update" => queued[c] = {}
  BY DEF Merged
<1> HIDE DEF k
<1>5. /\ \A l \in Kind : Waits(c, l) => Before(l, k)
      /\ \A l \in Kind : Runs(c) /\ (Waits(c, l) \/ l = k) => Before(job.kind, l)
      /\ Waits(c, "step1") => ~Waits(c, "update") /\ k # "update"
  BY <1>2, <1>3 DEF InOrder, Asks, UnderWay, Kind
<1>6. ~Waits(c, k)
  BY <1>2, <1>3, <1>4, <1>5 DEF UpdateIsCollected, Before, Kind
<1>7. held[c] \in Nat
  BY DEF QueueInv, FileTypeOK
<1>8. held[c] <= 2
  <2>1. CASE k = "step1"
    <3>1. ~Runs(c) /\ \A l \in Kind : ~Waits(c, l)
      BY <1>5, <2>1 DEF Before, Kind
    <3> QED
      BY <1>3, <1>7, <3>1 DEF HeldIsCounted, One, Kind
  <2>2. CASE k = "step2"
    <3>1. ~Waits(c, "step2") /\ ~(Waits(c, "step1") /\ (Waits(c, "update") \/ Runs(c)))
      BY <1>5, <1>6, <2>2 DEF Before, Kind
    <3> QED
      BY <1>3, <1>7, <3>1 DEF HeldIsCounted, One
  <2>3. CASE k = "update"
    <3>1. ~Waits(c, "step1") /\ ~Waits(c, "update")
      BY <1>5, <1>6, <2>3
    <3> QED
      BY <1>3, <1>7, <3>1 DEF HeldIsCounted, One
  <2> QED
    BY <1>2, <2>1, <2>2, <2>3 DEF Kind
<1> QED
  BY <1>2, <1>6, <1>8 DEF k

\* A message leaves the wire.
LEMMA DeliverFromWire ==
    ASSUME QueueInv, NEW c \in Client, wire[c] # <<>>, wire' = [wire EXCEPT ![c] = Tail(@)]
    PROVE  /\ UpdatesAreEdits' /\ WireInOrder'
           /\ \A k \in Kind : Sent(c, k)' => Sent(c, k) /\ Before(Head(wire[c]).kind, k)
           /\ \A d \in Client \ {c} : wire'[d] = wire[d] /\ \A k \in Kind : Sent(d, k)' <=> Sent(d, k)
<1>1. wire[c] \in Seq(Message) /\ wire \in [Client -> Seq(Message)]
  BY DEF QueueInv, FileTypeOK
<1>2. /\ Head(wire[c]) = wire[c][1] /\ Len(wire'[c]) = Len(wire[c]) - 1 /\ Len(wire[c]) \in Nat
      /\ 1 \in 1..Len(wire[c])
      /\ \A i \in 1..Len(wire'[c]) : wire'[c][i] = wire[c][i + 1] /\ i + 1 \in 1..Len(wire[c])
  BY <1>1
<1>3. \A d \in Client \ {c} : wire'[d] = wire[d]
  BY <1>1
<1>4. UpdatesAreEdits'
  BY <1>2, <1>3 DEF QueueInv, UpdatesAreEdits
<1>5. WireInOrder'
  <2>1. ASSUME NEW i \in 1..Len(wire'[c]), NEW j \in 1..Len(wire'[c]), i < j
        PROVE  Before(wire'[c][i].kind, wire'[c][j].kind)
    <3>1. i + 1 < j + 1
      BY <1>2, <2>1
    <3> QED
      BY <1>2, <3>1 DEF QueueInv, WireInOrder
  <2>2. ASSUME NEW d \in Client \ {c}, NEW i \in 1..Len(wire'[d]), NEW j \in 1..Len(wire'[d]), i < j
        PROVE  Before(wire'[d][i].kind, wire'[d][j].kind)
    BY <1>3, <2>2 DEF QueueInv, WireInOrder
  <2> QED
    BY <2>1, <2>2 DEF WireInOrder
<1>6. ASSUME NEW k \in Kind, Sent(c, k)' PROVE Sent(c, k) /\ Before(Head(wire[c]).kind, k)
  <2>1. PICK i \in 1..Len(wire'[c]) : wire'[c][i].kind = k
    BY <1>6 DEF Sent
  <2>2. i + 1 \in 1..Len(wire[c]) /\ wire[c][i + 1].kind = k /\ 1 < i + 1
    BY <1>2, <2>1
  <2> QED
    BY <1>2, <2>2 DEF Sent, QueueInv, WireInOrder
<1> QED
  BY <1>3, <1>4, <1>5, <1>6 DEF Sent

\* A task joins the queue.
LEMMA QueueAppend ==
    ASSUME QueueInv, NEW t \in Task, queue' = Append(queue, t)
    PROVE  /\ Len(queue') = Len(queue) + 1 /\ Len(queue) \in Nat /\ queue'[Len(queue) + 1] = t
           /\ \A i \in 1..Len(queue) : queue'[i] = queue[i]
           /\ \A i \in 1..Len(queue') : i \in 1..Len(queue) \/ i = Len(queue) + 1
           /\ \A c, k : Waits(c, k)' <=> Waits(c, k) \/ (t.from = {c} /\ t.kind = k)
<1>1. queue \in Seq(Task)
  BY DEF QueueInv, FileTypeOK
<1>2. /\ Len(queue') = Len(queue) + 1 /\ Len(queue) \in Nat /\ queue'[Len(queue) + 1] = t
      /\ \A i \in 1..Len(queue) : queue'[i] = queue[i]
  BY <1>1
<1>3. /\ \A i \in 1..Len(queue') : i \in 1..Len(queue) \/ i = Len(queue) + 1
      /\ \A i \in 1..Len(queue) : i \in 1..Len(queue')
      /\ Len(queue) + 1 \in 1..Len(queue')
  BY <1>2
<1>4. ASSUME NEW c, NEW k PROVE Waits(c, k)' <=> Waits(c, k) \/ (t.from = {c} /\ t.kind = k)
  <2>1. Waits(c, k)' => Waits(c, k) \/ (t.from = {c} /\ t.kind = k)
    BY <1>2, <1>3 DEF Waits
  <2>2. Waits(c, k) => Waits(c, k)'
    BY <1>2, <1>3 DEF Waits
  <2>3. t.from = {c} /\ t.kind = k => Waits(c, k)'
    BY <1>2, <1>3 DEF Waits
  <2> QED
    BY <2>1, <2>2, <2>3
<1> QED
  BY <1>2, <1>3, <1>4

LEMMA DeliverKeepsQueue ==
    ASSUME QueueInv, FileTypeOK', QueueLimit > 2, NEW c \in Client, Deliver(c), room = "open"
    PROVE  QueueInv'
<1>1. /\ wire[c] # <<>> /\ wire' = [wire EXCEPT ![c] = Tail(@)] /\ c \in Connected
      /\ UNCHANGED <<pending, synced, greeting, room, job>>
  BY DEF Deliver
<1>2. PICK m : m = Head(wire[c])
  OBVIOUS
<1>3. /\ queued' = IF m.kind = "update" THEN [queued EXCEPT ![c] = @ \cup m.ops] ELSE queued
      /\ Merged(c, m) => UNCHANGED <<queue, held, conn>>
      /\ ~Merged(c, m) =>
             /\ held' = [held EXCEPT ![c] = @ + 1]
             /\ held[c] < QueueLimit =>
                    /\ queue' = Append(queue, [kind |-> m.kind, from |-> {c},
                                               ops |-> IF m.kind = "step2" THEN m.ops ELSE {}])
                    /\ UNCHANGED conn
  <2>1. held[c] \in Nat /\ QueueLimit \in Nat
    BY FileAssumption DEF QueueInv, FileTypeOK
  <2> QED
    BY <1>2, <2>1 DEF Deliver
<1>4. /\ UpdatesAreEdits' /\ WireInOrder'
      /\ \A k \in Kind : Sent(c, k)' => Sent(c, k) /\ Before(m.kind, k)
      /\ \A d \in Client \ {c} : wire'[d] = wire[d] /\ \A k \in Kind : Sent(d, k)' <=> Sent(d, k)
  BY <1>1, <1>2, DeliverFromWire
<1>5. m \in Message /\ (m.kind = "update" => m.ops # {})
  <2>1. 1 \in 1..Len(wire[c]) /\ m = wire[c][1] /\ m \in Message
    BY <1>1, <1>2 DEF QueueInv, FileTypeOK
  <2> QED
    BY <2>1 DEF QueueInv, UpdatesAreEdits
<1>6. /\ \A d \in Client \ {c} : queued'[d] = queued[d]
      /\ queued[c] \subseteq queued'[c] /\ (m.kind = "update" => queued'[c] # {})
  BY <1>3, <1>5 DEF QueueInv, FileTypeOK
<1>7. ClientQueueInv(c) /\ InOrder(c)
  BY DEF QueueInv, ClientQueueInv
<1>8. \A d \in Client : (Runs(d)' <=> Runs(d)) /\ job'.kind = job.kind /\ job'.stage = job.stage
  BY <1>1 DEF Runs
<1>9. CASE Merged(c, m)
  <2>1. UNCHANGED <<queue, held, conn>>
    BY <1>3, <1>9
  <2>2. \A d \in Client : \A k \in Kind : Waits(d, k)' <=> Waits(d, k)
    BY <2>1 DEF Waits
  <2>3. TasksHaveSenders' /\ QueueInOrder'
    BY <1>1, <2>1 DEF QueueInv, TasksHaveSenders, QueueInOrder
  <2>4. Open' = Open /\ Connected' = Connected
    BY <2>1 DEF Open, Connected
  <2>5. ASSUME NEW d \in Client PROVE ClientQueueInv(d)'
    <3>1. ClientQueueInv(d) /\ InOrder(d)
      BY DEF QueueInv, ClientQueueInv
    <3>2. InOrder(d)'
      <4>1. \A k \in Kind : Sent(d, k)' => Sent(d, k)
        BY <1>4
      <4>2. pending'[d] \subseteq pending[d] /\ (synced'[d] = "now" => synced[d] = "now")
        BY <1>1
      <4> QED
        BY <1>1, <1>8, <2>2, <3>1, <4>1, <4>2, FewerStayInOrder
    <3>3. UpdateIsCollected(d)'
      BY <1>6, <2>2, <3>1 DEF ClientQueueInv, UpdateIsCollected, Kind
    <3>4. HeldIsCounted(d)'
      BY <1>8, <2>1, <2>2, <3>1 DEF ClientQueueInv, HeldIsCounted, One, Kind
    <3>5. AwayIsQuiet(d)'
      <4>1. d = c => conn[d] \notin {"away", "joining", "stopped"}
        BY <1>1 DEF Connected, Open
      <4> QED
        BY <1>1, <1>4, <2>1, <3>1, <4>1 DEF ClientQueueInv, AwayIsQuiet
    <3>6. TasksHaveSockets(d)'
      BY <1>8, <2>2, <2>4, <3>1 DEF ClientQueueInv, TasksHaveSockets
    <3> QED
      BY <3>2, <3>3, <3>4, <3>5, <3>6 DEF ClientQueueInv
  <2> QED
    BY <1>1, <1>4, <2>1, <2>3, <2>5 DEF QueueInv
<1>10. CASE ~Merged(c, m)
  <2>1. held[c] <= 2 /\ ~Waits(c, m.kind) /\ m.kind \in Kind /\ Sent(c, m.kind) /\ held[c] \in Nat
    BY <1>1, <1>2, <1>10, HeldIsSmall DEF QueueInv, FileTypeOK
  <2>2. PICK t : t = [kind |-> m.kind, from |-> {c}, ops |-> IF m.kind = "step2" THEN m.ops ELSE {}]
    OBVIOUS
  <2>3. t \in Task /\ t.kind = m.kind /\ t.from = {c}
    BY <1>5, <2>1, <2>2 DEF Message, Task, Kind
  <2>4. queue' = Append(queue, t) /\ UNCHANGED conn /\ held' = [held EXCEPT ![c] = @ + 1]
    BY <1>3, <1>10, <2>1, <2>2, FileAssumption
  <2>5. held'[c] = held[c] + 1 /\ \A d \in Client \ {c} : held'[d] = held[d]
    BY <2>4 DEF QueueInv, FileTypeOK
  <2>6. /\ Len(queue') = Len(queue) + 1 /\ Len(queue) \in Nat /\ queue'[Len(queue) + 1] = t
        /\ \A i \in 1..Len(queue) : queue'[i] = queue[i]
        /\ \A i \in 1..Len(queue') : i \in 1..Len(queue) \/ i = Len(queue) + 1
        /\ \A d, k : Waits(d, k)' <=> Waits(d, k) \/ (t.from = {d} /\ t.kind = k)
    BY <2>3, <2>4, QueueAppend
  <2>7. TasksHaveSenders'
    BY <1>1, <2>1, <2>3, <2>6 DEF QueueInv, TasksHaveSenders
  <2>8. QueueInOrder'
    <3> SUFFICES ASSUME NEW i \in 1..Len(queue'), NEW j \in 1..Len(queue'), i < j,
                        queue'[i].from = queue'[j].from, queue'[i].from # {}
                 PROVE  Before(queue'[i].kind, queue'[j].kind) /\ queue'[i].kind # queue'[j].kind
      BY DEF QueueInOrder
    <3>1. i \in 1..Len(queue)
      BY <2>6
    <3>2. CASE j \in 1..Len(queue)
      BY <2>6, <3>1, <3>2 DEF QueueInv, QueueInOrder
    <3>3. CASE j = Len(queue) + 1
      <4>1. queue[i].from = {c} /\ queue'[i] = queue[i] /\ queue'[j].kind = m.kind
        BY <2>3, <2>6, <3>1, <3>3
      <4>2. Waits(c, queue[i].kind) /\ queue[i].kind \in Kind
        BY <3>1, <4>1 DEF Waits, QueueInv, TasksHaveSenders
      <4> QED
        BY <1>7, <2>1, <4>1, <4>2 DEF InOrder
    <3> QED
      BY <2>6, <3>2, <3>3
  <2>9. Open' = Open /\ Connected' = Connected
    BY <2>4 DEF Open, Connected
  <2>10. \A d \in Client \ {c} : \A k \in Kind : Waits(d, k)' <=> Waits(d, k)
    BY <2>3, <2>6
  <2>11. \A k \in Kind : Waits(c, k)' <=> Waits(c, k) \/ k = m.kind
    BY <2>3, <2>6
  <2>12. ClientQueueInv(c)'
    <3>1. InOrder(c)'
      <4>1. ASSUME NEW k \in Kind, NEW l \in Kind, Waits(c, k)', Sent(c, l)' PROVE Before(k, l)
        BY <1>4, <1>7, <2>11, <4>1 DEF InOrder
      <4>2. ASSUME NEW l \in Kind, Runs(c)', Waits(c, l)' \/ Sent(c, l)' PROVE Before(job'.kind, l)
        BY <1>4, <1>7, <1>8, <2>1, <2>11, <4>2 DEF InOrder
      <4>3. \A k \in Kind : UnderWay(c, k)' => UnderWay(c, k)
        BY <1>4, <1>8, <2>1, <2>11 DEF UnderWay
      <4>4. Asks(c)' => Asks(c)
        BY <1>4, <1>8, <2>1, <2>11 DEF Asks, Kind
      <4>5. /\ Asks(c)' => ~UnderWay(c, "update")' /\ pending'[c] = {} /\ synced'[c] # "now"
            /\ greeting'[c] # "none" => ~UnderWay(c, "step2")'
        BY <1>1, <1>7, <4>3, <4>4 DEF InOrder, Kind
      <4> QED
        BY <4>1, <4>2, <4>5 DEF InOrder
    <3>2. UpdateIsCollected(c)'
      BY <1>6, <1>7, <2>11 DEF ClientQueueInv, UpdateIsCollected, Kind
    <3>3. HeldIsCounted(c)'
      <4>1. held[c] <= One(Waits(c, "step1")) + One(Waits(c, "step2")) + One(Waits(c, "update")) + One(Runs(c))
        BY <1>7 DEF ClientQueueInv, HeldIsCounted
      <4>2. CASE m.kind = "step1"
        BY <1>8, <2>1, <2>5, <2>11, <4>1, <4>2 DEF HeldIsCounted, One, Kind
      <4>3. CASE m.kind = "step2"
        BY <1>8, <2>1, <2>5, <2>11, <4>1, <4>3 DEF HeldIsCounted, One, Kind
      <4>4. CASE m.kind = "update"
        BY <1>8, <2>1, <2>5, <2>11, <4>1, <4>4 DEF HeldIsCounted, One, Kind
      <4> QED
        BY <2>1, <4>2, <4>3, <4>4 DEF Kind
    <3>4. AwayIsQuiet(c)' /\ TasksHaveSockets(c)'
      <4>1. conn'[c] \notin {"away", "joining", "stopped"}
        BY <1>1, <2>4 DEF Connected, Open
      <4> QED
        BY <1>1, <2>9, <4>1 DEF AwayIsQuiet, TasksHaveSockets
    <3> QED
      BY <3>1, <3>2, <3>3, <3>4 DEF ClientQueueInv
  <2>13. ASSUME NEW d \in Client \ {c} PROVE ClientQueueInv(d)'
    <3>1. ClientQueueInv(d) /\ InOrder(d)
      BY DEF QueueInv, ClientQueueInv
    <3>2. InOrder(d)'
      <4>1. \A k \in Kind : Sent(d, k)' => Sent(d, k)
        BY <1>4
      <4>2. pending'[d] \subseteq pending[d] /\ (synced'[d] = "now" => synced[d] = "now")
        BY <1>1
      <4> QED
        BY <1>1, <1>8, <2>10, <3>1, <4>1, <4>2, FewerStayInOrder
    <3>3. UpdateIsCollected(d)' /\ HeldIsCounted(d)' /\ AwayIsQuiet(d)'
      BY <1>1, <1>4, <1>6, <1>8, <2>4, <2>5, <2>10, <3>1
      DEF ClientQueueInv, UpdateIsCollected, HeldIsCounted, AwayIsQuiet, One, Kind
    <3>4. TasksHaveSockets(d)'
      BY <1>8, <2>9, <2>10, <3>1 DEF ClientQueueInv, TasksHaveSockets
    <3> QED
      BY <3>2, <3>3, <3>4 DEF ClientQueueInv
  <2> QED
    BY <1>1, <1>4, <2>7, <2>8, <2>12, <2>13 DEF QueueInv
<1> QED
  BY <1>9, <1>10

\* A task leaves the queue and runs.
LEMMA StartKeepsQueue ==
    ASSUME QueueInv, FileTypeOK', Start
    PROVE  QueueInv'
<1>1. /\ job = NoJob /\ queue # <<>> /\ queue' = Tail(queue) /\ room' = "open"
      /\ UNCHANGED <<wire, conn, pending, synced, greeting, held>>
  BY DEF Start, clientVars
<1>2. /\ queue \in Seq(Task) /\ Head(queue) = queue[1] /\ Len(queue') = Len(queue) - 1 /\ Len(queue) \in Nat
      /\ 1 \in 1..Len(queue)
      /\ \A i \in 1..Len(queue') : queue'[i] = queue[i + 1] /\ i + 1 \in 1..Len(queue)
      /\ \A i \in 1..Len(queue) : i = 1 \/ (i - 1 \in 1..Len(queue') /\ (i - 1) + 1 = i)
  BY <1>1 DEF QueueInv, FileTypeOK
<1>3. PICK t : t = Head(queue)
  OBVIOUS
<1>4. /\ job' # NoJob /\ job'.kind = t.kind /\ job'.from = t.from
      /\ t.kind # "update" => UNCHANGED queued
      /\ \A c \in Client : c \notin t.from => queued'[c] = queued[c]
  <2>1. CASE t.kind = "update"
    <3>1. PICK o : job' = NewJob("update", t.from, o, "start")
      BY <1>3, <2>1 DEF Start
    <3>2. queued' = [c \in Client |-> IF c \in t.from THEN {} ELSE queued[c]]
      BY <1>3, <2>1 DEF Start
    <3> QED
      BY <2>1, <3>1, <3>2 DEF NewJob, NoJob
  <2>2. CASE t.kind # "update"
    <3>1. t.kind \in {"step1", "step2", "coordinate"} /\ job' = NewJob(t.kind, t.from, t.ops, "start") /\ UNCHANGED queued
      BY <1>3, <2>2 DEF Start
    <3> QED
      BY <2>2, <3>1 DEF NewJob, NoJob
  <2> QED
    BY <2>1, <2>2
<1>5. \/ t.from = {} /\ t.kind = "coordinate"
      \/ \E c \in Client : t.from = {c} /\ t.kind \in Kind
  BY <1>2, <1>3 DEF QueueInv, TasksHaveSenders
<1>6. QueueInOrder'
  <2> SUFFICES ASSUME NEW i \in 1..Len(queue'), NEW j \in 1..Len(queue'), i < j,
                      queue'[i].from = queue'[j].from, queue'[i].from # {}
               PROVE  Before(queue'[i].kind, queue'[j].kind) /\ queue'[i].kind # queue'[j].kind
    BY DEF QueueInOrder
  <2>1. /\ i + 1 \in 1..Len(queue) /\ j + 1 \in 1..Len(queue) /\ i + 1 < j + 1
        /\ queue'[i] = queue[i + 1] /\ queue'[j] = queue[j + 1]
    BY <1>2
  <2>2. QueueInOrder
    BY DEF QueueInv
  <2> QED
    BY <2>1, <2>2 DEF QueueInOrder
<1>7. TasksHaveSenders'
  BY <1>2, <1>4, <1>5 DEF QueueInv, TasksHaveSenders
<1>8. \A c \in Client : ~Runs(c) /\ (Runs(c)' <=> t.from = {c})
  BY <1>1, <1>4, <1>5 DEF Runs
<1>9. ASSUME NEW c \in Client, NEW k \in Kind
      PROVE  /\ Waits(c, k)' => Waits(c, k) /\ (t.from = {c} => Before(t.kind, k) /\ t.kind # k)
             /\ Waits(c, k) => Waits(c, k)' \/ (t.from = {c} /\ t.kind = k)
  <2>1. ASSUME Waits(c, k)'
        PROVE  Waits(c, k) /\ (t.from = {c} => Before(t.kind, k) /\ t.kind # k)
    <3>1. PICK i \in 1..Len(queue') : queue'[i].from = {c} /\ queue'[i].kind = k
      BY <2>1 DEF Waits
    <3>2. i + 1 \in 1..Len(queue) /\ queue[i + 1].from = {c} /\ queue[i + 1].kind = k /\ 1 < i + 1
      BY <1>2, <3>1
    <3>3. Waits(c, k)
      BY <3>2 DEF Waits
    <3>4. t.from = {c} => Before(t.kind, k) /\ t.kind # k
      <4>1. QueueInOrder /\ 1 \in 1..Len(queue) /\ t = queue[1] /\ {c} # {}
        BY <1>2, <1>3 DEF QueueInv
      <4> QED
        BY <3>2, <4>1 DEF QueueInOrder
    <3> QED
      BY <3>3, <3>4
  <2>2. ASSUME Waits(c, k) PROVE Waits(c, k)' \/ (t.from = {c} /\ t.kind = k)
    <3>1. PICK i \in 1..Len(queue) : queue[i].from = {c} /\ queue[i].kind = k
      BY <2>2 DEF Waits
    <3>2. CASE i = 1
      BY <1>2, <1>3, <3>1, <3>2
    <3>3. CASE i # 1
      <4>1. i - 1 \in 1..Len(queue') /\ queue'[i - 1] = queue[i]
        BY <1>2, <3>3
      <4> QED
        BY <3>1, <4>1 DEF Waits
    <3> QED
      BY <3>2, <3>3
  <2> QED
    BY <2>1, <2>2
<1>10. Open' = Open /\ Connected' = Connected
  BY <1>1 DEF Open, Connected
<1>11. UpdatesAreEdits' /\ WireInOrder' /\ \A c \in Client : \A k \in Kind : Sent(c, k)' <=> Sent(c, k)
  BY <1>1, SameWire
<1>12. ASSUME NEW c \in Client, t.from = {c} PROVE ClientQueueInv(c)'
  <2>1. ClientQueueInv(c) /\ InOrder(c)
    BY DEF QueueInv, ClientQueueInv
  <2>2. t.kind \in Kind /\ Waits(c, t.kind) /\ Runs(c)' /\ ~Waits(c, t.kind)'
    <3>1. t.kind \in Kind /\ Runs(c)'
      BY <1>5, <1>8, <1>12
    <3>2. Waits(c, t.kind)
      BY <1>2, <1>3, <1>12 DEF Waits
    <3> QED
      BY <1>9, <1>12, <3>1, <3>2
  <2>3. InOrder(c)'
    <3>1. ASSUME NEW k \in Kind, NEW l \in Kind, Waits(c, k)', Sent(c, l)' PROVE Before(k, l)
      BY <1>9, <1>11, <2>1, <3>1 DEF InOrder
    <3>2. ASSUME NEW l \in Kind, Waits(c, l)' \/ Sent(c, l)' PROVE Before(job'.kind, l)
      BY <1>4, <1>9, <1>11, <1>12, <2>1, <2>2, <3>2 DEF InOrder
    <3>3. \A k \in Kind : UnderWay(c, k)' => UnderWay(c, k)
      BY <1>4, <1>9, <1>11, <2>2 DEF UnderWay
    <3>4. Asks(c)' => Asks(c)
      BY <1>4, <1>9, <1>11, <2>2 DEF Asks, Kind
    <3>5. /\ Asks(c)' => ~UnderWay(c, "update")' /\ pending'[c] = {} /\ synced'[c] # "now"
          /\ greeting'[c] # "none" => ~UnderWay(c, "step2")'
      BY <1>1, <2>1, <3>3, <3>4 DEF InOrder, Kind
    <3> QED
      BY <3>1, <3>2, <3>5 DEF InOrder
  <2>4. UpdateIsCollected(c)'
    <3>1. CASE t.kind = "update"
      BY <2>2, <3>1 DEF UpdateIsCollected
    <3>2. CASE t.kind # "update"
      BY <1>4, <1>9, <2>1, <3>2 DEF ClientQueueInv, UpdateIsCollected, Kind
    <3> QED
      BY <3>1, <3>2
  <2>5. HeldIsCounted(c)'
    <3>1. held[c] <= One(Waits(c, "step1")) + One(Waits(c, "step2")) + One(Waits(c, "update")) + One(Runs(c))
      BY <2>1 DEF ClientQueueInv, HeldIsCounted
    <3>2. ~Runs(c) /\ held'[c] = held[c] /\ held[c] \in Nat
      BY <1>1, <1>8 DEF QueueInv, FileTypeOK
    <3>3. \A k \in Kind : k # t.kind => (Waits(c, k)' <=> Waits(c, k))
      BY <1>9
    <3>4. CASE t.kind = "step1"
      BY <2>2, <3>1, <3>2, <3>3, <3>4 DEF HeldIsCounted, One, Kind
    <3>5. CASE t.kind = "step2"
      BY <2>2, <3>1, <3>2, <3>3, <3>5 DEF HeldIsCounted, One, Kind
    <3>6. CASE t.kind = "update"
      BY <2>2, <3>1, <3>2, <3>3, <3>6 DEF HeldIsCounted, One, Kind
    <3> QED
      BY <2>2, <3>4, <3>5, <3>6 DEF Kind
  <2>6. AwayIsQuiet(c)' /\ TasksHaveSockets(c)'
    BY <1>1, <1>10, <2>1, <2>2 DEF ClientQueueInv, AwayIsQuiet, TasksHaveSockets
  <2> QED
    BY <2>3, <2>4, <2>5, <2>6 DEF ClientQueueInv
<1>13. ASSUME NEW c \in Client, t.from # {c} PROVE ClientQueueInv(c)'
  <2>1. ClientQueueInv(c) /\ InOrder(c)
    BY DEF QueueInv, ClientQueueInv
  <2>2. \A k \in Kind : Waits(c, k)' <=> Waits(c, k)
    BY <1>9, <1>13
  <2>3. ~Runs(c) /\ ~Runs(c)' /\ queued'[c] = queued[c]
    BY <1>4, <1>5, <1>8, <1>13
  <2>4. InOrder(c)'
    <3>1. pending'[c] \subseteq pending[c] /\ (synced'[c] = "now" => synced[c] = "now")
      BY <1>1
    <3> QED
      BY <1>1, <1>11, <2>1, <2>2, <2>3, <3>1, FewerStayInOrder
  <2>5. UpdateIsCollected(c)' /\ HeldIsCounted(c)' /\ AwayIsQuiet(c)'
    BY <1>1, <2>1, <2>2, <2>3 DEF ClientQueueInv, UpdateIsCollected, HeldIsCounted, AwayIsQuiet, One, Kind
  <2>6. TasksHaveSockets(c)'
    BY <1>10, <2>1, <2>2, <2>3 DEF ClientQueueInv, TasksHaveSockets
  <2> QED
    BY <2>4, <2>5, <2>6 DEF ClientQueueInv
<1> QED
  BY <1>1, <1>6, <1>7, <1>11, <1>12, <1>13 DEF QueueInv

\* A closing takes sockets that are open, and leaves them connected.
LEMMA ClosingStaysConnected ==
    ASSUME FileTypeOK, NEW cs, Closing(cs) \/ UNCHANGED conn
    PROVE  /\ Open' \subseteq Open /\ Connected' = Connected
           /\ \A c \in Client : conn'[c] = conn[c] \/ (conn[c] \in {"open", "leaving"} /\ conn'[c] = "closing")
<1>1. \A c \in Client : conn'[c] = conn[c] \/ (conn[c] \in {"open", "leaving"} /\ conn'[c] = "closing")
  BY DEF Closing, Open
<1> QED
  BY <1>1 DEF Open, Connected

\* The running task ends.
LEMMA TaskEnds ==
    ASSUME QueueInv, FileTypeOK', EndTask, UNCHANGED <<wire, pending, synced, greeting, queue, queued, room>>,
           Open' \subseteq Open, Connected' = Connected,
           \A c \in Client : conn'[c] = conn[c] \/ (conn[c] \in {"open", "leaving"} /\ conn'[c] = "closing"),
           job # NoJob
    PROVE  QueueInv'
<1>1. job' = NoJob /\ \A c \in Client : ~Runs(c)'
  BY DEF EndTask, Runs
<1>2. UpdatesAreEdits' /\ WireInOrder' /\ \A c \in Client : \A k \in Kind : Sent(c, k)' <=> Sent(c, k)
  BY SameWire
<1>3. \A c \in Client : \A k \in Kind : Waits(c, k)' <=> Waits(c, k)
  BY DEF Waits
<1>4. TasksHaveSenders' /\ QueueInOrder'
  BY <1>1 DEF QueueInv, TasksHaveSenders, QueueInOrder
<1>5. ASSUME NEW c \in Client PROVE ClientQueueInv(c)'
  <2>1. ClientQueueInv(c) /\ InOrder(c)
    BY DEF QueueInv, ClientQueueInv
  <2>2. InOrder(c)'
    BY <1>1, <1>2, <1>3, <2>1, FewerStayInOrder
  <2>3. AwayIsQuiet(c)'
    BY <2>1 DEF ClientQueueInv, AwayIsQuiet
  <2>4. UpdateIsCollected(c)' /\ TasksHaveSockets(c)'
    BY <1>1, <1>3, <2>1 DEF ClientQueueInv, UpdateIsCollected, TasksHaveSockets, Kind
  <2>5. HeldIsCounted(c)'
    <3>1. held'[c] = IF Runs(c) /\ held[c] > 0 THEN held[c] - 1 ELSE held[c]
      BY DEF EndTask, Runs
    <3>2. held[c] \in Nat
      BY DEF QueueInv, FileTypeOK
    <3>3. held[c] <= One(Waits(c, "step1")) + One(Waits(c, "step2")) + One(Waits(c, "update")) + One(Runs(c))
      BY <2>1 DEF ClientQueueInv, HeldIsCounted
    <3> QED
      BY <1>1, <1>3, <3>1, <3>2, <3>3 DEF HeldIsCounted, One, Kind
  <2> QED
    BY <2>2, <2>3, <2>4, <2>5 DEF ClientQueueInv
<1> QED
  BY <1>2, <1>4, <1>5 DEF QueueInv

\* The running task goes on, and may have answered a question, or nothing of the
\* queue changes.
LEMMA TaskGoesOn ==
    ASSUME QueueInv, FileTypeOK', UNCHANGED <<wire, pending, greeting, queue, queued, held, room>>,
           \/ UNCHANGED job
           \/ /\ job # NoJob /\ job' # NoJob /\ job'.kind = job.kind /\ job'.from = job.from
              /\ job'.stage # "start",
           \A c \in Client :
               synced'[c] = "now" => \/ synced[c] = "now"
                                     \/ /\ Runs(c) /\ job.kind = "step1" /\ conn[c] = "open"
                                        /\ job'.stage # "start",
           Open' \subseteq Open, Connected' = Connected,
           \A c \in Client : conn'[c] = conn[c] \/ (conn[c] \in {"open", "leaving"} /\ conn'[c] = "closing")
    PROVE  QueueInv'
<1>1. \A c \in Client : /\ Runs(c)' <=> Runs(c)
                        /\ Runs(c) => job'.kind = job.kind /\ (job'.stage = "start" => job.stage = "start")
  BY DEF Runs
<1>2. UpdatesAreEdits' /\ WireInOrder' /\ \A c \in Client : \A k \in Kind : Sent(c, k)' <=> Sent(c, k)
  BY SameWire
<1>3. \A c \in Client : \A k \in Kind : Waits(c, k)' <=> Waits(c, k)
  BY DEF Waits
<1>4. TasksHaveSenders' /\ QueueInOrder'
  BY DEF QueueInv, TasksHaveSenders, QueueInOrder
<1>5. ASSUME NEW c \in Client PROVE ClientQueueInv(c)'
  <2>1. ClientQueueInv(c) /\ InOrder(c)
    BY DEF QueueInv, ClientQueueInv
  <2>2. ASSUME synced'[c] = "now" => synced[c] = "now"
        PROVE  InOrder(c)' /\ AwayIsQuiet(c)'
    <3>1. InOrder(c)'
      BY <1>1, <1>2, <1>3, <2>1, <2>2, FewerStayInOrder
    <3>2. AwayIsQuiet(c)'
      BY <2>1, <2>2 DEF ClientQueueInv, AwayIsQuiet
    <3> QED
      BY <3>1, <3>2
  <2>3. ASSUME Runs(c), job.kind = "step1", conn[c] = "open", job'.stage # "start"
        PROVE  InOrder(c)' /\ AwayIsQuiet(c)'
    <3>1. ~Waits(c, "step1") /\ ~Sent(c, "step1")
      BY <2>1, <2>3 DEF InOrder, Before, Kind
    <3>2. ~Asks(c)' /\ \A k \in Kind : UnderWay(c, k)' => UnderWay(c, k)
      BY <1>1, <1>2, <1>3, <2>3, <3>1 DEF Asks, UnderWay, Kind
    <3>3. InOrder(c)'
      BY <1>1, <1>2, <1>3, <2>1, <3>2 DEF InOrder, Kind
    <3>4. AwayIsQuiet(c)'
      BY <2>3 DEF AwayIsQuiet
    <3> QED
      BY <3>3, <3>4
  <2>4. InOrder(c)' /\ AwayIsQuiet(c)'
    BY <2>2, <2>3
  <2>5. UpdateIsCollected(c)' /\ TasksHaveSockets(c)' /\ HeldIsCounted(c)'
    BY <1>1, <1>3, <2>1 DEF ClientQueueInv, UpdateIsCollected, TasksHaveSockets, HeldIsCounted, One, Kind
  <2> QED
    BY <2>4, <2>5 DEF ClientQueueInv
<1> QED
  BY <1>2, <1>4, <1>5 DEF QueueInv

LEMMA AdvanceFacts ==
    ASSUME FileTypeOK, job # NoJob, NEW s, NEW o, NEW r, Advance(s, o, r)
    PROVE  /\ job' # NoJob /\ job'.kind = job.kind /\ job'.from = job.from /\ job'.stage = s
           /\ UNCHANGED held
<1>1. job'.kind = job.kind /\ job'.from = job.from /\ job'.stage = s /\ UNCHANGED held
  BY DEF Advance
<1>2. job.kind # "none"
  BY JobFields
<1> QED
  BY <1>1, <1>2 DEF NoJob

LEMMA TasksKeepQueue ==
    ASSUME QueueInv, FileTypeOK', Handle \/ TellRevision \/ ReadRecord \/ WriteRecord \/ Broadcast \/ SaveFails
    PROVE  QueueInv'
<1> USE DEF clientVars
<1>1. FileTypeOK /\ job # NoJob /\ UNCHANGED <<wire, pending, greeting, queue, queued, room>>
  BY DEF Handle, TellRevision, ReadRecord, WriteRecord, Broadcast, SaveFails, QueueInv
<1>2. CASE Handle
  <2> DEFINE allowed == {c \in job.from \cap Open : access[c] # "none"}
  <2>1. \/ EndTask /\ UNCHANGED synced /\ (Closing(job.from) \/ UNCHANGED conn \/ Closing(allowed))
        \/ /\ Advance("tell", {}, job.record) /\ job.kind = "step1" /\ Send(allowed, doc)
           /\ synced' = [c \in Client |-> IF c \in allowed /\ conn[c] = "open" THEN "now" ELSE synced[c]]
        \/ Advance("read", job.ops, job.record) /\ UNCHANGED <<conn, synced>>
    BY <1>2 DEF Handle
  <2>2. CASE EndTask /\ UNCHANGED synced /\ (Closing(job.from) \/ UNCHANGED conn \/ Closing(allowed))
    BY <1>1, <2>2, ClosingStaysConnected, TaskEnds
  <2>3. CASE /\ Advance("tell", {}, job.record) /\ job.kind = "step1" /\ Send(allowed, doc)
             /\ synced' = [c \in Client |-> IF c \in allowed /\ conn[c] = "open" THEN "now" ELSE synced[c]]
    <3>1. Closing({c \in allowed : access[c] = "none"})
      BY <2>3 DEF Send
    <3>2. job' # NoJob /\ job'.kind = job.kind /\ job'.from = job.from /\ job'.stage = "tell" /\ UNCHANGED held
      BY <1>1, <2>3, AdvanceFacts
    <3>3. \A c \in Client :
              synced'[c] = "now" => synced[c] = "now" \/ (Runs(c) /\ job.kind = "step1" /\ conn[c] = "open")
      BY <1>1, <2>3 DEF Runs
    <3> QED
      BY <1>1, <3>1, <3>2, <3>3, ClosingStaysConnected, TaskGoesOn
  <2>4. CASE Advance("read", job.ops, job.record) /\ UNCHANGED <<conn, synced>>
    BY <1>1, <2>4, AdvanceFacts, ClosingStaysConnected, TaskGoesOn
  <2> QED
    BY <2>1, <2>2, <2>3, <2>4
<1>3. CASE ReadRecord \/ WriteRecord
  <2>1. UNCHANGED <<conn, synced>> /\ \E s \in {"write", "tell"} : \E o, r : Advance(s, o, r)
    BY <1>3 DEF ReadRecord, WriteRecord
  <2> QED
    BY <1>1, <2>1, AdvanceFacts, ClosingStaysConnected, TaskGoesOn
<1>4. CASE Broadcast \/ TellRevision \/ SaveFails
  <2>1. EndTask /\ UNCHANGED synced /\ \E cs : Closing(cs)
    BY <1>4 DEF Broadcast, TellRevision, SaveFails, Send
  <2> QED
    BY <1>1, <2>1, ClosingStaysConnected, TaskEnds
<1> QED
  BY <1>2, <1>3, <1>4

LEMMA RecheckKeepsQueue ==
    ASSUME QueueInv, FileTypeOK', Recheck
    PROVE  QueueInv'
<1>1. /\ FileTypeOK /\ room' = "open" /\ Closing({c \in Client : access[c] = "none"})
      /\ queue' = Append(queue, Coordinate) /\ UNCHANGED <<pending, wire, synced, greeting, job, queued, held>>
  BY DEF Recheck, QueueInv
<1>2. Coordinate \in Task /\ Coordinate.from = {} /\ Coordinate.kind = "coordinate"
  BY DEF Coordinate, Task
<1>3. /\ Len(queue') = Len(queue) + 1 /\ Len(queue) \in Nat /\ queue'[Len(queue) + 1] = Coordinate
      /\ \A i \in 1..Len(queue) : queue'[i] = queue[i]
      /\ \A i \in 1..Len(queue') : i \in 1..Len(queue) \/ i = Len(queue) + 1
      /\ \A d, k : Waits(d, k)' <=> Waits(d, k) \/ (Coordinate.from = {d} /\ Coordinate.kind = k)
  BY <1>1, <1>2, QueueAppend
<1>4. \A c \in Client : \A k \in Kind : Waits(c, k)' <=> Waits(c, k)
  BY <1>2, <1>3
<1>5. TasksHaveSenders'
  BY <1>1, <1>2, <1>3 DEF QueueInv, TasksHaveSenders
<1>6. QueueInOrder'
  <2> SUFFICES ASSUME NEW i \in 1..Len(queue'), NEW j \in 1..Len(queue'), i < j,
                      queue'[i].from = queue'[j].from, queue'[i].from # {}
               PROVE  Before(queue'[i].kind, queue'[j].kind) /\ queue'[i].kind # queue'[j].kind
    BY DEF QueueInOrder
  <2>1. i \in 1..Len(queue) /\ j \in 1..Len(queue)
    BY <1>2, <1>3
  <2> QED
    BY <1>3, <2>1 DEF QueueInv, QueueInOrder
<1>7. UpdatesAreEdits' /\ WireInOrder' /\ \A c \in Client : \A k \in Kind : Sent(c, k)' <=> Sent(c, k)
  BY <1>1, SameWire
<1>8. /\ Open' \subseteq Open /\ Connected' = Connected
      /\ \A c \in Client : conn'[c] = conn[c] \/ (conn[c] \in {"open", "leaving"} /\ conn'[c] = "closing")
  BY <1>1, ClosingStaysConnected
<1>9. \A c \in Client : Runs(c)' <=> Runs(c)
  BY <1>1 DEF Runs
<1>10. ASSUME NEW c \in Client PROVE ClientQueueInv(c)'
  <2>1. ClientQueueInv(c) /\ InOrder(c)
    BY DEF QueueInv, ClientQueueInv
  <2>2. InOrder(c)'
    BY <1>1, <1>4, <1>7, <1>9, <2>1, FewerStayInOrder
  <2>3. AwayIsQuiet(c)'
    BY <1>1, <1>8, <2>1 DEF ClientQueueInv, AwayIsQuiet
  <2>4. UpdateIsCollected(c)' /\ TasksHaveSockets(c)' /\ HeldIsCounted(c)'
    BY <1>1, <1>4, <1>8, <1>9, <2>1 DEF ClientQueueInv, UpdateIsCollected, TasksHaveSockets, HeldIsCounted, One, Kind
  <2> QED
    BY <2>2, <2>3, <2>4 DEF ClientQueueInv
<1> QED
  BY <1>1, <1>5, <1>6, <1>7, <1>10 DEF QueueInv

LEMMA CoordinationKeepsQueue ==
    ASSUME QueueInv, FileInv, FileTypeOK',
           \/ ActFor \/ ReadBaseline \/ ReadRevision \/ ReadCloud \/ WriteCheckpoint \/ Accept \/ CoordinationFails
    PROVE  QueueInv'
<1> USE DEF clientVars
<1>1. /\ FileTypeOK /\ job # NoJob /\ UNCHANGED <<queue, queued>> /\ job.kind \in {"coordinate", "load"}
  BY DEF ActFor, ReadBaseline, ReadRevision, ReadCloud, WriteCheckpoint, Accept, CoordinationFails, QueueInv, Coordinating
<1>2. \A c \in Client : ~Runs(c)
  BY <1>1 DEF QueueInv, TasksHaveSenders, Runs, Kind
<1>3. CASE ActFor \/ ReadBaseline \/ ReadRevision \/ ReadCloud \/ WriteCheckpoint
  <2>1. /\ UNCHANGED <<wire, pending, synced, greeting, room>>
        /\ EndTask \/ \E s \in {"read", "revision", "cloud", "write", "tell"} : \E o, r : Advance(s, o, r)
        /\ UNCHANGED conn \/ \E cs : Closing(cs)
    BY <1>3 DEF ActFor, ReadBaseline, ReadRevision, ReadCloud, WriteCheckpoint
  <2>2. /\ Open' \subseteq Open /\ Connected' = Connected
        /\ \A c \in Client : conn'[c] = conn[c] \/ (conn[c] \in {"open", "leaving"} /\ conn'[c] = "closing")
    BY <1>1, <2>1, ClosingStaysConnected
  <2>3. CASE EndTask
    BY <1>1, <2>1, <2>2, <2>3, TaskEnds
  <2>4. CASE \E s \in {"read", "revision", "cloud", "write", "tell"} : \E o, r : Advance(s, o, r)
    BY <1>1, <2>1, <2>2, <2>4, AdvanceFacts, TaskGoesOn
  <2> QED
    BY <2>1, <2>3, <2>4
<1>4. CASE Accept
  <2>1. EndTask /\ UNCHANGED <<pending, synced>>
    BY <1>4 DEF Accept
  <2>2. CASE job.kind = "load"
    <3>1. room' = "open" /\ Join({c \in Client : conn[c] = "joining"})
      BY <1>4, <2>2 DEF Accept
    <3>2. PICK cs : cs = {c \in Client : conn[c] = "joining"}
      OBVIOUS
    <3>3. /\ cs \in SUBSET Client /\ \A c \in cs : conn[c] \in {"away", "joining"}
          /\ Join(cs)
      BY <3>1, <3>2
    <3>4. room # "open" /\ queue = <<>>
      BY <2>2 DEF FileInv, StagesAgree, QueueInv
    <3>5. job' = NoJob /\ \A c \in Client : held'[c] = held[c]
      BY <1>1, <1>2, <2>1 DEF EndTask, Runs
    <3> QED
      BY <1>1, <1>2, <2>1, <3>1, <3>3, <3>4, <3>5, JoinKeepsQueue
  <2>3. CASE job.kind # "load"
    <3>1. Closing({c \in Client : access[c] = "none"}) /\ UNCHANGED <<room, wire, greeting>>
      BY <1>4, <2>3 DEF Accept, Send
    <3> QED
      BY <1>1, <2>1, <3>1, ClosingStaysConnected, TaskEnds
  <2> QED
    BY <2>2, <2>3
<1>5. CASE CoordinationFails
  <2>1. EndTask /\ Fail /\ room' = (IF job.kind = "load" THEN "none" ELSE room)
    BY <1>5 DEF CoordinationFails
  <2>2. PICK cs : cs = IF job.kind = "load" THEN {c \in Client : conn[c] = "joining"} ELSE Open
    OBVIOUS
  <2>3. /\ cs \in SUBSET Client
        /\ \A c \in Client : /\ wire'[c] = IF c \in cs THEN <<>> ELSE wire[c]
                             /\ pending'[c] = IF c \in cs THEN {} ELSE pending[c]
                             /\ synced'[c] = IF c \in cs /\ synced[c] = "now" THEN "before" ELSE synced[c]
                             /\ greeting'[c] = IF c \in cs THEN "none" ELSE greeting[c]
                             /\ c \in cs => conn'[c] \in {"stopped", "away"}
                             /\ c \notin cs => conn'[c] = conn[c]
    BY <2>1, <2>2 DEF Fail, Open
  <2>4. job' = NoJob /\ \A c \in Client : ~Runs(c)' /\ held'[c] = held[c]
    BY <1>1, <1>2, <2>1 DEF EndTask, Runs
  <2>5. /\ UpdatesAreEdits' /\ WireInOrder'
        /\ \A c \in Client : \A k \in Kind : Sent(c, k)' => Sent(c, k)
    <3>1. PICK fresh : fresh = [c \in cs |-> <<>>]
      OBVIOUS
    <3>2. PICK m : m = [kind |-> "step1", ops |-> {}]
      OBVIOUS
    <3>3. /\ m.kind = "step1" /\ \A c \in cs : fresh[c] = <<>> /\ fresh[c] \in {<<>>, <<m>>}
          /\ \A c \in Client : wire'[c] = IF c \in cs THEN fresh[c] ELSE wire[c]
      BY <2>3, <3>1, <3>2
    <3>4. /\ UpdatesAreEdits' /\ WireInOrder'
          /\ \A c \in cs : \A k \in Kind : Sent(c, k)' => k = "step1" /\ fresh[c] # <<>>
          /\ \A c \in Client \ cs : wire'[c] = wire[c] /\ \A k \in Kind : Sent(c, k)' <=> Sent(c, k)
      BY <2>3, <3>3, FreshWires
    <3> QED
      BY <3>3, <3>4
  <2>6. \A c \in Client : \A k \in Kind : Waits(c, k)' <=> Waits(c, k)
    BY <1>1 DEF Waits
  <2>7. TasksHaveSenders' /\ QueueInOrder'
    BY <1>1, <2>4 DEF QueueInv, TasksHaveSenders, QueueInOrder
  <2>8. room' # "open" => queue' = <<>>
    BY <1>1, <2>1 DEF QueueInv, FileInv, StagesAgree
  <2>9. \/ queue = <<>>
        \/ Open' = {}
    <3>1. CASE job.kind = "load"
      BY <3>1 DEF QueueInv, FileInv, StagesAgree
    <3>2. CASE job.kind # "load"
      <4>1. cs = Open
        BY <2>2, <3>2
      <4> QED
        BY <2>3, <4>1 DEF Open
    <3> QED
      BY <3>1, <3>2
  <2>10. ASSUME NEW c \in Client PROVE ClientQueueInv(c)'
    <3>1. ClientQueueInv(c) /\ InOrder(c)
      BY DEF QueueInv, ClientQueueInv
    <3>2. InOrder(c)'
      <4>1. pending'[c] \subseteq pending[c] /\ (synced'[c] = "now" => synced[c] = "now")
        BY <2>3
      <4> QED
        BY <2>3, <2>4, <2>5, <2>6, <3>1, <4>1, FewerStayInOrder
    <3>3. AwayIsQuiet(c)'
      BY <2>3, <3>1 DEF ClientQueueInv, AwayIsQuiet
    <3>4. UpdateIsCollected(c)' /\ HeldIsCounted(c)'
      BY <1>1, <1>2, <2>4, <2>6, <3>1 DEF ClientQueueInv, UpdateIsCollected, HeldIsCounted, One, Kind
    <3>5. TasksHaveSockets(c)'
      <4>1. queue = <<>> => \A k \in Kind : ~Waits(c, k)
        BY DEF Waits
      <4> QED
        BY <2>4, <2>6, <2>9, <4>1 DEF TasksHaveSockets
    <3> QED
      BY <3>2, <3>3, <3>4, <3>5 DEF ClientQueueInv
  <2> QED
    BY <2>5, <2>7, <2>8, <2>10 DEF QueueInv
<1> QED
  BY <1>3, <1>4, <1>5

LEMMA ServerKeepsQueue ==
    ASSUME QueueInv, FileTypeOK',
           \/ SaveCloud \/ Dispose \/ Inspect \/ Confirm \/ BackUp \/ Replace \/ RecoveryFails \/ Crash
           \/ UNCHANGED vars
    PROVE  QueueInv'
<1> USE DEF clientVars, roomVars
<1>0. FileTypeOK
  BY DEF QueueInv
<1>1. CASE \/ SaveCloud \/ Inspect \/ Confirm \/ BackUp \/ Replace \/ RecoveryFails \/ UNCHANGED vars
  <2>1. UNCHANGED <<clientVars, roomVars>>
    BY <1>1 DEF SaveCloud, Inspect, Confirm, BackUp, Replace, RecoveryFails, vars
  <2> QED
    BY <1>0, <2>1, ClosingStaysConnected, TaskGoesOn
<1>2. CASE Dispose
  <2>1. /\ UNCHANGED <<clientVars, queue, job, queued, held>> /\ queue = <<>>
    BY <1>2 DEF Dispose
  <2>2. UpdatesAreEdits' /\ WireInOrder' /\ \A c \in Client : \A k \in Kind : Sent(c, k)' <=> Sent(c, k)
    BY <2>1, SameWire
  <2>3. TasksHaveSenders' /\ QueueInOrder'
    BY <2>1, SameQueue
  <2>4. \A c \in Client : ClientQueueInv(c)'
    <3> SUFFICES ASSUME NEW c \in Client PROVE ClientQueueInv(c)'
      OBVIOUS
    <3>1. ClientQueueInv(c) /\ InOrder(c)
      BY DEF QueueInv, ClientQueueInv
    <3>2. /\ \A k \in Kind : Waits(c, k)' <=> Waits(c, k)
          /\ (Runs(c)' <=> Runs(c)) /\ UpdateIsCollected(c)' /\ HeldIsCounted(c)'
      BY <2>1, SameQueue
    <3>3. InOrder(c)'
      BY <2>1, <2>2, <3>1, <3>2, FewerStayInOrder
    <3>4. AwayIsQuiet(c)'
      BY <2>1, <3>1 DEF ClientQueueInv, AwayIsQuiet
    <3>5. TasksHaveSockets(c)'
      BY <2>1, <3>1, <3>2 DEF ClientQueueInv, TasksHaveSockets, Open, Connected
    <3> QED
      BY <3>2, <3>3, <3>4, <3>5 DEF ClientQueueInv
  <2> QED
    BY <2>1, <2>2, <2>3, <2>4 DEF QueueInv
<1>3. CASE Crash
  <2>1. /\ queue' = <<>> /\ job' = NoJob /\ room' = "none" /\ Gone({c \in Client : conn[c] # "stopped"})
        /\ \A c \in Client : held'[c] = 0
    BY <1>3 DEF Crash
  <2>2. \A c \in Client : /\ wire'[c] = IF conn[c] # "stopped" THEN <<>> ELSE wire[c]
                          /\ pending'[c] = IF conn[c] # "stopped" THEN {} ELSE pending[c]
                          /\ synced'[c] = IF conn[c] # "stopped" /\ synced[c] = "now" THEN "before" ELSE synced[c]
                          /\ greeting'[c] = IF conn[c] # "stopped" THEN "none" ELSE greeting[c]
    BY <2>1 DEF Gone
  <2>3. \A c \in Client : wire'[c] = <<>> /\ pending'[c] = {} /\ synced'[c] # "now" /\ greeting'[c] = "none"
    BY <2>2 DEF QueueInv, ClientQueueInv, AwayIsQuiet
  <2>4. Len(queue') = 0 /\ \A c \in Client : Len(wire'[c]) = 0
    BY <2>1, <2>3
  <2>5. UpdatesAreEdits' /\ WireInOrder' /\ TasksHaveSenders' /\ QueueInOrder'
    BY <2>1, <2>4 DEF UpdatesAreEdits, WireInOrder, TasksHaveSenders, QueueInOrder
  <2>6. ASSUME NEW c \in Client PROVE ClientQueueInv(c)'
    <3>1. ~Runs(c)' /\ \A k \in Kind : ~Sent(c, k)' /\ ~Waits(c, k)'
      BY <2>1, <2>4 DEF Runs, Sent, Waits
    <3>2. HeldIsCounted(c)'
      BY <2>1 DEF HeldIsCounted, One
    <3> QED
      BY <2>3, <3>1, <3>2 DEF ClientQueueInv, InOrder, Asks, UnderWay, UpdateIsCollected, AwayIsQuiet, TasksHaveSockets, Kind
  <2> QED
    BY <2>1, <2>5, <2>6 DEF QueueInv
<1> QED
  BY <1>1, <1>2, <1>3

LEMMA StepKeepsTypes ==
    ASSUME FileTypeOK, UpdatesAreEdits, FileInv, [FileNext]_vars
    PROVE  FileTypeOK'
<1>1. CASE UNCHANGED vars
  BY <1>1 DEF FileTypeOK, vars, clientVars, roomVars, diskVars
<1>2. CASE \E c \in Client : ClientStep(c)
  BY <1>2, ClientTypes DEF FileInv
<1>3. CASE RoomStep \/ SaveFails \/ CoordinationFails \/ Recheck
  BY <1>3, TaskTypes, CoordinationTypes DEF RoomStep
<1>4. CASE SaveCloud \/ Dispose \/ Inspect \/ Confirm \/ BackUp \/ Replace \/ RecoveryFails \/ Crash
  BY <1>4, ServerTypes
<1> QED
  BY <1>1, <1>2, <1>3, <1>4 DEF FileNext

LEMMA StepKeepsQueue ==
    ASSUME QueueInv, FileInv, QueueLimit > 2, [FileNext]_vars
    PROVE  QueueInv'
<1>1. FileTypeOK'
  BY StepKeepsTypes DEF QueueInv
<1>2. CASE \E c \in Client : ClientStep(c)
  <2>1. PICK c \in Client : ClientStep(c)
    BY <1>2
  <2>2. Deliver(c) => room = "open"
    BY DEF Deliver, FileInv, StagesAgree
  <2> QED
    BY <1>1, <2>1, <2>2, ClientSideSteps, ConnectKeepsQueue, ClosedKeepsQueue, GreetKeepsQueue, DeliverKeepsQueue
    DEF ClientStep
<1>3. CASE RoomStep \/ SaveFails \/ CoordinationFails \/ Recheck
  BY <1>1, <1>3, StartKeepsQueue, TasksKeepQueue, CoordinationKeepsQueue, RecheckKeepsQueue DEF RoomStep
<1>4. CASE \/ SaveCloud \/ Dispose \/ Inspect \/ Confirm \/ BackUp \/ Replace \/ RecoveryFails \/ Crash
           \/ UNCHANGED vars
  BY <1>1, <1>4, ServerKeepsQueue
<1> QED
  BY <1>2, <1>3, <1>4 DEF FileNext

\* The order of a client's messages, from its socket through the queue to the
\* running task, and what connection.pending counts of them (server.ts): the
\* invariant QueueIsBounded rests on.  The code's limit is 16.
THEOREM FileQueueInvariant ==
    ASSUME QueueLimit > 2
    PROVE  FileSpec => []QueueInv
<1>1. FileInit => QueueInv
  BY QueueInit
<1>2. QueueInv /\ FileInv /\ [FileNext]_vars => QueueInv'
  BY StepKeepsQueue
<1> QED
  BY <1>1, <1>2, FileRoomInvariant, PTL DEF FileSpec

\* The variables of the room, its clients and its files keep their types.
THEOREM FileTypeCorrect ==
    ASSUME QueueLimit > 2
    PROVE  FileSpec => []FileTypeOK
<1>1. QueueInv => FileTypeOK
  BY DEF QueueInv
<1> QED
  BY <1>1, FileQueueInvariant, PTL

\* A client has three tasks in the room's queue at most, the running one included, for any number of clients and
\* edits, so that none is closed for the length of its queue (enqueue,
\* queuedDocument).
THEOREM QueuesStayBounded ==
    ASSUME QueueLimit > 2
    PROVE  FileSpec => []QueueIsBounded
<1>1. QueueInv => QueueIsBounded
  <2> SUFFICES ASSUME QueueInv, NEW c \in Client PROVE held[c] <= 3
    BY DEF QueueIsBounded
  <2>1. InOrder(c) /\ HeldIsCounted(c) /\ held[c] \in Nat
    BY DEF QueueInv, ClientQueueInv, FileTypeOK
  <2>2. ~(Waits(c, "step1") /\ Waits(c, "update")) /\ ~(Runs(c) /\ Waits(c, "step1"))
    BY <2>1 DEF InOrder, Asks, UnderWay, Before, Kind
  <2> QED
    BY <2>1, <2>2 DEF HeldIsCounted, One
<1> QED
  BY <1>1, FileQueueInvariant, PTL
=============================================================================
