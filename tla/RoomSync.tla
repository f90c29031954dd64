------------------------------- MODULE RoomSync -------------------------------
(***************************************************************************)
(* How the instances that hold a room of one generation follow each        *)
(* other's commits (server/collaboration/distributedRoomSync.ts, with the  *)
(* room queue of server.ts and the channel of privateRoomNoticeBus.ts).    *)
(*                                                                         *)
(* The store is a counter of versions and a document is the newest version *)
(* it contains: RoomCommit shows that a version contains every one before. *)
(* What the code does between two answers from the network is one step.    *)
(***************************************************************************)
EXTENDS Integers

CONSTANTS
    Server,     \* instances
    MaxVersion  \* commits (a bound of the model only)

ASSUME SyncAssumption == MaxVersion \in Nat

Version == 0..MaxVersion

VARIABLES
    store,      \* the version of the room's row
    phase,      \* phase[s]: the room of s, from its load to its disposal
    doc,        \* doc[s]: what its document contains
    queue,      \* queue[s]: the operation that runs in the room's queue
    commit,     \* commit[s]: the version that operation has written, or 0
    last,       \* last[s]: the snapshot last accepted, or 0
    running,    \* running[s]: how far the current refresh is
    dirty,      \* dirty[s]: it was asked for again meanwhile
    snap,       \* snap[s]: the answer of its read
    failed,     \* failed[s]: synchronization is unavailable
    notifying,  \* notifying[s]: commits whose notice waits for a refresh
    publishing, \* publishing[s]: notices being published
    bus,        \* bus[s]: the channel of s
    inbox       \* inbox[s]: notices on their way to s

roomVars == <<phase, doc, queue, commit>>
refreshVars == <<last, running, dirty, snap, failed>>
noticeVars == <<notifying, publishing, bus, inbox>>
vars == <<store, roomVars, refreshVars, noticeVars>>

Phase == {"out", "joining", "opening", "open", "closing"}
Reading == {"reading", "answered", "accepting"}
Notice == [commit : Version, version : Version]

SyncTypeOK ==
    /\ store \in Version
    /\ phase \in [Server -> Phase]
    /\ doc \in [Server -> Version]
    /\ queue = [s \in Server |-> IF running[s] \in Reading THEN "sync" ELSE queue[s]]
    /\ queue \in [Server -> {"free", "commit", "sync"}]
    /\ commit \in [Server -> Version]
    /\ last \in [Server -> Version]
    /\ running \in [Server -> {"no", "waiting"} \cup Reading]
    /\ dirty \in [Server -> BOOLEAN]
    /\ snap \in [Server -> Version]
    /\ failed \in [Server -> BOOLEAN]
    /\ notifying \in [Server -> SUBSET Version]
    /\ publishing \in [Server -> SUBSET Notice]
    /\ bus \in [Server -> {"off", "ready", "down"}]
    /\ inbox \in [Server -> SUBSET Version]

Init ==
    /\ store = 0
    /\ phase = [s \in Server |-> "out"]
    /\ doc = [s \in Server |-> 0]
    /\ queue = [s \in Server |-> "free"]
    /\ commit = [s \in Server |-> 0]
    /\ last = [s \in Server |-> 0]
    /\ running = [s \in Server |-> "no"]
    /\ dirty = [s \in Server |-> FALSE]
    /\ snap = [s \in Server |-> 0]
    /\ failed = [s \in Server |-> FALSE]
    /\ notifying = [s \in Server |-> {}]
    /\ publishing = [s \in Server |-> {}]
    /\ bus = [s \in Server |-> "off"]
    /\ inbox = [s \in Server |-> {}]

Closed(s) == phase[s] \in {"out", "closing"}
Set(f, s, x) == [f EXCEPT ![s] = x]

-----------------------------------------------------------------------------
(* refresh: one read at a time, in the room's queue                         *)

\* Mutant of Refresh: a refresh that runs serves whoever asks.
RefreshOnce(s) ==
    /\ running' = IF running[s] = "no" THEN Set(running, s, "waiting") ELSE running
    /\ UNCHANGED <<dirty, last, snap, failed>>

Refresh(s) ==
    /\ \/ running[s] = "no" /\ running' = Set(running, s, "waiting") /\ UNCHANGED dirty
       \/ running[s] # "no" /\ dirty' = Set(dirty, s, TRUE) /\ UNCHANGED running
    /\ UNCHANGED <<last, snap, failed>>

\* Requests that find the room closed or failed do nothing.
CatchUpNow(s) ==
    IF Closed(s) \/ failed[s] THEN UNCHANGED refreshVars ELSE Refresh(s)

\* Mutant of Read: the read does not wait for the room's queue.
ReadUnqueued(s) ==
    /\ running[s] = "waiting"
    /\ running' = Set(running, s, "reading")
    /\ UNCHANGED <<store, roomVars, last, dirty, snap, failed, noticeVars>>

Read(s) ==
    /\ running[s] = "waiting" /\ queue[s] = "free"
    /\ running' = Set(running, s, "reading")
    /\ queue' = Set(queue, s, "sync")
    /\ UNCHANGED <<store, phase, doc, commit, last, dirty, snap, failed, noticeVars>>

ReadIsServed(s) ==
    /\ running[s] = "reading"
    /\ running' = Set(running, s, "answered")
    /\ snap' = Set(snap, s, store)
    /\ UNCHANGED <<store, roomVars, last, dirty, failed, noticeVars>>

\* The end of an iteration.  If nobody asked again the refresh is over, and the
\* notices that waited for it are published, unless the room was closed.
EndIteration(s) ==
    /\ queue' = Set(queue, s, "free")
    /\ dirty' = Set(dirty, s, FALSE)
    /\ snap' = Set(snap, s, 0)
    /\ \/ /\ dirty[s] /\ ~Closed(s) /\ ~failed[s]
          /\ running' = Set(running, s, "waiting")
          /\ UNCHANGED <<notifying, publishing, phase>>
       \/ /\ ~dirty[s] \/ Closed(s) \/ failed[s]
          /\ running' = Set(running, s, "no")
          /\ notifying' = Set(notifying, s, {})
          /\ publishing' = IF Closed(s) \/ failed[s] THEN publishing
                           ELSE Set(publishing, s, publishing[s] \cup
                                    {[commit |-> v, version |-> last'[s]] : v \in notifying[s]})
          /\ phase' = IF phase[s] = "opening" THEN Set(phase, s, "open") ELSE phase

Accepts(s) == ~Closed(s) /\ ~failed[s] /\ snap[s] # last[s] /\ snap[s] >= doc[s]

\* Nothing new, or nothing to do for a closed room.
Unchanged(s) ==
    /\ running[s] = "answered"
    /\ Closed(s) \/ (~failed[s] /\ snap[s] = last[s])
    /\ UNCHANGED last
    /\ EndIteration(s)
    /\ UNCHANGED <<store, doc, commit, failed, bus, inbox>>

\* The snapshot joins the document; its broadcast is awaited.
Accept(s) ==
    /\ running[s] = "answered" /\ Accepts(s)
    /\ doc' = Set(doc, s, snap[s])
    /\ running' = Set(running, s, "accepting")
    /\ UNCHANGED <<store, phase, queue, commit, last, dirty, snap, failed, noticeVars>>

Accepted(s) ==
    /\ running[s] = "accepting" /\ ~failed[s]
    /\ last' = IF Closed(s) THEN last ELSE Set(last, s, snap[s])
    /\ EndIteration(s)
    /\ UNCHANGED <<store, doc, commit, failed, bus, inbox>>

\* The read fails, or its answer is not accepted: the room becomes unavailable and
\* its connections are closed.  A room that is still opening is given up.
Fail(s) ==
    /\ running[s] \in Reading
    /\ failed' = IF Closed(s) THEN failed ELSE Set(failed, s, TRUE)
    /\ phase' = IF phase[s] = "opening" THEN Set(phase, s, "closing") ELSE phase
    /\ queue' = Set(queue, s, "free")
    /\ running' = Set(running, s, "no")
    /\ dirty' = Set(dirty, s, FALSE)
    /\ snap' = Set(snap, s, 0)
    /\ notifying' = Set(notifying, s, {})
    /\ UNCHANGED <<store, doc, commit, last, publishing, bus, inbox>>

-----------------------------------------------------------------------------
(* The room: loaded, then subscribed, then read once more before it opens   *)

Load(s) ==
    /\ phase[s] = "out"
    /\ phase' = Set(phase, s, "joining")
    /\ doc' = Set(doc, s, store)
    /\ UNCHANGED <<store, queue, commit, refreshVars, noticeVars>>

Join(s) ==
    /\ phase[s] = "joining"
    /\ phase' = Set(phase, s, "opening")
    /\ bus' = Set(bus, s, "ready")
    /\ Refresh(s)
    /\ UNCHANGED <<store, doc, queue, commit, notifying, publishing, inbox>>

\* The room's lease or its presence transport fails.
Unavailable(s) ==
    /\ phase[s] = "open" /\ ~failed[s]
    /\ failed' = Set(failed, s, TRUE)
    /\ UNCHANGED <<store, roomVars, last, running, dirty, snap, noticeVars>>

\* The last connection has left, or the room could not join.
Close(s) ==
    /\ phase[s] \in {"joining", "open"}
    /\ phase' = Set(phase, s, "closing")
    /\ UNCHANGED <<store, doc, queue, commit, refreshVars, noticeVars>>

\* The room of s is gone, with all that it had in memory.
Forget(s) ==
    /\ phase' = Set(phase, s, "out")
    /\ doc' = Set(doc, s, 0)
    /\ last' = Set(last, s, 0)
    /\ failed' = Set(failed, s, FALSE)
    /\ bus' = Set(bus, s, "off")
    /\ inbox' = Set(inbox, s, {})

\* A refresh under way and the queue end first.
Dispose(s) ==
    /\ phase[s] = "closing" /\ running[s] = "no" /\ queue[s] = "free"
    /\ Forget(s)
    /\ UNCHANGED <<store, queue, commit, running, dirty, snap, notifying, publishing>>

\* The process dies.
Crash(s) ==
    /\ phase[s] # "out"
    /\ Forget(s)
    /\ queue' = Set(queue, s, "free")
    /\ commit' = Set(commit, s, 0)
    /\ running' = Set(running, s, "no")
    /\ dirty' = Set(dirty, s, FALSE)
    /\ snap' = Set(snap, s, 0)
    /\ notifying' = Set(notifying, s, {})
    /\ publishing' = Set(publishing, s, {})
    /\ UNCHANGED store

-----------------------------------------------------------------------------
(* A local commit runs in the room's queue                                  *)

StartCommit(s) ==
    /\ phase[s] = "open" /\ ~failed[s] /\ queue[s] = "free"
    /\ queue' = Set(queue, s, "commit")
    /\ UNCHANGED <<store, phase, doc, commit, refreshVars, noticeVars>>

WriteCommit(s) ==
    /\ queue[s] = "commit" /\ commit[s] = 0
    /\ store < MaxVersion
    /\ store' = store + 1
    /\ commit' = Set(commit, s, store + 1)
    /\ UNCHANGED <<phase, doc, queue, refreshVars, noticeVars>>

\* Mutant of FinishCommit: the notice is awaited in the queue.
FinishCommitNotified(s) ==
    /\ queue[s] = "commit" /\ commit[s] # 0
    /\ doc' = Set(doc, s, commit[s])
    /\ commit' = Set(commit, s, 0)
    /\ queue' = Set(queue, s, IF Closed(s) \/ failed[s] THEN "free" ELSE "sync")
    /\ notifying' = Set(notifying, s, notifying[s] \cup {commit[s]})
    /\ CatchUpNow(s)
    /\ UNCHANGED <<store, phase, publishing, bus, inbox>>

\* Mutant of FinishCommit: the notice announces the snapshot accepted last.
FinishCommitUnrefreshed(s) ==
    /\ queue[s] = "commit" /\ commit[s] # 0
    /\ doc' = Set(doc, s, commit[s])
    /\ commit' = Set(commit, s, 0)
    /\ queue' = Set(queue, s, "free")
    /\ publishing' = Set(publishing, s, publishing[s] \cup {[commit |-> commit[s], version |-> last[s]]})
    /\ UNCHANGED <<store, phase, refreshVars, notifying, bus, inbox>>

\* The committed document is shown; its notice waits for a refresh of its own.
FinishCommit(s) ==
    /\ queue[s] = "commit" /\ commit[s] # 0
    /\ doc' = Set(doc, s, commit[s])
    /\ commit' = Set(commit, s, 0)
    /\ queue' = Set(queue, s, "free")
    /\ notifying' = IF Closed(s) \/ failed[s] THEN notifying
                    ELSE Set(notifying, s, notifying[s] \cup {commit[s]})
    /\ CatchUpNow(s)
    /\ UNCHANGED <<store, phase, publishing, bus, inbox>>

\* Its save fails, before the store has it or after: nobody is notified.
CommitFails(s) ==
    /\ queue[s] = "commit"
    /\ commit' = Set(commit, s, 0)
    /\ queue' = Set(queue, s, "free")
    /\ UNCHANGED <<store, phase, doc, refreshVars, noticeVars>>

-----------------------------------------------------------------------------
(* The channel: notices get lost, arrive late and out of order              *)

Listening == {s \in Server : bus[s] = "ready"}

Publish(s) ==
    \E n \in publishing[s] :
        /\ publishing' = Set(publishing, s, publishing[s] \ {n})
        /\ inbox' = IF bus[s] = "ready"
                    THEN [t \in Server |-> IF t \in Listening \ {s} THEN inbox[t] \cup {n.version}
                                            ELSE inbox[t]]
                    ELSE inbox
        /\ UNCHANGED <<store, roomVars, refreshVars, notifying, bus>>

\* A notice that tells nothing new is ignored.
Receive(s, v) ==
    /\ v \in inbox[s]
    /\ inbox' = Set(inbox, s, inbox[s] \ {v})
    /\ IF bus[s] = "ready" /\ (last[s] = 0 \/ v > last[s])
       THEN CatchUpNow(s) ELSE UNCHANGED refreshVars
    /\ UNCHANGED <<store, roomVars, notifying, publishing, bus>>

LoseNotice(s, v) ==
    /\ v \in inbox[s]
    /\ inbox' = Set(inbox, s, inbox[s] \ {v})
    /\ UNCHANGED <<store, roomVars, refreshVars, notifying, publishing, bus>>

Disconnect(s) ==
    /\ bus[s] = "ready"
    /\ bus' = Set(bus, s, "down")
    /\ UNCHANGED <<store, roomVars, refreshVars, notifying, publishing, inbox>>

Reconnect(s) ==
    /\ bus[s] = "down" /\ ~Closed(s)
    /\ bus' = Set(bus, s, "ready")
    /\ CatchUpNow(s)
    /\ UNCHANGED <<store, roomVars, notifying, publishing, inbox>>

\* Mutant of CatchUp: the timer trusts a channel that is up.
CatchUpWhileDown(s) ==
    /\ phase[s] = "open" /\ bus[s] = "down"
    /\ CatchUpNow(s)
    /\ UNCHANGED <<store, roomVars, noticeVars>>

\* The timer of an open room.
CatchUp(s) ==
    /\ phase[s] = "open"
    /\ CatchUpNow(s)
    /\ UNCHANGED <<store, roomVars, noticeVars>>

-----------------------------------------------------------------------------

\* The operations of a room's queue, in the order they were queued.
QueueStep(s) == Read(s) \/ ReadIsServed(s) \/ Unchanged(s) \/ Accept(s) \/ Accepted(s) \/ Fail(s)
CommitStep(s) == WriteCommit(s) \/ FinishCommit(s) \/ CommitFails(s)

LosslessNext ==
    \E s \in Server :
        \/ Load(s) \/ Join(s) \/ Unavailable(s) \/ Close(s) \/ Dispose(s) \/ Crash(s)
        \/ QueueStep(s)
        \/ StartCommit(s) \/ CommitStep(s)
        \/ Publish(s) \/ Disconnect(s) \/ Reconnect(s) \/ CatchUp(s)
        \/ \E v \in Version : Receive(s, v)

Next == LosslessNext \/ \E s \in Server, v \in Version : LoseNotice(s, v)

Spec == Init /\ [][Next]_vars

\* Requests end by their timeouts, and the queue is a chain of promises: what was
\* queued runs after what was queued before it.  A failed room loses its
\* connections and is disposed of.
QueueFairness ==
    \A s \in Server :
        /\ SF_vars(Read(s))
        /\ WF_vars(QueueStep(s))
        /\ WF_vars(CommitStep(s))
        /\ WF_vars(Dispose(s))

\* A channel that is up delivers its notices, and one that is down comes up again;
\* the timer does not help.
PromptSpec ==
    /\ Init /\ [][LosslessNext]_vars
    /\ QueueFairness
    /\ \A s \in Server : WF_vars(Reconnect(s)) /\ \A v \in Version : WF_vars(Receive(s, v))

\* The timer ticks, without any help from notices.
TimedSpec == Spec /\ QueueFairness /\ \A s \in Server : WF_vars(CatchUp(s))

-----------------------------------------------------------------------------
(* Properties *)

\* A read never brings back less than the room shows, so that a healthy room is
\* never fenced by its own commits.
NoFalseFence == \A s \in Server : running[s] = "answered" => snap[s] >= doc[s] /\ snap[s] >= last[s]

\* The notice of a commit announces that commit, or one after it.
NoticeCoversCommit == \A s \in Server : \A n \in publishing[s] : n.version >= n.commit

Follows(s, v) == doc[s] >= v \/ failed[s] \/ phase[s] \notin {"opening", "open"}

\* A commit reaches every open room, though every notice is lost.
CommitReachesRooms == \A s \in Server : \A v \in 1..MaxVersion : (store >= v /\ phase[s] = "open") ~> Follows(s, v)

\* A notice on its way is followed, however many refreshes it meets under way,
\* and whether it arrives or the channel goes down first.
NoticeIsFollowed == \A s \in Server : \A v \in 1..MaxVersion : (v \in inbox[s]) ~> Follows(s, v)

\* No commit holds a room's queue for ever, and every room that closes is
\* disposed of.
QueueMovesOn == \A s \in Server : []<>(queue[s] # "commit" /\ phase[s] # "closing")
=============================================================================
