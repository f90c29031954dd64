---------------------------- MODULE RoomSyncProofs ----------------------------
(***************************************************************************)
(* Proofs about synchronisation, for every set of instances and any number *)
(* of commits.                                                             *)
(*                                                                         *)
(* SyncInv is inductive.  Its core is that a refresh reads in the room's   *)
(* queue: the document cannot move between the read and its acceptance, so *)
(* that the answer holds all the room has committed before it.             *)
(***************************************************************************)
EXTENDS RoomSync, TLAPS

\* What the variables of one room have to do with each other.
RoomInv(s) ==
    /\ doc[s] <= store /\ commit[s] <= store /\ snap[s] <= store
    /\ last[s] <= doc[s]
    /\ running[s] \in Reading => queue[s] = "sync"
    /\ queue[s] # "commit" => commit[s] = 0
    /\ commit[s] # 0 => doc[s] <= commit[s]
    /\ running[s] = "answered" => doc[s] <= snap[s]
    /\ running[s] = "accepting" => doc[s] = snap[s]
    /\ running[s] = "no" => notifying[s] = {}
    /\ \A v \in notifying[s] : v <= doc[s]
    /\ \A n \in publishing[s] : n.commit <= n.version
    /\ phase[s] = "out" => running[s] = "no" /\ queue[s] = "free"

SyncInv == SyncTypeOK /\ \A s \in Server : RoomInv(s)

\* Versions are numbers, so that they can be compared.
LEMMA VersionsAreNumbers == Version \subseteq Nat /\ 0 \in Version
BY SyncAssumption DEF Version

\* The initial rooms are out of memory.
LEMMA InitSyncInv == Init => SyncInv
BY VersionsAreNumbers DEF Init, SyncInv, SyncTypeOK, RoomInv, Phase, Reading, Notice

-----------------------------------------------------------------------------
(* Every step keeps SyncInv *)

\* A request for a refresh changes neither the document nor what is read.
LEMMA CatchUpEffect ==
    ASSUME SyncInv, NEW s \in Server, CatchUpNow(s) \/ Refresh(s)
    PROVE  /\ running' \in [Server -> {"no", "waiting"} \cup Reading]
           /\ dirty' \in [Server -> BOOLEAN]
           /\ running'[s] = "no" => Closed(s) \/ failed[s]
           /\ \A t \in Server : /\ running'[t] \in Reading <=> running[t] \in Reading
                                /\ running'[t] \in Reading => running'[t] = running[t]
                                /\ running'[t] = "no" => running[t] = "no"
                                /\ t # s => running'[t] = running[t]
           /\ (Closed(s) \/ failed[s]) /\ CatchUpNow(s) => running' = running
           /\ UNCHANGED <<last, snap, failed>>
BY DEF SyncInv, SyncTypeOK, CatchUpNow, Refresh, Closed, Set, refreshVars, Reading

\* The read takes the queue.
LEMMA ReadKeepsInv ==
    ASSUME SyncInv, NEW s \in Server, Read(s)
    PROVE  SyncInv'
<1>1. SyncTypeOK'
  BY VersionsAreNumbers DEF SyncInv, SyncTypeOK, Read, noticeVars, Set, Reading, Phase, Version
<1>2. ASSUME NEW t \in Server PROVE RoomInv(t)'
  BY VersionsAreNumbers, <1>1 DEF SyncInv, SyncTypeOK, RoomInv, Read, noticeVars, Set, Reading, Phase, Version
<1> QED
  BY <1>1, <1>2 DEF SyncInv

\* What the store answers holds all that the room shows.
LEMMA ReadIsServedKeepsInv ==
    ASSUME SyncInv, NEW s \in Server, ReadIsServed(s)
    PROVE  SyncInv'
<1>1. SyncTypeOK'
  BY VersionsAreNumbers DEF SyncInv, SyncTypeOK, ReadIsServed, roomVars, noticeVars, Set, Reading, Phase, Version
<1>2. ASSUME NEW t \in Server PROVE RoomInv(t)'
  BY VersionsAreNumbers, <1>1 DEF SyncInv, SyncTypeOK, RoomInv, ReadIsServed, roomVars, noticeVars, Set, Reading, Phase, Version
<1> QED
  BY <1>1, <1>2 DEF SyncInv

\* The document becomes the answer.
LEMMA AcceptKeepsInv ==
    ASSUME SyncInv, NEW s \in Server, Accept(s)
    PROVE  SyncInv'
<1>1. SyncTypeOK'
  BY VersionsAreNumbers DEF SyncInv, SyncTypeOK, Accept, Accepts, noticeVars, Set, Reading, Phase, Version
<1>2. ASSUME NEW t \in Server PROVE RoomInv(t)'
  BY VersionsAreNumbers, <1>1 DEF SyncInv, SyncTypeOK, RoomInv, Accept, Accepts, noticeVars, Set, Reading, Phase, Version
<1> QED
  BY <1>1, <1>2 DEF SyncInv

\* An iteration ends with the document it accepted, or with nothing new: in both
\* cases the snapshot announced holds every commit that waits for its notice.
LEMMA EndIterationKeepsInv ==
    ASSUME SyncInv, NEW s \in Server, Unchanged(s) \/ Accepted(s)
    PROVE  SyncInv'
<1>1. ASSUME ~Closed(s), ~failed[s], NEW v \in notifying[s] PROVE v <= last'[s]
  BY <1>1, VersionsAreNumbers
  DEF SyncInv, SyncTypeOK, RoomInv, Unchanged, Accepted, EndIteration, Closed, Set, Reading, Phase, Version
<1>2. last' \in [Server -> Version] /\ UNCHANGED <<store, doc, commit, failed, bus, inbox>>
  BY DEF SyncInv, SyncTypeOK, RoomInv, Unchanged, Accepted, Set
<1>3. \A t \in Server : last'[t] <= doc[t]
  BY VersionsAreNumbers DEF SyncInv, SyncTypeOK, RoomInv, Unchanged, Accepted, Set, Reading, Phase, Version
<1>4. EndIteration(s) /\ running[s] \in Reading
  BY DEF Unchanged, Accepted, Reading
<1>5. SyncTypeOK'
  <2>1. publishing' \in [Server -> SUBSET Notice]
    BY <1>2, <1>4, VersionsAreNumbers DEF SyncInv, SyncTypeOK, EndIteration, Set, Notice
  <2> QED
    BY <1>2, <1>4, <2>1, VersionsAreNumbers DEF SyncInv, SyncTypeOK, EndIteration, Set, Reading, Phase, Version
<1>6. ASSUME NEW t \in Server, t # s PROVE RoomInv(t)'
  BY <1>2, <1>3, <1>4, <1>6 DEF SyncInv, SyncTypeOK, RoomInv, EndIteration, Set, Reading, Phase, Version
<1>7. RoomInv(s)'
  <2>1. \A n \in publishing'[s] : n.commit <= n.version
    <3>1. \A n \in publishing[s] : n.commit <= n.version
      BY DEF SyncInv, RoomInv
    <3>2. CASE publishing'[s] = publishing[s]
      BY <3>1, <3>2
    <3>3. CASE /\ ~Closed(s) /\ ~failed[s]
               /\ publishing'[s] = publishing[s] \cup
                      {[commit |-> v, version |-> last'[s]] : v \in notifying[s]}
      BY <1>1, <3>1, <3>3
    <3> QED
      BY <1>4, <3>2, <3>3 DEF SyncInv, SyncTypeOK, EndIteration, Set
  <2>2. snap'[s] = 0 /\ queue'[s] = "free" /\ running'[s] \in {"waiting", "no"}
    BY <1>4 DEF SyncInv, SyncTypeOK, EndIteration, Set
  <2>3. notifying'[s] = {} \/ (running'[s] = "waiting" /\ notifying' = notifying)
    <3>1. s \in DOMAIN running /\ s \in DOMAIN notifying
      BY DEF SyncInv, SyncTypeOK
    <3>2. CASE running' = Set(running, s, "waiting") /\ UNCHANGED <<notifying, publishing, phase>>
      BY <3>1, <3>2 DEF Set
    <3>3. CASE notifying' = Set(notifying, s, {})
      BY <3>1, <3>3 DEF Set
    <3> QED
      BY <1>4, <3>2, <3>3 DEF EndIteration
  <2>4. phase'[s] # "out" /\ commit[s] = 0
    BY <1>4 DEF SyncInv, SyncTypeOK, RoomInv, EndIteration, Set, Reading, Phase, Version
  <2> QED
    BY <1>2, <1>3, <2>1, <2>2, <2>3, <2>4, VersionsAreNumbers DEF SyncInv, SyncTypeOK, RoomInv, Set, Reading, Phase, Version
<1> QED
  BY <1>5, <1>6, <1>7 DEF SyncInv

\* A refresh that fails drops the notices that waited for it.
LEMMA FailKeepsInv ==
    ASSUME SyncInv, NEW s \in Server, Fail(s)
    PROVE  SyncInv'
<1>1. SyncTypeOK'
  BY VersionsAreNumbers DEF SyncInv, SyncTypeOK, Fail, Set, Reading, Phase, Version
<1>2. ASSUME NEW t \in Server PROVE RoomInv(t)'
  BY VersionsAreNumbers, <1>1 DEF SyncInv, SyncTypeOK, RoomInv, Fail, Set, Reading, Phase, Version
<1> QED
  BY <1>1, <1>2 DEF SyncInv

\* A room is loaded while nothing of it runs.
LEMMA LoadKeepsInv ==
    ASSUME SyncInv, NEW s \in Server, Load(s)
    PROVE  SyncInv'
<1>1. SyncTypeOK'
  BY VersionsAreNumbers DEF SyncInv, SyncTypeOK, Load, refreshVars, noticeVars, Set, Reading, Phase, Version
<1>2. ASSUME NEW t \in Server PROVE RoomInv(t)'
  BY VersionsAreNumbers, <1>1 DEF SyncInv, SyncTypeOK, RoomInv, Load, refreshVars, noticeVars, Set, Reading, Phase, Version
<1> QED
  BY <1>1, <1>2 DEF SyncInv

\* Joining the channel starts a refresh.
LEMMA JoinKeepsInv ==
    ASSUME SyncInv, NEW s \in Server, Join(s)
    PROVE  SyncInv'
<1>1. CatchUpNow(s) \/ Refresh(s) \/ UNCHANGED refreshVars
  BY DEF Join
<1>2. /\ running' \in [Server -> {"no", "waiting"} \cup Reading] /\ dirty' \in [Server -> BOOLEAN]
      /\ UNCHANGED <<last, snap, failed>>
      /\ \A t \in Server : /\ running'[t] \in Reading <=> running[t] \in Reading
                           /\ running'[t] \in Reading => running'[t] = running[t]
                           /\ running'[t] = "no" => running[t] = "no"
  BY <1>1, CatchUpEffect DEF SyncInv, SyncTypeOK, refreshVars
<1>3. \A t \in Server : phase'[t] = "out" => running'[t] = "no"
  BY CatchUpEffect DEF SyncInv, SyncTypeOK, RoomInv, Join, Closed, refreshVars, roomVars, Set
<1>4. SyncTypeOK'
  BY <1>2, VersionsAreNumbers DEF SyncInv, SyncTypeOK, Join, Set, Reading, Phase, Version
<1>5. ASSUME NEW t \in Server PROVE RoomInv(t)'
  BY <1>2, <1>3, <1>4, VersionsAreNumbers DEF SyncInv, SyncTypeOK, RoomInv, Join, Set, Reading, Phase, Version
<1> QED
  BY <1>4, <1>5 DEF SyncInv

\* A room that becomes unavailable keeps what it has.
LEMMA UnavailableKeepsInv ==
    ASSUME SyncInv, NEW s \in Server, Unavailable(s)
    PROVE  SyncInv'
<1>1. SyncTypeOK'
  BY VersionsAreNumbers DEF SyncInv, SyncTypeOK, Unavailable, roomVars, noticeVars, Set, Reading, Phase, Version
<1>2. ASSUME NEW t \in Server PROVE RoomInv(t)'
  BY VersionsAreNumbers, <1>1 DEF SyncInv, SyncTypeOK, RoomInv, Unavailable, roomVars, noticeVars, Set, Reading, Phase, Version
<1> QED
  BY <1>1, <1>2 DEF SyncInv

\* Closing only begins: what runs goes on.
LEMMA CloseKeepsInv ==
    ASSUME SyncInv, NEW s \in Server, Close(s)
    PROVE  SyncInv'
<1>1. SyncTypeOK'
  BY VersionsAreNumbers DEF SyncInv, SyncTypeOK, Close, refreshVars, noticeVars, Set, Reading, Phase, Version
<1>2. ASSUME NEW t \in Server PROVE RoomInv(t)'
  BY VersionsAreNumbers, <1>1 DEF SyncInv, SyncTypeOK, RoomInv, Close, refreshVars, noticeVars, Set, Reading, Phase, Version
<1> QED
  BY <1>1, <1>2 DEF SyncInv

\* At its disposal nothing of the room runs any more.
LEMMA DisposeKeepsInv ==
    ASSUME SyncInv, NEW s \in Server, Dispose(s)
    PROVE  SyncInv'
<1>1. SyncTypeOK'
  BY VersionsAreNumbers DEF SyncInv, SyncTypeOK, Dispose, Forget, Set, Reading, Phase, Version
<1>2. ASSUME NEW t \in Server PROVE RoomInv(t)'
  BY VersionsAreNumbers, <1>1 DEF SyncInv, SyncTypeOK, RoomInv, Dispose, Forget, Set, Reading, Phase, Version
<1> QED
  BY <1>1, <1>2 DEF SyncInv

\* A crash leaves nothing behind.
LEMMA CrashKeepsInv ==
    ASSUME SyncInv, NEW s \in Server, Crash(s)
    PROVE  SyncInv'
<1>1. SyncTypeOK'
  BY VersionsAreNumbers DEF SyncInv, SyncTypeOK, Crash, Forget, Set, Reading, Phase, Version
<1>2. ASSUME NEW t \in Server PROVE RoomInv(t)'
  BY VersionsAreNumbers, <1>1 DEF SyncInv, SyncTypeOK, RoomInv, Crash, Forget, Set, Reading, Phase, Version
<1> QED
  BY <1>1, <1>2 DEF SyncInv

\* A commit takes the queue.
LEMMA StartCommitKeepsInv ==
    ASSUME SyncInv, NEW s \in Server, StartCommit(s)
    PROVE  SyncInv'
<1>1. SyncTypeOK'
  BY VersionsAreNumbers DEF SyncInv, SyncTypeOK, StartCommit, refreshVars, noticeVars, Set, Reading, Phase, Version
<1>2. ASSUME NEW t \in Server PROVE RoomInv(t)'
  BY VersionsAreNumbers, <1>1 DEF SyncInv, SyncTypeOK, RoomInv, StartCommit, refreshVars, noticeVars, Set, Reading, Phase, Version
<1> QED
  BY <1>1, <1>2 DEF SyncInv

\* The version it writes is above every document.
LEMMA WriteCommitKeepsInv ==
    ASSUME SyncInv, NEW s \in Server, WriteCommit(s)
    PROVE  SyncInv'
<1>1. SyncTypeOK'
  BY VersionsAreNumbers, SyncAssumption DEF SyncInv, SyncTypeOK, WriteCommit, refreshVars, noticeVars, Set, Reading, Phase, Version
<1>2. ASSUME NEW t \in Server PROVE RoomInv(t)'
  BY VersionsAreNumbers, SyncAssumption, <1>1 DEF SyncInv, SyncTypeOK, RoomInv, WriteCommit, refreshVars, noticeVars, Set, Reading, Phase, Version
<1> QED
  BY <1>1, <1>2 DEF SyncInv

\* A commit that is shown asks for the refresh its notice waits for.
LEMMA FinishCommitKeepsInv ==
    ASSUME SyncInv, NEW s \in Server, FinishCommit(s)
    PROVE  SyncInv'
<1>1. /\ running' \in [Server -> {"no", "waiting"} \cup Reading] /\ dirty' \in [Server -> BOOLEAN]
      /\ UNCHANGED <<last, snap, failed>>
      /\ \A t \in Server : /\ running'[t] \in Reading <=> running[t] \in Reading
                           /\ running'[t] \in Reading => running'[t] = running[t]
                           /\ running'[t] = "no" => running[t] = "no"
                           /\ t # s => running'[t] = running[t]
      /\ running'[s] = "no" => Closed(s) \/ failed[s]
  BY CatchUpEffect DEF FinishCommit
<1>2. SyncTypeOK'
  <2>1. queue' \in [Server -> {"free", "commit", "sync"}]
    BY DEF SyncInv, SyncTypeOK, FinishCommit, Set
  <2>2. queue' = [t \in Server |-> IF running'[t] \in Reading THEN "sync" ELSE queue'[t]]
    BY <1>1, <2>1 DEF SyncInv, SyncTypeOK, FinishCommit, Set, Reading
  <2>3. notifying' \in [Server -> SUBSET Version]
    BY DEF SyncInv, SyncTypeOK, FinishCommit, Set
  <2>4. doc' \in [Server -> Version] /\ commit' \in [Server -> Version]
    BY VersionsAreNumbers DEF SyncInv, SyncTypeOK, FinishCommit, Set
  <2> QED
    BY <1>1, <2>1, <2>2, <2>3, <2>4 DEF SyncInv, SyncTypeOK, FinishCommit
<1>3. ASSUME NEW t \in Server, t # s PROVE RoomInv(t)'
  <2>1. RoomInv(t)
    BY DEF SyncInv
  <2>2. /\ UNCHANGED <<store, phase, publishing>>
        /\ doc'[t] = doc[t] /\ commit'[t] = commit[t] /\ queue'[t] = queue[t]
    BY <1>3 DEF SyncInv, SyncTypeOK, FinishCommit, Set
  <2>3. notifying'[t] = notifying[t]
    BY <1>3 DEF SyncInv, SyncTypeOK, FinishCommit, Set
  <2>4. running'[t] = running[t] /\ UNCHANGED <<last, snap>>
    BY <1>1, <1>3
  <2> QED
    BY <2>1, <2>2, <2>3, <2>4 DEF RoomInv
<1>4. RoomInv(s)'
  BY <1>1, <1>2, VersionsAreNumbers DEF SyncInv, SyncTypeOK, RoomInv, FinishCommit, Closed, Set, Reading, Phase, Version
<1> QED
  BY <1>2, <1>3, <1>4 DEF SyncInv

\* A failed commit leaves the queue.
LEMMA CommitFailsKeepsInv ==
    ASSUME SyncInv, NEW s \in Server, CommitFails(s)
    PROVE  SyncInv'
<1>1. SyncTypeOK'
  BY VersionsAreNumbers DEF SyncInv, SyncTypeOK, CommitFails, refreshVars, noticeVars, Set, Reading, Phase, Version
<1>2. ASSUME NEW t \in Server PROVE RoomInv(t)'
  BY VersionsAreNumbers, <1>1 DEF SyncInv, SyncTypeOK, RoomInv, CommitFails, refreshVars, noticeVars, Set, Reading, Phase, Version
<1> QED
  BY <1>1, <1>2 DEF SyncInv

\* A notice leaves its publisher.
LEMMA PublishKeepsInv ==
    ASSUME SyncInv, NEW s \in Server, Publish(s)
    PROVE  SyncInv'
<1>1. SyncTypeOK'
  BY VersionsAreNumbers DEF SyncInv, SyncTypeOK, Publish, roomVars, refreshVars, Notice, Set, Reading, Phase, Version
<1>2. ASSUME NEW t \in Server PROVE RoomInv(t)'
  BY VersionsAreNumbers, <1>1 DEF SyncInv, SyncTypeOK, RoomInv, Publish, roomVars, refreshVars, Notice, Set, Reading, Phase, Version
<1> QED
  BY <1>1, <1>2 DEF SyncInv

\* A notice at most asks for a refresh.
LEMMA ReceiveKeepsInv ==
    ASSUME SyncInv, NEW s \in Server, NEW v \in Version, Receive(s, v)
    PROVE  SyncInv'
<1>1. CatchUpNow(s) \/ Refresh(s) \/ UNCHANGED refreshVars
  BY DEF Receive
<1>2. /\ running' \in [Server -> {"no", "waiting"} \cup Reading] /\ dirty' \in [Server -> BOOLEAN]
      /\ UNCHANGED <<last, snap, failed>>
      /\ \A t \in Server : /\ running'[t] \in Reading <=> running[t] \in Reading
                           /\ running'[t] \in Reading => running'[t] = running[t]
                           /\ running'[t] = "no" => running[t] = "no"
  BY <1>1, CatchUpEffect DEF SyncInv, SyncTypeOK, refreshVars
<1>3. \A t \in Server : phase'[t] = "out" => running'[t] = "no"
  BY CatchUpEffect DEF SyncInv, SyncTypeOK, RoomInv, Receive, Closed, refreshVars, roomVars, Set
<1>4. SyncTypeOK'
  BY <1>2, VersionsAreNumbers DEF SyncInv, SyncTypeOK, Receive, roomVars, Set, Reading, Phase, Version
<1>5. ASSUME NEW t \in Server PROVE RoomInv(t)'
  BY <1>2, <1>3, <1>4, VersionsAreNumbers DEF SyncInv, SyncTypeOK, RoomInv, Receive, roomVars, Set, Reading, Phase, Version
<1> QED
  BY <1>4, <1>5 DEF SyncInv

\* A notice may get lost.
LEMMA LoseNoticeKeepsInv ==
    ASSUME SyncInv, NEW s \in Server, NEW v \in Version, LoseNotice(s, v)
    PROVE  SyncInv'
<1>1. SyncTypeOK'
  BY VersionsAreNumbers DEF SyncInv, SyncTypeOK, LoseNotice, roomVars, refreshVars, Set, Reading, Phase, Version
<1>2. ASSUME NEW t \in Server PROVE RoomInv(t)'
  BY VersionsAreNumbers, <1>1 DEF SyncInv, SyncTypeOK, RoomInv, LoseNotice, roomVars, refreshVars, Set, Reading, Phase, Version
<1> QED
  BY <1>1, <1>2 DEF SyncInv

\* The channel goes down.
LEMMA DisconnectKeepsInv ==
    ASSUME SyncInv, NEW s \in Server, Disconnect(s)
    PROVE  SyncInv'
<1>1. SyncTypeOK'
  BY VersionsAreNumbers DEF SyncInv, SyncTypeOK, Disconnect, roomVars, refreshVars, Set, Reading, Phase, Version
<1>2. ASSUME NEW t \in Server PROVE RoomInv(t)'
  BY VersionsAreNumbers, <1>1 DEF SyncInv, SyncTypeOK, RoomInv, Disconnect, roomVars, refreshVars, Set, Reading, Phase, Version
<1> QED
  BY <1>1, <1>2 DEF SyncInv

\* Reconnecting asks for a refresh.
LEMMA ReconnectKeepsInv ==
    ASSUME SyncInv, NEW s \in Server, Reconnect(s)
    PROVE  SyncInv'
<1>1. CatchUpNow(s) \/ Refresh(s) \/ UNCHANGED refreshVars
  BY DEF Reconnect
<1>2. /\ running' \in [Server -> {"no", "waiting"} \cup Reading] /\ dirty' \in [Server -> BOOLEAN]
      /\ UNCHANGED <<last, snap, failed>>
      /\ \A t \in Server : /\ running'[t] \in Reading <=> running[t] \in Reading
                           /\ running'[t] \in Reading => running'[t] = running[t]
                           /\ running'[t] = "no" => running[t] = "no"
  BY <1>1, CatchUpEffect DEF SyncInv, SyncTypeOK, refreshVars
<1>3. \A t \in Server : phase'[t] = "out" => running'[t] = "no"
  BY CatchUpEffect DEF SyncInv, SyncTypeOK, RoomInv, Reconnect, Closed, refreshVars, roomVars, Set
<1>4. SyncTypeOK'
  BY <1>2, VersionsAreNumbers DEF SyncInv, SyncTypeOK, Reconnect, roomVars, Set, Reading, Phase, Version
<1>5. ASSUME NEW t \in Server PROVE RoomInv(t)'
  BY <1>2, <1>3, <1>4, VersionsAreNumbers DEF SyncInv, SyncTypeOK, RoomInv, Reconnect, roomVars, Set, Reading, Phase, Version
<1> QED
  BY <1>4, <1>5 DEF SyncInv

\* The timer asks for a refresh.
LEMMA CatchUpKeepsInv ==
    ASSUME SyncInv, NEW s \in Server, CatchUp(s)
    PROVE  SyncInv'
<1>1. CatchUpNow(s) \/ Refresh(s) \/ UNCHANGED refreshVars
  BY DEF CatchUp
<1>2. /\ running' \in [Server -> {"no", "waiting"} \cup Reading] /\ dirty' \in [Server -> BOOLEAN]
      /\ UNCHANGED <<last, snap, failed>>
      /\ \A t \in Server : /\ running'[t] \in Reading <=> running[t] \in Reading
                           /\ running'[t] \in Reading => running'[t] = running[t]
                           /\ running'[t] = "no" => running[t] = "no"
  BY <1>1, CatchUpEffect DEF SyncInv, SyncTypeOK, refreshVars
<1>3. \A t \in Server : phase'[t] = "out" => running'[t] = "no"
  BY CatchUpEffect DEF SyncInv, SyncTypeOK, RoomInv, CatchUp, Closed, refreshVars, roomVars, Set
<1>4. SyncTypeOK'
  BY <1>2, VersionsAreNumbers DEF SyncInv, SyncTypeOK, CatchUp, roomVars, noticeVars, Set, Reading, Phase, Version
<1>5. ASSUME NEW t \in Server PROVE RoomInv(t)'
  BY <1>2, <1>3, <1>4, VersionsAreNumbers DEF SyncInv, SyncTypeOK, RoomInv, CatchUp, roomVars, noticeVars, Set, Reading, Phase, Version
<1> QED
  BY <1>4, <1>5 DEF SyncInv

\* One case per action.
LEMMA StepKeepsSyncInv == SyncInv /\ [Next]_vars => SyncInv'
<1> SUFFICES ASSUME SyncInv, [Next]_vars PROVE SyncInv'
  OBVIOUS
<1>1. CASE UNCHANGED vars
  BY <1>1 DEF SyncInv, SyncTypeOK, RoomInv, Phase, Reading, Version, Notice,
              vars, roomVars, refreshVars, noticeVars
<1>2. ASSUME NEW s \in Server, QueueStep(s) PROVE SyncInv'
  BY <1>2, ReadKeepsInv, ReadIsServedKeepsInv, EndIterationKeepsInv, AcceptKeepsInv, FailKeepsInv
  DEF QueueStep
<1>3. ASSUME NEW s \in Server, StartCommit(s) \/ CommitStep(s) PROVE SyncInv'
  BY <1>3, StartCommitKeepsInv, WriteCommitKeepsInv, FinishCommitKeepsInv, CommitFailsKeepsInv
  DEF CommitStep
<1>4. ASSUME NEW s \in Server, Load(s) \/ Join(s) \/ Unavailable(s) \/ Close(s) \/ Dispose(s) \/ Crash(s)
      PROVE SyncInv'
  BY <1>4, LoadKeepsInv, JoinKeepsInv, UnavailableKeepsInv, CloseKeepsInv, DisposeKeepsInv, CrashKeepsInv
<1>5. ASSUME NEW s \in Server, Publish(s) \/ Disconnect(s) \/ Reconnect(s) \/ CatchUp(s) PROVE SyncInv'
  BY <1>5, PublishKeepsInv, DisconnectKeepsInv, ReconnectKeepsInv, CatchUpKeepsInv
<1>6. ASSUME NEW s \in Server, NEW v \in Version, Receive(s, v) \/ LoseNotice(s, v) PROVE SyncInv'
  BY <1>6, ReceiveKeepsInv, LoseNoticeKeepsInv
<1> QED
  BY <1>1, <1>2, <1>3, <1>4, <1>5, <1>6 DEF Next, LosslessNext

-----------------------------------------------------------------------------

\* Synchronisation keeps its inductive invariant, for any number of instances
\* and commits, with notices lost, late, duplicated or out of order.
THEOREM SyncInvariant == Spec => []SyncInv
BY InitSyncInv, StepKeepsSyncInv, PTL DEF Spec

\* Every variable keeps its type.
THEOREM SyncTypeCorrect == Spec => []SyncTypeOK
BY SyncInvariant, PTL DEF SyncInv

\* acceptPersistedRoomState never refuses what a healthy room reads: the answer
\* holds all that the room shows and all that it accepted before.
THEOREM NoRoomIsFencedFalsely == Spec => []NoFalseFence
<1>1. ASSUME SyncInv, NEW s \in Server, running[s] = "answered"
      PROVE  snap[s] >= doc[s] /\ snap[s] >= last[s]
  <2>1. doc[s] \in Nat /\ snap[s] \in Nat /\ last[s] \in Nat
    BY <1>1, VersionsAreNumbers DEF SyncInv, SyncTypeOK
  <2>2. last[s] <= doc[s] /\ doc[s] <= snap[s]
    BY <1>1 DEF SyncInv, RoomInv
  <2> QED
    BY <2>1, <2>2
<1>2. SyncInv => NoFalseFence
  BY <1>1 DEF NoFalseFence
<1> QED
  BY <1>2, SyncInvariant, PTL

\* notifyCommitted never announces less than the commit it was called for.
THEOREM NoticesCoverCommits == Spec => []NoticeCoversCommit
<1>1. SyncInv => NoticeCoversCommit
  BY VersionsAreNumbers DEF SyncInv, SyncTypeOK, RoomInv, NoticeCoversCommit, Notice
<1> QED
  BY <1>1, SyncInvariant, PTL
=============================================================================
