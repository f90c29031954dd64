------------------------------ MODULE RoomServer ------------------------------
(***************************************************************************)
(* One server process between its sockets, its rooms and the owner's       *)
(* recovery requests (server/collaboration/server.ts, roomRecoveryHttp.ts, *)
(* distributedRoomRegistry.ts).                                            *)
(*                                                                         *)
(* Three tables must agree for a diagram to be either edited or recovered  *)
(* by this process: the rooms of RoomLifetime, the server's maps and the   *)
(* registry's bindings.  Every await of the code separates two steps.      *)
(***************************************************************************)
EXTENDS RoomLifetime

CONSTANT Owner  \* recovery requests

VARIABLES
    socket,        \* socket[c]: the connection, or its upgrade
    departing,     \* departing[c]: sockets whose close the upgrade of c waits for
    pendingRooms,  \* pendingRooms[id]: upgrades under way
    activeRooms,   \* activeRooms[id]: the room, NoEntry where the Map has no key
    loader,        \* loader[e]: how far the room of e holds its lease
    lost,          \* lost[e]: the lease of e is aborted
    bindings,      \* bindings[id]: the registry's pending and bound admissions
    recoveringRooms,  \* ids reserved by recovery requests
    recovering,    \* ids the registry is recovering
    request        \* request[o]: the recovery request

serverVars == <<socket, departing, pendingRooms, activeRooms, loader, lost, bindings,
                recoveringRooms, recovering, request>>
allVars == <<lifeVars, serverVars>>

Pending == {"authorizing", "acquiring", "again", "dropping"}
Socket == Pending \cup {"none", "joined", "closing"}
Loader == {"start", "claimed", "open", "closing", "closed"}
Request == [at : {"none", "authorizing", "reserved", "recovering"}, room : Room]

ServerTypeOK ==
    /\ LifetimeTypeOK
    /\ socket \in [Caller -> Socket]
    /\ departing \in [Caller -> SUBSET Caller]
    /\ pendingRooms = [id \in Room |-> Cardinality({c \in Caller : socket[c] \in Pending
                                                                    /\ call[c].room = id})]
    /\ activeRooms \in [Room -> 0..MaxEntry]
    /\ loader \in [Entry -> Loader]
    /\ lost \in [Entry -> BOOLEAN]
    /\ bindings \in [Room -> 0..MaxEntry]
    /\ recoveringRooms \subseteq Room
    /\ recovering \subseteq Room
    /\ request \in [Owner -> Request]

ServerInit ==
    /\ LifetimeInit
    /\ socket = [c \in Caller |-> "none"]
    /\ departing = [c \in Caller |-> {}]
    /\ pendingRooms = [id \in Room |-> 0]
    /\ activeRooms = [id \in Room |-> NoEntry]
    /\ loader = [e \in Entry |-> "start"]
    /\ lost = [e \in Entry |-> FALSE]
    /\ bindings = [id \in Room |-> NoEntry]
    /\ recoveringRooms = {}
    /\ recovering = {}
    /\ request \in {[o \in Owner |-> [at |-> "none", room |-> id]] : id \in Room}

Set(c, s) == socket' = [socket EXCEPT ![c] = s]
Members(e) == {c \in Caller : call[c].entry = e /\ socket[c] \in {"joined", "closing"}}
Leaving(e) == Members(e) # {} /\ \A c \in Members(e) : socket[c] = "closing"

\* A new entry starts with a loader of its own.
FreshLoaders ==
    LET new == {e \in Entry : value[e] # "loading" /\ value'[e] = "loading"} IN
    /\ loader' = [e \in Entry |-> IF e \in new THEN "start" ELSE loader[e]]
    /\ lost' = [e \in Entry |-> e \notin new /\ lost[e]]

-----------------------------------------------------------------------------
(* An upgrade                                                               *)

Upgrade(c, id) ==
    /\ socket[c] = "none" /\ call[c].at = "idle"
    /\ ~stopped /\ id \notin recoveringRooms
    /\ Set(c, "authorizing")
    /\ Wait(c, "idle", id, NoEntry)
    /\ pendingRooms' = [pendingRooms EXCEPT ![id] = @ + 1]
    /\ UNCHANGED <<entries, home, value, leases, retiring, stopped, departing, activeRooms,
                   loader, lost, bindings, recoveringRooms, recovering, request>>

\* getRoom: asks for the room once authorized, and again after it found a room
\* that everybody was leaving.
GetRoom(c) ==
    /\ call[c].at = "idle"
    /\ socket[c] = "authorizing" \/ (socket[c] = "again" /\ departing[c] = {})
    /\ socket[c] = "authorizing" => ~stopped
    /\ Enter(c, call[c].room)
    /\ Set(c, "acquiring")
    /\ FreshLoaders
    /\ UNCHANGED <<departing, pendingRooms, activeRooms, bindings, recoveringRooms, recovering, request>>

\* The awaits inside acquire and release.  The reservation that Depart gives back
\* is never the last one, those that leave still hold theirs, so it cannot fail.
AwaitRoom(c) ==
    /\ CallStep(c)
    /\ FreshLoaders
    /\ UNCHANGED <<socket, departing, pendingRooms, activeRooms, bindings, recoveringRooms,
                   recovering, request>>

\* Everybody is leaving the room: let it retire and load it again.
Depart(c) ==
    /\ socket[c] = "acquiring" /\ call[c].at = "held"
    /\ ~lost[call[c].entry] /\ Leaving(call[c].entry)
    /\ departing' = [departing EXCEPT ![c] = Members(call[c].entry)]
    /\ Release(c) /\ Set(c, "again")
    /\ UNCHANGED <<pendingRooms, activeRooms, loader, lost, bindings,
                   recoveringRooms, recovering, request>>

Join(c) ==
    /\ socket[c] = "acquiring" /\ call[c].at = "held"
    /\ ~stopped /\ ~lost[call[c].entry] /\ ~Leaving(call[c].entry)
    /\ Set(c, "joined")
    /\ pendingRooms' = [pendingRooms EXCEPT ![call[c].room] = @ - 1]
    /\ UNCHANGED <<lifeVars, departing, activeRooms, loader, lost, bindings,
                   recoveringRooms, recovering, request>>

\* The lease is lost, the service stops or the socket is gone: the reservation is
\* released first and the upgrade ends after it.
TurnAway(c) ==
    /\ socket[c] = "acquiring" /\ call[c].at = "held"
    /\ Release(c) /\ Set(c, "dropping")
    /\ UNCHANGED <<departing, pendingRooms, activeRooms, loader, lost, bindings,
                   recoveringRooms, recovering, request>>

\* No permission, no room, or the end of TurnAway.
Reject(c) ==
    /\ socket[c] \in {"authorizing", "acquiring", "dropping"} /\ call[c].at = "idle"
    /\ Set(c, "none")
    /\ pendingRooms' = [pendingRooms EXCEPT ![call[c].room] = @ - 1]
    /\ UNCHANGED <<lifeVars, departing, activeRooms, loader, lost, bindings,
                   recoveringRooms, recovering, request>>

\* A client or the server starts to close the connection.
Leave(c) ==
    /\ socket[c] = "joined"
    /\ Set(c, "closing")
    /\ UNCHANGED <<lifeVars, departing, pendingRooms, activeRooms, loader, lost, bindings,
                   recoveringRooms, recovering, request>>

\* Mutant of Closed: an upgrade that waits for this socket is not told.
ClosedUnnoticed(c) ==
    /\ socket[c] = "closing"
    /\ Release(c) /\ Set(c, "none")
    /\ UNCHANGED <<departing, pendingRooms, activeRooms, loader, lost, bindings,
                   recoveringRooms, recovering, request>>

\* The close event; the server terminates a socket that does not answer.
Closed(c) ==
    /\ socket[c] = "closing"
    /\ Release(c) /\ Set(c, "none")
    /\ departing' = [d \in Caller |-> departing[d] \ {c}]
    /\ UNCHANGED <<pendingRooms, activeRooms, loader, lost, bindings,
                   recoveringRooms, recovering, request>>

-----------------------------------------------------------------------------
(* The loader and the disposal of a room                                    *)

ClearActive(e) == activeRooms' = [id \in Room |-> IF activeRooms[id] = e THEN NoEntry ELSE activeRooms[id]]
Advance(e, s) == loader' = [loader EXCEPT ![e] = s]

\* The registry refuses an id that it holds or recovers.
Admissible(id) == bindings[id] = NoEntry /\ id \notin recovering

ClaimRoom(e) ==
    /\ value[e] = "loading" /\ loader[e] = "start"
    /\ Admissible(home[e])
    /\ bindings' = [bindings EXCEPT ![home[e]] = e]
    /\ Advance(e, "claimed")
    /\ UNCHANGED <<lifeVars, socket, departing, pendingRooms, activeRooms, lost,
                   recoveringRooms, recovering, request>>

OpenRoom(e) ==
    /\ value[e] = "loading" /\ loader[e] = "claimed" /\ ~lost[e]
    /\ activeRooms' = [activeRooms EXCEPT ![home[e]] = e]
    /\ Advance(e, "open")
    /\ UNCHANGED <<lifeVars, socket, departing, pendingRooms, lost, bindings,
                   recoveringRooms, recovering, request>>

RoomLoaded(e) ==
    /\ loader[e] = "open" /\ ~lost[e]
    /\ LoadEnds(e, "loaded")
    /\ UNCHANGED serverVars

\* Nothing to give back yet, or the id leaves activeRooms and the lease is closed
\* before the loader's promise is rejected.
LoaderFails(e) ==
    /\ value[e] = "loading"
    /\ \/ loader[e] = "start" /\ LoadEnds(e, "failed") /\ Advance(e, "closed") /\ UNCHANGED activeRooms
       \/ /\ loader[e] \in {"claimed", "open"}
          /\ activeRooms' = [activeRooms EXCEPT ![home[e]] = NoEntry]
          /\ Advance(e, "closing")
          /\ UNCHANGED lifeVars
    /\ UNCHANGED <<socket, departing, pendingRooms, lost, bindings, recoveringRooms, recovering, request>>

StartDisposal(e) == Dispose(e) /\ UNCHANGED serverVars

\* Mutant of Drained: the room stays in activeRooms.
DrainedStillActive(e) ==
    /\ retiring[e] = "disposing" /\ loader[e] = "open"
    /\ Advance(e, "closing")
    /\ UNCHANGED <<lifeVars, socket, departing, pendingRooms, activeRooms, lost, bindings,
                   recoveringRooms, recovering, request>>

\* Synchronization is closed and the queue drained; then the lease is closed.
Drained(e) ==
    /\ retiring[e] = "disposing" /\ loader[e] = "open"
    /\ ClearActive(e)
    /\ Advance(e, "closing")
    /\ UNCHANGED <<lifeVars, socket, departing, pendingRooms, lost, bindings,
                   recoveringRooms, recovering, request>>

\* Mutant of LeaseClosed: a release that failed leaves its binding.
LeaseClosedKeepingBinding(e) ==
    /\ loader[e] = "closing"
    /\ Advance(e, "closed")
    /\ \/ LoadEnds(e, "failed") /\ bindings' = [bindings EXCEPT ![home[e]] = NoEntry]
       \/ Disposed(e, "done") /\ bindings' = [bindings EXCEPT ![home[e]] = NoEntry]
       \/ Disposed(e, "failed") /\ UNCHANGED bindings
    /\ UNCHANGED <<socket, departing, pendingRooms, activeRooms, lost, recoveringRooms, recovering, request>>

\* The release has been answered, or has failed: either way the binding goes.
LeaseClosed(e) ==
    /\ loader[e] = "closing"
    /\ Advance(e, "closed")
    /\ bindings' = [bindings EXCEPT ![home[e]] = NoEntry]
    /\ LoadEnds(e, "failed") \/ \E outcome \in {"done", "failed"} : Disposed(e, outcome)
    /\ UNCHANGED <<socket, departing, pendingRooms, activeRooms, lost, recoveringRooms, recovering, request>>

\* retire() after a loader that failed.
NothingToDispose(e) ==
    /\ retiring[e] = "waiting" /\ Disposed(e, "failed")
    /\ UNCHANGED serverVars

\* The lease is aborted: every connection of the room is closed.
LoseLease(e) ==
    /\ bindings[home[e]] = e /\ loader[e] \in {"claimed", "open"} /\ ~lost[e]
    /\ lost' = [lost EXCEPT ![e] = TRUE]
    /\ socket' = [c \in Caller |-> IF c \in Members(e) THEN "closing" ELSE socket[c]]
    /\ UNCHANGED <<lifeVars, departing, pendingRooms, activeRooms, loader, bindings,
                   recoveringRooms, recovering, request>>

-----------------------------------------------------------------------------
(* A recovery request                                                       *)

AskRecovery(o, id) ==
    /\ request[o].at = "none" /\ ~stopped
    /\ request' = [request EXCEPT ![o] = [at |-> "authorizing", room |-> id]]
    /\ UNCHANGED <<lifeVars, socket, departing, pendingRooms, activeRooms, loader, lost, bindings,
                   recoveringRooms, recovering>>

\* Mutant of Reservable: upgrades that are under way do not count.
ReservableDespiteUpgrades(id) ==
    ~stopped /\ activeRooms[id] = NoEntry /\ id \notin recoveringRooms

\* reserveIdleRoom
Reservable(id) ==
    ~stopped /\ activeRooms[id] = NoEntry /\ pendingRooms[id] = 0 /\ id \notin recoveringRooms

ReserveIdleRoom(o) ==
    /\ request[o].at = "authorizing"
    /\ Reservable(request[o].room)
    /\ recoveringRooms' = recoveringRooms \cup {request[o].room}
    /\ request' = [request EXCEPT ![o].at = "reserved"]
    /\ UNCHANGED <<lifeVars, socket, departing, pendingRooms, activeRooms, loader, lost, bindings, recovering>>

\* The confirmed replacement is handed to the registry.
RecoverCheckpoint(o) ==
    /\ request[o].at = "reserved"
    /\ Admissible(request[o].room)
    /\ recovering' = recovering \cup {request[o].room}
    /\ request' = [request EXCEPT ![o].at = "recovering"]
    /\ UNCHANGED <<lifeVars, socket, departing, pendingRooms, activeRooms, loader, lost, bindings,
                   recoveringRooms>>

\* Answered, refused, failed or aborted: what the request reserved is released.
EndRequest(o) ==
    /\ request[o].at # "none"
    /\ request' = [request EXCEPT ![o].at = "none"]
    /\ recoveringRooms' = IF request[o].at = "authorizing" THEN recoveringRooms
                          ELSE recoveringRooms \ {request[o].room}
    /\ recovering' = IF request[o].at = "recovering" THEN recovering \ {request[o].room} ELSE recovering
    /\ UNCHANGED <<lifeVars, socket, departing, pendingRooms, activeRooms, loader, lost, bindings>>

\* stop(): upgrades and sockets are torn down, and every room retires.
StopServer ==
    /\ Stop
    /\ socket' = [c \in Caller |-> IF socket[c] = "joined" THEN "closing" ELSE socket[c]]
    /\ UNCHANGED <<departing, pendingRooms, activeRooms, loader, lost, bindings,
                   recoveringRooms, recovering, request>>

-----------------------------------------------------------------------------

\* What goes on by itself: promises that settle, timers, sockets that close.
SocketStep(c) == GetRoom(c) \/ AwaitRoom(c) \/ Depart(c) \/ Join(c) \/ TurnAway(c) \/ Reject(c) \/ Closed(c)
RoomStep(e) ==
    \/ ClaimRoom(e) \/ OpenRoom(e) \/ RoomLoaded(e) \/ LoaderFails(e)
    \/ StartDisposal(e) \/ Drained(e) \/ LeaseClosed(e) \/ NothingToDispose(e)

ServerNext ==
    \/ \E c \in Caller : SocketStep(c) \/ Leave(c) \/ \E id \in Room : Upgrade(c, id)
    \/ \E e \in Entry : RoomStep(e) \/ LoseLease(e)
    \/ \E o \in Owner : ReserveIdleRoom(o) \/ RecoverCheckpoint(o) \/ EndRequest(o)
    \/ \E o \in Owner, id \in Room : AskRecovery(o, id)
    \/ StopServer

ServerSpec == ServerInit /\ [][ServerNext]_allVars

\* Authorization, requests and disposals end by their timeouts; a closing socket
\* is terminated after half a second.
FairServerSpec ==
    /\ ServerSpec
    /\ \A c \in Caller : WF_allVars(SocketStep(c))
    /\ \A e \in Entry : WF_allVars(RoomStep(e))
    /\ \A o \in Owner : WF_allVars(EndRequest(o))

-----------------------------------------------------------------------------
(* Properties *)

\* While a recovery has the diagram reserved, this process neither loads a room
\* of it nor has a socket in one.
RecoveryIsIdle ==
    \A id \in recoveringRooms :
        /\ activeRooms[id] = NoEntry
        /\ \A c \in Caller : call[c].room = id => socket[c] = "none"
        /\ \A e \in Entry : home[e] = id => value[e] # "loading"

\* The registry never refuses a loader: the previous room of the diagram has
\* given its binding back by then, and no recovery runs.
LoaderIsAdmissible ==
    \A e \in Entry : value[e] = "loading" /\ loader[e] = "start" => Admissible(home[e])

\* What allowed() checks for a connection is the room the connection is in.
SocketIsGuarded ==
    \A c \in Caller : socket[c] = "joined" => activeRooms[call[c].room] = call[c].entry

\* Nobody waits for ever: once clients stop coming and going, every upgrade has
\* joined or been rejected, whatever rooms were retiring, lost or loading then.
UpgradesDrain ==
    (<>[](\A c \in Caller : socket[c] \notin {"authorizing", "closing"}))
        => \A c \in Caller : <>[](socket[c] \notin Pending)

\* A diagram nobody connects to can be recovered: what blocks the recovery goes.
BlockedRecoveryIsFreed ==
    \A id \in Room :
        (~Reservable(id) /\ ~stopped) ~>
            (Reservable(id) \/ stopped \/ \E c \in Caller : call[c].room = id /\ socket[c] # "none")
=============================================================================
