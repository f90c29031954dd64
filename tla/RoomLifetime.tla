----------------------------- MODULE RoomLifetime -----------------------------
(***************************************************************************)
(* The rooms one server process keeps in memory                            *)
(* (server/collaboration/roomLifetime.ts): loaded once for all that ask,   *)
(* shared by reservations, disposed after the last one is released.        *)
(*                                                                         *)
(* The process is single-threaded: what a function does between two awaits *)
(* is one step, and everything else may happen at an await.                *)
(***************************************************************************)
EXTENDS Integers, FiniteSets

CONSTANTS
    Room,      \* diagram ids
    Caller,    \* callers of acquire, each with one call or reservation at a time
    Capacity,  \* rooms in memory (64)
    MaxEntry   \* Entry objects told apart (a bound of the model only)

ASSUME LifetimeAssumption ==
    Capacity \in Nat \ {0} /\ MaxEntry \in Nat /\ IsFiniteSet(Caller)

Entry == 1..MaxEntry
NoEntry == 0

VARIABLES
    entries,   \* entries[id]: the Map, NoEntry where it has no key
    home,      \* home[e]: the id entry e was made for
    value,     \* value[e]: the promise of the loader
    leases,    \* leases[e]: reservations of e
    retiring,  \* retiring[e]: the promise of its disposal
    call,      \* call[c]: where the call of c waits, and what it holds
    stopped

lifeVars == <<entries, home, value, leases, retiring, call, stopped>>

Value == {"none", "loading", "loaded", "failed"}
Retiring == {"no", "waiting", "disposing", "done", "failed"}
At == {"idle", "retiring", "loading", "held", "releasing"}
Call == [at : At, room : Room, entry : 0..MaxEntry]

LifetimeTypeOK ==
    /\ entries \in [Room -> 0..MaxEntry]
    /\ home \in [Entry -> Room]
    /\ value \in [Entry -> Value]
    /\ leases \in [Entry -> Nat]
    /\ retiring \in [Entry -> Retiring]
    /\ call \in [Caller -> Call]
    /\ stopped \in BOOLEAN

LifetimeInit ==
    /\ entries = [id \in Room |-> NoEntry]
    /\ home \in {[e \in Entry |-> id] : id \in Room}
    /\ value = [e \in Entry |-> "none"]
    /\ leases = [e \in Entry |-> 0]
    /\ retiring = [e \in Entry |-> "no"]
    /\ call \in {[c \in Caller |-> [at |-> "idle", room |-> id, entry |-> NoEntry]] : id \in Room}
    /\ stopped = FALSE

Size == Cardinality({id \in Room : entries[id] # NoEntry})
Without(e) == [id \in Room |-> IF entries[id] = e THEN NoEntry ELSE entries[id]]

Wait(c, at, id, e) == call' = [call EXCEPT ![c] = [at |-> at, room |-> id, entry |-> e]]
Idle(c) == Wait(c, "idle", call[c].room, NoEntry)
Go(c, at) == Wait(c, at, call[c].room, call[c].entry)

-----------------------------------------------------------------------------
(* acquire *)

Refuse(c, id) ==
    /\ stopped \/ (entries[id] = NoEntry /\ Size >= Capacity)
    /\ Idle(c)
    /\ UNCHANGED <<entries, home, value, leases, retiring>>

AwaitRetirement(c, id) ==
    /\ ~stopped
    /\ entries[id] # NoEntry /\ retiring[entries[id]] # "no"
    /\ Wait(c, "retiring", id, entries[id])
    /\ UNCHANGED <<entries, home, value, leases, retiring>>

\* An object is used again when nothing refers to it any more.
Unused ==
    {e \in Entry : /\ \A id \in Room : entries[id] # e
                   /\ \A c \in Caller : call[c].entry # e
                   /\ retiring[e] \in {"done", "failed"} \/ value[e] \in {"none", "failed"}}

Load(c, id) ==
    /\ ~stopped
    /\ entries[id] = NoEntry /\ Size < Capacity
    /\ Unused # {}
    /\ LET e == CHOOSE f \in Unused : TRUE IN
       /\ entries' = [entries EXCEPT ![id] = e]
       /\ home' = [home EXCEPT ![e] = id]
       /\ value' = [value EXCEPT ![e] = "loading"]
       /\ leases' = [leases EXCEPT ![e] = 1]
       /\ retiring' = [retiring EXCEPT ![e] = "no"]
       /\ Wait(c, "loading", id, e)

Share(c, id) ==
    /\ ~stopped
    /\ entries[id] # NoEntry /\ retiring[entries[id]] = "no"
    /\ leases' = [leases EXCEPT ![entries[id]] = @ + 1]
    /\ Wait(c, "loading", id, entries[id])
    /\ UNCHANGED <<entries, home, value, retiring>>

\* Mutant of Enter: an entry that retires is shared all the same.
EnterRetiring(c, id) ==
    /\ \/ Refuse(c, id) \/ Load(c, id)
       \/ /\ ~stopped /\ entries[id] # NoEntry
          /\ leases' = [leases EXCEPT ![entries[id]] = @ + 1]
          /\ Wait(c, "loading", id, entries[id])
          /\ UNCHANGED <<entries, home, value, retiring>>
    /\ UNCHANGED stopped

Enter(c, id) ==
    /\ Refuse(c, id) \/ AwaitRetirement(c, id) \/ Load(c, id) \/ Share(c, id)
    /\ UNCHANGED stopped

Acquire(c, id) == call[c].at = "idle" /\ Enter(c, id)

\* The disposal it waited for is over: start again, or fail with it.
Resume(c) ==
    /\ call[c].at = "retiring"
    /\ \/ retiring[call[c].entry] = "done" /\ Enter(c, call[c].room)
       \/ /\ retiring[call[c].entry] = "failed"
          /\ Idle(c)
          /\ UNCHANGED <<entries, home, value, leases, retiring, stopped>>

LoadEnds(e, outcome) ==
    /\ value[e] = "loading"
    /\ value' = [value EXCEPT ![e] = outcome]
    /\ UNCHANGED <<entries, home, leases, retiring, call, stopped>>

Obtain(c) ==
    /\ call[c].at = "loading"
    /\ value[call[c].entry] = "loaded" /\ ~stopped
    /\ Go(c, "held")
    /\ UNCHANGED <<entries, home, value, leases, retiring, stopped>>

\* Mutant of Fail: the entry of a failed loader stays in the map.
FailKeepingEntry(c) ==
    /\ call[c].at = "loading"
    /\ value[call[c].entry] = "failed" \/ (value[call[c].entry] = "loaded" /\ stopped)
    /\ leases' = [leases EXCEPT ![call[c].entry] = @ - 1]
    /\ Idle(c)
    /\ UNCHANGED <<entries, home, value, retiring, stopped>>

\* A loader that failed, or ended after stop: the reservation is given back, and
\* the last one removes the entry.
Fail(c) ==
    /\ call[c].at = "loading"
    /\ value[call[c].entry] = "failed" \/ (value[call[c].entry] = "loaded" /\ stopped)
    /\ leases' = [leases EXCEPT ![call[c].entry] = @ - 1]
    /\ entries' = IF leases'[call[c].entry] = 0 THEN Without(call[c].entry) ELSE entries
    /\ Idle(c)
    /\ UNCHANGED <<home, value, retiring, stopped>>

-----------------------------------------------------------------------------
(* release and retire *)

Retire(E) ==
    retiring' = [e \in Entry |-> IF e \in E /\ retiring[e] = "no" THEN "waiting" ELSE retiring[e]]

\* The last reservation retires the room, and its release waits for the disposal.
Release(c) ==
    /\ call[c].at = "held"
    /\ LET e == call[c].entry IN
       /\ leases' = [leases EXCEPT ![e] = @ - 1]
       /\ \/ leases[e] > 1 /\ Idle(c) /\ UNCHANGED retiring
          \/ leases[e] = 1 /\ Retire({e}) /\ Go(c, "releasing")
    /\ UNCHANGED <<entries, home, value, stopped>>

Released(c) ==
    /\ call[c].at = "releasing"
    /\ retiring[call[c].entry] \in {"done", "failed"}
    /\ Idle(c)
    /\ UNCHANGED <<entries, home, value, leases, retiring, stopped>>

\* Mutant of Dispose: the entry is removed before its disposal, not after it.
DisposeRemoving(e) ==
    /\ retiring[e] = "waiting" /\ value[e] = "loaded"
    /\ retiring' = [retiring EXCEPT ![e] = "disposing"]
    /\ entries' = Without(e)
    /\ UNCHANGED <<home, value, leases, call, stopped>>

\* dispose starts when the value is there.
Dispose(e) ==
    /\ retiring[e] = "waiting" /\ value[e] = "loaded"
    /\ retiring' = [retiring EXCEPT ![e] = "disposing"]
    /\ UNCHANGED <<entries, home, value, leases, call, stopped>>

\* It ended, well or not, or there was nothing to dispose of.
Disposed(e, outcome) ==
    /\ \/ retiring[e] = "disposing"
       \/ retiring[e] = "waiting" /\ value[e] = "failed" /\ outcome = "failed"
    /\ retiring' = [retiring EXCEPT ![e] = outcome]
    /\ entries' = Without(e)
    /\ UNCHANGED <<home, value, leases, call, stopped>>

\* Mutant of Stop: rooms that are still loading are left alone.
StopLoaded ==
    /\ ~stopped
    /\ stopped' = TRUE
    /\ Retire({entries[id] : id \in {i \in Room : entries[i] # NoEntry /\ value[entries[i]] = "loaded"}})
    /\ UNCHANGED <<entries, home, value, leases, call>>

Stop ==
    /\ ~stopped
    /\ stopped' = TRUE
    /\ Retire({entries[id] : id \in Room})
    /\ UNCHANGED <<entries, home, value, leases, call>>

-----------------------------------------------------------------------------

CallStep(c) == Resume(c) \/ Obtain(c) \/ Fail(c) \/ Released(c)
EntryStep(e) ==
    \/ Dispose(e)
    \/ \E outcome \in {"loaded", "failed"} : LoadEnds(e, outcome)
    \/ \E outcome \in {"done", "failed"} : Disposed(e, outcome)

LifetimeNext ==
    \/ \E c \in Caller : CallStep(c) \/ Release(c) \/ \E id \in Room : Acquire(c, id)
    \/ \E e \in Entry : EntryStep(e)
    \/ Stop

LifetimeSpec == LifetimeInit /\ [][LifetimeNext]_lifeVars

\* Loaders and disposals are bounded by the timeouts of the requests they make,
\* and the promises they settle resume their callers.
LifetimeFairness ==
    /\ \A c \in Caller : WF_lifeVars(CallStep(c))
    /\ \A e \in Entry : WF_lifeVars(EntryStep(e))

FairLifetimeSpec == LifetimeSpec /\ LifetimeFairness

-----------------------------------------------------------------------------
(* Properties *)

Reserving(e) == {c \in Caller : call[c].entry = e /\ call[c].at \in {"loading", "held"}}

\* A room is in memory, with its document and its lease, from its loader until
\* its disposal has ended.
InMemory(e) == value[e] \in {"loading", "loaded"} /\ retiring[e] \notin {"done", "failed"}

\* There is never a second copy of a diagram's document in the process: the next
\* loader starts after the previous room has drained its queue and closed its lease.
OneRoomInMemory == \A e, f \in Entry : InMemory(e) /\ InMemory(f) /\ home[e] = home[f] => e = f

\* A reservation keeps its room alive until the service stops.
HeldRoomIsKept ==
    \A c \in Caller : call[c].at = "held" /\ ~stopped =>
        /\ retiring[call[c].entry] = "no"
        /\ entries[call[c].room] = call[c].entry

\* What nobody reserves goes away, whatever failed or was released in which
\* order: the capacity of the process does not leak.
UnusedRoomLeaves ==
    \A id \in Room : (entries[id] # NoEntry /\ Reserving(entries[id]) = {}) ~>
                        (entries[id] = NoEntry \/ Reserving(entries[id]) # {})

\* Stopping the service ends every room it has loaded.
StopDrains == stopped ~> \A e \in Entry : ~InMemory(e)
=============================================================================
