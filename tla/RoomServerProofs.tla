--------------------------- MODULE RoomServerProofs ---------------------------
(***************************************************************************)
(* Proofs about RoomLifetime and RoomServer, for any number of diagrams,   *)
(* callers, rooms and owners: a process never has two copies of a diagram, *)
(* no room is taken from a caller that is in it, the registry admits every *)
(* loader, sockets are judged by their own room, and a recovery meets no   *)
(* editor here.                                                            *)
(*                                                                         *)
(* LifetimeInv is inductive.  Its core: until the service stops, an entry  *)
(* is in the map as long as its room is in memory, and an entry that       *)
(* retires has no reservation.  The count of an entry is the number of     *)
(* callers that hold it, so the release that brings it to zero is the last.*)
(*                                                                         *)
(* ServerInv is inductive.  To LifetimeInv it adds that the three tables   *)
(* agree: a room that holds its lease is in memory and bound, an open one  *)
(* is active, and nothing else is bound or active.  By OneRoomInMemory no  *)
(* step on one room touches what the tables say of another.                *)
(***************************************************************************)
EXTENDS RoomServer, FiniteSetTheorems, TLAPS

-----------------------------------------------------------------------------
(* The map of the room lifetime service                                     *)

\* What a call has to do with the entry it refers to.
CallInv(c) ==
    /\ call[c].at # "idle" => call[c].entry \in Entry
    /\ call[c].at \in {"loading", "held"} => home[call[c].entry] = call[c].room
    /\ call[c].at = "held" => value[call[c].entry] = "loaded"

\* What an entry has to do with the map and its reservations.
EntryInv(e) ==
    /\ leases[e] = Cardinality(Reserving(e))
    /\ ~stopped /\ InMemory(e) => entries[home[e]] = e
    /\ ~stopped /\ retiring[e] # "no" => leases[e] = 0
    /\ \A id \in Room : entries[id] = e => home[e] = id /\ retiring[e] \notin {"done", "failed"}

LifetimeInv ==
    /\ LifetimeTypeOK
    /\ \A c \in Caller : CallInv(c)
    /\ \A e \in Entry : EntryInv(e)
    /\ OneRoomInMemory

-----------------------------------------------------------------------------
(* Reservations are counted right *)

\* The reservations of an entry can be counted.
LEMMA ReservingIsFinite ==
    ASSUME NEW e PROVE IsFiniteSet(Reserving(e)) /\ Cardinality(Reserving(e)) \in Nat
<1>1. Reserving(e) \subseteq Caller
  BY DEF Reserving
<1> QED
  BY <1>1, LifetimeAssumption, FS_Subset, FS_CardinalityType

\* Where a call stands decides what it reserves.
LEMMA ReservingAfter ==
    ASSUME call \in [Caller -> Call], NEW c \in Caller, NEW x \in Call,
           call' = [call EXCEPT ![c] = x], NEW e
    PROVE  Reserving(e)' = IF x.entry = e /\ x.at \in {"loading", "held"}
                           THEN Reserving(e) \cup {c} ELSE Reserving(e) \ {c}
BY DEF Reserving

\* A caller that had no reservation gets none: no count changes.
LEMMA CountsStay ==
    ASSUME LifetimeInv, NEW c \in Caller, NEW x \in Call, call' = [call EXCEPT ![c] = x],
           NEW e \in Entry,
           c \in Reserving(e) <=> (x.entry = e /\ x.at \in {"loading", "held"})
    PROVE  Cardinality(Reserving(e)') = leases[e]
<1>1. Reserving(e)' = Reserving(e)
  <2>1. CASE x.entry = e /\ x.at \in {"loading", "held"}
    <3>1. Reserving(e)' = Reserving(e) \cup {c}
      BY <2>1, ReservingAfter DEF LifetimeInv, LifetimeTypeOK
    <3>2. c \in Reserving(e)
      BY <2>1
    <3> QED
      BY <3>1, <3>2
  <2>2. CASE ~(x.entry = e /\ x.at \in {"loading", "held"})
    <3>1. Reserving(e)' = Reserving(e) \ {c}
      BY <2>2, ReservingAfter DEF LifetimeInv, LifetimeTypeOK
    <3>2. c \notin Reserving(e)
      BY <2>2
    <3> QED
      BY <3>1, <3>2
  <2> QED
    BY <2>1, <2>2
<1> QED
  BY <1>1 DEF LifetimeInv, EntryInv

\* A caller that gives its reservation back.
LEMMA CountFalls ==
    ASSUME LifetimeInv, NEW c \in Caller, NEW x \in Call, call' = [call EXCEPT ![c] = x],
           NEW e \in Entry, c \in Reserving(e), x.at \notin {"loading", "held"}
    PROVE  leases[e] \in Nat \ {0} /\ Cardinality(Reserving(e)') = leases[e] - 1
<1>1. Reserving(e)' = Reserving(e) \ {c}
  BY ReservingAfter DEF LifetimeInv, LifetimeTypeOK
<1>2. Cardinality(Reserving(e) \ {c}) = Cardinality(Reserving(e)) - 1
  BY ReservingIsFinite, FS_RemoveElement
<1>3. Cardinality(Reserving(e) \ {c}) \in Nat
  BY ReservingIsFinite, FS_RemoveElement, FS_CardinalityType
<1> QED
  BY <1>1, <1>2, <1>3, ReservingIsFinite DEF LifetimeInv, EntryInv

\* A caller that gets one.
LEMMA CountRises ==
    ASSUME LifetimeInv, NEW c \in Caller, NEW x \in Call, call' = [call EXCEPT ![c] = x],
           NEW e \in Entry, c \notin Reserving(e), x.entry = e, x.at = "loading"
    PROVE  Cardinality(Reserving(e)') = leases[e] + 1
<1>1. Reserving(e)' = Reserving(e) \cup {c}
  BY ReservingAfter DEF LifetimeInv, LifetimeTypeOK
<1>2. Cardinality(Reserving(e) \cup {c}) = Cardinality(Reserving(e)) + 1
  BY ReservingIsFinite, FS_AddElement
<1> QED
  BY <1>1, <1>2 DEF LifetimeInv, EntryInv

-----------------------------------------------------------------------------
(* The first state *)

\* No room is in memory.
LEMMA InitLifetimeInv == LifetimeInit => LifetimeInv
<1> SUFFICES ASSUME LifetimeInit PROVE LifetimeInv
  OBVIOUS
<1>1. LifetimeTypeOK
  <2>1. PICK id \in Room : home = [e \in Entry |-> id]
    BY DEF LifetimeInit
  <2>2. PICK jd \in Room : call = [c \in Caller |-> [at |-> "idle", room |-> jd, entry |-> NoEntry]]
    BY DEF LifetimeInit
  <2>3. [at |-> "idle", room |-> jd, entry |-> NoEntry] \in Call
    BY LifetimeAssumption DEF Call, At, NoEntry
  <2>4. home \in [Entry -> Room] /\ call \in [Caller -> Call]
    BY <2>1, <2>2, <2>3
  <2>5. entries \in [Room -> 0..MaxEntry]
    BY LifetimeAssumption DEF LifetimeInit, NoEntry
  <2>6. value \in [Entry -> Value] /\ leases \in [Entry -> Nat] /\ retiring \in [Entry -> Retiring]
    BY DEF LifetimeInit, Value, Retiring
  <2> QED
    BY <2>4, <2>5, <2>6 DEF LifetimeInit, LifetimeTypeOK
<1>2. ASSUME NEW e \in Entry PROVE EntryInv(e)
  <2>1. Reserving(e) = {}
    BY DEF LifetimeInit, Reserving
  <2> QED
    BY <2>1, FS_EmptySet, LifetimeAssumption DEF LifetimeInit, EntryInv, InMemory, NoEntry, Entry
<1>3. ASSUME NEW c \in Caller PROVE CallInv(c)
  BY DEF LifetimeInit, CallInv
<1>4. OneRoomInMemory
  BY DEF LifetimeInit, OneRoomInMemory, InMemory
<1> QED
  BY <1>1, <1>2, <1>3, <1>4 DEF LifetimeInv

-----------------------------------------------------------------------------
(* Every step keeps LifetimeInv *)

\* A step that only moves a call, from one place without a reservation to another,
\* or along with the reservation it has.
LEMMA MoveKeepsInv ==
    ASSUME LifetimeInv, NEW c \in Caller, NEW x \in Call, call' = [call EXCEPT ![c] = x],
           UNCHANGED <<entries, home, value, leases, retiring, stopped>>,
           \A e \in Entry : c \in Reserving(e) <=> (x.entry = e /\ x.at \in {"loading", "held"}),
           x.at # "idle" => x.entry \in Entry,
           x.at \in {"loading", "held"} => home[x.entry] = x.room,
           x.at = "held" => value[x.entry] = "loaded"
    PROVE  LifetimeInv'
<1>1. LifetimeTypeOK'
  BY DEF LifetimeInv, LifetimeTypeOK
<1>2. ASSUME NEW d \in Caller PROVE CallInv(d)'
  <2>1. CASE d = c
    BY <2>1 DEF LifetimeInv, LifetimeTypeOK, CallInv
  <2>2. CASE d # c
    BY <2>2 DEF LifetimeInv, LifetimeTypeOK, CallInv
  <2> QED
    BY <2>1, <2>2
<1>3. ASSUME NEW e \in Entry PROVE EntryInv(e)'
  <2>1. Cardinality(Reserving(e)') = leases[e]
    BY CountsStay
  <2> QED
    BY <2>1 DEF LifetimeInv, EntryInv, InMemory
<1>4. OneRoomInMemory'
  BY DEF LifetimeInv, OneRoomInMemory, InMemory
<1> QED
  BY <1>1, <1>2, <1>3, <1>4 DEF LifetimeInv

\* What a call refers to.
LEMMA CallsAreTyped ==
    ASSUME LifetimeInv, NEW c \in Caller
    PROVE  call[c].at \in At /\ call[c].room \in Room /\ call[c].entry \in 0..MaxEntry
BY DEF LifetimeInv, LifetimeTypeOK, Call

\* A call that waits for nothing, or for a disposal, reserves nothing.
LEMMA WaitingReservesNothing ==
    ASSUME NEW c \in Caller, call[c].at \in {"idle", "retiring", "releasing"}, NEW e
    PROVE  c \notin Reserving(e)
BY DEF Reserving

\* A call that ends.
LEMMA GoIdleKeepsInv ==
    ASSUME LifetimeInv, NEW c \in Caller, call[c].at \in {"idle", "retiring", "releasing"},
           NEW id \in Room, Wait(c, "idle", id, NoEntry),
           UNCHANGED <<entries, home, value, leases, retiring, stopped>>
    PROVE  LifetimeInv'
<1> DEFINE x == [at |-> "idle", room |-> id, entry |-> NoEntry]
<1>1. x \in Call
  BY LifetimeAssumption DEF Call, At, NoEntry
<1>2. \A e \in Entry : c \notin Reserving(e)
  BY WaitingReservesNothing
<1>3. call' = [call EXCEPT ![c] = x]
  BY DEF Wait
<1>4. x.at = "idle"
  OBVIOUS
<1> HIDE DEF x
<1> QED
  BY <1>1, <1>2, <1>3, <1>4, MoveKeepsInv

\* A call that waits for a disposal.
LEMMA AwaitRetirementKeepsInv ==
    ASSUME LifetimeInv, NEW c \in Caller, call[c].at \in {"idle", "retiring"},
           NEW id \in Room, AwaitRetirement(c, id), UNCHANGED stopped
    PROVE  LifetimeInv'
<1> DEFINE x == [at |-> "retiring", room |-> id, entry |-> entries[id]]
<1>1. entries[id] \in Entry
  BY DEF AwaitRetirement, LifetimeInv, LifetimeTypeOK, Entry, NoEntry
<1>2. x \in Call
  BY <1>1 DEF Call, At, Entry
<1>3. \A e \in Entry : c \notin Reserving(e)
  BY WaitingReservesNothing
<1>4. call' = [call EXCEPT ![c] = x] /\ UNCHANGED <<entries, home, value, leases, retiring, stopped>>
  BY DEF Wait, AwaitRetirement
<1>5. x.at = "retiring" /\ x.entry \in Entry
  BY <1>1
<1> HIDE DEF x
<1> QED
  BY <1>2, <1>3, <1>4, <1>5, MoveKeepsInv

\* A reservation that gets its room.
LEMMA ObtainKeepsInv ==
    ASSUME LifetimeInv, NEW c \in Caller, Obtain(c)
    PROVE  LifetimeInv'
<1> DEFINE x == [at |-> "held", room |-> call[c].room, entry |-> call[c].entry]
<1>1. x \in Call
  BY CallsAreTyped DEF Call, At
<1>2. call' = [call EXCEPT ![c] = x] /\ UNCHANGED <<entries, home, value, leases, retiring, stopped>>
  BY DEF Obtain, Go, Wait
<1>3. \A e \in Entry : c \in Reserving(e) <=> (x.entry = e /\ x.at \in {"loading", "held"})
  BY DEF Reserving, Obtain
<1>4. x.entry \in Entry /\ home[x.entry] = x.room /\ value[x.entry] = "loaded"
  BY DEF LifetimeInv, CallInv, Obtain
<1> HIDE DEF x
<1> QED
  BY <1>1, <1>2, <1>3, <1>4, MoveKeepsInv

\* A new entry: nothing refers to the object it reuses, and no room of the
\* diagram is in memory, because the map has no entry for it.
LEMMA LoadKeepsInv ==
    ASSUME LifetimeInv, NEW c \in Caller, call[c].at \in {"idle", "retiring"},
           NEW id \in Room, Load(c, id), UNCHANGED stopped
    PROVE  LifetimeInv'
<1>0. PICK e \in Entry : e \in Unused /\ e = CHOOSE f \in Unused : TRUE
  BY DEF Load, Unused
<1> DEFINE x == [at |-> "loading", room |-> id, entry |-> e]
<1>1. e \in Entry
  OBVIOUS
<1>2. /\ \A jd \in Room : entries[jd] # e
      /\ \A d \in Caller : call[d].entry # e
  BY <1>0 DEF Unused
<1>3. x \in Call
  BY <1>1 DEF Call, At, Entry
<1>4. /\ entries' = [entries EXCEPT ![id] = e] /\ home' = [home EXCEPT ![e] = id]
      /\ value' = [value EXCEPT ![e] = "loading"] /\ leases' = [leases EXCEPT ![e] = 1]
      /\ retiring' = [retiring EXCEPT ![e] = "no"] /\ call' = [call EXCEPT ![c] = x]
      /\ ~stopped /\ entries[id] = NoEntry
  BY <1>0 DEF Load, Wait
<1>5. x.at = "loading" /\ x.room = id /\ x.entry = e
  OBVIOUS
<1>6. c \notin Reserving(e) /\ Reserving(e) = {}
  BY <1>2 DEF Reserving
<1>7. \A f \in Entry : c \notin Reserving(f)
  BY WaitingReservesNothing
<1> HIDE DEF x
<1>8. LifetimeTypeOK'
  <2>1. e \in 0..MaxEntry
    BY <1>1 DEF Entry
  <2> QED
    BY <2>1, <1>1, <1>3, <1>4 DEF LifetimeInv, LifetimeTypeOK, Value, Retiring
<1>9. ASSUME NEW d \in Caller PROVE CallInv(d)'
  <2>1. CASE d = c
    BY <2>1, <1>1, <1>4, <1>5 DEF LifetimeInv, LifetimeTypeOK, CallInv
  <2>2. CASE d # c
    <3>1. call'[d] = call[d] /\ call[d].entry # e
      BY <2>2, <1>2, <1>4 DEF LifetimeInv, LifetimeTypeOK
    <3> QED
      BY <3>1, <1>4 DEF LifetimeInv, LifetimeTypeOK, CallInv
  <2> QED
    BY <2>1, <2>2
<1>10. ASSUME NEW f \in Entry PROVE EntryInv(f)'
  <2>1. CASE f = e
    <3>1. Cardinality(Reserving(f)') = leases[f] + 1 /\ leases[f] = 0
      <4>1. Cardinality(Reserving(e)') = leases[e] + 1
        BY <1>3, <1>4, <1>5, <1>6, CountRises
      <4>2. leases[e] = 0
        BY <1>6, FS_EmptySet DEF LifetimeInv, EntryInv
      <4> QED
        BY <2>1, <4>1, <4>2
    <3>2. leases'[f] = 1 /\ retiring'[f] = "no" /\ home'[f] = id /\ entries'[id] = f
      BY <2>1, <1>4, <1>1 DEF LifetimeInv, LifetimeTypeOK
    <3>3. \A jd \in Room : entries'[jd] = f => jd = id
      BY <2>1, <1>2, <1>4 DEF LifetimeInv, LifetimeTypeOK
    <3> QED
      BY <3>1, <3>2, <3>3 DEF EntryInv
  <2>2. CASE f # e
    <3>1. Cardinality(Reserving(f)') = leases[f]
      BY <2>2, <1>3, <1>4, <1>5, <1>7, CountsStay
    <3>2. leases'[f] = leases[f] /\ retiring'[f] = retiring[f] /\ home'[f] = home[f] /\ value'[f] = value[f]
      BY <2>2, <1>4 DEF LifetimeInv, LifetimeTypeOK
    <3>3. \A jd \in Room : entries'[jd] = f => entries[jd] = f
      BY <2>2, <1>4 DEF LifetimeInv, LifetimeTypeOK
    <3>4. home[f] \in Room /\ (entries[home[f]] = f => entries'[home[f]] = f)
      BY <1>4 DEF LifetimeInv, LifetimeTypeOK, Entry, NoEntry
    <3>5. EntryInv(f)
      BY DEF LifetimeInv
    <3> QED
      BY <3>1, <3>2, <3>3, <3>4, <3>5, <1>4 DEF EntryInv, InMemory
  <2> QED
    BY <2>1, <2>2
<1>11. OneRoomInMemory'
  <2>1. ASSUME NEW f \in Entry, InMemory(f)' PROVE entries'[home'[f]] = f
    BY <2>1, <1>10, <1>4 DEF EntryInv
  <2> QED
    BY <2>1 DEF OneRoomInMemory
<1> QED
  BY <1>8, <1>9, <1>10, <1>11 DEF LifetimeInv

\* One more reservation of a room that does not retire.
LEMMA ShareKeepsInv ==
    ASSUME LifetimeInv, NEW c \in Caller, call[c].at \in {"idle", "retiring"},
           NEW id \in Room, Share(c, id), UNCHANGED stopped
    PROVE  LifetimeInv'
<1>0. PICK e \in Entry : e = entries[id]
  BY DEF Share, LifetimeInv, LifetimeTypeOK, Entry, NoEntry
<1> DEFINE x == [at |-> "loading", room |-> id, entry |-> e]
<1>1. e \in Entry /\ retiring[e] = "no" /\ home[e] = id
  BY <1>0 DEF Share, LifetimeInv, EntryInv
<1>2. x \in Call
  BY <1>1 DEF Call, At, Entry
<1>3. /\ call' = [call EXCEPT ![c] = x] /\ leases' = [leases EXCEPT ![e] = @ + 1]
      /\ UNCHANGED <<entries, home, value, retiring, stopped>>
  BY <1>0 DEF Share, Wait
<1>4. x.at = "loading" /\ x.room = id /\ x.entry = e
  OBVIOUS
<1>5. \A f \in Entry : c \notin Reserving(f)
  BY WaitingReservesNothing
<1> HIDE DEF x
<1>6. LifetimeTypeOK'
  BY <1>1, <1>2, <1>3 DEF LifetimeInv, LifetimeTypeOK
<1>7. ASSUME NEW d \in Caller PROVE CallInv(d)'
  <2>1. CASE d = c
    BY <2>1, <1>1, <1>3, <1>4 DEF LifetimeInv, LifetimeTypeOK, CallInv
  <2>2. CASE d # c
    BY <2>2, <1>3 DEF LifetimeInv, LifetimeTypeOK, CallInv
  <2> QED
    BY <2>1, <2>2
<1>8. ASSUME NEW f \in Entry PROVE EntryInv(f)'
  <2>1. CASE f = e
    <3>1. Cardinality(Reserving(f)') = leases'[f]
      BY <2>1, <1>2, <1>3, <1>4, <1>5, CountRises DEF LifetimeInv, LifetimeTypeOK
    <3> QED
      BY <2>1, <3>1, <1>1, <1>3 DEF LifetimeInv, EntryInv, InMemory
  <2>2. CASE f # e
    <3>1. Cardinality(Reserving(f)') = leases[f]
      BY <2>2, <1>2, <1>3, <1>4, <1>5, CountsStay
    <3>2. leases'[f] = leases[f]
      BY <2>2, <1>3 DEF LifetimeInv, LifetimeTypeOK
    <3> QED
      BY <3>1, <3>2, <1>3 DEF LifetimeInv, EntryInv, InMemory
  <2> QED
    BY <2>1, <2>2
<1>9. OneRoomInMemory'
  BY <1>3 DEF LifetimeInv, OneRoomInMemory, InMemory
<1> QED
  BY <1>6, <1>7, <1>8, <1>9 DEF LifetimeInv

\* A reservation given back.  The entry leaves the map, if at all, when its loader
\* failed or the service stopped.
LEMMA FailKeepsInv ==
    ASSUME LifetimeInv, NEW c \in Caller, Fail(c)
    PROVE  LifetimeInv'
<1>0. PICK e \in Entry : e = call[c].entry
  BY DEF Fail, LifetimeInv, CallInv
<1> DEFINE x == [at |-> "idle", room |-> call[c].room, entry |-> NoEntry]
<1>1. e \in Entry /\ c \in Reserving(e)
  BY <1>0 DEF Fail, Reserving
<1>2. x \in Call
  BY CallsAreTyped, LifetimeAssumption DEF Call, At, NoEntry
<1>3. /\ call' = [call EXCEPT ![c] = x] /\ leases' = [leases EXCEPT ![e] = @ - 1]
      /\ UNCHANGED <<home, value, retiring, stopped>>
      /\ entries' = entries \/ entries' = Without(e)
      /\ value[e] = "failed" \/ stopped
  BY <1>0 DEF Fail, Idle, Wait
<1>4. x.at = "idle"
  OBVIOUS
<1>5. \A f \in Entry : f # e => c \notin Reserving(f)
  BY <1>0 DEF Reserving
<1> HIDE DEF x
<1>6. leases[e] \in Nat \ {0} /\ Cardinality(Reserving(e)') = leases[e] - 1
  BY <1>1, <1>2, <1>3, <1>4, CountFalls
<1>7. /\ entries' \in [Room -> 0..MaxEntry]
      /\ \A id \in Room : entries'[id] = entries[id] \/ (entries[id] = e /\ entries'[id] = NoEntry)
  BY <1>3, LifetimeAssumption DEF LifetimeInv, LifetimeTypeOK, Without, NoEntry
<1>8. LifetimeTypeOK'
  <2>1. leases' \in [Entry -> Nat]
    BY <1>1, <1>3, <1>6 DEF LifetimeInv, LifetimeTypeOK
  <2> QED
    BY <2>1, <1>2, <1>3, <1>7 DEF LifetimeInv, LifetimeTypeOK
<1>9. ASSUME NEW d \in Caller PROVE CallInv(d)'
  <2>1. CASE d = c
    BY <2>1, <1>3, <1>4 DEF LifetimeInv, LifetimeTypeOK, CallInv
  <2>2. CASE d # c
    BY <2>2, <1>3 DEF LifetimeInv, LifetimeTypeOK, CallInv
  <2> QED
    BY <2>1, <2>2
<1>10. ASSUME NEW f \in Entry PROVE EntryInv(f)'
  <2>1. EntryInv(f) /\ home[f] \in Room
    BY DEF LifetimeInv, LifetimeTypeOK
  <2>2. \A id \in Room : entries'[id] = f => entries[id] = f
    BY <1>7 DEF Entry, NoEntry
  <2>3. CASE f = e
    <3>1. leases'[f] = leases[f] - 1 /\ leases[f] # 0 /\ leases'[f] = Cardinality(Reserving(f)')
      BY <2>3, <1>1, <1>3, <1>6 DEF LifetimeInv, LifetimeTypeOK
    <3>2. stopped \/ (retiring[f] = "no" /\ ~InMemory(f))
      BY <2>1, <2>3, <3>1, <1>3 DEF EntryInv, InMemory
    <3> QED
      BY <2>1, <2>2, <3>1, <3>2, <1>3 DEF EntryInv, InMemory
  <2>4. CASE f # e
    <3>1. Cardinality(Reserving(f)') = leases[f] /\ leases'[f] = leases[f]
      BY <2>4, <1>2, <1>3, <1>4, <1>5, CountsStay DEF LifetimeInv, LifetimeTypeOK
    <3>2. entries[home[f]] = f => entries'[home[f]] = f
      BY <2>1, <2>4, <1>7
    <3> QED
      BY <2>1, <2>2, <3>1, <3>2, <1>3 DEF EntryInv, InMemory
  <2> QED
    BY <2>3, <2>4
<1>11. OneRoomInMemory'
  BY <1>3 DEF LifetimeInv, OneRoomInMemory, InMemory
<1> QED
  BY <1>8, <1>9, <1>10, <1>11 DEF LifetimeInv

\* The last release retires an entry that nobody has reserved any more.
LEMMA ReleaseKeepsInv ==
    ASSUME LifetimeInv, NEW c \in Caller, Release(c)
    PROVE  LifetimeInv'
<1>0. PICK e \in Entry : e = call[c].entry
  BY DEF Release, LifetimeInv, CallInv
<1>1. e \in Entry /\ c \in Reserving(e)
  BY <1>0 DEF Release, Reserving
<1>2. PICK x \in Call : /\ call' = [call EXCEPT ![c] = x] /\ x.at \in {"idle", "releasing"}
                        /\ x.at # "idle" => x.entry \in Entry
  <2>1. CASE Idle(c)
    <3>1. [at |-> "idle", room |-> call[c].room, entry |-> NoEntry] \in Call
      BY CallsAreTyped, LifetimeAssumption DEF Call, At, NoEntry
    <3> QED
      BY <2>1, <3>1 DEF Idle, Wait
  <2>2. CASE Go(c, "releasing")
    <3>1. [at |-> "releasing", room |-> call[c].room, entry |-> call[c].entry] \in Call
      BY CallsAreTyped DEF Call, At
    <3> QED
      BY <2>2, <3>1, <1>0 DEF Go, Wait
  <2> QED
    BY <2>1, <2>2 DEF Release
<1>3. /\ leases' = [leases EXCEPT ![e] = @ - 1]
      /\ UNCHANGED <<entries, home, value, stopped>>
      /\ \/ leases[e] > 1 /\ retiring' = retiring
         \/ leases[e] = 1 /\ Retire({e})
  BY <1>0 DEF Release
<1>4. \A f \in Entry : f # e => c \notin Reserving(f)
  BY <1>0 DEF Reserving
<1>5. leases[e] \in Nat \ {0} /\ Cardinality(Reserving(e)') = leases[e] - 1
  BY <1>1, <1>2, CountFalls
<1>6. /\ retiring' \in [Entry -> Retiring]
      /\ \A f \in Entry : /\ f # e => retiring'[f] = retiring[f]
                          /\ retiring'[f] = retiring[f] \/ (retiring[f] = "no" /\ retiring'[f] = "waiting")
                          /\ retiring[f] \in {"done", "failed"} <=> retiring'[f] \in {"done", "failed"}
  BY <1>3 DEF LifetimeInv, LifetimeTypeOK, Retire, Retiring
<1>7. \A f \in Entry : /\ InMemory(f)' <=> InMemory(f)
                       /\ home'[f] = home[f]
  <2>1. ASSUME NEW f \in Entry PROVE InMemory(f)' <=> InMemory(f)
    <3>1. value'[f] = value[f]
      BY <1>3
    <3>2. retiring'[f] \in {"done", "failed"} <=> retiring[f] \in {"done", "failed"}
      BY <1>6
    <3> QED
      BY <3>1, <3>2 DEF InMemory
  <2>2. home' = home
    BY <1>3
  <2> QED
    BY <2>1, <2>2
<1>8. LifetimeTypeOK'
  <2>1. leases' \in [Entry -> Nat]
    BY <1>1, <1>3, <1>5 DEF LifetimeInv, LifetimeTypeOK
  <2> QED
    BY <2>1, <1>2, <1>3, <1>6 DEF LifetimeInv, LifetimeTypeOK
<1>9. ASSUME NEW d \in Caller PROVE CallInv(d)'
  <2>1. CASE d = c
    BY <2>1, <1>2, <1>3 DEF LifetimeInv, LifetimeTypeOK, CallInv
  <2>2. CASE d # c
    BY <2>2, <1>2, <1>3 DEF LifetimeInv, LifetimeTypeOK, CallInv
  <2> QED
    BY <2>1, <2>2
<1>10. ASSUME NEW f \in Entry PROVE EntryInv(f)'
  <2>1. EntryInv(f)
    BY DEF LifetimeInv
  <2>2. CASE f = e
    <3>1. leases'[f] = leases[f] - 1 /\ leases'[f] = Cardinality(Reserving(f)') /\ leases[f] \in Nat \ {0}
      BY <2>2, <1>1, <1>3, <1>5 DEF LifetimeInv, LifetimeTypeOK
    <3>2. ~stopped => retiring[f] = "no"
      BY <2>1, <3>1 DEF EntryInv
    <3>3. ~stopped /\ retiring'[f] # "no" => leases'[f] = 0
      BY <2>2, <3>1, <3>2, <1>3
    <3>4. UNCHANGED <<entries, home, stopped>>
      BY <1>3
    <3>5. retiring'[f] \in {"done", "failed"} <=> retiring[f] \in {"done", "failed"}
      BY <1>6
    <3> QED
      BY <2>1, <3>1, <3>3, <3>4, <3>5, <1>7 DEF EntryInv
  <2>3. CASE f # e
    <3>1. Cardinality(Reserving(f)') = leases[f] /\ leases'[f] = leases[f]
      BY <2>3, <1>2, <1>3, <1>4, CountsStay DEF LifetimeInv, LifetimeTypeOK
    <3>2. UNCHANGED <<entries, home, stopped>> /\ retiring'[f] = retiring[f]
      BY <2>3, <1>3, <1>6
    <3> QED
      BY <2>1, <3>1, <3>2, <1>7 DEF EntryInv
  <2> QED
    BY <2>2, <2>3
<1>11. OneRoomInMemory'
  BY <1>7 DEF LifetimeInv, OneRoomInMemory
<1> QED
  BY <1>8, <1>9, <1>10, <1>11 DEF LifetimeInv

\* The loader of an entry ends.
LEMMA LoadEndsKeepsInv ==
    ASSUME LifetimeInv, NEW e \in Entry, NEW outcome \in {"loaded", "failed"}, LoadEnds(e, outcome)
    PROVE  LifetimeInv'
<1>1. /\ value[e] = "loading" /\ value' = [value EXCEPT ![e] = outcome]
      /\ UNCHANGED <<entries, home, leases, retiring, call, stopped>>
  BY DEF LoadEnds
<1>2. \A f \in Entry : InMemory(f)' => InMemory(f)
  BY <1>1 DEF LifetimeInv, LifetimeTypeOK, InMemory
<1>3. LifetimeTypeOK'
  BY <1>1 DEF LifetimeInv, LifetimeTypeOK, Value
<1>4. ASSUME NEW d \in Caller PROVE CallInv(d)'
  BY <1>1 DEF LifetimeInv, LifetimeTypeOK, CallInv
<1>5. ASSUME NEW f \in Entry PROVE EntryInv(f)'
  <2>1. Reserving(f)' = Reserving(f)
    BY <1>1 DEF Reserving
  <2> QED
    BY <2>1, <1>1, <1>2 DEF LifetimeInv, EntryInv
<1>6. OneRoomInMemory'
  BY <1>1, <1>2 DEF LifetimeInv, OneRoomInMemory
<1> QED
  BY <1>3, <1>4, <1>5, <1>6 DEF LifetimeInv

\* A disposal begins.
LEMMA DisposeKeepsInv ==
    ASSUME LifetimeInv, NEW e \in Entry, Dispose(e)
    PROVE  LifetimeInv'
<1>1. /\ retiring[e] = "waiting" /\ retiring' = [retiring EXCEPT ![e] = "disposing"]
      /\ UNCHANGED <<entries, home, value, leases, call, stopped>>
  BY DEF Dispose
<1>2. \A f \in Entry : InMemory(f)' <=> InMemory(f)
  BY <1>1 DEF LifetimeInv, LifetimeTypeOK, InMemory
<1>3. LifetimeTypeOK'
  BY <1>1 DEF LifetimeInv, LifetimeTypeOK, Retiring
<1>4. ASSUME NEW d \in Caller PROVE CallInv(d)'
  BY <1>1 DEF LifetimeInv, CallInv
<1>5. ASSUME NEW f \in Entry PROVE EntryInv(f)'
  <2>1. Reserving(f)' = Reserving(f)
    BY <1>1 DEF Reserving
  <2> QED
    BY <2>1, <1>1, <1>2 DEF LifetimeInv, LifetimeTypeOK, EntryInv
<1>6. OneRoomInMemory'
  BY <1>1, <1>2 DEF LifetimeInv, OneRoomInMemory
<1> QED
  BY <1>3, <1>4, <1>5, <1>6 DEF LifetimeInv

\* A room is out of memory before its entry leaves the map.
LEMMA DisposedKeepsInv ==
    ASSUME LifetimeInv, NEW e \in Entry, NEW outcome \in {"done", "failed"}, Disposed(e, outcome)
    PROVE  LifetimeInv'
<1>1. /\ retiring[e] \in {"waiting", "disposing"} /\ retiring' = [retiring EXCEPT ![e] = outcome]
      /\ entries' = Without(e)
      /\ UNCHANGED <<home, value, leases, call, stopped>>
  BY DEF Disposed
<1>2. ~InMemory(e)' /\ \A f \in Entry : InMemory(f)' => InMemory(f)
  BY <1>1 DEF LifetimeInv, LifetimeTypeOK, InMemory
<1>3. /\ entries' \in [Room -> 0..MaxEntry]
      /\ \A id \in Room : entries'[id] # e /\ (entries[id] # e => entries'[id] = entries[id])
  BY <1>1, LifetimeAssumption DEF LifetimeInv, LifetimeTypeOK, Without, Entry, NoEntry
<1>4. LifetimeTypeOK'
  BY <1>1, <1>3 DEF LifetimeInv, LifetimeTypeOK, Retiring
<1>5. ASSUME NEW d \in Caller PROVE CallInv(d)'
  BY <1>1 DEF LifetimeInv, CallInv
<1>6. ASSUME NEW f \in Entry PROVE EntryInv(f)'
  <2>1. Reserving(f)' = Reserving(f)
    BY <1>1 DEF Reserving
  <2>2. EntryInv(f) /\ home[f] \in Room
    BY DEF LifetimeInv, LifetimeTypeOK
  <2>3. CASE f = e
    BY <2>1, <2>2, <2>3, <1>1, <1>2, <1>3 DEF EntryInv
  <2>4. CASE f # e
    <3>1. retiring'[f] = retiring[f]
      BY <2>4, <1>1 DEF LifetimeInv, LifetimeTypeOK
    <3>2. \A id \in Room : entries'[id] = f <=> entries[id] = f
      BY <2>4, <1>1, LifetimeAssumption DEF LifetimeInv, LifetimeTypeOK, Without, Entry, NoEntry
    <3> QED
      BY <2>1, <2>2, <3>1, <3>2, <1>1, <1>2 DEF EntryInv
  <2> QED
    BY <2>3, <2>4
<1>7. OneRoomInMemory'
  BY <1>1, <1>2 DEF LifetimeInv, OneRoomInMemory
<1> QED
  BY <1>4, <1>5, <1>6, <1>7 DEF LifetimeInv

\* Every entry retires; no loader starts from now on.
LEMMA StopKeepsInv ==
    ASSUME LifetimeInv, Stop
    PROVE  LifetimeInv'
<1>1. stopped' = TRUE /\ UNCHANGED <<entries, home, value, leases, call>>
  BY DEF Stop
<1>2. /\ retiring' \in [Entry -> Retiring]
      /\ \A f \in Entry : retiring'[f] = retiring[f] \/ (retiring[f] = "no" /\ retiring'[f] = "waiting")
  BY DEF Stop, Retire, LifetimeInv, LifetimeTypeOK, Retiring
<1>3. \A f \in Entry : retiring'[f] \in {"done", "failed"} <=> retiring[f] \in {"done", "failed"}
  BY <1>2
<1>4. \A f \in Entry : InMemory(f)' <=> InMemory(f)
  BY <1>1, <1>3 DEF InMemory
<1>5. LifetimeTypeOK'
  BY <1>1, <1>2 DEF LifetimeInv, LifetimeTypeOK
<1>6. ASSUME NEW d \in Caller PROVE CallInv(d)'
  BY <1>1 DEF LifetimeInv, CallInv
<1>7. ASSUME NEW f \in Entry PROVE EntryInv(f)'
  <2>1. Reserving(f)' = Reserving(f)
    BY <1>1 DEF Reserving
  <2> QED
    BY <2>1, <1>1, <1>3 DEF LifetimeInv, EntryInv
<1>8. OneRoomInMemory'
  BY <1>1, <1>4 DEF LifetimeInv, OneRoomInMemory
<1> QED
  BY <1>5, <1>6, <1>7, <1>8 DEF LifetimeInv

\* acquire, to its first await.
LEMMA EnterKeepsInv ==
    ASSUME LifetimeInv, NEW c \in Caller, call[c].at \in {"idle", "retiring"},
           NEW id \in Room, Enter(c, id)
    PROVE  LifetimeInv'
<1>1. CASE Refuse(c, id)
  <2>1. Wait(c, "idle", call[c].room, NoEntry) /\ call[c].room \in Room
    BY <1>1, CallsAreTyped DEF Refuse, Idle
  <2> QED
    BY <1>1, <2>1, GoIdleKeepsInv DEF Refuse, Enter
<1> QED
  BY <1>1, AwaitRetirementKeepsInv, LoadKeepsInv, ShareKeepsInv DEF Enter

\* acquire, after the disposal it waited for.
LEMMA ResumeKeepsInv ==
    ASSUME LifetimeInv, NEW c \in Caller, Resume(c)
    PROVE  LifetimeInv'
<1>1. call[c].at = "retiring" /\ call[c].room \in Room
  BY CallsAreTyped DEF Resume
<1>2. CASE Enter(c, call[c].room)
  BY <1>1, <1>2, EnterKeepsInv
<1>3. CASE Idle(c) /\ UNCHANGED <<entries, home, value, leases, retiring, stopped>>
  BY <1>1, <1>3, GoIdleKeepsInv DEF Idle
<1> QED
  BY <1>2, <1>3 DEF Resume

\* release, after the disposal it waited for.
LEMMA ReleasedKeepsInv ==
    ASSUME LifetimeInv, NEW c \in Caller, Released(c)
    PROVE  LifetimeInv'
<1>1. call[c].at = "releasing" /\ call[c].room \in Room
  BY CallsAreTyped DEF Released
<1> QED
  BY <1>1, GoIdleKeepsInv DEF Released, Idle

\* One case per action.
LEMMA StepKeepsLifetimeInv == LifetimeInv /\ [LifetimeNext]_lifeVars => LifetimeInv'
<1> SUFFICES ASSUME LifetimeInv, [LifetimeNext]_lifeVars PROVE LifetimeInv'
  OBVIOUS
<1>1. CASE UNCHANGED lifeVars
  BY <1>1 DEF lifeVars, LifetimeInv, LifetimeTypeOK, CallInv, EntryInv, OneRoomInMemory, InMemory, Reserving
<1>2. ASSUME NEW c \in Caller, CallStep(c) \/ Release(c) PROVE LifetimeInv'
  BY <1>2, ResumeKeepsInv, ObtainKeepsInv, FailKeepsInv, ReleasedKeepsInv, ReleaseKeepsInv DEF CallStep
<1>3. ASSUME NEW c \in Caller, NEW id \in Room, Acquire(c, id) PROVE LifetimeInv'
  BY <1>3, EnterKeepsInv DEF Acquire
<1>4. ASSUME NEW e \in Entry, EntryStep(e) PROVE LifetimeInv'
  BY <1>4, DisposeKeepsInv, LoadEndsKeepsInv, DisposedKeepsInv DEF EntryStep
<1> QED
  BY <1>1, <1>2, <1>3, <1>4, StopKeepsInv DEF LifetimeNext

-----------------------------------------------------------------------------

\* The map, the counts and the calls of createRoomLifetime stay in agreement.
THEOREM LifetimeInvariant == LifetimeSpec => []LifetimeInv
BY InitLifetimeInv, StepKeepsLifetimeInv, PTL DEF LifetimeSpec

\* Every variable keeps its type.
THEOREM LifetimeTypeCorrect == LifetimeSpec => []LifetimeTypeOK
BY LifetimeInvariant, PTL DEF LifetimeInv

\* acquire never starts a loader while an earlier room of the same diagram is
\* still loading, in use or being disposed of.
THEOREM NoSecondRoom == LifetimeSpec => []OneRoomInMemory
BY LifetimeInvariant, PTL DEF LifetimeInv

\* A reservation is counted, so the room it holds does not retire before stop.
LEMMA HeldIsKept == LifetimeInv => HeldRoomIsKept
<1>1. ASSUME LifetimeInv, NEW c \in Caller, call[c].at = "held", ~stopped
      PROVE  retiring[call[c].entry] = "no" /\ entries[call[c].room] = call[c].entry
  <2>1. PICK e \in Entry : e = call[c].entry
    BY <1>1 DEF LifetimeInv, CallInv
  <2>2. c \in Reserving(e)
    BY <1>1, <2>1 DEF Reserving
  <2>3. leases[e] # 0
    BY <1>1, <2>2, ReservingIsFinite, FS_EmptySet DEF LifetimeInv, EntryInv
  <2>4. retiring[e] = "no" /\ value[e] = "loaded" /\ home[e] = call[c].room
    BY <1>1, <2>1, <2>3 DEF LifetimeInv, EntryInv, CallInv
  <2>5. entries[home[e]] = e
    BY <1>1, <2>4 DEF LifetimeInv, EntryInv, InMemory
  <2> QED
    BY <2>1, <2>4, <2>5
<1> QED
  BY <1>1 DEF HeldRoomIsKept

\* Until stop, the room that acquire returned is not retired under its caller.
THEOREM HeldRoomStays == LifetimeSpec => []HeldRoomIsKept
BY HeldIsKept, LifetimeInvariant, PTL

-----------------------------------------------------------------------------
(* The server around the map                                                *)

UpgradesOf(id) == {c \in Caller : socket[c] \in Pending /\ call[c].room = id}
Awaited(e) == \E c \in Caller : call[c].entry = e /\ call[c].at = "loading"
Holding(e) == loader[e] \in {"claimed", "open", "closing"}

ServerShape ==
    /\ socket \in [Caller -> Socket]
    /\ pendingRooms \in [Room -> Nat]
    /\ activeRooms \in [Room -> 0..MaxEntry] /\ bindings \in [Room -> 0..MaxEntry]
    /\ loader \in [Entry -> Loader] /\ lost \in [Entry -> BOOLEAN]
    /\ recoveringRooms \subseteq Room
    /\ request \in [Owner -> Request]

\* pendingRooms counts the upgrades under way.
PendingIsCounted == \A id \in Room : pendingRooms[id] = Cardinality(UpgradesOf(id))

\* What the socket of a call has to do with where the call stands.
SocketInv(c) ==
    /\ socket[c] \in {"joined", "closing"} => call[c].at = "held"
    /\ call[c].at \in {"retiring", "loading"} => socket[c] = "acquiring"
    /\ call[c].at = "held" => socket[c] \in {"acquiring", "joined", "closing"}
    /\ socket[c] = "joined" => ~stopped

\* How far a room is, and what the tables say of it.
RoomInv(e) ==
    /\ value[e] = "loading" => retiring[e] \in {"no", "waiting"} /\ loader[e] # "closed" /\ Awaited(e)
    /\ value[e] = "loaded" /\ retiring[e] \in {"no", "waiting"} => loader[e] = "open"
    /\ retiring[e] = "disposing" => value[e] = "loaded" /\ loader[e] \in {"open", "closing"}
    /\ Holding(e) => InMemory(e) /\ bindings[home[e]] = e
    /\ loader[e] = "open" => activeRooms[home[e]] = e

\* The tables name rooms of the diagram that hold their lease.
TableInv(id) ==
    /\ bindings[id] # NoEntry => home[bindings[id]] = id /\ Holding(bindings[id])
    /\ activeRooms[id] # NoEntry => home[activeRooms[id]] = id /\ loader[activeRooms[id]] = "open"

Reserved(o) == request[o].at \in {"reserved", "recovering"}

\* A diagram is reserved by one request, which is the one that recovers it.
RequestInv ==
    /\ \A o \in Owner : Reserved(o) => request[o].room \in recoveringRooms
    /\ \A o, p \in Owner : Reserved(o) /\ Reserved(p) /\ request[o].room = request[p].room => o = p
    /\ \A id \in recovering : \E o \in Owner : request[o].at = "recovering" /\ request[o].room = id

ServerInv ==
    /\ LifetimeInv
    /\ ServerShape /\ PendingIsCounted
    /\ \A c \in Caller : SocketInv(c)
    /\ \A e \in Entry : RoomInv(e)
    /\ \A id \in Room : TableInv(id)
    /\ RequestInv /\ RecoveryIsIdle

-----------------------------------------------------------------------------
(* What the steps of a call change                                          *)

\* A step of a call moves that call; its room stays the same.
Moves(c, x) ==
    /\ x \in Call /\ call' = [call EXCEPT ![c] = x] /\ x.room = call[c].room

\* acquire.
LEMMA EnterMoves ==
    ASSUME LifetimeInv, NEW c \in Caller, Enter(c, call[c].room)
    PROVE  \E x : Moves(c, x) /\ x.at \in {"idle", "retiring", "loading"}
<1> DEFINE X(at, e) == [at |-> at, room |-> call[c].room, entry |-> e]
<1>0. call[c].room \in Room /\ entries[call[c].room] \in 0..MaxEntry /\ NoEntry \in 0..MaxEntry
  BY CallsAreTyped, LifetimeAssumption DEF LifetimeInv, LifetimeTypeOK, NoEntry
<1>1. \E at \in {"idle", "retiring", "loading"}, e \in 0..MaxEntry : Wait(c, at, call[c].room, e)
  <2>1. CASE Refuse(c, call[c].room)
    BY <1>0, <2>1 DEF Refuse, Idle
  <2>2. CASE AwaitRetirement(c, call[c].room)
    BY <1>0, <2>2 DEF AwaitRetirement
  <2>3. CASE Load(c, call[c].room)
    <3>1. PICK e \in Unused : Wait(c, "loading", call[c].room, e)
      BY <2>3 DEF Load
    <3>2. e \in 0..MaxEntry
      BY <3>1 DEF Unused, Entry
    <3> QED
      BY <3>1, <3>2
  <2>4. CASE Share(c, call[c].room)
    BY <1>0, <2>4 DEF Share
  <2> QED
    BY <2>1, <2>2, <2>3, <2>4 DEF Enter
<1>2. PICK at \in {"idle", "retiring", "loading"}, e \in 0..MaxEntry : Wait(c, at, call[c].room, e)
  BY <1>1
<1>3. X(at, e) \in Call /\ call' = [call EXCEPT ![c] = X(at, e)]
  BY <1>0, <1>2 DEF Wait, Call, At
<1>4. Moves(c, X(at, e)) /\ X(at, e).at = at
  BY <1>3 DEF Moves
<1> HIDE DEF X
<1> QED
  BY <1>4

\* The awaits inside acquire and release.
LEMMA CallStepMoves ==
    ASSUME LifetimeInv, NEW c \in Caller, CallStep(c)
    PROVE  \E x : /\ Moves(c, x)
                  /\ \/ call[c].at = "retiring" /\ x.at \in {"idle", "retiring", "loading"}
                     \/ call[c].at = "loading" /\ x.at \in {"idle", "held"}
                     \/ call[c].at = "releasing" /\ x.at = "idle"
<1>0. call \in [Caller -> Call] /\ call[c].room \in Room /\ call[c].entry \in 0..MaxEntry
  BY CallsAreTyped DEF LifetimeInv, LifetimeTypeOK
<1> DEFINE i == [at |-> "idle", room |-> call[c].room, entry |-> NoEntry]
           h == [at |-> "held", room |-> call[c].room, entry |-> call[c].entry]
<1>1. i \in Call /\ h \in Call
  BY <1>0, LifetimeAssumption DEF Call, At, NoEntry
<1>2. CASE Idle(c) /\ call[c].at \in {"retiring", "loading", "releasing"}
  <2>1. Moves(c, i) /\ i.at = "idle"
    BY <1>1, <1>2 DEF Idle, Wait, Moves
  <2> QED
    BY <1>2, <2>1
<1>3. CASE Obtain(c)
  <2>1. Moves(c, h) /\ h.at = "held"
    BY <1>1, <1>3 DEF Obtain, Go, Wait, Moves
  <2> QED
    BY <1>3, <2>1 DEF Obtain
<1>4. CASE call[c].at = "retiring" /\ Enter(c, call[c].room)
  BY <1>4, EnterMoves
<1> QED
  BY <1>2, <1>3, <1>4 DEF CallStep, Resume, Fail, Released

\* release.
LEMMA ReleaseMoves ==
    ASSUME LifetimeInv, NEW c \in Caller, Release(c)
    PROVE  \E x : Moves(c, x) /\ x.at \in {"idle", "releasing"} /\ call[c].at = "held"
<1>0. call \in [Caller -> Call] /\ call[c].room \in Room /\ call[c].entry \in 0..MaxEntry
  BY CallsAreTyped DEF LifetimeInv, LifetimeTypeOK
<1> DEFINE i == [at |-> "idle", room |-> call[c].room, entry |-> NoEntry]
           r == [at |-> "releasing", room |-> call[c].room, entry |-> call[c].entry]
<1>1. i \in Call /\ r \in Call
  BY <1>0, LifetimeAssumption DEF Call, At, NoEntry
<1>2. CASE Idle(c)
  <2>1. Moves(c, i)
    BY <1>1, <1>2 DEF Idle, Wait, Moves
  <2> QED
    BY <2>1 DEF Release
<1>3. CASE Go(c, "releasing")
  <2>1. Moves(c, r)
    BY <1>1, <1>3 DEF Go, Wait, Moves
  <2> QED
    BY <2>1 DEF Release
<1> QED
  BY <1>2, <1>3 DEF Release

-----------------------------------------------------------------------------
(* What the tables say of one room                                          *)

\* A room that holds its lease is the only one of its diagram in memory.
LEMMA HoldingAlone ==
    ASSUME ServerInv, NEW e \in Entry, NEW f \in Entry, Holding(e), Holding(f) \/ InMemory(f), home[e] = home[f]
    PROVE  e = f
<1>1. InMemory(e) /\ InMemory(f)
  BY DEF ServerInv, RoomInv
<1> QED
  BY <1>1 DEF ServerInv, LifetimeInv, OneRoomInMemory

\* Until the service stops, a room somebody holds is open and active.
LEMMA HeldIsActive ==
    ASSUME ServerInv, NEW c \in Caller, call[c].at = "held", ~stopped
    PROVE  /\ call[c].entry \in Entry /\ loader[call[c].entry] = "open"
           /\ home[call[c].entry] = call[c].room /\ activeRooms[call[c].room] = call[c].entry
<1>1. PICK e \in Entry : e = call[c].entry
  BY DEF ServerInv, LifetimeInv, CallInv
<1>2. retiring[e] = "no" /\ value[e] = "loaded" /\ home[e] = call[c].room
  BY <1>1, HeldIsKept DEF ServerInv, LifetimeInv, CallInv, HeldRoomIsKept
<1>3. loader[e] = "open" /\ activeRooms[home[e]] = e
  BY <1>2 DEF ServerInv, RoomInv
<1> QED
  BY <1>1, <1>2, <1>3

\* An entry nothing refers to holds no lease and loads nothing.
LEMMA UnusedHoldsNothing ==
    ASSUME ServerInv, NEW e \in Unused
    PROVE  e \in Entry /\ ~Holding(e) /\ value[e] # "loading" /\ \A c \in Caller : call[c].entry # e
<1>1. e \in Entry
  BY DEF Unused
<1>2. RoomInv(e)
  BY <1>1 DEF ServerInv
<1> QED
  BY <1>1, <1>2 DEF Unused, RoomInv, InMemory

-----------------------------------------------------------------------------
(* What a step leaves alone                                                 *)

Tables == (\A e \in Entry : RoomInv(e)) /\ (\A id \in Room : TableInv(id))

\* Rooms may start to retire; the tables agree as before.
LEMMA TablesStay ==
    ASSUME ServerInv, UNCHANGED <<home, value, loader, activeRooms, bindings>>,
           \A e \in Entry : retiring'[e] = retiring[e] \/ (retiring[e] = "no" /\ retiring'[e] = "waiting"),
           \A e \in Entry : value[e] = "loading" => Awaited(e)'
    PROVE  Tables'
<1>1. ASSUME NEW e \in Entry PROVE RoomInv(e)'
  <2>1. RoomInv(e)
    BY DEF ServerInv
  <2>2. InMemory(e)' <=> InMemory(e)
    BY DEF InMemory
  <2> QED
    BY <2>1, <2>2 DEF RoomInv, Holding
<1>2. ASSUME NEW id \in Room PROVE TableInv(id)'
  BY DEF ServerInv, TableInv, Holding
<1> QED
  BY <1>1, <1>2 DEF Tables

\* Sockets come only to rooms that are not reserved.
LEMMA RecoveryStaysIdle ==
    ASSUME RecoveryIsIdle, UNCHANGED <<activeRooms, recoveringRooms>>,
           \A c \in Caller : call'[c].room = call[c].room /\ (socket'[c] # "none" => socket[c] # "none"),
           \A e \in Entry : value'[e] = "loading" => value[e] = "loading" /\ home'[e] = home[e]
    PROVE  RecoveryIsIdle'
BY DEF RecoveryIsIdle

LEMMA RequestsStay ==
    ASSUME RequestInv, UNCHANGED <<recoveringRooms, recovering, request>>
    PROVE  RequestInv'
BY DEF RequestInv, Reserved

\* A call that moves, with its socket.
LEMMA OthersAreUntouched ==
    ASSUME ServerInv, NEW c \in Caller, NEW x, Moves(c, x),
           NEW s, socket' = [socket EXCEPT ![c] = s]
    PROVE  /\ \A d \in Caller : call'[d].room = call[d].room
           /\ \A d \in Caller \ {c} : call'[d] = call[d] /\ socket'[d] = socket[d]
           /\ call'[c] = x /\ socket'[c] = s
BY DEF ServerInv, ServerShape, LifetimeInv, LifetimeTypeOK, Moves

-----------------------------------------------------------------------------
(* pendingRooms counts the upgrades                                         *)

LEMMA UpgradesAreFinite ==
    ASSUME NEW id PROVE IsFiniteSet(UpgradesOf(id)) /\ Cardinality(UpgradesOf(id)) \in Nat
<1>1. UpgradesOf(id) \subseteq Caller
  BY DEF UpgradesOf
<1> QED
  BY <1>1, LifetimeAssumption, FS_Subset, FS_CardinalityType

\* No upgrade begins or ends.
LEMMA PendingStays ==
    ASSUME PendingIsCounted, UNCHANGED pendingRooms,
           \A d \in Caller : /\ socket'[d] \in Pending <=> socket[d] \in Pending
                             /\ socket[d] \in Pending => call'[d].room = call[d].room
    PROVE  PendingIsCounted'
<1>1. \A id \in Room : UpgradesOf(id)' = UpgradesOf(id)
  BY DEF UpgradesOf
<1> QED
  BY <1>1 DEF PendingIsCounted

\* One more.
LEMMA PendingRises ==
    ASSUME PendingIsCounted, ServerShape, NEW c \in Caller, NEW id \in Room,
           socket[c] \notin Pending, socket'[c] \in Pending, call'[c].room = id,
           \A d \in Caller \ {c} : socket'[d] = socket[d] /\ call'[d] = call[d],
           pendingRooms' = [pendingRooms EXCEPT ![id] = @ + 1]
    PROVE  PendingIsCounted'
<1>1. UpgradesOf(id)' = UpgradesOf(id) \cup {c} /\ c \notin UpgradesOf(id)
  BY DEF UpgradesOf
<1>2. Cardinality(UpgradesOf(id)') = Cardinality(UpgradesOf(id)) + 1
  BY <1>1, UpgradesAreFinite, FS_AddElement
<1>3. \A jd \in Room \ {id} : UpgradesOf(jd)' = UpgradesOf(jd)
  BY DEF UpgradesOf
<1>4. pendingRooms'[id] = pendingRooms[id] + 1 /\ \A jd \in Room \ {id} : pendingRooms'[jd] = pendingRooms[jd]
  BY DEF ServerShape
<1> QED
  BY <1>2, <1>3, <1>4 DEF PendingIsCounted

\* One less.
LEMMA PendingFalls ==
    ASSUME PendingIsCounted, ServerShape, NEW c \in Caller, call[c].room \in Room,
           socket[c] \in Pending, socket'[c] \notin Pending,
           \A d \in Caller \ {c} : socket'[d] = socket[d] /\ call'[d] = call[d],
           pendingRooms' = [pendingRooms EXCEPT ![call[c].room] = @ - 1]
    PROVE  PendingIsCounted' /\ pendingRooms' \in [Room -> Nat]
<1>0. PICK id \in Room : id = call[c].room
  OBVIOUS
<1>1. UpgradesOf(id)' = UpgradesOf(id) \ {c} /\ c \in UpgradesOf(id)
  BY <1>0 DEF UpgradesOf
<1>2. Cardinality(UpgradesOf(id) \ {c}) = Cardinality(UpgradesOf(id)) - 1
  BY <1>1, UpgradesAreFinite, FS_RemoveElement
<1>3. IsFiniteSet(UpgradesOf(id) \ {c}) /\ Cardinality(UpgradesOf(id) \ {c}) \in Nat
  BY UpgradesAreFinite, FS_Subset, FS_CardinalityType
<1>4. \A jd \in Room \ {id} : UpgradesOf(jd)' = UpgradesOf(jd)
  BY <1>0 DEF UpgradesOf
<1>5. pendingRooms'[id] = pendingRooms[id] - 1 /\ \A jd \in Room \ {id} : pendingRooms'[jd] = pendingRooms[jd]
  BY <1>0 DEF ServerShape
<1>6. PendingIsCounted'
  BY <1>1, <1>2, <1>4, <1>5 DEF PendingIsCounted
<1>7. pendingRooms[id] - 1 \in Nat
  BY <1>2, <1>3 DEF PendingIsCounted
<1> QED
  BY <1>0, <1>6, <1>7 DEF ServerShape

-----------------------------------------------------------------------------
(* The steps of a socket                                                    *)

\* A call that moves and starts no loader: rooms may start to retire, the socket
\* changes, and the counts and calls are known to agree.
LEMMA SocketMoves ==
    ASSUME ServerInv, NEW c \in Caller, NEW x, Moves(c, x),
           NEW s, socket' = [socket EXCEPT ![c] = s], s # "none" => socket[c] # "none",
           call[c].at = "loading" => x.at = "loading" \/ value[call[c].entry] # "loading",
           x.at = "loading" /\ call[c].at = "loading" => x.entry = call[c].entry,
           UNCHANGED <<home, value, stopped, loader, activeRooms, bindings,
                       recoveringRooms, recovering, request>>,
           \A e \in Entry : retiring'[e] = retiring[e] \/ (retiring[e] = "no" /\ retiring'[e] = "waiting"),
           ServerShape', LifetimeInv', PendingIsCounted',
           SocketInv(c)'
    PROVE  ServerInv'
<1>0. /\ \A d \in Caller : call'[d].room = call[d].room
      /\ \A d \in Caller \ {c} : call'[d] = call[d] /\ socket'[d] = socket[d]
      /\ call'[c] = x /\ socket'[c] = s
  BY OthersAreUntouched
<1>1. ASSUME NEW d \in Caller PROVE SocketInv(d)'
  <2>1. CASE d # c
    <3>1. SocketInv(d)
      BY DEF ServerInv
    <3>2. call'[d] = call[d] /\ socket'[d] = socket[d]
      BY <1>0, <2>1
    <3> QED
      BY <3>1, <3>2 DEF SocketInv
  <2> QED
    BY <2>1
<1>2. ASSUME NEW e \in Entry, value[e] = "loading" PROVE Awaited(e)'
  <2>1. PICK d \in Caller : call[d].entry = e /\ call[d].at = "loading"
    BY <1>2 DEF ServerInv, RoomInv, Awaited
  <2>2. call'[d].entry = e /\ call'[d].at = "loading"
    BY <1>0, <1>2, <2>1
  <2> QED
    BY <2>2 DEF Awaited
<1>3. Tables'
  BY <1>2, TablesStay
<1>4. RecoveryIsIdle'
  <2>1. \A d \in Caller : call'[d].room = call[d].room /\ (socket'[d] # "none" => socket[d] # "none")
    BY <1>0
  <2> QED
    BY <2>1, RecoveryStaysIdle DEF ServerInv
<1>5. RequestInv'
  BY RequestsStay DEF ServerInv
<1> QED
  BY <1>1, <1>3, <1>4, <1>5 DEF ServerInv, Tables

\* A call that starts a loader for a diagram that is not reserved.
LEMMA SocketLoads ==
    ASSUME ServerInv, NEW c \in Caller, Load(c, call[c].room), UNCHANGED stopped, FreshLoaders,
           call[c].at \in {"idle", "retiring"}, socket[c] # "none",
           socket' = [socket EXCEPT ![c] = "acquiring"],
           UNCHANGED <<activeRooms, bindings, recoveringRooms, recovering, request>>,
           LifetimeInv', PendingIsCounted', pendingRooms' \in [Room -> Nat]
    PROVE  ServerInv'
<1>1. PICK e \in Unused : /\ home' = [home EXCEPT ![e] = call[c].room]
                          /\ value' = [value EXCEPT ![e] = "loading"]
                          /\ retiring' = [retiring EXCEPT ![e] = "no"]
                          /\ Wait(c, "loading", call[c].room, e)
  BY DEF Load
<1>2. e \in Entry /\ ~Holding(e) /\ value[e] # "loading"
  BY UnusedHoldsNothing
<1>3. PICK id \in Room : id = call[c].room
  BY CallsAreTyped DEF ServerInv, LifetimeInv
<1>4. /\ home \in [Entry -> Room] /\ value \in [Entry -> Value] /\ retiring \in [Entry -> Retiring]
      /\ call \in [Caller -> Call] /\ ServerShape
  BY DEF ServerInv, LifetimeInv, LifetimeTypeOK
<1>5. /\ home'[e] = id /\ value'[e] = "loading" /\ retiring'[e] = "no"
      /\ \A f \in Entry \ {e} : home'[f] = home[f] /\ value'[f] = value[f] /\ retiring'[f] = retiring[f]
  BY <1>1, <1>2, <1>3, <1>4
<1>6. /\ loader'[e] = "start" /\ \A f \in Entry \ {e} : loader'[f] = loader[f]
      /\ loader' \in [Entry -> Loader] /\ lost' \in [Entry -> BOOLEAN]
  BY <1>2, <1>4, <1>5 DEF FreshLoaders, ServerShape, Loader
<1>7. /\ call'[c].at = "loading" /\ call'[c].entry = e /\ call'[c].room = id /\ socket'[c] = "acquiring"
      /\ \A d \in Caller \ {c} : call'[d] = call[d] /\ socket'[d] = socket[d]
  BY <1>1, <1>3, <1>4 DEF Wait, ServerShape
<1>8. ServerShape'
  BY <1>4, <1>6 DEF ServerShape, Socket, Pending
<1>9. ASSUME NEW d \in Caller PROVE SocketInv(d)'
  BY <1>7 DEF ServerInv, SocketInv
<1>10. ASSUME NEW f \in Entry PROVE RoomInv(f)'
  <2>1. CASE f = e
    <3>1. Awaited(e)'
      BY <1>7 DEF Awaited
    <3> QED
      BY <2>1, <3>1, <1>5, <1>6 DEF RoomInv, Holding
  <2>2. CASE f # e
    <3>1. /\ home'[f] = home[f] /\ value'[f] = value[f] /\ retiring'[f] = retiring[f]
          /\ loader'[f] = loader[f] /\ RoomInv(f)
      BY <2>2, <1>5, <1>6 DEF ServerInv
    <3>2. Awaited(f) => Awaited(f)'
      <4>1. SUFFICES ASSUME NEW d \in Caller, call[d].entry = f /\ call[d].at = "loading" PROVE Awaited(f)'
        BY DEF Awaited
      <4>2. call'[d] = call[d]
        BY <4>1, <1>7
      <4> QED
        BY <4>1, <4>2 DEF Awaited
    <3>3. InMemory(f)' <=> InMemory(f)
      BY <3>1 DEF InMemory
    <3> QED
      BY <3>1, <3>2, <3>3 DEF RoomInv, Holding
  <2> QED
    BY <2>1, <2>2
<1>11. ASSUME NEW jd \in Room PROVE TableInv(jd)'
  <2>1. TableInv(jd) /\ bindings[jd] \in 0..MaxEntry /\ activeRooms[jd] \in 0..MaxEntry
    BY <1>4 DEF ServerInv, ServerShape
  <2>2. bindings[jd] # NoEntry => bindings[jd] \in Entry \ {e}
    BY <2>1, <1>2 DEF TableInv, Entry, NoEntry
  <2>3. activeRooms[jd] # NoEntry => activeRooms[jd] \in Entry \ {e}
    BY <2>1, <1>2 DEF TableInv, Entry, NoEntry, Holding
  <2> QED
    BY <2>1, <2>2, <2>3, <1>5, <1>6 DEF TableInv, Holding
<1>12. RecoveryIsIdle'
  <2>1. id \notin recoveringRooms
    BY <1>3 DEF ServerInv, RecoveryIsIdle
  <2> QED
    BY <2>1, <1>5, <1>7 DEF ServerInv, RecoveryIsIdle
<1>13. RequestInv'
  BY RequestsStay DEF ServerInv
<1> QED
  BY <1>8, <1>9, <1>10, <1>11, <1>12, <1>13 DEF ServerInv

\* acquire leaves everything but its own call alone, or starts a loader.
LEMMA EnterEffects ==
    ASSUME NEW c \in Caller, Enter(c, call[c].room)
    PROVE  UNCHANGED stopped /\ (Load(c, call[c].room) \/ UNCHANGED <<home, value, retiring>>)
BY DEF Enter, Refuse, AwaitRetirement, Share

LEMMA CallStepEffects ==
    ASSUME NEW c \in Caller, CallStep(c)
    PROVE  /\ UNCHANGED stopped
           /\ \/ call[c].at = "retiring" /\ Load(c, call[c].room)
              \/ UNCHANGED <<home, value, retiring>>
           /\ call[c].at = "loading" => value[call[c].entry] # "loading"
BY EnterEffects DEF CallStep, Resume, Obtain, Fail, Released

\* Where no loader starts, the loaders stay.
LEMMA LoadersStay ==
    ASSUME ServerShape, FreshLoaders, UNCHANGED value
    PROVE  UNCHANGED <<loader, lost>>
<1>1. \A e \in Entry : loader'[e] = loader[e] /\ lost'[e] = lost[e]
  BY DEF FreshLoaders, ServerShape
<1>2. loader' = [e \in Entry |-> loader'[e]] /\ lost' = [e \in Entry |-> lost'[e]]
  BY DEF FreshLoaders
<1> QED
  BY <1>1, <1>2 DEF ServerShape

\* A room can only start to retire.
LEMMA ReleaseEffects ==
    ASSUME LifetimeInv, NEW c \in Caller, Release(c)
    PROVE  /\ UNCHANGED <<home, value, stopped>>
           /\ \A e \in Entry : retiring'[e] = retiring[e] \/ (retiring[e] = "no" /\ retiring'[e] = "waiting")
BY DEF Release, Retire, LifetimeInv, LifetimeTypeOK

LEMMA GetRoomKeeps ==
    ASSUME ServerInv, NEW c \in Caller, GetRoom(c)
    PROVE  ServerInv'
<1>1. /\ Enter(c, call[c].room) /\ call[c].at = "idle" /\ socket[c] \in {"authorizing", "again"}
      /\ socket' = [socket EXCEPT ![c] = "acquiring"] /\ FreshLoaders
      /\ UNCHANGED <<pendingRooms, activeRooms, bindings, recoveringRooms, recovering, request>>
  BY DEF GetRoom, Set
<1>2. PICK x : Moves(c, x) /\ x.at \in {"idle", "retiring", "loading"}
  BY <1>1, EnterMoves DEF ServerInv
<1>3. LifetimeInv' /\ UNCHANGED stopped
  BY <1>1, CallsAreTyped, EnterKeepsInv, EnterEffects DEF ServerInv, LifetimeInv
<1>4. /\ \A d \in Caller : call'[d].room = call[d].room
      /\ \A d \in Caller \ {c} : call'[d] = call[d] /\ socket'[d] = socket[d]
      /\ call'[c] = x /\ socket'[c] = "acquiring"
  BY <1>1, <1>2, OthersAreUntouched
<1>5. PendingIsCounted'
  BY <1>1, <1>4, PendingStays DEF ServerInv, Pending
<1>6. CASE Load(c, call[c].room)
  BY <1>1, <1>3, <1>5, <1>6, SocketLoads DEF ServerInv, ServerShape
<1>7. CASE UNCHANGED <<home, value, retiring>>
  <2>1. UNCHANGED <<loader, lost>>
    BY <1>1, <1>7, LoadersStay DEF ServerInv
  <2>2. ServerShape'
    BY <1>1, <2>1 DEF ServerInv, ServerShape, Socket, Pending
  <2>3. SocketInv(c)'
    BY <1>2, <1>4 DEF SocketInv
  <2> QED
    BY <1>1, <1>2, <1>3, <1>5, <1>7, <2>1, <2>2, <2>3, SocketMoves
<1> QED
  BY <1>1, <1>6, <1>7, EnterEffects

LEMMA AwaitRoomKeeps ==
    ASSUME ServerInv, NEW c \in Caller, AwaitRoom(c)
    PROVE  ServerInv'
<1>1. /\ CallStep(c) /\ FreshLoaders
      /\ UNCHANGED <<socket, pendingRooms, activeRooms, bindings, recoveringRooms, recovering, request>>
  BY DEF AwaitRoom
<1>2. PICK x : /\ Moves(c, x)
               /\ \/ call[c].at = "retiring" /\ x.at \in {"idle", "retiring", "loading"}
                  \/ call[c].at = "loading" /\ x.at \in {"idle", "held"}
                  \/ call[c].at = "releasing" /\ x.at = "idle"
  BY <1>1, CallStepMoves DEF ServerInv
<1>3. LifetimeInv'
  BY <1>1, ResumeKeepsInv, ObtainKeepsInv, FailKeepsInv, ReleasedKeepsInv DEF CallStep, ServerInv
<1>4. PICK s \in Socket : s = socket[c]
  BY DEF ServerInv, ServerShape
<1>5. socket' = [socket EXCEPT ![c] = s]
  BY <1>1, <1>4 DEF ServerInv, ServerShape
<1>6. /\ \A d \in Caller : call'[d].room = call[d].room
      /\ call'[c] = x /\ socket'[c] = s
  BY <1>2, <1>5, OthersAreUntouched
<1>7. PendingIsCounted'
  BY <1>1, <1>6, PendingStays DEF ServerInv
<1>8. SocketInv(c) /\ UNCHANGED stopped
  BY <1>1, CallStepEffects DEF ServerInv
<1>9. CASE call[c].at = "retiring" /\ Load(c, call[c].room)
  <2>1. s = "acquiring" /\ socket[c] # "none"
    BY <1>4, <1>8, <1>9 DEF SocketInv
  <2> QED
    BY <1>1, <1>3, <1>5, <1>7, <1>8, <1>9, <2>1, SocketLoads DEF ServerInv, ServerShape
<1>10. CASE UNCHANGED <<home, value, retiring>>
  <2>1. UNCHANGED <<loader, lost>>
    BY <1>1, <1>10, LoadersStay DEF ServerInv
  <2>2. ServerShape'
    BY <1>1, <2>1 DEF ServerInv, ServerShape
  <2>3. SocketInv(c)'
    BY <1>2, <1>4, <1>6, <1>8 DEF SocketInv
  <2>4. call[c].at = "loading" => value[call[c].entry] # "loading"
    BY <1>1, CallStepEffects
  <2> QED
    BY <1>1, <1>2, <1>3, <1>4, <1>5, <1>7, <1>8, <1>10, <2>1, <2>2, <2>3, <2>4, SocketMoves
<1> QED
  BY <1>1, <1>9, <1>10, CallStepEffects

\* Depart, TurnAway and Closed give the reservation back.
LEMMA GivingBackKeeps ==
    ASSUME ServerInv, NEW c \in Caller, Release(c),
           NEW s \in {"again", "dropping", "none"}, socket' = [socket EXCEPT ![c] = s],
           socket[c] # "none", s \in Pending <=> socket[c] \in Pending,
           UNCHANGED <<pendingRooms, activeRooms, loader, lost, bindings,
                       recoveringRooms, recovering, request>>
    PROVE  ServerInv'
<1>1. PICK x : Moves(c, x) /\ x.at \in {"idle", "releasing"} /\ call[c].at = "held"
  BY ReleaseMoves DEF ServerInv
<1>2. /\ UNCHANGED <<home, value, stopped>>
      /\ \A e \in Entry : retiring'[e] = retiring[e] \/ (retiring[e] = "no" /\ retiring'[e] = "waiting")
  BY ReleaseEffects DEF ServerInv
<1>3. LifetimeInv'
  BY ReleaseKeepsInv DEF ServerInv
<1>4. /\ \A d \in Caller : call'[d].room = call[d].room
      /\ \A d \in Caller \ {c} : call'[d] = call[d] /\ socket'[d] = socket[d]
      /\ call'[c] = x /\ socket'[c] = s
  BY <1>1, OthersAreUntouched
<1>5. PendingIsCounted'
  BY <1>4, PendingStays DEF ServerInv
<1>6. ServerShape'
  BY DEF ServerInv, ServerShape, Socket, Pending
<1>7. SocketInv(c)'
  BY <1>1, <1>4 DEF SocketInv
<1> QED
  BY <1>1, <1>2, <1>3, <1>5, <1>6, <1>7, SocketMoves

\* Join, Reject and Leave change the socket only.
LEMMA SocketChangeKeeps ==
    ASSUME ServerInv, NEW c \in Caller, NEW s \in Socket, socket' = [socket EXCEPT ![c] = s],
           s # "none" => socket[c] # "none", SocketInv(c)', PendingIsCounted',
           pendingRooms' \in [Room -> Nat],
           UNCHANGED <<lifeVars, activeRooms, loader, lost, bindings,
                       recoveringRooms, recovering, request>>
    PROVE  ServerInv'
<1>1. UNCHANGED <<entries, home, value, leases, retiring, call, stopped>>
  BY DEF lifeVars
<1>2. PICK x \in Call : x = call[c]
  BY DEF ServerInv, LifetimeInv, LifetimeTypeOK
<1>3. Moves(c, x)
  BY <1>1, <1>2 DEF Moves, ServerInv, LifetimeInv, LifetimeTypeOK
<1>4. LifetimeInv'
  BY StepKeepsLifetimeInv, <1>1 DEF ServerInv, lifeVars
<1>5. ServerShape'
  BY DEF ServerInv, ServerShape
<1> QED
  BY <1>1, <1>2, <1>3, <1>4, <1>5, SocketMoves

LEMMA SocketStepKeeps ==
    ASSUME ServerInv, NEW c \in Caller, SocketStep(c) \/ Leave(c)
    PROVE  ServerInv'
<1>1. CASE Depart(c)
  BY <1>1, GivingBackKeeps DEF Depart, Set, Pending
<1>2. CASE TurnAway(c)
  BY <1>2, GivingBackKeeps DEF TurnAway, Set, Pending
<1>3. CASE Closed(c)
  BY <1>3, GivingBackKeeps DEF Closed, Set, Pending
<1>4. CASE Leave(c)
  <2>1. /\ socket[c] = "joined" /\ socket' = [socket EXCEPT ![c] = "closing"]
        /\ UNCHANGED <<lifeVars, pendingRooms, activeRooms, loader, lost, bindings,
                       recoveringRooms, recovering, request>>
        /\ call' = call /\ stopped' = stopped
    BY <1>4 DEF Leave, Set, lifeVars
  <2>2. PendingIsCounted'
    BY <2>1, PendingStays DEF ServerInv, ServerShape, Pending
  <2>3. SocketInv(c)'
    BY <2>1 DEF ServerInv, ServerShape, SocketInv
  <2> QED
    BY <2>1, <2>2, <2>3, SocketChangeKeeps DEF Socket, ServerInv, ServerShape
<1>5. CASE Join(c) \/ Reject(c)
  <2>1. PICK s \in {"joined", "none"} :
           /\ socket' = [socket EXCEPT ![c] = s] /\ socket[c] \in Pending
           /\ s = "joined" => call[c].at = "held" /\ ~stopped
           /\ s = "none" => call[c].at = "idle"
           /\ pendingRooms' = [pendingRooms EXCEPT ![call[c].room] = @ - 1]
           /\ UNCHANGED <<lifeVars, activeRooms, loader, lost, bindings,
                          recoveringRooms, recovering, request>>
           /\ call' = call /\ stopped' = stopped
    BY <1>5 DEF Join, Reject, Set, lifeVars, Pending
  <2>2. /\ socket'[c] = s /\ call'[c] = call[c]
        /\ \A d \in Caller \ {c} : socket'[d] = socket[d] /\ call'[d] = call[d]
    BY <2>1 DEF ServerInv, ServerShape
  <2>3. PendingIsCounted' /\ pendingRooms' \in [Room -> Nat]
    <3>1. call[c].room \in Room /\ socket'[c] \notin Pending /\ socket[c] \in Pending
      BY <2>1, <2>2, CallsAreTyped DEF ServerInv, LifetimeInv, Pending
    <3> QED
      BY <2>1, <2>2, <3>1, PendingFalls DEF ServerInv
  <2>4. SocketInv(c)'
    BY <2>1, <2>2 DEF SocketInv
  <2>5. s \in Socket /\ socket[c] # "none"
    BY <2>1 DEF Socket, Pending
  <2> QED
    BY <2>1, <2>3, <2>4, <2>5, SocketChangeKeeps
<1> QED
  BY <1>1, <1>2, <1>3, <1>4, <1>5, GetRoomKeeps, AwaitRoomKeeps DEF SocketStep

\* An upgrade for a diagram that is not reserved.
LEMMA UpgradeKeeps ==
    ASSUME ServerInv, NEW c \in Caller, NEW id \in Room, Upgrade(c, id)
    PROVE  ServerInv'
<1>1. /\ socket[c] = "none" /\ call[c].at = "idle" /\ id \notin recoveringRooms
      /\ socket' = [socket EXCEPT ![c] = "authorizing"]
      /\ Wait(c, "idle", id, NoEntry)
      /\ pendingRooms' = [pendingRooms EXCEPT ![id] = @ + 1]
      /\ UNCHANGED <<entries, home, value, leases, retiring, stopped, activeRooms,
                     loader, lost, bindings, recoveringRooms, recovering, request>>
  BY DEF Upgrade, Set
<1>2. LifetimeInv'
  BY <1>1, GoIdleKeepsInv DEF ServerInv
<1>3. /\ socket'[c] = "authorizing" /\ call'[c].room = id /\ call'[c].at = "idle"
      /\ \A d \in Caller \ {c} : socket'[d] = socket[d] /\ call'[d] = call[d]
  BY <1>1 DEF Wait, ServerInv, ServerShape, LifetimeInv, LifetimeTypeOK
<1>4. PendingIsCounted'
  <2>1. socket[c] \notin Pending /\ socket'[c] \in Pending
    BY <1>1, <1>3 DEF Pending
  <2> QED
    BY <1>1, <1>3, <2>1, PendingRises DEF ServerInv
<1>5. ServerShape'
  <2>1. pendingRooms' \in [Room -> Nat]
    BY <1>1 DEF ServerInv, ServerShape
  <2> QED
    BY <1>1, <2>1 DEF ServerInv, ServerShape, Socket, Pending
<1>6. ASSUME NEW d \in Caller PROVE SocketInv(d)'
  <2>1. SocketInv(d)
    BY DEF ServerInv
  <2> QED
    BY <2>1, <1>1, <1>3 DEF SocketInv
<1>7. ASSUME NEW e \in Entry, value[e] = "loading" PROVE Awaited(e)'
  <2>1. PICK d \in Caller : call[d].entry = e /\ call[d].at = "loading"
    BY <1>7 DEF ServerInv, RoomInv, Awaited
  <2>2. call'[d] = call[d]
    BY <1>1, <1>3, <2>1
  <2> QED
    BY <2>1, <2>2 DEF Awaited
<1>8. Tables'
  BY <1>1, <1>7, TablesStay
<1>9. RecoveryIsIdle'
  BY <1>1, <1>3 DEF ServerInv, RecoveryIsIdle
<1>10. RequestInv'
  BY <1>1, RequestsStay DEF ServerInv
<1> QED
  BY <1>2, <1>4, <1>5, <1>6, <1>8, <1>9, <1>10 DEF ServerInv, Tables

\* LoseLease and StopServer close the sockets of some rooms.
LEMMA ClosingKeeps ==
    ASSUME ServerInv, LifetimeInv',
           UNCHANGED <<home, value, call, pendingRooms, activeRooms, loader, bindings,
                       recoveringRooms, recovering, request>>,
           \A e \in Entry : retiring'[e] = retiring[e] \/ (retiring[e] = "no" /\ retiring'[e] = "waiting"),
           lost' \in [Entry -> BOOLEAN], socket' \in [Caller -> Socket],
           \A c \in Caller : /\ socket'[c] = socket[c] \/ (socket[c] = "joined" /\ socket'[c] = "closing")
                             /\ socket'[c] = "joined" => ~stopped'
    PROVE  ServerInv'
<1>1. ServerShape'
  BY DEF ServerInv, ServerShape
<1>2. PendingIsCounted'
  BY PendingStays DEF ServerInv, Pending
<1>3. ASSUME NEW c \in Caller PROVE SocketInv(c)'
  BY DEF ServerInv, SocketInv
<1>4. \A e \in Entry : value[e] = "loading" => Awaited(e)'
  BY DEF ServerInv, RoomInv, Awaited
<1>5. Tables'
  BY <1>4, TablesStay
<1>6. RecoveryIsIdle'
  BY RecoveryStaysIdle DEF ServerInv
<1>7. RequestInv'
  BY RequestsStay DEF ServerInv
<1> QED
  BY <1>1, <1>2, <1>3, <1>5, <1>6, <1>7 DEF ServerInv, Tables

LEMMA LoseLeaseKeeps ==
    ASSUME ServerInv, NEW e \in Entry, LoseLease(e)
    PROVE  ServerInv'
<1>1. /\ lost' = [lost EXCEPT ![e] = TRUE]
      /\ socket' = [c \in Caller |-> IF c \in Members(e) THEN "closing" ELSE socket[c]]
      /\ UNCHANGED <<entries, home, value, leases, retiring, call, stopped, pendingRooms, activeRooms,
                     loader, bindings, recoveringRooms, recovering, request>>
  BY DEF LoseLease, lifeVars
<1>2. LifetimeInv'
  BY <1>1, StepKeepsLifetimeInv DEF ServerInv, lifeVars
<1>3. lost' \in [Entry -> BOOLEAN] /\ socket' \in [Caller -> Socket]
  BY <1>1 DEF ServerInv, ServerShape, Socket
<1>4. ASSUME NEW c \in Caller
      PROVE  /\ socket'[c] = socket[c] \/ (socket[c] = "joined" /\ socket'[c] = "closing")
             /\ socket'[c] = "joined" => ~stopped'
  BY <1>1 DEF Members, ServerInv, SocketInv
<1> QED
  BY <1>1, <1>2, <1>3, <1>4, ClosingKeeps

LEMMA StopServerKeeps ==
    ASSUME ServerInv, StopServer
    PROVE  ServerInv'
<1>1. /\ Stop /\ socket' = [c \in Caller |-> IF socket[c] = "joined" THEN "closing" ELSE socket[c]]
      /\ UNCHANGED <<home, value, call, pendingRooms, activeRooms, loader, lost, bindings,
                     recoveringRooms, recovering, request>>
  BY DEF StopServer, Stop
<1>2. LifetimeInv'
  BY <1>1, StopKeepsInv DEF ServerInv
<1>3. \A e \in Entry : retiring'[e] = retiring[e] \/ (retiring[e] = "no" /\ retiring'[e] = "waiting")
  BY <1>1 DEF Stop, Retire
<1>4. lost' \in [Entry -> BOOLEAN] /\ socket' \in [Caller -> Socket]
  BY <1>1 DEF ServerInv, ServerShape, Socket
<1>5. ASSUME NEW c \in Caller
      PROVE  /\ socket'[c] = socket[c] \/ (socket[c] = "joined" /\ socket'[c] = "closing")
             /\ socket'[c] # "joined"
  BY <1>1
<1> QED
  BY <1>1, <1>2, <1>3, <1>4, <1>5, ClosingKeeps

-----------------------------------------------------------------------------
(* The steps of a room                                                      *)

\* A room moves on: its entry changes, the tables in what they say of it.
LEMMA RoomMoves ==
    ASSUME ServerInv, NEW e \in Entry, LifetimeInv',
           UNCHANGED <<home, call, stopped, socket, pendingRooms, lost, recoveringRooms, recovering, request>>,
           \A f \in Entry \ {e} : value'[f] = value[f] /\ retiring'[f] = retiring[f] /\ loader'[f] = loader[f],
           value'[e] = "loading" => value[e] = "loading",
           loader' \in [Entry -> Loader],
           bindings' \in [Room -> 0..MaxEntry], activeRooms' \in [Room -> 0..MaxEntry],
           \A id \in Room \ {home[e]} : bindings'[id] = bindings[id] /\ activeRooms'[id] = activeRooms[id],
           \A f \in Entry \ {e} : Holding(f) => home[f] # home[e] \/ bindings'[home[e]] = f,
           \A f \in Entry \ {e} : loader[f] = "open" => home[f] # home[e] \/ activeRooms'[home[e]] = f,
           activeRooms'[home[e]] # NoEntry => value[e] = "loading" \/ activeRooms[home[e]] # NoEntry,
           RoomInv(e)', TableInv(home[e])'
    PROVE  ServerInv'
<1>1. ServerShape'
  BY DEF ServerInv, ServerShape
<1>2. PendingIsCounted'
  BY PendingStays DEF ServerInv
<1>3. ASSUME NEW c \in Caller PROVE SocketInv(c)'
  BY DEF ServerInv, SocketInv
<1>4. ASSUME NEW f \in Entry, f # e PROVE RoomInv(f)'
  <2>1. RoomInv(f)
    BY DEF ServerInv
  <2>2. home'[f] = home[f] /\ value'[f] = value[f] /\ retiring'[f] = retiring[f] /\ loader'[f] = loader[f]
    BY <1>4
  <2>3. (InMemory(f)' <=> InMemory(f)) /\ (Awaited(f)' <=> Awaited(f))
    BY <2>2 DEF InMemory, Awaited
  <2>4. home[f] \in Room
    BY DEF ServerInv, LifetimeInv, LifetimeTypeOK
  <2>5. Holding(f)' => bindings'[home[f]] = f
    BY <2>1, <2>2, <2>4, <1>4 DEF RoomInv, Holding
  <2>6. loader'[f] = "open" => activeRooms'[home[f]] = f
    BY <2>1, <2>2, <2>4, <1>4 DEF RoomInv
  <2> QED
    BY <2>1, <2>2, <2>3, <2>5, <2>6 DEF RoomInv, Holding
<1>5. ASSUME NEW id \in Room, id # home[e] PROVE TableInv(id)'
  <2>1. TableInv(id) /\ bindings'[id] = bindings[id] /\ activeRooms'[id] = activeRooms[id]
    BY <1>5 DEF ServerInv
  <2>2. bindings[id] \in 0..MaxEntry /\ activeRooms[id] \in 0..MaxEntry
    BY DEF ServerInv, ServerShape
  <2>3. bindings[id] # NoEntry => bindings[id] \in Entry \ {e}
    BY <2>1, <2>2, <1>5 DEF TableInv, Entry, NoEntry
  <2>4. activeRooms[id] # NoEntry => activeRooms[id] \in Entry \ {e}
    BY <2>1, <2>2, <1>5 DEF TableInv, Entry, NoEntry
  <2> QED
    BY <2>1, <2>3, <2>4 DEF TableInv, Holding
<1>6. RecoveryIsIdle'
  <2>1. ASSUME NEW id \in recoveringRooms PROVE activeRooms'[id] = NoEntry
    <3>1. id \in Room /\ activeRooms[id] = NoEntry
      BY DEF ServerInv, ServerShape, RecoveryIsIdle
    <3>2. CASE id # home[e]
      BY <3>1, <3>2
    <3>3. CASE id = home[e]
      BY <3>1, <3>3 DEF ServerInv, RecoveryIsIdle
    <3> QED
      BY <3>2, <3>3
  <2>2. \A f \in Entry : value'[f] = "loading" => value[f] = "loading"
    OBVIOUS
  <2> QED
    BY <2>1, <2>2 DEF ServerInv, RecoveryIsIdle
<1>7. RequestInv'
  BY RequestsStay DEF ServerInv
<1> QED
  BY <1>1, <1>2, <1>3, <1>4, <1>5, <1>6, <1>7 DEF ServerInv

\* What is known of a room before it moves.
LEMMA RoomFacts ==
    ASSUME ServerInv, NEW e \in Entry
    PROVE  /\ home[e] \in Room /\ RoomInv(e) /\ TableInv(home[e])
           /\ home \in [Entry -> Room] /\ value \in [Entry -> Value] /\ retiring \in [Entry -> Retiring]
           /\ loader \in [Entry -> Loader]
           /\ bindings \in [Room -> 0..MaxEntry] /\ activeRooms \in [Room -> 0..MaxEntry]
           /\ e \in 0..MaxEntry /\ e # NoEntry /\ NoEntry \in 0..MaxEntry
BY LifetimeAssumption DEF ServerInv, ServerShape, LifetimeInv, LifetimeTypeOK, Entry, NoEntry

LEMMA ClaimRoomKeeps ==
    ASSUME ServerInv, NEW e \in Entry, ClaimRoom(e)
    PROVE  ServerInv'
<1>1. /\ value[e] = "loading" /\ loader[e] = "start" /\ bindings[home[e]] = NoEntry
      /\ bindings' = [bindings EXCEPT ![home[e]] = e] /\ loader' = [loader EXCEPT ![e] = "claimed"]
      /\ UNCHANGED <<entries, home, value, leases, retiring, call, stopped, socket, pendingRooms,
                     activeRooms, lost, recoveringRooms, recovering, request>>
  BY DEF ClaimRoom, Admissible, Advance, lifeVars
<1>2. LifetimeInv'
  BY <1>1, StepKeepsLifetimeInv DEF ServerInv, lifeVars
<1>3. loader'[e] = "claimed" /\ bindings'[home[e]] = e /\ loader' \in [Entry -> Loader]
      /\ bindings' \in [Room -> 0..MaxEntry]
      /\ (\A f \in Entry \ {e} : loader'[f] = loader[f])
      /\ (\A id \in Room \ {home[e]} : bindings'[id] = bindings[id])
  BY <1>1, RoomFacts DEF Loader
<1>4. \A f \in Entry \ {e} : Holding(f) => home[f] # home[e]
  BY <1>1, RoomFacts DEF RoomInv
<1>5. RoomInv(e)'
  <2>1. RoomInv(e) /\ (Awaited(e)' <=> Awaited(e))
    BY <1>1, RoomFacts DEF Awaited
  <2> QED
    BY <2>1, <1>1, <1>3 DEF RoomInv, Holding, InMemory
<1>6. activeRooms[home[e]] # NoEntry => activeRooms[home[e]] \in Entry \ {e}
  BY <1>1, RoomFacts DEF TableInv, Entry
<1>7. TableInv(home[e])'
  BY <1>1, <1>3, <1>6, RoomFacts DEF TableInv, Holding
<1> QED
  BY <1>1, <1>2, <1>3, <1>4, <1>5, <1>7, RoomMoves, RoomFacts DEF Holding

LEMMA OpenRoomKeeps ==
    ASSUME ServerInv, NEW e \in Entry, OpenRoom(e)
    PROVE  ServerInv'
<1>1. /\ value[e] = "loading" /\ loader[e] = "claimed"
      /\ activeRooms' = [activeRooms EXCEPT ![home[e]] = e] /\ loader' = [loader EXCEPT ![e] = "open"]
      /\ UNCHANGED <<entries, home, value, leases, retiring, call, stopped, socket, pendingRooms,
                     bindings, lost, recoveringRooms, recovering, request>>
  BY DEF OpenRoom, Advance, lifeVars
<1>2. LifetimeInv'
  BY <1>1, StepKeepsLifetimeInv DEF ServerInv, lifeVars
<1>3. loader'[e] = "open" /\ activeRooms'[home[e]] = e /\ loader' \in [Entry -> Loader]
      /\ activeRooms' \in [Room -> 0..MaxEntry]
      /\ (\A f \in Entry \ {e} : loader'[f] = loader[f])
      /\ (\A id \in Room \ {home[e]} : activeRooms'[id] = activeRooms[id])
  BY <1>1, RoomFacts DEF Loader
<1>4. bindings[home[e]] = e /\ InMemory(e)
  BY <1>1, RoomFacts DEF RoomInv, Holding
<1>5. \A f \in Entry \ {e} : Holding(f) => home[f] # home[e]
  BY <1>4, HoldingAlone
<1>6. RoomInv(e)'
  <2>1. RoomInv(e) /\ (Awaited(e)' <=> Awaited(e))
    BY <1>1, RoomFacts DEF Awaited
  <2> QED
    BY <2>1, <1>1, <1>3 DEF RoomInv, Holding, InMemory
<1>7. TableInv(home[e])'
  BY <1>1, <1>3, <1>4, RoomFacts DEF TableInv, Holding
<1> QED
  BY <1>1, <1>2, <1>3, <1>5, <1>6, <1>7, RoomMoves, RoomFacts DEF Holding

\* A loaded room, a disposal that starts or one that had nothing to do: the tables
\* stay as they are.
LEMMA QuietRoomKeeps ==
    ASSUME ServerInv, NEW e \in Entry, UNCHANGED serverVars,
           \/ loader[e] = "open" /\ LoadEnds(e, "loaded")
           \/ Dispose(e)
           \/ retiring[e] = "waiting" /\ Disposed(e, "failed")
    PROVE  ServerInv'
<1>1. UNCHANGED <<home, call, stopped, socket, pendingRooms, activeRooms, loader, bindings, lost,
                  recoveringRooms, recovering, request>>
  BY DEF LoadEnds, Dispose, Disposed, serverVars
<1>2. LifetimeInv'
  BY LoadEndsKeepsInv, DisposeKeepsInv, DisposedKeepsInv DEF ServerInv
<1>3. /\ \A f \in Entry \ {e} : value'[f] = value[f] /\ retiring'[f] = retiring[f]
      /\ value'[e] = "loading" => value[e] = "loading"
  BY RoomFacts DEF LoadEnds, Dispose, Disposed
<1>4. /\ RoomInv(e)' /\ (Holding(e)' <=> Holding(e)) /\ (loader'[e] = "open" <=> loader[e] = "open")
  <2>1. RoomInv(e)
    BY RoomFacts
  <2>2. CASE loader[e] = "open" /\ LoadEnds(e, "loaded")
    <3>1. value[e] = "loading" /\ value'[e] = "loaded" /\ retiring'[e] = retiring[e]
      BY <2>2, RoomFacts DEF LoadEnds
    <3> QED
      BY <1>1, <2>1, <2>2, <3>1 DEF RoomInv, Holding, InMemory
  <2>3. CASE Dispose(e)
    <3>1. /\ retiring[e] = "waiting" /\ value[e] = "loaded"
          /\ retiring'[e] = "disposing" /\ value'[e] = value[e]
      BY <2>3, RoomFacts DEF Dispose
    <3> QED
      BY <1>1, <2>1, <3>1 DEF RoomInv, Holding, InMemory
  <2>4. CASE retiring[e] = "waiting" /\ Disposed(e, "failed")
    <3>1. /\ value[e] = "failed" /\ retiring[e] = "waiting"
          /\ retiring'[e] = "failed" /\ value'[e] = value[e]
      BY <2>4, RoomFacts DEF Disposed
    <3> QED
      BY <1>1, <2>1, <3>1 DEF RoomInv, Holding, InMemory
  <2> QED
    BY <2>2, <2>3, <2>4
<1>5. TableInv(home[e])'
  BY <1>1, RoomFacts DEF TableInv, Holding
<1>6. \A f \in Entry \ {e} : /\ Holding(f) => home[f] # home[e] \/ bindings[home[e]] = f
                             /\ loader[f] = "open" => home[f] # home[e] \/ activeRooms[home[e]] = f
  BY RoomFacts DEF RoomInv
<1> QED
  BY <1>1, <1>2, <1>3, <1>4, <1>5, <1>6, RoomMoves, RoomFacts DEF Holding

\* The room leaves activeRooms before its lease is closed.
LEMMA ClosingRoomKeeps ==
    ASSUME ServerInv, NEW e \in Entry, loader[e] \in {"claimed", "open"},
           loader' = [loader EXCEPT ![e] = "closing"],
           value[e] = "loading" \/ retiring[e] = "disposing",
           activeRooms' = [activeRooms EXCEPT ![home[e]] = NoEntry],
           UNCHANGED <<lifeVars, socket, pendingRooms, lost, bindings, recoveringRooms, recovering, request>>
    PROVE  ServerInv'
<1>1. UNCHANGED <<entries, home, value, leases, retiring, call, stopped>>
  BY DEF lifeVars
<1>2. LifetimeInv'
  BY StepKeepsLifetimeInv DEF ServerInv
<1>3. loader'[e] = "closing" /\ activeRooms'[home[e]] = NoEntry /\ loader' \in [Entry -> Loader]
      /\ activeRooms' \in [Room -> 0..MaxEntry]
      /\ (\A f \in Entry \ {e} : loader'[f] = loader[f])
      /\ (\A id \in Room \ {home[e]} : activeRooms'[id] = activeRooms[id])
  BY RoomFacts DEF Loader
<1>4. bindings[home[e]] = e
  BY RoomFacts DEF RoomInv, Holding
<1>5. \A f \in Entry \ {e} : Holding(f) => home[f] # home[e]
  BY HoldingAlone DEF Holding
<1>6. RoomInv(e)'
  <2>1. RoomInv(e) /\ (Awaited(e)' <=> Awaited(e))
    BY <1>1, RoomFacts DEF Awaited
  <2> QED
    BY <2>1, <1>1, <1>3 DEF RoomInv, Holding, InMemory
<1>7. TableInv(home[e])'
  BY <1>1, <1>3, <1>4, RoomFacts DEF TableInv, Holding
<1> QED
  BY <1>1, <1>2, <1>3, <1>5, <1>6, <1>7, RoomMoves, RoomFacts DEF Holding

LEMMA LeaseClosedKeeps ==
    ASSUME ServerInv, NEW e \in Entry, LeaseClosed(e)
    PROVE  ServerInv'
<1>1. /\ loader[e] = "closing" /\ loader' = [loader EXCEPT ![e] = "closed"]
      /\ bindings' = [bindings EXCEPT ![home[e]] = NoEntry]
      /\ UNCHANGED <<home, call, stopped, socket, pendingRooms, activeRooms, lost,
                     recoveringRooms, recovering, request>>
  BY DEF LeaseClosed, Advance, LoadEnds, Disposed
<1>2. LifetimeInv'
  BY LoadEndsKeepsInv, DisposedKeepsInv DEF LeaseClosed, ServerInv
<1>3. loader'[e] = "closed" /\ bindings'[home[e]] = NoEntry /\ loader' \in [Entry -> Loader]
      /\ bindings' \in [Room -> 0..MaxEntry]
      /\ (\A f \in Entry \ {e} : loader'[f] = loader[f])
      /\ (\A id \in Room \ {home[e]} : bindings'[id] = bindings[id])
  BY <1>1, RoomFacts DEF Loader
<1>4. \A f \in Entry \ {e} : Holding(f) => home[f] # home[e]
  BY <1>1, HoldingAlone DEF Holding
<1>5. RoomInv(e) /\ InMemory(e)
  BY <1>1, RoomFacts DEF RoomInv, Holding
<1>6. /\ value'[e] # "loading" /\ retiring'[e] # "disposing"
      /\ value'[e] = "loaded" => retiring'[e] \in {"done", "failed"}
  <2>1. CASE LoadEnds(e, "failed")
    <3>1. value[e] = "loading" /\ value'[e] = "failed" /\ retiring'[e] = retiring[e]
      BY <2>1, RoomFacts DEF LoadEnds
    <3> QED
      BY <3>1, <1>5 DEF RoomInv
  <2>2. ASSUME NEW outcome \in {"done", "failed"}, Disposed(e, outcome)
        PROVE  /\ value'[e] # "loading" /\ retiring'[e] \in {"done", "failed"}
    <3>1. /\ retiring[e] = "disposing" \/ value[e] = "failed"
          /\ retiring'[e] = outcome /\ value'[e] = value[e]
      BY <2>2, RoomFacts DEF Disposed
    <3> QED
      BY <3>1, <1>5 DEF RoomInv
  <2> QED
    BY <2>1, <2>2 DEF LeaseClosed
<1>7. RoomInv(e)'
  BY <1>3, <1>6 DEF RoomInv, Holding
<1>8. TableInv(home[e])'
  BY <1>1, <1>3, RoomFacts DEF TableInv, Holding
<1>9. \A f \in Entry \ {e} : value'[f] = value[f] /\ retiring'[f] = retiring[f]
  BY RoomFacts DEF LeaseClosed, LoadEnds, Disposed
<1> QED
  BY <1>1, <1>2, <1>3, <1>4, <1>6, <1>7, <1>8, <1>9, RoomMoves, RoomFacts DEF Holding

\* A loader that fails before it has a lease.
LEMMA LoaderGivesUpKeeps ==
    ASSUME ServerInv, NEW e \in Entry, loader[e] = "start", LoadEnds(e, "failed"),
           loader' = [loader EXCEPT ![e] = "closed"],
           UNCHANGED <<socket, pendingRooms, activeRooms, lost, bindings, recoveringRooms, recovering, request>>
    PROVE  ServerInv'
<1>1. /\ UNCHANGED <<home, call, stopped>> /\ value[e] = "loading"
      /\ value'[e] = "failed" /\ retiring'[e] = retiring[e]
      /\ \A f \in Entry \ {e} : value'[f] = value[f] /\ retiring'[f] = retiring[f]
  BY RoomFacts DEF LoadEnds
<1>2. LifetimeInv'
  BY LoadEndsKeepsInv DEF ServerInv
<1>3. loader'[e] = "closed" /\ loader' \in [Entry -> Loader]
      /\ (\A f \in Entry \ {e} : loader'[f] = loader[f])
  BY RoomFacts DEF Loader
<1>4. RoomInv(e)'
  BY <1>1, <1>3, RoomFacts DEF RoomInv, Holding
<1>5. bindings[home[e]] # e /\ activeRooms[home[e]] # e
  BY RoomFacts DEF TableInv, Holding
<1>6. TableInv(home[e])'
  <2>1. bindings[home[e]] # NoEntry => bindings[home[e]] \in Entry \ {e}
    BY <1>5, RoomFacts DEF Entry, NoEntry
  <2>2. activeRooms[home[e]] # NoEntry => activeRooms[home[e]] \in Entry \ {e}
    BY <1>5, RoomFacts DEF Entry, NoEntry
  <2> QED
    BY <1>1, <1>3, <2>1, <2>2, RoomFacts DEF TableInv, Holding
<1>7. \A f \in Entry \ {e} : /\ Holding(f) => home[f] # home[e] \/ bindings[home[e]] = f
                             /\ loader[f] = "open" => home[f] # home[e] \/ activeRooms[home[e]] = f
  BY RoomFacts DEF RoomInv
<1> QED
  BY <1>1, <1>2, <1>3, <1>4, <1>6, <1>7, RoomMoves, RoomFacts DEF Holding

LEMMA RoomStepKeeps ==
    ASSUME ServerInv, NEW e \in Entry, RoomStep(e)
    PROVE  ServerInv'
<1>1. CASE LoaderFails(e)
  <2>1. CASE loader[e] = "start"
    BY <1>1, <2>1, LoaderGivesUpKeeps DEF LoaderFails, Advance
  <2>2. CASE loader[e] # "start"
    BY <1>1, <2>2, ClosingRoomKeeps DEF LoaderFails, Advance
  <2> QED
    BY <2>1, <2>2
<1>2. CASE Drained(e)
  <2>1. \A id \in Room : activeRooms[id] = e <=> id = home[e]
    BY <1>2, RoomFacts DEF Drained, RoomInv, ServerInv, TableInv, NoEntry
  <2>2. activeRooms' = [activeRooms EXCEPT ![home[e]] = NoEntry]
    BY <1>2, <2>1, RoomFacts DEF Drained, ClearActive
  <2> QED
    BY <1>2, <2>2, ClosingRoomKeeps DEF Drained, Advance
<1>3. CASE RoomLoaded(e) \/ StartDisposal(e) \/ NothingToDispose(e)
  BY <1>3, QuietRoomKeeps DEF RoomLoaded, StartDisposal, NothingToDispose
<1> QED
  BY <1>1, <1>2, <1>3, ClaimRoomKeeps, OpenRoomKeeps, LeaseClosedKeeps DEF RoomStep

-----------------------------------------------------------------------------
(* The steps of a recovery request                                          *)

\* A request changes nothing of the rooms and the sockets.
LEMMA RequestMoves ==
    ASSUME ServerInv, RequestInv', RecoveryIsIdle', request' \in [Owner -> Request],
           recoveringRooms' \subseteq Room,
           UNCHANGED <<lifeVars, socket, pendingRooms, activeRooms, loader, lost, bindings>>
    PROVE  ServerInv'
<1>1. UNCHANGED <<entries, home, value, leases, retiring, call, stopped>>
  BY DEF lifeVars
<1>2. LifetimeInv'
  BY StepKeepsLifetimeInv DEF ServerInv
<1>3. ServerShape' /\ PendingIsCounted'
  BY <1>1, PendingStays DEF ServerInv, ServerShape
<1>4. \A c \in Caller : SocketInv(c)'
  BY <1>1 DEF ServerInv, SocketInv
<1>5. \A e \in Entry : value[e] = "loading" => Awaited(e)'
  BY <1>1 DEF ServerInv, RoomInv, Awaited
<1>6. Tables'
  BY <1>1, <1>5, TablesStay
<1> QED
  BY <1>2, <1>3, <1>4, <1>6 DEF ServerInv, Tables

\* A diagram without an active room and without an upgrade has nobody here.
LEMMA ReservableIsIdle ==
    ASSUME ServerInv, NEW id \in Room, Reservable(id)
    PROVE  /\ \A c \in Caller : call[c].room = id => socket[c] = "none"
           /\ \A e \in Entry : home[e] = id => value[e] # "loading"
<1>1. ~stopped /\ activeRooms[id] = NoEntry /\ pendingRooms[id] = 0
  BY DEF Reservable
<1>2. UpgradesOf(id) = {}
  BY <1>1, UpgradesAreFinite, FS_EmptySet DEF ServerInv, PendingIsCounted
<1>3. ASSUME NEW c \in Caller, call[c].room = id PROVE socket[c] = "none"
  <2>1. socket[c] \in Socket /\ socket[c] \notin Pending
    BY <1>2, <1>3 DEF UpgradesOf, ServerInv, ServerShape
  <2>2. ASSUME socket[c] \in {"joined", "closing"} PROVE FALSE
    <3>1. call[c].at = "held"
      BY <2>2 DEF ServerInv, SocketInv
    <3>2. call[c].entry \in Entry /\ activeRooms[id] = call[c].entry
      BY <1>1, <1>3, <3>1, HeldIsActive
    <3> QED
      BY <1>1, <3>2 DEF Entry, NoEntry
  <2> QED
    BY <2>1, <2>2 DEF Socket
<1>4. ASSUME NEW e \in Entry, home[e] = id, value[e] = "loading" PROVE FALSE
  <2>1. PICK c \in Caller : call[c].entry = e /\ call[c].at = "loading"
    BY <1>4 DEF ServerInv, RoomInv, Awaited
  <2>2. call[c].room = id /\ socket[c] = "acquiring"
    BY <1>4, <2>1 DEF ServerInv, SocketInv, LifetimeInv, CallInv
  <2> QED
    BY <1>3, <2>2
<1> QED
  BY <1>3, <1>4

\* The request of o after it has moved to a stage.
LEMMA RequestAfter ==
    ASSUME ServerInv, NEW o \in Owner, NEW at \in {"none", "reserved", "recovering"},
           request' = [request EXCEPT ![o].at = at]
    PROVE  /\ request' \in [Owner -> Request]
           /\ request'[o].at = at /\ request'[o].room = request[o].room /\ request[o].room \in Room
           /\ \A p \in Owner \ {o} : request'[p] = request[p]
BY DEF ServerInv, ServerShape, Request

LEMMA ReserveKeeps ==
    ASSUME ServerInv, NEW o \in Owner, ReserveIdleRoom(o)
    PROVE  ServerInv'
<1>0. PICK id \in Room : id = request[o].room
  BY DEF ServerInv, ServerShape, Request
<1>1. /\ Reservable(id) /\ request[o].at = "authorizing"
      /\ recoveringRooms' = recoveringRooms \cup {id}
      /\ request' = [request EXCEPT ![o].at = "reserved"]
      /\ UNCHANGED <<lifeVars, socket, pendingRooms, activeRooms, loader, lost, bindings, recovering>>
      /\ UNCHANGED <<call, home, value>>
  BY <1>0 DEF ReserveIdleRoom, lifeVars
<1>2. /\ request' \in [Owner -> Request]
      /\ request'[o].at = "reserved" /\ request'[o].room = id
      /\ \A p \in Owner \ {o} : request'[p] = request[p]
  BY <1>0, <1>1, RequestAfter
<1>3. RecoveryIsIdle'
  BY <1>1, ReservableIsIdle DEF ServerInv, RecoveryIsIdle, Reservable
<1>4. RequestInv'
  <2>1. id \notin recoveringRooms
    BY <1>1 DEF Reservable
  <2>2. \A p \in Owner : Reserved(p)' /\ p # o => Reserved(p) /\ request'[p].room = request[p].room
    BY <1>2 DEF Reserved
  <2>3. \A p \in Owner : Reserved(p)' => request'[p].room \in recoveringRooms'
    BY <1>1, <1>2, <2>2 DEF ServerInv, RequestInv
  <2>4. \A p, q \in Owner : Reserved(p)' /\ Reserved(q)' /\ request'[p].room = request'[q].room => p = q
    BY <1>2, <2>1, <2>2 DEF ServerInv, RequestInv
  <2>5. \A jd \in recovering' : \E p \in Owner : request'[p].at = "recovering" /\ request'[p].room = jd
    <3>1. SUFFICES ASSUME NEW jd \in recovering
                   PROVE  \E p \in Owner : request'[p].at = "recovering" /\ request'[p].room = jd
      BY <1>1
    <3>2. PICK p \in Owner : request[p].at = "recovering" /\ request[p].room = jd
      BY DEF ServerInv, RequestInv
    <3> QED
      BY <1>1, <1>2, <3>2
  <2> QED
    BY <2>3, <2>4, <2>5 DEF RequestInv
<1> QED
  BY <1>1, <1>2, <1>3, <1>4, RequestMoves DEF ServerInv, ServerShape

LEMMA RecoverKeeps ==
    ASSUME ServerInv, NEW o \in Owner, RecoverCheckpoint(o)
    PROVE  ServerInv'
<1>0. PICK id \in Room : id = request[o].room
  BY DEF ServerInv, ServerShape, Request
<1>1. /\ request[o].at = "reserved" /\ recovering' = recovering \cup {id}
      /\ request' = [request EXCEPT ![o].at = "recovering"]
      /\ UNCHANGED <<lifeVars, socket, pendingRooms, activeRooms, loader, lost, bindings, recoveringRooms>>
      /\ UNCHANGED <<call, home, value>>
  BY <1>0 DEF RecoverCheckpoint, lifeVars
<1>2. /\ request' \in [Owner -> Request]
      /\ request'[o].at = "recovering" /\ request'[o].room = id
      /\ \A p \in Owner \ {o} : request'[p] = request[p]
  BY <1>0, <1>1, RequestAfter
<1>3. RecoveryIsIdle'
  BY <1>1 DEF ServerInv, RecoveryIsIdle
<1>4. RequestInv'
  <2>1. \A p \in Owner : (Reserved(p)' <=> Reserved(p)) /\ request'[p].room = request[p].room
    BY <1>0, <1>1, <1>2 DEF Reserved
  <2>2. \A jd \in recovering' : \E p \in Owner : request'[p].at = "recovering" /\ request'[p].room = jd
    <3>1. ASSUME NEW jd \in recovering
          PROVE  \E p \in Owner : request'[p].at = "recovering" /\ request'[p].room = jd
      <4>1. PICK p \in Owner : request[p].at = "recovering" /\ request[p].room = jd
        BY <3>1 DEF ServerInv, RequestInv
      <4> QED
        BY <1>1, <1>2, <4>1
    <3> QED
      BY <1>1, <1>2, <3>1
  <2> QED
    BY <1>1, <2>1, <2>2 DEF ServerInv, RequestInv
<1> QED
  BY <1>1, <1>2, <1>3, <1>4, RequestMoves DEF ServerInv, ServerShape

LEMMA EndRequestKeeps ==
    ASSUME ServerInv, NEW o \in Owner, EndRequest(o)
    PROVE  ServerInv'
<1>0. PICK id \in Room : id = request[o].room
  BY DEF ServerInv, ServerShape, Request
<1>1. /\ request[o].at \in {"authorizing", "reserved", "recovering"}
      /\ request' = [request EXCEPT ![o].at = "none"]
      /\ recoveringRooms' = IF request[o].at = "authorizing" THEN recoveringRooms ELSE recoveringRooms \ {id}
      /\ recovering' = IF request[o].at = "recovering" THEN recovering \ {id} ELSE recovering
      /\ UNCHANGED <<lifeVars, socket, pendingRooms, activeRooms, loader, lost, bindings>>
      /\ UNCHANGED <<call, home, value>>
  BY <1>0 DEF EndRequest, lifeVars, ServerInv, ServerShape, Request
<1>2. /\ request' \in [Owner -> Request]
      /\ request'[o].at = "none"
      /\ \A p \in Owner \ {o} : request'[p] = request[p]
  BY <1>0, <1>1, RequestAfter
<1>3. RecoveryIsIdle' /\ recoveringRooms' \subseteq Room
  BY <1>1 DEF ServerInv, ServerShape, RecoveryIsIdle
<1>4. RequestInv'
  <2>1. \A p \in Owner : Reserved(p)' => /\ p # o /\ Reserved(p) /\ request'[p].room = request[p].room
                                         /\ request'[p].at = request[p].at
    BY <1>2 DEF Reserved
  <2>2. \A p \in Owner : Reserved(p)' => request'[p].room \in recoveringRooms'
    <3>1. SUFFICES ASSUME NEW p \in Owner, Reserved(p)' PROVE request'[p].room \in recoveringRooms'
      OBVIOUS
    <3>2. p # o /\ Reserved(p) /\ request'[p].room = request[p].room /\ request[p].room \in recoveringRooms
      BY <2>1, <3>1 DEF ServerInv, RequestInv
    <3>3. request[o].at # "authorizing" => request[p].room # id
      BY <1>0, <1>1, <3>2 DEF ServerInv, RequestInv, Reserved
    <3> QED
      BY <1>1, <3>2, <3>3
  <2>3. \A p, q \in Owner : Reserved(p)' /\ Reserved(q)' /\ request'[p].room = request'[q].room => p = q
    BY <2>1 DEF ServerInv, RequestInv
  <2>4. \A jd \in recovering' : \E p \in Owner : request'[p].at = "recovering" /\ request'[p].room = jd
    <3>1. SUFFICES ASSUME NEW jd \in recovering'
                   PROVE  \E p \in Owner : request'[p].at = "recovering" /\ request'[p].room = jd
      OBVIOUS
    <3>2. jd \in recovering /\ (request[o].at = "recovering" => jd # id)
      BY <1>1
    <3>3. PICK p \in Owner : request[p].at = "recovering" /\ request[p].room = jd
      BY <3>2 DEF ServerInv, RequestInv
    <3>4. p # o
      BY <1>0, <3>2, <3>3
    <3> QED
      BY <1>2, <3>3, <3>4
  <2> QED
    BY <2>2, <2>3, <2>4 DEF RequestInv
<1> QED
  BY <1>1, <1>2, <1>3, <1>4, RequestMoves

LEMMA AskRecoveryKeeps ==
    ASSUME ServerInv, NEW o \in Owner, NEW id \in Room, AskRecovery(o, id)
    PROVE  ServerInv'
<1>1. /\ request[o].at = "none"
      /\ request' = [request EXCEPT ![o] = [at |-> "authorizing", room |-> id]]
      /\ UNCHANGED <<lifeVars, socket, pendingRooms, activeRooms, loader, lost, bindings, recoveringRooms>>
      /\ UNCHANGED <<call, home, value, recovering>>
  BY DEF AskRecovery, lifeVars
<1>2. /\ request' \in [Owner -> Request] /\ request'[o].at = "authorizing"
      /\ \A p \in Owner \ {o} : request'[p] = request[p]
  BY <1>1 DEF ServerInv, ServerShape, Request
<1>3. RecoveryIsIdle'
  BY <1>1 DEF ServerInv, RecoveryIsIdle
<1>4. RequestInv'
  <2>1. \A p \in Owner : Reserved(p)' => Reserved(p) /\ request'[p].room = request[p].room
    BY <1>2 DEF Reserved
  <2>2. \A jd \in recovering' : \E p \in Owner : request'[p].at = "recovering" /\ request'[p].room = jd
    <3>1. SUFFICES ASSUME NEW jd \in recovering
                   PROVE  \E p \in Owner : request'[p].at = "recovering" /\ request'[p].room = jd
      BY <1>1
    <3>2. PICK p \in Owner : request[p].at = "recovering" /\ request[p].room = jd
      BY DEF ServerInv, RequestInv
    <3> QED
      BY <1>1, <1>2, <3>2
  <2> QED
    BY <1>1, <2>1, <2>2 DEF ServerInv, RequestInv
<1> QED
  BY <1>1, <1>2, <1>3, <1>4, RequestMoves DEF ServerInv, ServerShape

-----------------------------------------------------------------------------
(* The invariant *)

LEMMA InitServerInv == ServerInit => ServerInv
<1> SUFFICES ASSUME ServerInit PROVE ServerInv
  OBVIOUS
<1>1. LifetimeInv
  BY InitLifetimeInv DEF ServerInit
<1>2. PICK id \in Room : request = [o \in Owner |-> [at |-> "none", room |-> id]]
  BY DEF ServerInit
<1>3. NoEntry \in 0..MaxEntry
  BY LifetimeAssumption DEF NoEntry
<1>4. ServerShape
  BY <1>2, <1>3 DEF ServerInit, ServerShape, Socket, Pending, Loader, Request
<1>5. PICK jd \in Room : call = [c \in Caller |-> [at |-> "idle", room |-> jd, entry |-> NoEntry]]
  BY DEF ServerInit, LifetimeInit
<1>6. PendingIsCounted
  <2>1. \A kd \in Room : UpgradesOf(kd) = {} /\ pendingRooms[kd] = 0
    BY DEF ServerInit, UpgradesOf, Pending
  <2> QED
    BY <2>1, FS_EmptySet DEF PendingIsCounted
<1>7. \A c \in Caller : SocketInv(c)
  BY <1>5 DEF ServerInit, SocketInv
<1>8. \A e \in Entry : RoomInv(e)
  BY DEF ServerInit, LifetimeInit, RoomInv, Holding
<1>9. \A kd \in Room : TableInv(kd)
  BY DEF ServerInit, TableInv
<1>10. RequestInv /\ RecoveryIsIdle
  BY <1>2 DEF ServerInit, RequestInv, Reserved, RecoveryIsIdle
<1> QED
  BY <1>1, <1>4, <1>6, <1>7, <1>8, <1>9, <1>10 DEF ServerInv

\* One case per action.
LEMMA StepKeepsServerInv == ServerInv /\ [ServerNext]_allVars => ServerInv'
<1> SUFFICES ASSUME ServerInv, [ServerNext]_allVars PROVE ServerInv'
  OBVIOUS
<1>1. CASE UNCHANGED allVars
  <2>1. UNCHANGED <<lifeVars, socket, pendingRooms, activeRooms, loader, lost, bindings, call, home, value>>
        /\ UNCHANGED <<recoveringRooms, recovering, request>>
    BY <1>1 DEF allVars, lifeVars, serverVars
  <2>2. RequestInv' /\ RecoveryIsIdle'
    BY <2>1, RequestsStay DEF ServerInv, RecoveryIsIdle
  <2> QED
    BY <2>1, <2>2, RequestMoves DEF ServerInv, ServerShape
<1>2. ASSUME NEW c \in Caller, SocketStep(c) \/ Leave(c) PROVE ServerInv'
  BY <1>2, SocketStepKeeps
<1>3. ASSUME NEW c \in Caller, NEW id \in Room, Upgrade(c, id) PROVE ServerInv'
  BY <1>3, UpgradeKeeps
<1>4. ASSUME NEW e \in Entry, RoomStep(e) \/ LoseLease(e) PROVE ServerInv'
  BY <1>4, RoomStepKeeps, LoseLeaseKeeps
<1>5. ASSUME NEW o \in Owner, ReserveIdleRoom(o) \/ RecoverCheckpoint(o) \/ EndRequest(o) PROVE ServerInv'
  BY <1>5, ReserveKeeps, RecoverKeeps, EndRequestKeeps
<1>6. ASSUME NEW o \in Owner, NEW id \in Room, AskRecovery(o, id) PROVE ServerInv'
  BY <1>6, AskRecoveryKeeps
<1> QED
  BY <1>1, <1>2, <1>3, <1>4, <1>5, <1>6, StopServerKeeps DEF ServerNext

-----------------------------------------------------------------------------

\* The rooms in memory, the maps of server.ts and the registry's bindings agree
\* after every step.
THEOREM ServerInvariant == ServerSpec => []ServerInv
BY InitServerInv, StepKeepsServerInv, PTL DEF ServerSpec

\* Inside the server, too, there is never a second copy of a diagram in memory.
THEOREM ServerHasOneRoom == ServerSpec => []OneRoomInMemory
<1>1. ServerInv => OneRoomInMemory
  BY DEF ServerInv, LifetimeInv
<1> QED
  BY <1>1, ServerInvariant, PTL

\* Until the server stops, the room a socket was let into is not retired under it.
THEOREM ServerKeepsHeldRooms == ServerSpec => []HeldRoomIsKept
<1>1. ServerInv => HeldRoomIsKept
  BY HeldIsKept DEF ServerInv
<1> QED
  BY <1>1, ServerInvariant, PTL

\* While a recovery has the diagram reserved, the process has no socket, no active
\* room and no loader of it: checking activeRooms and pendingRooms is enough.
THEOREM RecoveryMeetsNobody == ServerSpec => []RecoveryIsIdle
<1>1. ServerInv => RecoveryIsIdle
  BY DEF ServerInv
<1> QED
  BY <1>1, ServerInvariant, PTL

\* The registry refuses no loader of this process: whatever room of the diagram
\* was bound before has given its binding back, and no recovery runs.
THEOREM RegistryAdmitsEveryLoader == ServerSpec => []LoaderIsAdmissible
<1>1. ASSUME ServerInv, NEW e \in Entry, value[e] = "loading", loader[e] = "start"
      PROVE  Admissible(home[e])
  <2>1. RoomInv(e) /\ home[e] \in Room /\ TableInv(home[e]) /\ bindings[home[e]] \in 0..MaxEntry
    BY <1>1, RoomFacts
  <2>2. bindings[home[e]] = NoEntry
    <3>1. SUFFICES ASSUME bindings[home[e]] # NoEntry PROVE FALSE
      OBVIOUS
    <3>2. PICK f \in Entry : f = bindings[home[e]]
      BY <2>1, <3>1 DEF Entry, NoEntry
    <3>3. Holding(f) /\ home[f] = home[e] /\ InMemory(e)
      BY <1>1, <2>1, <3>1, <3>2 DEF TableInv, RoomInv, InMemory
    <3>4. f = e
      BY <1>1, <3>3, HoldingAlone
    <3> QED
      BY <1>1, <3>3, <3>4 DEF Holding
  <2>3. home[e] \notin recoveringRooms
    BY <1>1 DEF ServerInv, RecoveryIsIdle
  <2>4. home[e] \notin recovering
    BY <1>1, <2>3 DEF ServerInv, RequestInv, Reserved
  <2> QED
    BY <2>2, <2>4 DEF Admissible
<1>2. ServerInv => LoaderIsAdmissible
  BY <1>1 DEF LoaderIsAdmissible
<1> QED
  BY <1>2, ServerInvariant, PTL

\* The room by which allowed() judges a connection is the one it has joined.
THEOREM SocketsAreGuarded == ServerSpec => []SocketIsGuarded
<1>1. ASSUME ServerInv, NEW c \in Caller, socket[c] = "joined"
      PROVE  activeRooms[call[c].room] = call[c].entry
  <2>1. call[c].at = "held" /\ ~stopped
    BY <1>1 DEF ServerInv, SocketInv
  <2> QED
    BY <1>1, <2>1, HeldIsActive
<1>2. ServerInv => SocketIsGuarded
  BY <1>1 DEF SocketIsGuarded
<1> QED
  BY <1>2, ServerInvariant, PTL

DepartingOK == departing \in [Caller -> SUBSET Caller]

LEMMA DepartingStays == DepartingOK /\ [ServerNext]_allVars => DepartingOK'
<1> SUFFICES ASSUME DepartingOK, [ServerNext]_allVars PROVE DepartingOK'
  OBVIOUS
<1>1. CASE UNCHANGED departing
  BY <1>1 DEF DepartingOK
<1>2. ASSUME NEW c \in Caller, Depart(c) PROVE DepartingOK'
  BY <1>2 DEF Depart, DepartingOK, Members
<1>3. ASSUME NEW c \in Caller, Closed(c) PROVE DepartingOK'
  BY <1>3 DEF Closed, DepartingOK
<1>4. ASSUME NEW c \in Caller, GetRoom(c) \/ AwaitRoom(c) \/ Join(c) \/ TurnAway(c) \/ Reject(c) \/ Leave(c)
      PROVE  UNCHANGED departing
  BY <1>4 DEF GetRoom, AwaitRoom, Join, TurnAway, Reject, Leave
<1>5. ASSUME NEW c \in Caller, NEW id \in Room, Upgrade(c, id) PROVE UNCHANGED departing
  BY <1>5 DEF Upgrade
<1>6. ASSUME NEW e \in Entry, RoomStep(e) \/ LoseLease(e) PROVE UNCHANGED departing
  BY <1>6 DEF RoomStep, ClaimRoom, OpenRoom, RoomLoaded, LoaderFails, StartDisposal, Drained,
              LeaseClosed, NothingToDispose, LoseLease, serverVars
<1>7. ASSUME NEW o \in Owner, ReserveIdleRoom(o) \/ RecoverCheckpoint(o) \/ EndRequest(o)
      PROVE  UNCHANGED departing
  BY <1>7 DEF ReserveIdleRoom, RecoverCheckpoint, EndRequest
<1>8. ASSUME NEW o \in Owner, NEW id \in Room, AskRecovery(o, id) PROVE UNCHANGED departing
  BY <1>8 DEF AskRecovery
<1>9. CASE StopServer \/ UNCHANGED allVars
  BY <1>1, <1>9 DEF StopServer, allVars, serverVars
<1> QED
  BY <1>1, <1>2, <1>3, <1>4, <1>5, <1>6, <1>7, <1>8, <1>9 DEF ServerNext, SocketStep

\* Every variable keeps its type, and pendingRooms is the number of upgrades.
THEOREM ServerTypeCorrect == ServerSpec => []ServerTypeOK
<1>1. ServerInit => DepartingOK
  BY DEF ServerInit, DepartingOK
<1>2. ServerSpec => []DepartingOK
  BY <1>1, DepartingStays, PTL DEF ServerSpec
<1>3. ASSUME ServerInv, DepartingOK PROVE ServerTypeOK
  <2>1. \A id \in Room : pendingRooms[id] = Cardinality({c \in Caller : socket[c] \in Pending
                                                                        /\ call[c].room = id})
    BY <1>3 DEF ServerInv, PendingIsCounted, UpgradesOf
  <2>2. pendingRooms = [id \in Room |-> Cardinality({c \in Caller : socket[c] \in Pending
                                                                    /\ call[c].room = id})]
    BY <1>3, <2>1 DEF ServerInv, ServerShape
  <2>3. recovering \subseteq Room
    BY <1>3 DEF ServerInv, ServerShape, RequestInv, Request
  <2> QED
    BY <1>3, <2>2, <2>3 DEF ServerInv, ServerShape, LifetimeInv, DepartingOK, ServerTypeOK
<1> QED
  BY <1>2, <1>3, ServerInvariant, PTL
=============================================================================
