------------------------------- MODULE Presence -------------------------------
(***************************************************************************)
(* Who is in a room, as the other instances show it                        *)
(* (server/collaboration/roomPresenceTransport.ts, distributedPresence.ts).*)
(* One instance announces the clients connected to it, another one shows   *)
(* them; each instance is both.  A frame is published once and may be      *)
(* lost, late, duplicated or out of order.  The publisher remembers whom it*)
(* may have announced and withdraws them; the listener forgets whom nobody *)
(* confirms.                                                               *)
(*                                                                         *)
(* Both instances stay in one generation.  The loss of the publisher's     *)
(* lease closes its room; what is shown of a peer (its cursor) is left out.*)
(***************************************************************************)
EXTENDS Integers, Sequences, FiniteSets

CONSTANTS
    Client,      \* connections of the publisher (presence ids, never given twice)
    Batch,       \* peers in a frame (32)
    Waiting,     \* operations of the listener that may wait (16)
    Life,        \* how long a frame shows its peers (20 seconds; one tick is 5)
    MaxSequence  \* frames (a bound of the model only)

ASSUME PresenceAssumption ==
    /\ IsFiniteSet(Client) /\ Batch \in Nat \ {0} /\ Waiting \in Nat
    /\ Life \in Nat \ {0} /\ MaxSequence \in Nat

VARIABLES
    local,      \* the clients that are present
    previous,   \* peers that may have been announced and were not withdrawn
    dirty,      \* a refresh was asked for since the round started
    sending,    \* how far the round is
    current,    \* whom the round announces
    rest,       \* what it has not published yet
    closing,    \* the publisher's close()
    delivered,  \* tombstonesDelivered
    published,  \* the frames published, by sequence number
    listening,  \* the listener's room is open
    accepting,  \* its operations that wait for the room's queue
    floor,      \* sources.get(source): the newest sequence number taken
    taken,      \* all that were taken (history)
    left        \* left[c]: time until c expires, Absent when c is not shown

publisherVars == <<previous, dirty, sending, current, rest, closing, delivered, published>>
listenerVars == <<listening, accepting, floor, taken, left>>
presenceVars == <<local, publisherVars, listenerVars>>

Absent == -1
NoRest == [gone |-> {}, here |-> {}]
Frame == [gone : SUBSET Client, here : SUBSET Client, acked : BOOLEAN]
Expire == [sequence |-> 0, left |-> 0]
Operation == [sequence : 0..MaxSequence, left : 0..Life]
Sequence == DOMAIN published

PresenceTypeOK ==
    /\ local \subseteq Client /\ previous \subseteq Client /\ current \subseteq Client
    /\ dirty \in BOOLEAN
    /\ sending \in {"no", "waiting", "queued", "reading", "publishing"}
    /\ rest \in [gone : SUBSET Client, here : SUBSET Client]
    /\ closing \in {"no", "closed", "farewell", "done"}
    /\ delivered \in BOOLEAN
    /\ published \in Seq(Frame) /\ Len(published) <= MaxSequence
    /\ listening \in BOOLEAN
    /\ accepting \in Seq(Operation) /\ Len(accepting) <= Waiting
    /\ taken \subseteq Sequence
    /\ floor \in taken \cup {0} /\ \A q \in taken : q <= floor
    /\ left \in [Client -> 0..Life \cup {Absent}]

PresenceInit ==
    /\ local = {} /\ previous = {} /\ current = {} /\ rest = NoRest
    /\ dirty = FALSE /\ sending = "no"
    /\ closing = "no" /\ delivered = FALSE
    /\ published = <<>>
    /\ listening = TRUE /\ accepting = <<>>
    /\ floor = 0 /\ taken = {}
    /\ left = [c \in Client |-> Absent]

-----------------------------------------------------------------------------
(* The publisher *)

\* A client comes or goes, or shows and hides itself; who comes does so in the
\* room's queue, which is busy while readLocal() runs.
Change(c) ==
    /\ closing = "no"
    /\ c \in local \/ sending # "reading"
    /\ local' = IF c \in local THEN local \ {c} ELSE local \cup {c}
    /\ UNCHANGED <<publisherVars, listenerVars>>

Number == Len(published) + 1

\* refresh(): from a change, from the timer or after a reconnect.
Refresh ==
    /\ closing = "no"
    /\ dirty' = TRUE
    /\ sending' = IF sending = "no" THEN "waiting" ELSE sending
    /\ UNCHANGED <<local, previous, current, rest, closing, delivered, published, listenerVars>>

\* Rounds start 200 ms apart; a close ends the pause.  (The bound on the frames
\* of the model ends the rounds.)
StartRound ==
    /\ sending = "waiting"
    /\ \/ closing = "no" /\ Number <= MaxSequence /\ dirty' = FALSE /\ sending' = "queued"
       \/ closing # "no" /\ sending' = "no" /\ UNCHANGED dirty
    /\ UNCHANGED <<local, previous, current, rest, closing, delivered, published, listenerVars>>

\* readLocal() begins, when the room's queue comes to it: it goes over the
\* connections there are, and asks for the permission of each.
BeginRead ==
    /\ sending = "queued"
    /\ \/ closing = "no" /\ current' = local /\ sending' = "reading"
       \/ closing # "no" /\ sending' = "no" /\ UNCHANGED current
    /\ UNCHANGED <<local, previous, dirty, rest, closing, delivered, published, listenerVars>>

\* Mutant of ReadLocal: peers are remembered only when the round has succeeded.
ReadLocalUnremembered ==
    /\ sending = "reading" /\ closing = "no"
    /\ \E here \in SUBSET current :
          /\ current' = here
          /\ rest' = [gone |-> previous \ here, here |-> here]
    /\ sending' = "publishing"
    /\ UNCHANGED <<local, previous, dirty, closing, delivered, published, listenerVars>>

\* The answers are there: some have lost their permission, and who has left
\* meanwhile may still be among those who are here.
ReadLocal ==
    /\ sending = "reading" /\ closing = "no"
    /\ \E here \in SUBSET current :
          /\ current' = here
          /\ previous' = previous \cup here
          /\ rest' = [gone |-> previous \ here, here |-> here]
    /\ sending' = "publishing"
    /\ UNCHANGED <<local, dirty, closing, delivered, published, listenerVars>>

\* A permission cannot be asked for, or the room is closed by now.
ReadFails ==
    /\ sending = "reading"
    /\ sending' = "no" /\ current' = {}
    /\ UNCHANGED <<local, previous, dirty, rest, closing, delivered, published, listenerVars>>

Batches(S) ==
    {B \in SUBSET S : B # {} /\ (B = S \/ Cardinality(B) = Batch) /\ Cardinality(B) <= Batch}

\* publishBatch: tombstones first.
NextFrames ==
    {[gone |-> B, here |-> {}] : B \in Batches(rest.gone)} \cup
    {[gone |-> {}, here |-> B] : B \in IF rest.gone = {} THEN Batches(rest.here) ELSE {}}

Publishing == sending = "publishing" \/ closing = "farewell"

PublishBatch ==
    /\ Publishing /\ Number <= MaxSequence
    /\ \E f \in NextFrames :
          /\ published' = Append(published, [gone |-> f.gone, here |-> f.here, acked |-> TRUE])
          /\ rest' = [gone |-> rest.gone \ f.gone, here |-> rest.here \ f.here]
    /\ UNCHANGED <<local, previous, dirty, sending, current, closing, delivered, listenerVars>>

\* The publication fails, though the frame may arrive: the round is over,
\* or the farewell is.
PublishFails ==
    /\ Publishing /\ Number <= MaxSequence
    /\ \E f \in NextFrames :
          published' = Append(published, [gone |-> f.gone, here |-> f.here, acked |-> FALSE])
    /\ rest' = NoRest /\ current' = {}
    /\ \/ sending = "publishing" /\ sending' = "no" /\ UNCHANGED <<previous, closing>>
       \/ closing = "farewell" /\ closing' = "done" /\ previous' = {} /\ UNCHANGED sending
    /\ UNCHANGED <<local, dirty, delivered, listenerVars>>

EndRound ==
    /\ sending = "publishing" /\ rest = NoRest
    /\ previous' = IF closing = "no" THEN current ELSE previous
    /\ current' = {}
    /\ sending' = IF dirty /\ closing = "no" THEN "waiting" ELSE "no"
    /\ UNCHANGED <<local, dirty, rest, closing, delivered, published, listenerVars>>

\* The room is disposed of: its connections are gone, and the round under way
\* will look neither at dirty nor at current again.
Close ==
    /\ closing = "no"
    /\ closing' = "closed"
    /\ local' = {} /\ dirty' = FALSE /\ current' = {}
    /\ UNCHANGED <<previous, sending, rest, delivered, published, listenerVars>>

\* Mutant of Farewell: withdraws those who are connected, not those announced.
FarewellLocal ==
    /\ closing = "closed" /\ sending = "no"
    /\ closing' = "farewell"
    /\ rest' = [gone |-> local, here |-> {}]
    /\ UNCHANGED <<local, previous, dirty, sending, current, delivered, published, listenerVars>>

\* When the round under way has ended, everybody announced is withdrawn.
Farewell ==
    /\ closing = "closed" /\ sending = "no"
    /\ closing' = "farewell"
    /\ rest' = [gone |-> previous, here |-> {}]
    /\ UNCHANGED <<local, previous, dirty, sending, current, delivered, published, listenerVars>>

\* All tombstones are delivered, or the lease was lost before.
EndFarewell ==
    /\ closing = "farewell"
    /\ \E all \in BOOLEAN : (all => rest = NoRest) /\ delivered' = all
    /\ closing' = "done" /\ previous' = {} /\ rest' = NoRest
    /\ UNCHANGED <<local, dirty, sending, current, published, listenerVars>>

-----------------------------------------------------------------------------
(* The listener *)

\* Operations beyond the limit are dropped.
Enqueue(operation) ==
    accepting' = IF Len(accepting) < Waiting THEN Append(accepting, operation) ELSE accepting

\* A published frame arrives now, later, again or never.
Deliver(q) ==
    /\ listening
    /\ Enqueue([sequence |-> q, left |-> Life])
    /\ UNCHANGED <<local, publisherVars, listening, floor, taken, left>>

Timer ==
    /\ listening
    /\ Enqueue(Expire)
    /\ UNCHANGED <<local, publisherVars, listening, floor, taken, left>>

Take(q, time) ==
    /\ floor' = q
    /\ taken' = taken \cup {q}
    /\ left' = [c \in Client |-> IF c \in published[q].gone THEN Absent
                                  ELSE IF c \in published[q].here THEN time ELSE left[c]]

Stale(operation) == operation.left = 0 \/ operation.sequence <= floor

\* Mutant of Receive: a number is compared with those taken, not with the newest.
ReceiveUnordered ==
    /\ accepting # <<>> /\ Head(accepting).sequence # 0
    /\ accepting' = Tail(accepting)
    /\ IF Head(accepting).left = 0 \/ Head(accepting).sequence \in taken THEN UNCHANGED <<floor, taken, left>>
       ELSE Take(Head(accepting).sequence, Head(accepting).left)
    /\ UNCHANGED <<local, publisherVars, listening>>

Receive ==
    /\ accepting # <<>> /\ Head(accepting).sequence # 0
    /\ accepting' = Tail(accepting)
    /\ IF Stale(Head(accepting)) THEN UNCHANGED <<floor, taken, left>>
       ELSE Take(Head(accepting).sequence, Head(accepting).left)
    /\ UNCHANGED <<local, publisherVars, listening>>

\* Mutant of RemoveExpired: the floor of a source goes with its last peer.
RemoveExpiredFloors ==
    /\ accepting # <<>> /\ Head(accepting) = Expire
    /\ accepting' = Tail(accepting)
    /\ left' = [c \in Client |-> IF left[c] = 0 THEN Absent ELSE left[c]]
    /\ floor' = IF \A c \in Client : left'[c] = Absent THEN 0 ELSE floor
    /\ UNCHANGED <<local, publisherVars, listening, taken>>

RemoveExpired ==
    /\ accepting # <<>> /\ Head(accepting) = Expire
    /\ accepting' = Tail(accepting)
    /\ left' = [c \in Client |-> IF left[c] = 0 THEN Absent ELSE left[c]]
    /\ UNCHANGED <<local, publisherVars, listening, floor, taken>>

\* The room closes or an operation fails; nothing is shown any more.
StopListening ==
    /\ listening
    /\ listening' = FALSE
    /\ accepting' = <<>>
    /\ floor' = 0 /\ taken' = {}
    /\ left' = [c \in Client |-> Absent]
    /\ UNCHANGED <<local, publisherVars>>

Sooner(n) == IF n > 0 THEN n - 1 ELSE n

\* A tick of time, for what is shown and for what waits.
Tick ==
    /\ left' = [c \in Client |-> Sooner(left[c])]
    /\ accepting' = [i \in DOMAIN accepting |-> [accepting[i] EXCEPT !.left = Sooner(@)]]
    /\ UNCHANGED <<local, publisherVars, listening, floor, taken>>

-----------------------------------------------------------------------------

Round ==
    StartRound \/ BeginRead \/ ReadLocal \/ ReadFails \/ PublishBatch \/ PublishFails \/ EndRound
Parting == Farewell \/ EndFarewell
Handling == Receive \/ RemoveExpired

PresenceNext ==
    \/ \E c \in Client : Change(c)
    \/ Refresh \/ Round \/ Close \/ Parting
    \/ \E q \in Sequence : Deliver(q)
    \/ Timer \/ Handling \/ StopListening \/ Tick

PresenceSpec == PresenceInit /\ [][PresenceNext]_presenceVars

\* The timer fires though frames keep the queue full, and the room's queue
\* moves on; no frame has to be published or to arrive.
FairPresenceSpec ==
    /\ PresenceSpec
    /\ SF_presenceVars(Timer) /\ WF_presenceVars(Handling) /\ WF_presenceVars(Tick)

-----------------------------------------------------------------------------
(* Properties *)

\* c was announced, perhaps without success, and not successfully withdrawn since:
\* some instance may show it.
Outstanding(c) ==
    \E q \in Sequence : /\ c \in published[q].here
                        /\ \A r \in Sequence : r > q /\ published[r].acked => c \notin published[r].gone

\* Whom others may show is remembered, whichever publication failed half-way, so
\* that the next round or the farewell can withdraw them.
AnnouncedIsRemembered == closing # "done" => \A c \in Client : Outstanding(c) => c \in previous

\* A close that reports its tombstones delivered has withdrawn everybody, those
\* of a round that was under way included.
CloseTellsEverybody == delivered => \A c \in Client : ~Outstanding(c)

\* Nobody who was withdrawn is shown again because of an older frame.
NoResurrection ==
    \A c \in Client : left[c] # Absent =>
        \E q \in taken : c \in published[q].here /\ \A r \in taken : r > q => c \notin published[r].gone

\* A client that has left for good disappears, though every tombstone is lost
\* and frames come again and again.
GhostsGo == \A c \in Client : <>[](c \notin local) => <>[](left[c] = Absent)
=============================================================================
