---------------------------- MODULE PresenceProofs ----------------------------
(***************************************************************************)
(* Proofs about Presence.  What was announced and not withdrawn only grows *)
(* by a frame and shrinks by an acknowledged one; so it is enough to follow*)
(* where the publisher keeps it: in previous, during a round among those it*)
(* announces or has yet to withdraw, during the farewell among those it has*)
(* yet to withdraw.  At the listener, the floor is above every frame taken.*)
(***************************************************************************)
EXTENDS Presence, TLAPS

\* What waits for the listener's queue is a frame that was published.
WaitingIsPublished == \A i \in DOMAIN accepting : accepting[i].sequence <= Len(published)

\* A round announces only whom it has remembered; until the room closes it ends
\* with those it announces.
RoundIsRemembered ==
    sending = "publishing" =>
        /\ rest.here \subseteq previous
        /\ closing = "no" => rest.here \subseteq current /\ current \subseteq previous

\* Whoever is not announced again is withdrawn before the round ends.
RoundWithdraws ==
    sending = "publishing" /\ closing = "no" =>
        \A c \in Client : Outstanding(c) => c \in current \/ c \in rest.gone

\* No round is under way during the farewell and after it, and the farewell
\* announces nobody and has all the others still to withdraw.
FarewellIsAlone ==
    /\ closing \in {"farewell", "done"} => sending = "no"
    /\ closing = "farewell" =>
          /\ rest.here = {}
          /\ \A c \in Client : Outstanding(c) => c \in rest.gone

DeliveredIsDone == delivered => closing = "done"

PresenceInv ==
    /\ PresenceTypeOK
    /\ WaitingIsPublished
    /\ AnnouncedIsRemembered
    /\ RoundIsRemembered
    /\ RoundWithdraws
    /\ FarewellIsAlone
    /\ DeliveredIsDone
    /\ CloseTellsEverybody
    /\ NoResurrection

-----------------------------------------------------------------------------
(* The invariant, in two halves: what the publisher keeps and what the listener does. *)

PublisherType ==
    /\ local \subseteq Client /\ previous \subseteq Client /\ current \subseteq Client
    /\ dirty \in BOOLEAN
    /\ sending \in {"no", "waiting", "queued", "reading", "publishing"}
    /\ rest \in [gone : SUBSET Client, here : SUBSET Client]
    /\ closing \in {"no", "closed", "farewell", "done"}
    /\ delivered \in BOOLEAN
    /\ published \in Seq(Frame) /\ Len(published) <= MaxSequence

PublisherInv ==
    /\ PublisherType /\ AnnouncedIsRemembered /\ RoundIsRemembered /\ RoundWithdraws
    /\ FarewellIsAlone /\ DeliveredIsDone /\ CloseTellsEverybody

ListenerType ==
    /\ listening \in BOOLEAN
    /\ accepting \in Seq(Operation) /\ Len(accepting) <= Waiting
    /\ taken \subseteq Sequence
    /\ floor \in taken \cup {0} /\ \A q \in taken : q <= floor
    /\ left \in [Client -> 0..Life \cup {Absent}]

ListenerInv == published \in Seq(Frame) /\ ListenerType /\ WaitingIsPublished /\ NoResurrection

LEMMA Halves == PresenceInv <=> PublisherInv /\ Len(published) <= MaxSequence /\ ListenerInv
BY DEF PresenceInv, PublisherInv, ListenerInv, PresenceTypeOK, PublisherType, ListenerType

-----------------------------------------------------------------------------
(* What a frame changes *)

\* After a frame somebody is outstanding who was announced by it, or who was
\* before and is not withdrawn by it.
LEMMA OutstandingAfter ==
    ASSUME published \in Seq(Frame), NEW f \in Frame, published' = Append(published, f),
           NEW c \in Client, Outstanding(c)'
    PROVE  \/ c \in f.here
           \/ Outstanding(c) /\ (f.acked => c \notin f.gone)
<1> DEFINE n == Len(published)
<1>0. n \in Nat /\ Sequence = 1..n /\ Sequence' = 1..(n + 1)
  BY DEF Sequence
<1>1. PICK q \in Sequence' : /\ c \in published'[q].here
                             /\ \A r \in Sequence' : r > q /\ published'[r].acked => c \notin published'[r].gone
  BY DEF Outstanding
<1>2. published'[n + 1] = f /\ \A r \in Sequence : published'[r] = published[r]
  BY <1>0
<1>3. CASE q = n + 1
  BY <1>1, <1>2, <1>3
<1>4. CASE q # n + 1
  <2>1. q \in Sequence /\ n + 1 > q /\ n + 1 \in Sequence'
    BY <1>0, <1>1, <1>4
  <2>2. f.acked => c \notin f.gone
    BY <1>1, <1>2, <2>1
  <2>3. \A r \in Sequence : r > q /\ published[r].acked => c \notin published[r].gone
    BY <1>0, <1>1, <1>2
  <2>4. c \in published[q].here
    BY <1>1, <1>2, <2>1
  <2> QED
    BY <2>1, <2>2, <2>3, <2>4 DEF Outstanding
<1> QED
  BY <1>3, <1>4

\* What is outstanding depends on the frames only.
LEMMA OutstandingStays ==
    ASSUME UNCHANGED published
    PROVE  \A c \in Client : Outstanding(c)' <=> Outstanding(c)
BY DEF Outstanding, Sequence

\* A frame withdraws some of those the round has to withdraw or announces some
\* of those it has to announce, and not before all are withdrawn.
LEMMA FrameFacts ==
    ASSUME PublisherType, NEW f \in NextFrames, NEW acked \in BOOLEAN
    PROVE  /\ f.gone \subseteq rest.gone /\ f.here \subseteq rest.here
           /\ [gone |-> f.gone, here |-> f.here, acked |-> acked] \in Frame
           /\ f.here # {} => rest.gone = {}
<1>1. rest.gone \subseteq Client /\ rest.here \subseteq Client
  BY DEF PublisherType
<1>2. CASE \E B \in Batches(rest.gone) : f = [gone |-> B, here |-> {}]
  BY <1>1, <1>2 DEF Batches, Frame
<1>3. CASE \E B \in IF rest.gone = {} THEN Batches(rest.here) ELSE {} : f = [gone |-> {}, here |-> B]
  BY <1>1, <1>3 DEF Batches, Frame
<1> QED
  BY <1>2, <1>3 DEF NextFrames

-----------------------------------------------------------------------------
(* The publisher keeps its half. *)

\* A step that publishes nothing keeps the half if it keeps what it says of those
\* who are outstanding.
LEMMA QuietStepKeeps ==
    ASSUME PublisherInv, UNCHANGED published, PublisherType', RoundIsRemembered',
           DeliveredIsDone', FarewellIsAlone', RoundWithdraws',
           closing' # "done" => previous \subseteq previous' \/ AnnouncedIsRemembered',
           closing = "done" => closing' = "done",
           delivered' => delivered \/ (closing = "farewell" /\ rest = NoRest)
    PROVE  PublisherInv'
<1>1. \A c \in Client : Outstanding(c)' <=> Outstanding(c)
  BY OutstandingStays
<1>2. AnnouncedIsRemembered'
  BY <1>1 DEF PublisherInv, AnnouncedIsRemembered
<1>3. CloseTellsEverybody'
  BY <1>1 DEF PublisherInv, CloseTellsEverybody, FarewellIsAlone, NoRest
<1> QED
  BY <1>2, <1>3 DEF PublisherInv

LEMMA RefreshKeeps == ASSUME PublisherInv, Refresh PROVE PublisherInv'
<1>1. \A c \in Client : Outstanding(c)' <=> Outstanding(c)
  BY OutstandingStays DEF Refresh
<1>2. PublisherType' /\ RoundIsRemembered' /\ DeliveredIsDone' /\ FarewellIsAlone'
  BY <1>1 DEF Refresh, PublisherInv, PublisherType, RoundIsRemembered, DeliveredIsDone, FarewellIsAlone
<1>3. RoundWithdraws'
  BY <1>1 DEF Refresh, PublisherInv, RoundWithdraws
<1> QED
  BY <1>2, <1>3, QuietStepKeeps DEF Refresh

LEMMA ChangeKeeps == ASSUME PublisherInv, NEW c \in Client, Change(c) PROVE PublisherInv'
<1>1. \A d \in Client : Outstanding(d)' <=> Outstanding(d)
  BY OutstandingStays DEF Change, publisherVars
<1>2. PublisherType' /\ RoundIsRemembered' /\ DeliveredIsDone' /\ FarewellIsAlone'
  BY <1>1 DEF Change, publisherVars, PublisherInv, PublisherType, RoundIsRemembered,
              DeliveredIsDone, FarewellIsAlone
<1>3. RoundWithdraws'
  BY <1>1 DEF Change, publisherVars, PublisherInv, RoundWithdraws
<1> QED
  BY <1>2, <1>3, QuietStepKeeps DEF Change, publisherVars

\* The steps of a round before it publishes.
LEMMA PreparationKeeps ==
    ASSUME PublisherInv, StartRound \/ BeginRead \/ ReadLocal \/ ReadFails
    PROVE  PublisherInv'
<1>1. UNCHANGED <<local, published, closing, delivered>> /\ previous \subseteq previous'
  BY DEF StartRound, BeginRead, ReadLocal, ReadFails
<1>2. \A c \in Client : Outstanding(c)' <=> Outstanding(c)
  BY <1>1, OutstandingStays
<1>3. sending \in {"waiting", "queued", "reading"}
  BY DEF StartRound, BeginRead, ReadLocal, ReadFails
<1>4. closing \notin {"farewell", "done"} /\ ~delivered
  BY <1>3 DEF PublisherInv, FarewellIsAlone, DeliveredIsDone
<1>5. FarewellIsAlone' /\ DeliveredIsDone'
  BY <1>1, <1>4 DEF FarewellIsAlone, DeliveredIsDone
<1>6. PublisherType' /\ RoundIsRemembered' /\ RoundWithdraws'
  <2>1. CASE ReadLocal
    <3>1. PICK here \in SUBSET current :
             /\ current' = here /\ previous' = previous \cup here
             /\ rest' = [gone |-> previous \ here, here |-> here]
      BY <2>1 DEF ReadLocal
    <3>2. PublisherType' /\ RoundIsRemembered'
      BY <1>1, <2>1, <3>1 DEF ReadLocal, PublisherInv, PublisherType, RoundIsRemembered
    <3>3. RoundWithdraws'
      BY <1>1, <1>2, <1>4, <3>1 DEF PublisherInv, AnnouncedIsRemembered, RoundWithdraws
    <3> QED
      BY <3>2, <3>3
  <2>2. CASE StartRound \/ BeginRead \/ ReadFails
    <3>1. sending' # "publishing"
      BY <2>2 DEF StartRound, BeginRead, ReadFails
    <3>2. PublisherType'
      BY <1>1, <2>2 DEF StartRound, BeginRead, ReadFails, PublisherInv, PublisherType
    <3> QED
      BY <3>1, <3>2 DEF RoundIsRemembered, RoundWithdraws
  <2> QED
    BY <2>1, <2>2
<1> QED
  BY <1>1, <1>4, <1>5, <1>6, QuietStepKeeps

LEMMA PublishBatchKeeps == ASSUME PublisherInv, PublishBatch PROVE PublisherInv'
<1>1. PICK f \in NextFrames :
         /\ published' = Append(published, [gone |-> f.gone, here |-> f.here, acked |-> TRUE])
         /\ rest' = [gone |-> rest.gone \ f.gone, here |-> rest.here \ f.here]
  BY DEF PublishBatch
<1>2. UNCHANGED <<local, previous, dirty, sending, current, closing, delivered>>
      /\ Publishing /\ Number <= MaxSequence
  BY DEF PublishBatch
<1>3. PublisherType /\ [gone |-> f.gone, here |-> f.here, acked |-> TRUE] \in Frame
      /\ f.gone \subseteq rest.gone /\ f.here \subseteq rest.here
  BY FrameFacts DEF PublisherInv
<1>4. \A c \in Client : Outstanding(c)' => c \in f.here \/ (Outstanding(c) /\ c \notin f.gone)
  <2> DEFINE g == [gone |-> f.gone, here |-> f.here, acked |-> TRUE]
  <2>1. g \in Frame /\ published' = Append(published, g) /\ published \in Seq(Frame)
    BY <1>1, <1>3 DEF PublisherType
  <2>2. g.gone = f.gone /\ g.here = f.here /\ g.acked
    OBVIOUS
  <2> HIDE DEF g
  <2> QED
    BY <2>1, <2>2, OutstandingAfter
<1>5. PublisherType'
  <2>1. published' \in Seq(Frame) /\ Len(published') <= MaxSequence
    BY <1>1, <1>2, <1>3 DEF PublisherType, Number
  <2> QED
    BY <1>1, <1>2, <1>3, <2>1 DEF PublisherType
<1>6. rest'.here \subseteq rest.here /\ rest'.gone = rest.gone \ f.gone
  BY <1>1
<1>7. RoundIsRemembered' /\ DeliveredIsDone'
  BY <1>2, <1>6 DEF PublisherInv, RoundIsRemembered, DeliveredIsDone
<1>8. RoundWithdraws'
  BY <1>2, <1>3, <1>4, <1>6 DEF PublisherInv, RoundIsRemembered, RoundWithdraws
<1>9. FarewellIsAlone'
  BY <1>2, <1>3, <1>4, <1>6 DEF PublisherInv, FarewellIsAlone
<1>10. AnnouncedIsRemembered' /\ CloseTellsEverybody'
  <2>1. closing # "done"
    BY <1>2 DEF PublisherInv, FarewellIsAlone, Publishing
  <2>2. f.here \subseteq previous
    BY <1>2, <1>3 DEF PublisherInv, RoundIsRemembered, FarewellIsAlone, Publishing
  <2> QED
    BY <1>2, <1>4, <2>1, <2>2
    DEF PublisherInv, AnnouncedIsRemembered, CloseTellsEverybody, DeliveredIsDone
<1> QED
  BY <1>5, <1>7, <1>8, <1>9, <1>10 DEF PublisherInv

\* A frame that was not acknowledged withdraws nobody for sure.
LEMMA PublishFailsKeeps == ASSUME PublisherInv, PublishFails PROVE PublisherInv'
<1>1. PICK f \in NextFrames :
         published' = Append(published, [gone |-> f.gone, here |-> f.here, acked |-> FALSE])
  BY DEF PublishFails
<1>2. UNCHANGED <<local, dirty, delivered>> /\ rest' = NoRest /\ current' = {}
      /\ Publishing /\ Number <= MaxSequence
  BY DEF PublishFails
<1>3. PublisherType /\ [gone |-> f.gone, here |-> f.here, acked |-> FALSE] \in Frame
      /\ f.here \subseteq rest.here
  BY FrameFacts DEF PublisherInv
<1>4. \A c \in Client : Outstanding(c)' => c \in f.here \/ Outstanding(c)
  <2> DEFINE g == [gone |-> f.gone, here |-> f.here, acked |-> FALSE]
  <2>1. g \in Frame /\ published' = Append(published, g) /\ published \in Seq(Frame)
    BY <1>1, <1>3 DEF PublisherType
  <2>2. g.here = f.here
    OBVIOUS
  <2> HIDE DEF g
  <2> QED
    BY <2>1, <2>2, OutstandingAfter
<1>5. published' \in Seq(Frame) /\ Len(published') <= MaxSequence
  BY <1>1, <1>2, <1>3 DEF PublisherType, Number
<1>6. ~delivered /\ sending' = "no"
  BY <1>2 DEF PublishFails, PublisherInv, DeliveredIsDone, FarewellIsAlone, Publishing
<1>7. CASE sending = "publishing" /\ sending' = "no" /\ UNCHANGED <<previous, closing>>
  <2>1. closing \notin {"farewell", "done"} /\ f.here \subseteq previous
    BY <1>3, <1>7 DEF PublisherInv, FarewellIsAlone, RoundIsRemembered
  <2>2. PublisherType'
    BY <1>2, <1>3, <1>5, <1>7 DEF PublisherType, NoRest
  <2>3. AnnouncedIsRemembered'
    BY <1>4, <1>7, <2>1 DEF PublisherInv, AnnouncedIsRemembered
  <2> QED
    BY <1>2, <1>6, <1>7, <2>1, <2>2, <2>3
    DEF PublisherInv, RoundIsRemembered, RoundWithdraws, FarewellIsAlone, DeliveredIsDone, CloseTellsEverybody
<1>8. CASE closing = "farewell" /\ closing' = "done" /\ previous' = {} /\ UNCHANGED sending
  <2>1. PublisherType'
    BY <1>2, <1>3, <1>5, <1>8 DEF PublisherType, NoRest
  <2> QED
    BY <1>2, <1>6, <1>8, <2>1
    DEF PublisherInv, AnnouncedIsRemembered, RoundIsRemembered, RoundWithdraws, FarewellIsAlone,
        DeliveredIsDone, CloseTellsEverybody
<1> QED
  BY <1>7, <1>8 DEF PublishFails

LEMMA EndRoundKeeps == ASSUME PublisherInv, EndRound PROVE PublisherInv'
<1>1. \A c \in Client : Outstanding(c)' <=> Outstanding(c)
  BY OutstandingStays DEF EndRound
<1>2. sending = "publishing" /\ rest.gone = {} /\ sending' # "publishing"
      /\ UNCHANGED <<closing, delivered>>
  BY DEF EndRound, NoRest
<1>3. closing \notin {"farewell", "done"}
  BY <1>2 DEF PublisherInv, FarewellIsAlone
<1>4. AnnouncedIsRemembered'
  <2>1. CASE closing = "no"
    BY <1>1, <1>2, <2>1 DEF EndRound, PublisherInv, RoundWithdraws, AnnouncedIsRemembered
  <2>2. CASE closing # "no"
    BY <1>1, <1>2, <2>2 DEF EndRound, PublisherInv, AnnouncedIsRemembered
  <2> QED
    BY <2>1, <2>2
<1>5. PublisherType'
  BY DEF EndRound, PublisherInv, PublisherType
<1>6. RoundIsRemembered' /\ DeliveredIsDone' /\ FarewellIsAlone' /\ RoundWithdraws'
  BY <1>2, <1>3 DEF PublisherInv, RoundIsRemembered, DeliveredIsDone, FarewellIsAlone, RoundWithdraws
<1> QED
  BY <1>2, <1>3, <1>4, <1>5, <1>6, QuietStepKeeps DEF EndRound

LEMMA CloseKeeps == ASSUME PublisherInv, Close PROVE PublisherInv'
<1>1. PublisherType'
  BY DEF Close, PublisherInv, PublisherType
<1>2. RoundIsRemembered' /\ DeliveredIsDone' /\ FarewellIsAlone' /\ RoundWithdraws'
  BY DEF Close, PublisherInv, RoundIsRemembered, DeliveredIsDone, FarewellIsAlone, RoundWithdraws
<1> QED
  BY <1>1, <1>2, QuietStepKeeps DEF Close

\* The farewell withdraws all that the publisher remembers, so all that are
\* outstanding.
LEMMA PartingKeeps == ASSUME PublisherInv, Parting PROVE PublisherInv'
<1>1. \A c \in Client : Outstanding(c)' <=> Outstanding(c)
  BY OutstandingStays DEF Parting, Farewell, EndFarewell
<1>2. CASE Farewell
  <2>1. PublisherType'
    BY <1>2 DEF Farewell, PublisherInv, PublisherType
  <2>2. FarewellIsAlone'
    BY <1>1, <1>2 DEF Farewell, PublisherInv, AnnouncedIsRemembered, FarewellIsAlone
  <2>3. RoundIsRemembered' /\ DeliveredIsDone' /\ RoundWithdraws'
    BY <1>2 DEF Farewell, PublisherInv, RoundIsRemembered, DeliveredIsDone, RoundWithdraws
  <2> QED
    BY <1>2, <2>1, <2>2, <2>3, QuietStepKeeps DEF Farewell
<1>3. CASE EndFarewell
  <2>1. PublisherType'
    BY <1>3 DEF EndFarewell, PublisherInv, PublisherType, NoRest
  <2>2. closing = "farewell" /\ sending' = "no" /\ closing' = "done"
    BY <1>3 DEF EndFarewell, PublisherInv, FarewellIsAlone
  <2>3. FarewellIsAlone' /\ RoundIsRemembered' /\ DeliveredIsDone' /\ RoundWithdraws'
    BY <2>2 DEF FarewellIsAlone, RoundIsRemembered, DeliveredIsDone, RoundWithdraws
  <2>4. delivered' => rest = NoRest
    BY <1>3 DEF EndFarewell
  <2> QED
    BY <1>3, <2>1, <2>2, <2>3, <2>4, QuietStepKeeps DEF EndFarewell
<1> QED
  BY <1>2, <1>3 DEF Parting

\* The listener's steps are none of the publisher's.
LEMMA OtherStepKeepsPublisher ==
    ASSUME PublisherInv, UNCHANGED <<local, publisherVars>>
    PROVE  PublisherInv'
<1>1. \A c \in Client : Outstanding(c)' <=> Outstanding(c)
  BY OutstandingStays DEF publisherVars
<1>2. PublisherType' /\ RoundIsRemembered' /\ DeliveredIsDone' /\ FarewellIsAlone' /\ RoundWithdraws'
  BY <1>1 DEF publisherVars, PublisherInv, PublisherType, RoundIsRemembered, DeliveredIsDone,
              FarewellIsAlone, RoundWithdraws
<1> QED
  BY <1>2, QuietStepKeeps DEF publisherVars

-----------------------------------------------------------------------------
(* The listener keeps its half. *)

\* A frame more changes none of those there are.
LEMMA PublisherStepKeepsListener ==
    ASSUME ListenerInv, UNCHANGED listenerVars, published' \in Seq(Frame),
           Len(published) <= Len(published'),
           \A q \in Sequence : published'[q] = published[q]
    PROVE  ListenerInv'
<1>1. Sequence = 1..Len(published) /\ Sequence' = 1..Len(published')
      /\ Len(published) \in Nat /\ Len(published') \in Nat
  BY DEF Sequence, ListenerInv
<1>2. Sequence \subseteq Sequence'
  BY <1>1
<1>3. ListenerType'
  BY <1>2 DEF ListenerInv, ListenerType, listenerVars
<1>4. WaitingIsPublished'
  <2>1. \A i \in DOMAIN accepting : accepting[i].sequence \in Int
    <3>1. \A i \in DOMAIN accepting : accepting[i] \in Operation
      BY DEF ListenerInv, ListenerType
    <3> QED
      BY <3>1, PresenceAssumption DEF Operation
  <2> QED
    BY <1>1, <2>1 DEF ListenerInv, WaitingIsPublished, listenerVars
<1>5. NoResurrection'
  BY DEF ListenerInv, ListenerType, NoResurrection, listenerVars
<1> QED
  BY <1>3, <1>4, <1>5 DEF ListenerInv

\* The queue of the listener takes in a frame that was published, or the timer's
\* operation.
LEMMA EnqueueKeeps ==
    ASSUME ListenerInv, NEW operation \in Operation, operation.sequence <= Len(published),
           Enqueue(operation), UNCHANGED <<published, listening, floor, taken, left>>
    PROVE  ListenerInv'
<1>1. accepting \in Seq(Operation) /\ Len(accepting) \in Nat
  BY DEF ListenerInv, ListenerType
<1>2. CASE Len(accepting) < Waiting /\ accepting' = Append(accepting, operation)
  <2>1. accepting' \in Seq(Operation) /\ Len(accepting') = Len(accepting) + 1
    BY <1>1, <1>2
  <2>2. Len(accepting') <= Waiting
    BY <1>1, <1>2, <2>1, PresenceAssumption
  <2>3. \A i \in DOMAIN accepting' : accepting'[i] = operation \/ (i \in DOMAIN accepting /\ accepting'[i] = accepting[i])
    BY <1>1, <1>2
  <2>4. WaitingIsPublished'
    BY <2>3 DEF ListenerInv, WaitingIsPublished
  <2>5. ListenerType'
    BY <2>1, <2>2 DEF ListenerInv, ListenerType, Sequence
  <2> QED
    BY <2>4, <2>5 DEF ListenerInv, NoResurrection
<1>3. CASE accepting' = accepting
  BY <1>3 DEF ListenerInv, ListenerType, WaitingIsPublished, NoResurrection, Sequence
<1> QED
  BY <1>2, <1>3 DEF Enqueue

LEMMA DeliverKeeps == ASSUME ListenerInv, Len(published) <= MaxSequence, NEW q \in Sequence, Deliver(q) PROVE ListenerInv'
<1> DEFINE operation == [sequence |-> q, left |-> Life]
<1>1. operation \in Operation /\ operation.sequence <= Len(published)
  BY PresenceAssumption DEF Operation, Sequence, ListenerInv
<1>2. Enqueue(operation) /\ UNCHANGED <<published, listening, floor, taken, left>>
  BY DEF Deliver, publisherVars
<1> HIDE DEF operation
<1> QED
  BY <1>1, <1>2, EnqueueKeeps

LEMMA TimerKeeps == ASSUME ListenerInv, Timer PROVE ListenerInv'
<1>1. Expire \in Operation /\ Expire.sequence <= Len(published)
  BY PresenceAssumption DEF Operation, Expire, ListenerInv
<1>2. Enqueue(Expire) /\ UNCHANGED <<published, listening, floor, taken, left>>
  BY DEF Timer, publisherVars
<1> QED
  BY <1>1, <1>2, EnqueueKeeps

\* What waits is handled in order.
LEMMA TailFacts ==
    ASSUME ListenerInv, accepting # <<>>
    PROVE  /\ Head(accepting) \in Operation /\ Head(accepting).sequence <= Len(published)
           /\ Tail(accepting) \in Seq(Operation) /\ Len(Tail(accepting)) <= Waiting
           /\ \A i \in DOMAIN Tail(accepting) : Tail(accepting)[i].sequence <= Len(published)
<1>1. accepting \in Seq(Operation) /\ Len(accepting) \in Nat /\ Len(accepting) <= Waiting
      /\ Len(accepting) > 0
  BY DEF ListenerInv, ListenerType
<1>2. Head(accepting) = accepting[1] /\ 1 \in DOMAIN accepting
  BY <1>1
<1>3. Tail(accepting) \in Seq(Operation) /\ Len(Tail(accepting)) = Len(accepting) - 1
  BY <1>1
<1>4. \A i \in DOMAIN Tail(accepting) : i + 1 \in DOMAIN accepting /\ Tail(accepting)[i] = accepting[i + 1]
  BY <1>1
<1>5. Len(Tail(accepting)) <= Waiting
  BY <1>1, <1>3, PresenceAssumption
<1> QED
  BY <1>1, <1>2, <1>3, <1>4, <1>5 DEF ListenerInv, WaitingIsPublished

\* A frame is taken only if it is newer than all that were: whom it does not
\* mention is shown by an older one that nothing newer contradicts.
LEMMA TakeKeeps ==
    ASSUME ListenerInv, NEW q \in Sequence, NEW time \in 0..Life, q > floor, Take(q, time),
           UNCHANGED published
    PROVE  NoResurrection' /\ left' \in [Client -> 0..Life \cup {Absent}]
           /\ floor' \in taken' \cup {0} /\ taken' \subseteq Sequence
           /\ \A r \in taken' : r <= floor'
<1>0. taken \subseteq Sequence /\ (\A r \in taken : r <= floor) /\ floor \in Int /\ Sequence \subseteq Int
  BY DEF ListenerInv, ListenerType, Sequence
<1>1. floor' = q /\ taken' = taken \cup {q} /\ \A r \in taken : q > r
  BY <1>0 DEF Take
<1>2. ASSUME NEW c \in Client, left'[c] # Absent
      PROVE  \E p \in taken' : c \in published[p].here /\ \A r \in taken' : r > p => c \notin published[r].gone
  <2>1. c \notin published[q].gone
    BY <1>2 DEF Take
  <2>2. CASE c \in published[q].here
    BY <1>0, <1>1, <2>2
  <2>3. CASE c \notin published[q].here
    <3>1. left[c] # Absent
      BY <1>2, <2>1, <2>3 DEF Take
    <3>2. PICK p \in taken : c \in published[p].here /\ \A r \in taken : r > p => c \notin published[r].gone
      BY <3>1 DEF ListenerInv, NoResurrection
    <3> QED
      BY <1>1, <2>1, <3>2
  <2> QED
    BY <2>2, <2>3
<1>3. left' \in [Client -> 0..Life \cup {Absent}]
  BY DEF Take, ListenerInv, ListenerType
<1> QED
  BY <1>0, <1>1, <1>2, <1>3 DEF NoResurrection

LEMMA ReceiveKeeps == ASSUME ListenerInv, Receive PROVE ListenerInv'
<1> DEFINE o == Head(accepting)
<1>1. o \in Operation /\ o.sequence <= Len(published) /\ o.sequence # 0
      /\ accepting' = Tail(accepting) /\ UNCHANGED <<published, listening>>
      /\ Tail(accepting) \in Seq(Operation) /\ Len(Tail(accepting)) <= Waiting
      /\ \A i \in DOMAIN Tail(accepting) : Tail(accepting)[i].sequence <= Len(published)
  BY TailFacts DEF Receive, publisherVars
<1>2. WaitingIsPublished'
  BY <1>1 DEF WaitingIsPublished
<1>3. CASE Stale(o) /\ UNCHANGED <<floor, taken, left>>
  BY <1>1, <1>2, <1>3 DEF ListenerInv, ListenerType, NoResurrection, Sequence
<1>4. CASE ~Stale(o) /\ Take(o.sequence, o.left)
  <2>1. o.sequence \in Sequence /\ o.left \in 0..Life /\ o.sequence > floor
    <3>1. floor \in Int
      BY DEF ListenerInv, ListenerType, Sequence
    <3>2. o.sequence \in Nat /\ o.left \in 0..Life
      BY <1>1, PresenceAssumption DEF Operation
    <3> QED
      BY <1>1, <1>4, <3>1, <3>2 DEF Stale, Sequence, ListenerInv
  <2>2. PICK q \in Sequence : q = o.sequence
    BY <2>1
  <2>3. PICK time \in 0..Life : time = o.left
    BY <2>1
  <2>4. q > floor /\ Take(q, time)
    BY <1>4, <2>1, <2>2, <2>3
  <2>5. NoResurrection' /\ left' \in [Client -> 0..Life \cup {Absent}]
        /\ floor' \in taken' \cup {0} /\ taken' \subseteq Sequence
        /\ \A r \in taken' : r <= floor'
    BY <1>1, <2>4, TakeKeeps
  <2>6. ListenerType'
    BY <1>1, <2>5 DEF ListenerInv, ListenerType, Sequence
  <2> QED
    BY <1>1, <1>2, <2>5, <2>6 DEF ListenerInv
<1> QED
  BY <1>3, <1>4 DEF Receive

\* Time and the timer show nobody who was not shown.
LEMMA FadingKeeps ==
    ASSUME ListenerInv, UNCHANGED <<published, listening, floor, taken>>,
           left' \in [Client -> 0..Life \cup {Absent}],
           \A c \in Client : left'[c] # Absent => left[c] # Absent,
           accepting' \in Seq(Operation), Len(accepting') <= Waiting, WaitingIsPublished'
    PROVE  ListenerInv'
BY DEF ListenerInv, ListenerType, NoResurrection, Sequence

LEMMA RemoveExpiredKeeps == ASSUME ListenerInv, RemoveExpired PROVE ListenerInv'
<1>1. accepting' = Tail(accepting) /\ UNCHANGED <<published, listening, floor, taken>>
  BY DEF RemoveExpired, publisherVars
<1>2. accepting' \in Seq(Operation) /\ Len(accepting') <= Waiting /\ WaitingIsPublished'
  BY <1>1, TailFacts DEF RemoveExpired, WaitingIsPublished
<1>3. left' \in [Client -> 0..Life \cup {Absent}] /\ \A c \in Client : left'[c] # Absent => left[c] # Absent
  BY DEF RemoveExpired, ListenerInv, ListenerType
<1> QED
  BY <1>1, <1>2, <1>3, FadingKeeps

LEMMA TickKeeps == ASSUME ListenerInv, Tick PROVE ListenerInv'
<1>1. UNCHANGED <<published, listening, floor, taken>>
  BY DEF Tick, publisherVars
<1>2. \A n \in 0..Life : Sooner(n) \in 0..Life
  BY PresenceAssumption DEF Sooner
<1>3. Sooner(Absent) = Absent /\ \A n \in 0..Life : n # Absent
  BY PresenceAssumption DEF Sooner, Absent
<1>4. left' \in [Client -> 0..Life \cup {Absent}] /\ \A c \in Client : left'[c] # Absent => left[c] # Absent
  BY <1>2, <1>3 DEF Tick, ListenerInv, ListenerType
<1>5. accepting \in Seq(Operation)
  BY DEF ListenerInv, ListenerType
<1>6. \A i \in DOMAIN accepting : accepting'[i] = [accepting[i] EXCEPT !.left = Sooner(accepting[i].left)]
  BY DEF Tick
<1>7. \A i \in DOMAIN accepting : accepting'[i] \in Operation /\ accepting'[i].sequence = accepting[i].sequence
  <2> SUFFICES ASSUME NEW i \in DOMAIN accepting
               PROVE  accepting'[i] \in Operation /\ accepting'[i].sequence = accepting[i].sequence
    OBVIOUS
  <2>1. PICK o \in Operation : o = accepting[i]
    BY <1>5
  <2>2. accepting'[i] = [o EXCEPT !.left = Sooner(o.left)]
    BY <1>6, <2>1
  <2> QED
    BY <1>2, <2>1, <2>2 DEF Operation
<1>8. accepting' \in Seq(Operation) /\ Len(accepting') = Len(accepting)
  <2>1. DOMAIN accepting = 1..Len(accepting) /\ Len(accepting) \in Nat
    BY <1>5
  <2>2. accepting' = [i \in 1..Len(accepting) |-> accepting'[i]]
    BY <2>1 DEF Tick
  <2> QED
    BY <1>7, <2>1, <2>2
<1>9. WaitingIsPublished'
  <2>1. DOMAIN accepting' = DOMAIN accepting
    BY DEF Tick
  <2> QED
    BY <1>1, <1>7, <2>1 DEF WaitingIsPublished, ListenerInv
<1> QED
  BY <1>1, <1>4, <1>8, <1>9, FadingKeeps DEF ListenerInv, ListenerType

LEMMA StopListeningKeeps == ASSUME ListenerInv, StopListening PROVE ListenerInv'
<1>1. UNCHANGED published /\ listening' = FALSE /\ accepting' = <<>> /\ floor' = 0 /\ taken' = {}
      /\ left' = [c \in Client |-> Absent]
  BY DEF StopListening, publisherVars
<1>2. ListenerType'
  <2>1. accepting' \in Seq(Operation) /\ Len(accepting') <= Waiting
    BY <1>1, PresenceAssumption
  <2>2. left' \in [Client -> 0..Life \cup {Absent}]
    BY <1>1
  <2> QED
    BY <1>1, <2>1, <2>2 DEF ListenerType
<1>3. WaitingIsPublished' /\ NoResurrection'
  BY <1>1 DEF WaitingIsPublished, NoResurrection
<1> QED
  BY <1>1, <1>2, <1>3 DEF ListenerInv

-----------------------------------------------------------------------------
(* Every step keeps the invariant. *)

LEMMA InitInv == PresenceInit => PresenceInv
<1> SUFFICES ASSUME PresenceInit PROVE PublisherInv /\ ListenerInv
  BY Halves DEF PublisherInv, PublisherType
<1>1. published = <<>> /\ published \in Seq(Frame) /\ Len(published) = 0 /\ Sequence = {}
  BY DEF PresenceInit, Sequence
<1>2. PublisherType
  <2>1. rest \in [gone : SUBSET Client, here : SUBSET Client]
    BY DEF PresenceInit, NoRest
  <2>2. Len(published) <= MaxSequence
    BY <1>1, PresenceAssumption
  <2> QED
    BY <1>1, <2>1, <2>2 DEF PresenceInit, PublisherType
<1>3. ListenerType
  BY <1>1, PresenceAssumption DEF PresenceInit, ListenerType
<1>4. \A c \in Client : ~Outstanding(c)
  BY <1>1 DEF Outstanding
<1> QED
  BY <1>1, <1>2, <1>3, <1>4
  DEF PresenceInit, PublisherInv, ListenerInv, AnnouncedIsRemembered, RoundIsRemembered, RoundWithdraws,
      FarewellIsAlone, DeliveredIsDone, CloseTellsEverybody, WaitingIsPublished, NoResurrection

\* Every step is one of the publisher, which leaves the listener alone, or one of
\* the listener.
LEMMA StepKeepsPublisher == ASSUME PublisherInv, [PresenceNext]_presenceVars PROVE PublisherInv'
<1>1. CASE \E c \in Client : Change(c)
  BY <1>1, ChangeKeeps
<1>2. CASE Refresh \/ Round \/ Close \/ Parting
  BY <1>2, RefreshKeeps, PreparationKeeps, PublishBatchKeeps, PublishFailsKeeps, EndRoundKeeps,
     CloseKeeps, PartingKeeps
  DEF Round
<1>3. CASE (\E q \in Sequence : Deliver(q)) \/ Timer \/ Handling \/ StopListening \/ Tick
  BY <1>3, OtherStepKeepsPublisher
  DEF Deliver, Timer, Handling, Receive, RemoveExpired, StopListening, Tick
<1>4. CASE UNCHANGED presenceVars
  BY <1>4, OtherStepKeepsPublisher DEF presenceVars
<1> QED
  BY <1>1, <1>2, <1>3, <1>4 DEF PresenceNext

LEMMA StepKeepsListener ==
    ASSUME PresenceInv, PublisherInv, PublisherInv', ListenerInv, [PresenceNext]_presenceVars
    PROVE  ListenerInv'
<1>0. published \in Seq(Frame) /\ published' \in Seq(Frame)
  BY DEF PublisherInv, PublisherType
<1>1. CASE PublishBatch \/ PublishFails
  <2>1. PICK f \in NextFrames, acked \in BOOLEAN :
           published' = Append(published, [gone |-> f.gone, here |-> f.here, acked |-> acked])
    BY <1>1 DEF PublishBatch, PublishFails
  <2>2. [gone |-> f.gone, here |-> f.here, acked |-> acked] \in Frame
    BY FrameFacts DEF PublisherInv
  <2>3. Len(published') = Len(published) + 1 /\ \A q \in Sequence : published'[q] = published[q]
    BY <1>0, <2>1, <2>2 DEF Sequence
  <2>4. UNCHANGED listenerVars
    BY <1>1 DEF PublishBatch, PublishFails
  <2> QED
    BY <1>0, <2>3, <2>4, PublisherStepKeepsListener
<1>2. CASE \/ \E c \in Client : Change(c)
           \/ Refresh \/ StartRound \/ BeginRead \/ ReadLocal \/ ReadFails \/ EndRound \/ Close \/ Parting
           \/ UNCHANGED presenceVars
  <2>1. UNCHANGED <<published, listenerVars>>
    BY <1>2 DEF Change, Refresh, StartRound, BeginRead, ReadLocal, ReadFails, EndRound, Close,
                Parting, Farewell, EndFarewell, publisherVars, presenceVars
  <2> QED
    BY <1>0, <2>1, PublisherStepKeepsListener
<1>3. CASE (\E q \in Sequence : Deliver(q)) \/ Timer \/ Handling \/ StopListening \/ Tick
  BY <1>3, Halves, DeliverKeeps, TimerKeeps, ReceiveKeeps, RemoveExpiredKeeps, StopListeningKeeps, TickKeeps
  DEF Handling
<1> QED
  BY <1>1, <1>2, <1>3 DEF PresenceNext, Round

LEMMA StepKeepsInv == PresenceInv /\ [PresenceNext]_presenceVars => PresenceInv'
<1> SUFFICES ASSUME PresenceInv, [PresenceNext]_presenceVars PROVE PresenceInv'
  OBVIOUS
<1>1. PublisherInv /\ ListenerInv
  BY Halves
<1>2. PublisherInv'
  BY <1>1, StepKeepsPublisher
<1>3. ListenerInv'
  BY <1>1, <1>2, StepKeepsListener
<1> QED
  BY <1>2, <1>3 DEF PresenceInv, PublisherInv, ListenerInv, PresenceTypeOK, PublisherType, ListenerType

-----------------------------------------------------------------------------
(* Theorems *)

\* Every behaviour of the two instances has the invariant.
THEOREM PresenceInvariant == PresenceSpec => []PresenceInv
<1> QED
  BY InitInv, StepKeepsInv, PTL DEF PresenceSpec

\* Every variable keeps its type; no more operations wait than may, and the floor
\* of the publisher is the newest frame taken.
THEOREM PresenceTypeCorrect == PresenceSpec => []PresenceTypeOK
<1>1. PresenceInv => PresenceTypeOK
  BY DEF PresenceInv
<1> QED
  BY <1>1, PresenceInvariant, PTL

\* Whom others may show is remembered by the publisher, for any number of clients,
\* batches and failed publications (roomPresenceTransport.ts, previous).
THEOREM AnnouncedStaysRemembered == PresenceSpec => []AnnouncedIsRemembered
<1>1. PresenceInv => AnnouncedIsRemembered
  BY DEF PresenceInv
<1> QED
  BY <1>1, PresenceInvariant, PTL

\* A close that reports its tombstones delivered has withdrawn everybody
\* (roomPresenceTransport.ts, close).
THEOREM CloseWithdrawsEverybody == PresenceSpec => []CloseTellsEverybody
<1>1. PresenceInv => CloseTellsEverybody
  BY DEF PresenceInv
<1> QED
  BY <1>1, PresenceInvariant, PTL

\* No older frame shows again who was withdrawn, however frames are delayed,
\* duplicated, lost and reordered (distributedPresence.ts, sources).
THEOREM WithdrawnStaysWithdrawn == PresenceSpec => []NoResurrection
<1>1. PresenceInv => NoResurrection
  BY DEF PresenceInv
<1> QED
  BY <1>1, PresenceInvariant, PTL
=============================================================================
