---------------------------- MODULE CanvasMerge ----------------------------
(***************************************************************************)
(* How a room takes over what was saved to the cloud: the three-way merge  *)
(* of cloudRoomReconciliation.ts over small canvases, and the decisions of *)
(* roomCheckpointCoordination.ts around it.                                *)
(*                                                                         *)
(* A canvas maps the id of an element to the element, or to Undefined when *)
(* it is not there.  An element maps each of four fields to a value, or to *)
(* Undefined.  The fields are those the validity of a canvas looks at and  *)
(* a label; records within an element merge by the same recursion as the   *)
(* element itself, and arrays are values.                                  *)
(***************************************************************************)
EXTENDS Integers, Sequences

CONSTANTS
    NodeId, EdgeId,     \* ids of elements
    Value,              \* values of a label
    Undefined,          \* what reading a missing element or field gives
    Clash,              \* stands for a thrown CloudRoomConflictError
    Canvas,             \* the valid canvases that clients and savers produce
    MaxRevision         \* bound on the number of saves to the cloud

Field == {"label", "parentId", "source", "target"}
Id == NodeId \cup EdgeId
Leaf == Value \cup NodeId \cup {Undefined}
Element == [Field -> Leaf]

ASSUME CanvasAssumption ==
    /\ MaxRevision \in Nat \ {0}
    /\ Undefined \notin Element
    /\ Clash \notin Element \cup Leaf
    /\ Canvas \subseteq [Id -> Element \cup {Undefined}]

VARIABLES
    live,       \* the canvas of the room, accepted and stored
    clouds,     \* the canvases saved to the cloud, by revision
    accepted,   \* revision of the room's checkpoint, 0 before the format had one
    paused      \* the room is closed, a conflict awaits its owner

vars == <<live, clouds, accepted, paused>>

------------------------------------------------------------------------------
\* validateDocument: parents and ends of edges are there, and no node is its
\* own ancestor.
Present(c) == {n \in NodeId : c[n] # Undefined}

Attached(c) ==
    /\ \A n \in Present(c) : c[n]["parentId"] \in Present(c) \cup {Undefined}
    /\ \A e \in EdgeId : c[e] # Undefined => {c[e]["source"], c[e]["target"]} \subseteq Present(c)

Acyclic(c) ==
    \A S \in SUBSET Present(c) \ {{}} : \E n \in S : c[n]["parentId"] \notin S

IsGraph(c) == Attached(c) /\ Acyclic(c)

\* Clients' documents and saved ones are validated before they are used.
ASSUME CanvasesAreGraphs == \A c \in Canvas : IsGraph(c)

\* merge: the side that alone has changed wins.
OneSided(base, mine, theirs) == base = theirs \/ base = mine \/ mine = theirs
Changed(base, mine, theirs) == IF base = theirs THEN mine ELSE theirs

MergeField(base, mine, theirs) ==
    IF OneSided(base, mine, theirs) THEN Changed(base, mine, theirs) ELSE Clash

\* A new element of both sides has no base: each of its fields is undefined.
Baseline(e) == IF e = Undefined THEN [f \in Field |-> Undefined] ELSE e

\* Mutants: an element that one side has deleted stays deleted although the
\* other has edited it; a new element of both sides has no fields to compare.
MergeElementDeleting(base, mine, theirs) ==
    IF OneSided(base, mine, theirs) THEN Changed(base, mine, theirs)
    ELSE IF Undefined \in {mine, theirs} THEN Undefined
    ELSE LET merged == [f \in Field |-> MergeField(Baseline(base)[f], mine[f], theirs[f])]
         IN  IF \E f \in Field : merged[f] = Clash THEN Clash ELSE merged

MergeElementOfBase(base, mine, theirs) ==
    IF OneSided(base, mine, theirs) THEN Changed(base, mine, theirs)
    ELSE IF Undefined \in {base, mine, theirs} THEN Clash
    ELSE LET merged == [f \in Field |-> MergeField(Baseline(base)[f], mine[f], theirs[f])]
         IN  IF \E f \in Field : merged[f] = Clash THEN Clash ELSE merged

MergeElement(base, mine, theirs) ==
    IF OneSided(base, mine, theirs) THEN Changed(base, mine, theirs)
    ELSE IF Undefined \in {mine, theirs} THEN Clash
    ELSE LET merged == [f \in Field |-> MergeField(Baseline(base)[f], mine[f], theirs[f])]
         IN  IF \E f \in Field : merged[f] = Clash THEN Clash ELSE merged

\* reconcileCloudRoom: a candidate that is no graph is a conflict too.
Candidate(base, mine, theirs) == [i \in Id |-> MergeElement(base[i], mine[i], theirs[i])]

\* Mutant: the ends of edges are looked at, cycles of parents are not.
MergesAttached(base, mine, theirs) ==
    LET c == Candidate(base, mine, theirs)
    IN  (\A i \in Id : c[i] # Clash) /\ Attached(c)

Merges(base, mine, theirs) ==
    LET c == Candidate(base, mine, theirs)
    IN  (\A i \in Id : c[i] # Clash) /\ IsGraph(c)

\* reconcileRoomCheckpoint: a room without a checkpoint has no base, and an
\* older copy of the cloud is refused.
Acceptable(r) ==
    IF accepted = 0 THEN live = clouds[r]
    ELSE r >= accepted /\ Merges(clouds[accepted], live, clouds[r])

Reconciled(r) ==
    IF accepted = 0 THEN live ELSE Candidate(clouds[accepted], live, clouds[r])

------------------------------------------------------------------------------
\* A room that was started from the cloud, or one of before the checkpoints.
Init ==
    /\ clouds \in {<<c>> : c \in Canvas}
    /\ \/ accepted = 1 /\ live = clouds[1]
       \/ accepted = 0 /\ live \in Canvas
    /\ paused = FALSE

\* Clients change one element at a time.
EditRoom ==
    /\ ~paused /\ accepted > 0
    /\ live' \in {c \in Canvas : \E i \in Id : \A j \in Id \ {i} : c[j] = live[j]}
    /\ UNCHANGED <<clouds, accepted, paused>>

\* Any editor saves what it has, seen in the room or not.
SaveCloud ==
    /\ Len(clouds) < MaxRevision
    /\ \E c \in Canvas : clouds' = Append(clouds, c)
    /\ UNCHANGED <<live, accepted, paused>>

\* The cloud copy may have been read before the last save (roomCoordinator.ts);
\* a room that is paused is coordinated again by the next who joins.
Accept(r) ==
    /\ Acceptable(r)
    /\ live' = Reconciled(r)
    /\ accepted' = r
    /\ paused' = FALSE
    /\ UNCHANGED clouds

Refuse(r) ==
    /\ ~Acceptable(r)
    /\ paused' = TRUE
    /\ UNCHANGED <<live, clouds, accepted>>

\* The owner throws the room's canvas away for the latest of the cloud, after
\* a conflict or for reasons of his own.
Recover ==
    /\ live' = clouds[Len(clouds)]
    /\ accepted' = Len(clouds)
    /\ paused' = FALSE
    /\ UNCHANGED clouds

Next ==
    \/ EditRoom
    \/ SaveCloud
    \/ \E r \in 1..Len(clouds) : Accept(r) \/ Refuse(r)
    \/ Recover

Spec == Init /\ [][Next]_vars

------------------------------------------------------------------------------
\* What the merge is measured by: every field of every element on its own.
Facet == Field \cup {"present"}
At(c, i, f) == IF f = "present" THEN c[i] # Undefined ELSE Baseline(c[i])[f]

Pointwise(base, mine, theirs) ==
    LET both(i, f) == Changed(At(base, i, f), At(mine, i, f), At(theirs, i, f))
    IN  [i \in Id |-> IF both(i, "present") THEN [f \in Field |-> both(i, f)] ELSE Undefined]

Agree(base, mine, theirs) ==
    \A i \in Id, f \in Facet : OneSided(At(base, i, f), At(mine, i, f), At(theirs, i, f))

\* A deletion against an edit: nobody knows what is left to edit.
DeletedAndEdited(base, mine, theirs) ==
    \E i \in Id : /\ base[i] # Undefined
                  /\ Undefined \in {mine[i], theirs[i]}
                  /\ base[i] \notin {mine[i], theirs[i]} /\ mine[i] # theirs[i]

\* An accepted reconciliation has, at every field, what the room or the cloud
\* alone has made of it, and no field that both had changed to something else:
\* no edit of either side is lost without a conflict being reported
\* (cloudRoomReconciliation.ts:35-50, 67-78).
EditsAreMerged ==
    [][\A r \in 1..Len(clouds) : r # accepted /\ accepted' = r /\ accepted > 0 /\ Accept(r) =>
          LET base == clouds[accepted] theirs == clouds[r]
          IN  Agree(base, live, theirs) /\ live' = Pointwise(base, live, theirs)]_vars

\* A cloud copy is only refused, and the room paused, for a reason that is one of
\* this very copy: the room has no base and differs from it, it is older than the
\* accepted one, it and the room changed the same field or one deleted what the
\* other edited, or the edits of the two make no graph together
\* (CloudRoomConflictError in both files).
ConflictIsReal ==
    [][paused' => \A r \in 1..Len(clouds) : Refuse(r) =>
          \/ r < accepted
          \/ accepted = 0 /\ live # clouds[r]
          \/ /\ accepted > 0
             /\ LET base == clouds[accepted] theirs == clouds[r]
                IN  \/ ~Agree(base, live, theirs)
                    \/ DeletedAndEdited(base, live, theirs)
                    \/ ~IsGraph(Pointwise(base, live, theirs))]_vars

\* Whatever is merged, the room's canvas stays a graph: the edges hang on
\* nodes, the parents exist and no node contains itself, although each side's
\* edits were checked against another canvas (cloudRoomReconciliation.ts:79-81).
RoomIsAGraph == IsGraph(live)
==============================================================================
