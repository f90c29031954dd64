-------------------------- MODULE CanvasMergeProofs --------------------------
(***************************************************************************)
(* Proofs about CanvasMerge, for any elements, labels and number of saves: *)
(* the room's canvas stays a graph, an accepted reconciliation is the      *)
(* pointwise merge of both sides, and a conflict has a reason.             *)
(***************************************************************************)
EXTENDS CanvasMerge, TLAPS

AnyCanvas == [Id -> Element \cup {Undefined}]

\* What the merge is applied to: canvases of the right shape.
CanvasInv ==
    /\ live \in AnyCanvas
    /\ clouds \in Seq(Canvas) /\ Len(clouds) >= 1
    /\ accepted \in 0..Len(clouds)
    /\ RoomIsAGraph

------------------------------------------------------------------------------
\* MergeElement yields an element or Undefined, or it clashes.
LEMMA MergedElementType ==
    ASSUME NEW base \in Element \cup {Undefined}, NEW mine \in Element \cup {Undefined},
           NEW theirs \in Element \cup {Undefined},
           MergeElement(base, mine, theirs) # Clash
    PROVE  MergeElement(base, mine, theirs) \in Element \cup {Undefined}
<1> DEFINE merged == [f \in Field |-> MergeField(Baseline(base)[f], mine[f], theirs[f])]
<1>1. CASE OneSided(base, mine, theirs)
    BY <1>1 DEF MergeElement, Changed
<1>2. CASE ~OneSided(base, mine, theirs)
  <2>1. Undefined \notin {mine, theirs} /\ (\A f \in Field : merged[f] # Clash)
        /\ MergeElement(base, mine, theirs) = merged
      BY <1>2 DEF MergeElement
  <2>2. ASSUME NEW f \in Field
        PROVE  merged[f] \in Leaf
      BY <2>1 DEF MergeField, Changed, Element
  <2>. QED
      BY <2>1, <2>2 DEF Element
<1>. QED
    BY <1>1, <1>2

\* The candidate of three canvases is a canvas unless an element clashes.
LEMMA CandidateType ==
    ASSUME NEW base \in AnyCanvas, NEW mine \in AnyCanvas, NEW theirs \in AnyCanvas,
           Merges(base, mine, theirs)
    PROVE  Candidate(base, mine, theirs) \in AnyCanvas
<1>1. ASSUME NEW i \in Id
      PROVE  MergeElement(base[i], mine[i], theirs[i]) \in Element \cup {Undefined}
  <2>1. MergeElement(base[i], mine[i], theirs[i]) # Clash
      BY DEF Merges, Candidate
  <2>. QED
      BY <2>1, MergedElementType DEF AnyCanvas
<1>. QED
    BY <1>1 DEF Candidate, AnyCanvas

\* One element: no field was changed by both sides, and the merged element is
\* what the fields and the existence of the element are merged to, each alone.
LEMMA MergedElementIsPointwise ==
    ASSUME NEW base \in AnyCanvas, NEW mine \in AnyCanvas, NEW theirs \in AnyCanvas,
           NEW i \in Id,
           MergeElement(base[i], mine[i], theirs[i]) # Clash
    PROVE  /\ \A f \in Facet : OneSided(At(base, i, f), At(mine, i, f), At(theirs, i, f))
           /\ MergeElement(base[i], mine[i], theirs[i]) = Pointwise(base, mine, theirs)[i]
<1> DEFINE both(f) == Changed(At(base, i, f), At(mine, i, f), At(theirs, i, f))
           merged == [f \in Field |-> MergeField(Baseline(base[i])[f], mine[i][f], theirs[i][f])]
<1>1. Pointwise(base, mine, theirs)[i] =
          IF both("present") THEN [f \in Field |-> both(f)] ELSE Undefined
    BY DEF Pointwise
<1>2. base[i] \in Element \cup {Undefined} /\ mine[i] \in Element \cup {Undefined}
      /\ theirs[i] \in Element \cup {Undefined} /\ Undefined \notin Element
    BY CanvasAssumption DEF AnyCanvas
<1>3. \A f \in Field : f # "present" /\ At(base, i, f) = Baseline(base[i])[f]
          /\ At(mine, i, f) = Baseline(mine[i])[f] /\ At(theirs, i, f) = Baseline(theirs[i])[f]
    BY DEF Field, At
<1>4. At(base, i, "present") = (base[i] # Undefined) /\ At(mine, i, "present") = (mine[i] # Undefined)
      /\ At(theirs, i, "present") = (theirs[i] # Undefined)
    BY DEF At
<1>5. CASE OneSided(base[i], mine[i], theirs[i])
  <2>1. \A f \in Facet : OneSided(At(base, i, f), At(mine, i, f), At(theirs, i, f))
      BY <1>5 DEF OneSided, At
  <2>2. MergeElement(base[i], mine[i], theirs[i]) = Changed(base[i], mine[i], theirs[i])
      BY <1>5 DEF MergeElement
  <2>3. ASSUME NEW c \in AnyCanvas,
               \A f \in Facet : both(f) = At(c, i, f)
        PROVE  Pointwise(base, mine, theirs)[i] = c[i]
    <3>1. both("present") = (c[i] # Undefined)
        BY <2>3 DEF Facet, At
    <3>2. CASE c[i] = Undefined
        BY <1>1, <3>1, <3>2
    <3>3. CASE c[i] # Undefined
      <4>1. c[i] \in Element
          BY <3>3 DEF AnyCanvas
      <4>2. \A f \in Field : both(f) = c[i][f]
          BY <2>3, <3>3 DEF Facet, Field, At, Baseline
      <4>3. c[i] = [f \in Field |-> both(f)]
          BY <4>1, <4>2 DEF Element
      <4>. QED
          BY <1>1, <3>1, <3>3, <4>3
    <3>. QED
        BY <3>2, <3>3
  <2>4. CASE base[i] = theirs[i]
    <3>1. \A f \in Facet : both(f) = At(mine, i, f)
        BY <2>4 DEF Changed, At
    <3>. QED
        BY <2>1, <2>2, <2>3, <2>4, <3>1 DEF Changed
  <2>5. CASE base[i] # theirs[i]
    <3>1. \A f \in Facet : both(f) = At(theirs, i, f)
        BY <2>5, <1>5 DEF Changed, At, OneSided
    <3>. QED
        BY <2>1, <2>2, <2>3, <2>5, <3>1 DEF Changed
  <2>. QED
      BY <2>4, <2>5
<1>6. CASE ~OneSided(base[i], mine[i], theirs[i])
  <2>1. mine[i] # Undefined /\ theirs[i] # Undefined /\ (\A f \in Field : merged[f] # Clash)
        /\ MergeElement(base[i], mine[i], theirs[i]) = merged
      BY <1>6 DEF MergeElement
  <2>2. both("present") = TRUE /\ OneSided(At(base, i, "present"), At(mine, i, "present"), At(theirs, i, "present"))
      BY <1>4, <2>1 DEF Changed, OneSided
  <2>3. ASSUME NEW f \in Field
        PROVE  OneSided(At(base, i, f), At(mine, i, f), At(theirs, i, f)) /\ merged[f] = both(f)
    <3>1. At(mine, i, f) = mine[i][f] /\ At(theirs, i, f) = theirs[i][f]
        BY <1>3, <2>1 DEF Baseline
    <3>2. merged[f] = MergeField(At(base, i, f), At(mine, i, f), At(theirs, i, f))
        BY <1>3, <3>1
    <3>3. OneSided(At(base, i, f), At(mine, i, f), At(theirs, i, f))
        BY <2>1, <3>2 DEF MergeField
    <3>. QED
        BY <3>2, <3>3 DEF MergeField
  <2>4. merged = [f \in Field |-> both(f)]
      BY <2>3
  <2>. QED
      BY <1>1, <2>1, <2>2, <2>3, <2>4 DEF Facet
<1>. QED
    BY <1>5, <1>6

\* A clash of an element has a reason: one side has deleted what the other has
\* edited, or both have changed one of its fields, to different values.
LEMMA ClashHasAReason ==
    ASSUME NEW base \in AnyCanvas, NEW mine \in AnyCanvas, NEW theirs \in AnyCanvas,
           NEW i \in Id,
           MergeElement(base[i], mine[i], theirs[i]) = Clash
    PROVE  DeletedAndEdited(base, mine, theirs) \/ ~Agree(base, mine, theirs)
<1>1. /\ base[i] \in Element \cup {Undefined} /\ mine[i] \in Element \cup {Undefined}
      /\ theirs[i] \in Element \cup {Undefined}
      /\ Clash \notin Element \cup {Undefined} /\ Clash \notin Leaf
    BY CanvasAssumption DEF AnyCanvas, Leaf
<1>2. ~OneSided(base[i], mine[i], theirs[i])
    BY <1>1 DEF MergeElement, Changed
<1>3. CASE Undefined \in {mine[i], theirs[i]}
  <2>1. base[i] # Undefined /\ base[i] \notin {mine[i], theirs[i]} /\ mine[i] # theirs[i]
      BY <1>2, <1>3 DEF OneSided
  <2>. QED
      BY <1>3, <2>1 DEF DeletedAndEdited
<1>4. CASE Undefined \notin {mine[i], theirs[i]}
  <2> DEFINE merged == [f \in Field |-> MergeField(Baseline(base[i])[f], mine[i][f], theirs[i][f])]
  <2>1. mine[i] \in Element /\ theirs[i] \in Element /\ Baseline(base[i]) \in Element
      BY <1>1, <1>4 DEF Baseline, Element, Leaf
  <2>2. PICK f \in Field : merged[f] = Clash
    <3>1. SUFFICES ASSUME \A f \in Field : merged[f] # Clash PROVE FALSE
        OBVIOUS
    <3>2. merged = Clash
        BY <1>2, <1>4, <3>1 DEF MergeElement
    <3>3. \A f \in Field : merged[f] \in Leaf
        BY <2>1, <3>1 DEF MergeField, Changed, Element
    <3>4. merged \in Element
        BY <3>3 DEF Element
    <3>. QED
        BY <1>1, <3>2, <3>4
  <2>3. ~OneSided(Baseline(base[i])[f], mine[i][f], theirs[i][f])
    <3>1. Baseline(base[i])[f] \in Leaf /\ mine[i][f] \in Leaf /\ theirs[i][f] \in Leaf
        BY <2>1 DEF Element
    <3>2. MergeField(Baseline(base[i])[f], mine[i][f], theirs[i][f]) = Clash
        BY <2>2
    <3>. QED
        BY <1>1, <3>1, <3>2 DEF MergeField, Changed
  <2>4. f # "present" /\ f \in Facet
      BY DEF Field, Facet
  <2>5. At(base, i, f) = Baseline(base[i])[f] /\ At(mine, i, f) = mine[i][f] /\ At(theirs, i, f) = theirs[i][f]
      BY <1>4, <2>4 DEF At, Baseline
  <2>. QED
      BY <2>3, <2>4, <2>5 DEF Agree
<1>. QED
    BY <1>3, <1>4

\* Merges fails for one of the reasons ConflictIsReal names.
LEMMA ConflictHasAReason ==
    ASSUME NEW base \in AnyCanvas, NEW mine \in AnyCanvas, NEW theirs \in AnyCanvas,
           ~Merges(base, mine, theirs)
    PROVE  \/ ~Agree(base, mine, theirs)
           \/ DeletedAndEdited(base, mine, theirs)
           \/ ~IsGraph(Pointwise(base, mine, theirs))
<1>1. CASE \E i \in Id : MergeElement(base[i], mine[i], theirs[i]) = Clash
    BY <1>1, ClashHasAReason
<1>2. CASE \A i \in Id : MergeElement(base[i], mine[i], theirs[i]) # Clash
  <2>1. \A i \in Id : MergeElement(base[i], mine[i], theirs[i]) = Pointwise(base, mine, theirs)[i]
      BY <1>2, MergedElementIsPointwise
  <2>2. Candidate(base, mine, theirs) = Pointwise(base, mine, theirs)
      BY <2>1 DEF Candidate, Pointwise
  <2>3. ~IsGraph(Candidate(base, mine, theirs))
      BY <1>2 DEF Merges, Candidate
  <2>. QED
      BY <2>2, <2>3
<1>. QED
    BY <1>1, <1>2

------------------------------------------------------------------------------
LEMMA CanvasInvInit == Init => CanvasInv
<1> SUFFICES ASSUME Init PROVE CanvasInv
    OBVIOUS
<1>1. PICK c \in Canvas : clouds = <<c>>
    BY DEF Init
<1>2. clouds \in Seq(Canvas) /\ Len(clouds) = 1 /\ clouds[1] = c
    BY <1>1
<1>3. live \in Canvas /\ accepted \in 0..1
    BY <1>2 DEF Init
<1>. QED
    BY <1>2, <1>3, CanvasAssumption, CanvasesAreGraphs DEF CanvasInv, RoomIsAGraph, AnyCanvas

LEMMA CanvasInvNext == CanvasInv /\ [Next]_vars => CanvasInv'
<1> SUFFICES ASSUME CanvasInv, [Next]_vars PROVE CanvasInv'
    OBVIOUS
<1> USE DEF CanvasInv, RoomIsAGraph
<1>0. \A c \in Canvas : c \in AnyCanvas /\ IsGraph(c)
    BY CanvasAssumption, CanvasesAreGraphs DEF AnyCanvas
<1>1. CASE EditRoom
  <2>1. live' \in Canvas
      BY <1>1 DEF EditRoom
  <2>. QED
      BY <1>0, <1>1, <2>1 DEF EditRoom
<1>2. CASE SaveCloud
  <2>1. PICK c \in Canvas : clouds' = Append(clouds, c)
      BY <1>2 DEF SaveCloud
  <2>2. clouds' \in Seq(Canvas) /\ Len(clouds') = Len(clouds) + 1
      BY <2>1
  <2>. QED
      BY <1>2, <2>2 DEF SaveCloud
<1>3. ASSUME NEW r \in 1..Len(clouds), Accept(r)
      PROVE  CanvasInv'
  <2>1. CASE accepted = 0
      BY <1>3, <2>1 DEF Accept, Reconciled
  <2>2. CASE accepted # 0
    <3>1. Merges(clouds[accepted], live, clouds[r]) /\ live' = Candidate(clouds[accepted], live, clouds[r])
        BY <1>3, <2>2 DEF Accept, Acceptable, Reconciled
    <3>2. clouds[accepted] \in AnyCanvas /\ clouds[r] \in AnyCanvas
        BY <1>0, <2>2
    <3>3. live' \in AnyCanvas
        BY <3>1, <3>2, CandidateType
    <3>4. IsGraph(live')
        BY <3>1 DEF Merges
    <3>. QED
        BY <1>3, <3>3, <3>4 DEF Accept
  <2>. QED
      BY <2>1, <2>2
<1>4. ASSUME NEW r \in 1..Len(clouds), Refuse(r)
      PROVE  CanvasInv'
    BY <1>4 DEF Refuse
<1>5. CASE Recover
  <2>1. live' \in Canvas
      BY <1>5 DEF Recover
  <2>. QED
      BY <1>0, <1>5, <2>1 DEF Recover
<1>6. CASE UNCHANGED vars
    BY <1>6 DEF vars
<1>. QED
    BY <1>1, <1>2, <1>3, <1>4, <1>5, <1>6 DEF Next

\* CanvasInv is inductive.
THEOREM CanvasInvariant == Spec => []CanvasInv
<1>. QED
    BY CanvasInvInit, CanvasInvNext, PTL DEF Spec

\* The room's canvas is a graph at all times, although the edits of either
\* side were checked against another canvas (cloudRoomReconciliation.ts:79-81).
THEOREM RoomStaysAGraph == Spec => []RoomIsAGraph
<1>1. CanvasInv => RoomIsAGraph
    BY DEF CanvasInv
<1>. QED
    BY <1>1, CanvasInvariant, PTL

\* An accepted reconciliation loses no edit of either side, for canvases of
\* any size (cloudRoomReconciliation.ts:35-50, 67-78).
THEOREM EditsStayMerged == Spec => EditsAreMerged
<1>1. ASSUME CanvasInv, [Next]_vars, NEW r \in 1..Len(clouds),
             accepted > 0, Accept(r)
      PROVE  /\ Agree(clouds[accepted], live, clouds[r])
             /\ live' = Pointwise(clouds[accepted], live, clouds[r])
  <2>1. Merges(clouds[accepted], live, clouds[r]) /\ live' = Candidate(clouds[accepted], live, clouds[r])
      BY <1>1 DEF Accept, Acceptable, Reconciled
  <2>2. clouds[accepted] \in AnyCanvas /\ clouds[r] \in AnyCanvas /\ live \in AnyCanvas
      BY <1>1, CanvasAssumption DEF CanvasInv, AnyCanvas
  <2>3. \A i \in Id : MergeElement(clouds[accepted][i], live[i], clouds[r][i]) # Clash
      BY <2>1 DEF Merges, Candidate
  <2>4. \A i \in Id :
            /\ \A f \in Facet : OneSided(At(clouds[accepted], i, f), At(live, i, f), At(clouds[r], i, f))
            /\ MergeElement(clouds[accepted][i], live[i], clouds[r][i])
                   = Pointwise(clouds[accepted], live, clouds[r])[i]
      BY <2>2, <2>3, MergedElementIsPointwise
  <2>5. Candidate(clouds[accepted], live, clouds[r]) = Pointwise(clouds[accepted], live, clouds[r])
      BY <2>4 DEF Candidate, Pointwise
  <2>. QED
      BY <2>1, <2>4, <2>5 DEF Agree
<1>2. CanvasInv /\ [Next]_vars => [\A r \in 1..Len(clouds) : r # accepted /\ accepted' = r /\ accepted > 0 /\ Accept(r) =>
          LET base == clouds[accepted] theirs == clouds[r]
          IN  Agree(base, live, theirs) /\ live' = Pointwise(base, live, theirs)]_vars
    BY <1>1
<1>. QED
    BY <1>2, CanvasInvariant, PTL DEF Spec, EditsAreMerged

\* A cloud copy is refused for one of the reasons a reader of the conflict could
\* name, found in this copy and no other (CloudRoomConflictError in
\* roomCheckpointCoordination.ts and cloudRoomReconciliation.ts).
THEOREM ConflictStaysReal == Spec => ConflictIsReal
<1> DEFINE Reason(r) ==
        \/ r < accepted
        \/ accepted = 0 /\ live # clouds[r]
        \/ /\ accepted > 0
           /\ LET base == clouds[accepted] theirs == clouds[r]
              IN  \/ ~Agree(base, live, theirs)
                  \/ DeletedAndEdited(base, live, theirs)
                  \/ ~IsGraph(Pointwise(base, live, theirs))
<1>1. ASSUME CanvasInv, NEW r \in 1..Len(clouds), Refuse(r)
      PROVE  Reason(r)
  <2>1. accepted \in 0..Len(clouds) /\ live \in AnyCanvas /\ ~Acceptable(r)
      BY <1>1 DEF CanvasInv, Refuse
  <2>2. CASE accepted = 0
      BY <2>1, <2>2 DEF Acceptable
  <2>3. CASE accepted > 0 /\ r >= accepted
    <3>1. ~Merges(clouds[accepted], live, clouds[r])
        BY <2>1, <2>3 DEF Acceptable
    <3>2. clouds[accepted] \in AnyCanvas /\ clouds[r] \in AnyCanvas
        BY <1>1, <2>1, <2>3, CanvasAssumption DEF CanvasInv, AnyCanvas
    <3>. QED
        BY <2>1, <2>3, <3>1, <3>2, ConflictHasAReason
  <2>. QED
      BY <2>1, <2>2, <2>3
<1>2. CanvasInv => [paused' => \A r \in 1..Len(clouds) : Refuse(r) => Reason(r)]_vars
    BY <1>1
<1>. QED
    BY <1>2, CanvasInvariant, PTL DEF ConflictIsReal
==============================================================================
