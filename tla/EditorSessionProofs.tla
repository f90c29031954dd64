------------------------- MODULE EditorSessionProofs -------------------------
(***************************************************************************)
(* Proofs about EditorSession, for any fields, versions and number of      *)
(* edits: until a version is restored, nothing of an old version reaches   *)
(* the shared document, the room or a cloud save; and a recovery by the    *)
(* owner takes no edit of the canvas with it.                              *)
(***************************************************************************)
EXTENDS EditorSession, TLAPS

\* Canvases with nothing of an old version.
Fresh == [Field -> 0..MaxEdit]

\* What a restore waits for is a version; NoCanvas says that there was none.
RestoreIsOfVersion == restoring # NoRestore => restoring.version # NoCanvas

\* Whatever is merged into the room, or waits to be shown, is fresh.
DocumentIsFresh ==
    /\ made \in 0..MaxEdit
    /\ room \in Fresh
    /\ doc \in Fresh \cup {NoCanvas} /\ pending \in Fresh \cup {NoCanvas}
    /\ link = "synced" => doc # NoCanvas

\* An old version is on the canvas during a preview only, and what is rendered may
\* lag behind until the preview has ended.
SessionIsFresh ==
    /\ session \in [phase : {"none", "preview", "resuming"}, live : Fresh \cup {NoCanvas}]
    /\ session.phase # "none" => session.live # NoCanvas
    /\ session.phase # "preview" => state \in Fresh
    /\ session.phase = "none" => shown \in Fresh /\ refs \in Fresh

\* A save under way was captured before any preview, or has lost its lease.
SaveIsFresh ==
    /\ saving \in [stage : {"none", "captured", "attached", "sent"}, historic : BOOLEAN, valid : BOOLEAN]
    /\ saving.stage = "sent" => ~saving.historic
    /\ saving # NoSave /\ saving.valid => session.phase = "none" /\ ~saving.historic

PrivateInv == DocumentIsFresh /\ SessionIsFresh /\ SaveIsFresh
EditorInv == RestoreIsOfVersion /\ (restored = NoCanvas => PrivateInv)

LEMMA FreshIsNotHistoric == \A c \in Fresh : ~IsHistoric(c)
BY EditorAssumption DEF Fresh, IsHistoric

LEMMA OpenedIsFresh == Opened \in Fresh
BY EditorAssumption DEF Opened, Fresh

LEMMA FreshIsCanvas == NoCanvas \notin Fresh
BY EditorAssumption DEF Fresh, Canvas

\* An edit is a new value, not one of an old version.
LEMMA EditIsFresh ==
    ASSUME NEW c \in Fresh, NEW f \in Field, made \in 0..MaxEdit, made < MaxEdit
    PROVE  [c EXCEPT ![f] = made + 1] \in Fresh /\ made + 1 \in 0..MaxEdit
BY EditorAssumption DEF Fresh

\* What is published is at every field the document's or the canvas's.
LEMMA PatchIsFresh ==
    ASSUME doc \in Fresh, NEW c \in Fresh
    PROVE  Patched(c) \in Fresh
BY DEF Patched, Fresh

LEMMA InitInv == EditorInit => EditorInv
<1> SUFFICES ASSUME EditorInit PROVE EditorInv
  OBVIOUS
<1>1. RestoreIsOfVersion
  BY DEF EditorInit, RestoreIsOfVersion
<1>2. DocumentIsFresh
  BY OpenedIsFresh, EditorAssumption DEF EditorInit, DocumentIsFresh
<1>3. SessionIsFresh
  BY OpenedIsFresh DEF EditorInit, SessionIsFresh, NoSession
<1>4. SaveIsFresh
  BY DEF EditorInit, SaveIsFresh, NoSave
<1> QED
  BY <1>1, <1>2, <1>3, <1>4 DEF EditorInv, PrivateInv

\* Changing one field of a session, or of a save, gives a session or a save.
LEMMA SessionUpdate ==
    ASSUME SessionIsFresh, NEW x
    PROVE  /\ [session EXCEPT !.live = x] = [phase |-> session.phase, live |-> x]
           /\ [session EXCEPT !.phase = x] = [phase |-> x, live |-> session.live]
<1>1. PICK p, l : session = [phase |-> p, live |-> l]
  BY Zenon DEF SessionIsFresh
<1>2. session.phase = p /\ session.live = l
  BY <1>1
<1> QED
  BY <1>1, <1>2

LEMMA SaveUpdate ==
    ASSUME SaveIsFresh, NEW x
    PROVE  /\ [saving EXCEPT !.valid = x] = [stage |-> saving.stage, historic |-> saving.historic, valid |-> x]
           /\ [saving EXCEPT !.stage = x] = [stage |-> x, historic |-> saving.historic, valid |-> saving.valid]
<1>1. PICK s, h, v : saving = [stage |-> s, historic |-> h, valid |-> v]
  BY Zenon DEF SaveIsFresh
<1>2. saving.stage = s /\ saving.historic = h /\ saving.valid = v
  BY <1>1
<1> QED
  BY <1>1, <1>2

\* A save that loses its lease stays what it was.
LEMMA InvalidSave ==
    ASSUME SaveIsFresh, saving' = [saving EXCEPT !.valid = FALSE]
    PROVE  SaveIsFresh'
<1>1. saving' = [stage |-> saving.stage, historic |-> saving.historic, valid |-> FALSE]
  BY SaveUpdate
<1>2. /\ saving'.stage = saving.stage /\ saving'.historic = saving.historic /\ saving'.valid = FALSE
      /\ saving' \in [stage : {"none", "captured", "attached", "sent"}, historic : BOOLEAN, valid : BOOLEAN]
  BY <1>1 DEF SaveIsFresh
<1> QED
  BY <1>2 DEF SaveIsFresh

\* A fresh snapshot, taken, retained or kept waiting, makes nothing historic.
LEMMA TakeFresh ==
    ASSUME PrivateInv, NEW c \in Fresh, NEW a, Take(c, a)
    PROVE  /\ pending' \in Fresh \cup {NoCanvas}
           /\ session' \in [phase : {"none", "preview", "resuming"}, live : Fresh \cup {NoCanvas}]
           /\ session'.phase = session.phase
           /\ session'.phase # "none" => session'.live # NoCanvas
           /\ session'.phase # "preview" => state' \in Fresh
           /\ ready /\ session.phase # "preview" => state' = c
           /\ SaveIsFresh'
<1> USE DEF PrivateInv
<1>1. CASE ~ready
  <2>1. pending' = c /\ UNCHANGED <<state, session, saving>>
    BY <1>1 DEF Take
  <2> QED
    BY <1>1, <2>1 DEF SessionIsFresh, SaveIsFresh
<1>2. CASE ready /\ session.phase = "preview"
  <2>1. /\ session' = [session EXCEPT !.live = c]
        /\ pending' \in {c, NoCanvas} /\ UNCHANGED <<state, saving>>
    BY <1>2 DEF Take
  <2>2. session' = [phase |-> session.phase, live |-> c]
    BY <2>1, SessionUpdate
  <2>3. session'.phase = session.phase /\ session'.live = c
    BY <2>2
  <2>4. session' \in [phase : {"none", "preview", "resuming"}, live : Fresh \cup {NoCanvas}]
    BY <2>2 DEF SessionIsFresh
  <2>5. SaveIsFresh'
    BY <2>1, <2>3 DEF SaveIsFresh
  <2> QED
    BY <1>2, <2>1, <2>3, <2>4, <2>5, FreshIsCanvas
<1>3. CASE ready /\ session.phase # "preview"
  <2>1. /\ session' = IF session.phase = "resuming" THEN [session EXCEPT !.live = c] ELSE session
        /\ state' = c /\ pending' = NoCanvas /\ AdoptRevision(a)
    BY <1>3 DEF Take
  <2>2. \/ session' = session
        \/ session.phase = "resuming" /\ session' = [phase |-> session.phase, live |-> c]
    BY <2>1, SessionUpdate
  <2>3. session'.phase = session.phase /\ (session' = session \/ session'.live = c)
    BY <2>2
  <2>4. session' \in [phase : {"none", "preview", "resuming"}, live : Fresh \cup {NoCanvas}]
    BY <2>2 DEF SessionIsFresh
  <2>5. SaveIsFresh'
    <3>1. CASE saving' = saving
      BY <2>3, <3>1 DEF SaveIsFresh
    <3>2. CASE saving' = [saving EXCEPT !.valid = FALSE]
      BY <3>2, InvalidSave
    <3> QED
      BY <2>1, <3>1, <3>2 DEF AdoptRevision
  <2> QED
    BY <2>1, <2>3, <2>4, <2>5, FreshIsCanvas DEF SessionIsFresh
<1> QED
  BY <1>1, <1>2, <1>3

LEMMA ApplyInv ==
    ASSUME PrivateInv, NEW c \in Fresh, NEW a, Apply(c, a), link' = link \/ doc' # NoCanvas,
           made' \in 0..MaxEdit, room' \in Fresh, doc' \in Fresh \cup {NoCanvas},
           doc # NoCanvas => doc' # NoCanvas
    PROVE  PrivateInv'
<1>1. Take(c, a) /\ shown' = shown /\ refs' \in {c, refs}
  BY DEF Apply
<1>2. DocumentIsFresh'
  BY <1>1, TakeFresh DEF PrivateInv, DocumentIsFresh
<1>3. SessionIsFresh'
  BY <1>1, TakeFresh DEF PrivateInv, SessionIsFresh
<1>4. SaveIsFresh'
  BY <1>1, TakeFresh
<1> QED
  BY <1>2, <1>3, <1>4 DEF PrivateInv

\* What PrivateInv reads of the state.
core == <<made, room, doc, pending, link, session, state, shown, refs, saving>>

LEMMA QuietStep ==
    ASSUME PrivateInv, UNCHANGED core
    PROVE  PrivateInv'
BY DEF PrivateInv, DocumentIsFresh, SessionIsFresh, SaveIsFresh, core

\* Rendering and editing.
LEMMA CanvasInv ==
    ASSUME PrivateInv, Mount \/ Render \/ \E f \in Field : Edit(f)
    PROVE  PrivateInv'
<1> USE DEF PrivateInv
<1>1. CASE Mount
  BY <1>1, QuietStep DEF Mount, core, linkVars, previewVars
<1>2. CASE Render
  BY <1>2 DEF Render, linkVars, previewVars, DocumentIsFresh, SessionIsFresh, SaveIsFresh
<1>3. ASSUME NEW f \in Field, Edit(f)
      PROVE  PrivateInv'
  <2>1. /\ made < MaxEdit /\ session.phase = "none" /\ made' = made + 1
        /\ state' = [state EXCEPT ![f] = made + 1]
        /\ UNCHANGED <<room, doc, pending, link, session, shown, refs, saving>>
    BY <1>3 DEF Edit, ReadOnly, linkVars, previewVars
  <2>2. state' \in Fresh /\ made' \in 0..MaxEdit
    BY <2>1, EditIsFresh DEF DocumentIsFresh, SessionIsFresh
  <2> QED
    BY <2>1, <2>2 DEF DocumentIsFresh, SessionIsFresh, SaveIsFresh
<1> QED
  BY <1>1, <1>2, <1>3

\* Snapshots of the room.
LEMMA SnapshotInv ==
    ASSUME PrivateInv, RetryPending \/ Announce \/ Sync \/ \E f \in Field : PeerEdit(f)
    PROVE  PrivateInv'
<1> USE DEF PrivateInv
<1>1. CASE RetryPending
  BY <1>1, ApplyInv DEF RetryPending, DocumentIsFresh
<1>2. CASE Announce
  BY <1>2, ApplyInv DEF Announce, DocumentIsFresh
<1>3. CASE Sync
  <2>1. PICK m \in Canvas :
          /\ \A f \in Field : m[f] = room[f] \/ (doc # NoCanvas /\ m[f] = doc[f])
          /\ doc' = m /\ room' = m /\ Apply(m, accepted)
    BY <1>3 DEF Sync
  <2>2. m \in Fresh
    BY <2>1 DEF Canvas, Fresh, DocumentIsFresh
  <2>3. doc' # NoCanvas /\ made' = made
    BY <1>3, <2>1, <2>2, FreshIsCanvas DEF Sync
  <2> QED
    BY <2>1, <2>2, <2>3, ApplyInv DEF DocumentIsFresh
<1>4. ASSUME NEW f \in Field, PeerEdit(f)
      PROVE  PrivateInv'
  <2>1. room' = [room EXCEPT ![f] = made + 1] /\ made < MaxEdit /\ made' = made + 1 /\ link' = link
    BY <1>4 DEF PeerEdit
  <2>2. room' \in Fresh /\ made' \in 0..MaxEdit
    BY <2>1, EditIsFresh DEF DocumentIsFresh
  <2>3. CASE link = "synced"
    <3>1. doc' = room' /\ Apply(room', accepted)
      BY <1>4, <2>3 DEF PeerEdit
    <3> QED
      BY <2>1, <2>2, <3>1, ApplyInv, FreshIsCanvas
  <2>4. CASE link # "synced"
    <3>1. UNCHANGED <<doc, pending, session, state, shown, refs, saving>>
      BY <1>4, <2>4 DEF PeerEdit, canvasVars, previewVars
    <3> QED
      BY <2>1, <2>2, <3>1 DEF DocumentIsFresh, SessionIsFresh, SaveIsFresh
  <2> QED
    BY <2>3, <2>4
<1> QED
  BY <1>1, <1>2, <1>3, <1>4

LEMMA LinkInv ==
    ASSUME PrivateInv,
           (\E r \in {"editor", "viewer"} : Connect(r)) \/ Disconnect \/ Problem \/ RetryConnection
    PROVE  PrivateInv'
<1>1. /\ UNCHANGED <<made, room, session, state, shown, refs, saving>>
      /\ doc' \in {doc, NoCanvas} /\ pending' \in {pending, NoCanvas} /\ link' # "synced"
  BY DEF Connect, Disconnect, Problem, RetryConnection, Reconnected, canvasVars, previewVars
<1> QED
  BY <1>1 DEF PrivateInv, DocumentIsFresh, SessionIsFresh, SaveIsFresh

\* The effects of a render: while there is a session nothing is published, and it
\* ends only when the live canvas is the one rendered.
LEMMA EffectInv ==
    ASSUME PrivateInv, Effect
    PROVE  PrivateInv'
<1> USE DEF PrivateInv
<1>1. refs' = shown /\ UNCHANGED <<shown, link, made>>
  BY DEF Effect
<1>2. CASE session.phase # "none"
  <2>1. Observed /\ UNCHANGED <<state, doc, room, pending, saving>>
    BY <1>2 DEF Effect
  <2>2. \/ session' = session
        \/ session.phase = "resuming" /\ shown = session.live /\ session' = NoSession
    BY <2>1 DEF Observed
  <2>3. DocumentIsFresh' /\ SaveIsFresh'
    BY <1>1, <1>2, <2>1 DEF DocumentIsFresh, SaveIsFresh
  <2>4. CASE session' = session
    BY <1>1, <1>2, <2>1, <2>3, <2>4 DEF SessionIsFresh
  <2>5. CASE session.phase = "resuming" /\ shown = session.live /\ session' = NoSession
    BY <1>1, <2>1, <2>3, <2>5 DEF SessionIsFresh, NoSession
  <2> QED
    BY <2>2, <2>4, <2>5
<1>3. CASE session.phase = "none" /\ pending # NoCanvas
  <2>1. Take(pending, accepted) /\ UNCHANGED <<doc, room>>
    BY <1>3 DEF Effect
  <2>2. pending \in Fresh /\ shown \in Fresh
    BY <1>3 DEF DocumentIsFresh, SessionIsFresh
  <2>3. DocumentIsFresh'
    BY <1>1, <2>1, <2>2, TakeFresh DEF DocumentIsFresh
  <2>4. SessionIsFresh' /\ SaveIsFresh'
    BY <1>1, <2>1, <2>2, TakeFresh DEF SessionIsFresh
  <2> QED
    BY <2>3, <2>4
<1>4. CASE session.phase = "none" /\ pending = NoCanvas
  <2>1. /\ UNCHANGED <<state, session, pending, saving>>
        /\ IF MayPublish THEN Published ELSE UNCHANGED <<doc, room, baseline>>
    BY <1>4 DEF Effect
  <2>2. shown \in Fresh
    BY <1>4 DEF SessionIsFresh
  <2>3. DocumentIsFresh'
    <3>1. CASE MayPublish
      <4>1. doc \in Fresh
        BY <3>1 DEF MayPublish, DocumentIsFresh
      <4>2. doc' = Patched(shown) /\ (room' = doc' \/ room' = room)
        BY <2>1, <3>1 DEF Published
      <4>3. doc' \in Fresh
        BY <2>2, <4>1, <4>2, PatchIsFresh
      <4> QED
        BY <1>1, <2>1, <4>2, <4>3, FreshIsCanvas DEF DocumentIsFresh
    <3>2. CASE ~MayPublish
      BY <1>1, <2>1, <3>2 DEF DocumentIsFresh
    <3> QED
      BY <3>1, <3>2
  <2>4. SessionIsFresh' /\ SaveIsFresh'
    BY <1>1, <2>1, <2>2 DEF SessionIsFresh, SaveIsFresh
  <2> QED
    BY <2>3, <2>4
<1> QED
  BY <1>2, <1>3, <1>4

LEMMA PreviewInv ==
    ASSUME PrivateInv,
           (\E v \in Version : EnterPreview(v) \/ StartRestore(v)) \/ ExitPreview \/ CancelRestore
    PROVE  PrivateInv'
<1> USE DEF PrivateInv
<1>1. ASSUME NEW v \in Version, EnterPreview(v)
      PROVE  PrivateInv'
  <2> DEFINE live == IF session.phase = "none" THEN shown ELSE session.live
  <2>1. /\ session' = [phase |-> "preview", live |-> live]
        /\ saving' = IF saving = NoSave THEN NoSave ELSE [saving EXCEPT !.valid = FALSE]
        /\ UNCHANGED <<made, room, doc, pending, link, shown>>
    BY <1>1 DEF EnterPreview, linkVars
  <2>2. live \in Fresh
    BY DEF SessionIsFresh
  <2>3. session'.phase = "preview" /\ session'.live # NoCanvas
    BY <2>1, <2>2, FreshIsCanvas
  <2>4. SessionIsFresh'
    BY <2>1, <2>2, <2>3 DEF SessionIsFresh
  <2>5. SaveIsFresh'
    <3>1. CASE saving = NoSave
      BY <2>1, <3>1 DEF SaveIsFresh, NoSave
    <3>2. CASE saving # NoSave
      <4>1. saving' = [stage |-> saving.stage, historic |-> saving.historic, valid |-> FALSE]
        BY <2>1, <3>2, SaveUpdate
      <4>2. ~saving'.valid /\ saving'.stage = saving.stage /\ saving'.historic = saving.historic
        BY <4>1
      <4> QED
        BY <4>1, <4>2 DEF SaveIsFresh
    <3> QED
      BY <3>1, <3>2
  <2> QED
    BY <2>1, <2>4, <2>5 DEF DocumentIsFresh
<1>2. CASE (\E v \in Version : StartRestore(v)) \/ CancelRestore
  BY <1>2, QuietStep DEF StartRestore, CancelRestore, core, canvasVars, linkVars
<1>3. CASE ExitPreview
  <2>1. /\ session.phase = "preview" /\ session' = [phase |-> "resuming", live |-> session.live]
        /\ state' = session.live /\ UNCHANGED <<made, room, doc, pending, link, shown, saving>>
    BY <1>3, SessionUpdate DEF ExitPreview, Replace, linkVars
  <2>2. session'.phase = "resuming" /\ session'.live = session.live /\ session.live \in Fresh
    BY <2>1 DEF SessionIsFresh
  <2>3. SessionIsFresh'
    BY <2>1, <2>2 DEF SessionIsFresh
  <2> QED
    BY <2>1, <2>2, <2>3 DEF DocumentIsFresh, SaveIsFresh
<1> QED
  BY <1>1, <1>2, <1>3

\* What is captured and pictured with no session, and sent under a lease that is
\* still valid, is fresh.
LEMMA SaveInv ==
    ASSUME PrivateInv, StartSave \/ TakePicture \/ SendSave \/ EndSave
    PROVE  PrivateInv'
<1> USE DEF PrivateInv
<1>1. UNCHANGED <<made, room, doc, pending, link, session, state, shown, refs>>
  BY DEF StartSave, TakePicture, SendSave, EndSave, canvasVars, linkVars, previewVars
<1>2. DocumentIsFresh' /\ SessionIsFresh'
  BY <1>1 DEF DocumentIsFresh, SessionIsFresh
<1>3. CASE StartSave
  <2> DEFINE h == IsHistoric(refs)
  <2>1. session.phase = "none" /\ h \in BOOLEAN /\ ~h
    BY <1>3, FreshIsNotHistoric DEF StartSave, SessionIsFresh, IsHistoric
  <2>2. saving' = [stage |-> "captured", historic |-> h, valid |-> TRUE]
    BY <1>3 DEF StartSave
  <2> HIDE DEF h
  <2>3. saving' \in [stage : {"none", "captured", "attached", "sent"}, historic : BOOLEAN, valid : BOOLEAN]
    BY <2>1, <2>2
  <2> QED
    BY <1>1, <1>2, <2>1, <2>2, <2>3 DEF SaveIsFresh
<1>4. CASE TakePicture
  <2> DEFINE h == saving.historic \/ IsHistoric(shown)
  <2>1. saving' = [stage |-> "attached", historic |-> h, valid |-> saving.valid]
    BY <1>4 DEF TakePicture
  <2>2. h \in BOOLEAN
    BY DEF SaveIsFresh, IsHistoric
  <2>3. saving.valid => session.phase = "none" /\ ~h
    BY <1>4, FreshIsNotHistoric DEF TakePicture, SaveIsFresh, SessionIsFresh, NoSave
  <2> HIDE DEF h
  <2>4. saving' \in [stage : {"none", "captured", "attached", "sent"}, historic : BOOLEAN, valid : BOOLEAN]
    BY <2>1, <2>2 DEF SaveIsFresh
  <2> QED
    BY <1>1, <1>2, <2>1, <2>3, <2>4 DEF SaveIsFresh
<1>5. CASE SendSave
  <2>1. saving' = [stage |-> "sent", historic |-> saving.historic, valid |-> saving.valid]
    BY <1>5, SaveUpdate DEF SendSave
  <2>2. session.phase = "none" /\ saving.valid /\ ~saving.historic
    BY <1>5 DEF SendSave, Current, SaveIsFresh, NoSave
  <2> QED
    BY <1>1, <1>2, <2>1, <2>2 DEF SaveIsFresh
<1>6. CASE EndSave
  BY <1>2, <1>6 DEF EndSave, SaveIsFresh, NoSave
<1> QED
  BY <1>3, <1>4, <1>5, <1>6

LEMMA RecoveryInv ==
    ASSUME PrivateInv, Freeze \/ SaveCopy \/ Recover \/ RecoveryFails
    PROVE  PrivateInv'
<1>1. /\ UNCHANGED <<made, session, state, shown, refs, saving>>
      /\ room' \in {room, Opened}
      /\ \/ UNCHANGED <<doc, pending, link>>
         \/ doc' = NoCanvas /\ pending' = NoCanvas /\ link' = "offline"
  BY DEF Freeze, SaveCopy, Recover, RecoveryFails, Reconnected, canvasVars, linkVars, previewVars
<1> QED
  BY <1>1, OpenedIsFresh DEF PrivateInv, DocumentIsFresh, SessionIsFresh, SaveIsFresh

\* Only the end of a restore sets the version restored last, and to a version.
LEMMA RestoreInv ==
    ASSUME RestoreIsOfVersion, [EditorNext]_vars
    PROVE  /\ RestoreIsOfVersion'
           /\ restored' = NoCanvas => restored = NoCanvas /\ ~FinishRestore
<1>1. CASE FinishRestore
  <2>1. restoring' = NoRestore /\ restored' # NoCanvas
    BY <1>1 DEF FinishRestore, RestoreIsOfVersion
  <2> QED
    BY <2>1 DEF RestoreIsOfVersion
<1>2. ASSUME NEW v \in Version, StartRestore(v)
      PROVE  restoring'.version # NoCanvas /\ restored' = restored
  BY <1>2, EditorAssumption DEF StartRestore
<1>3. CASE CancelRestore
  BY <1>1, <1>3 DEF CancelRestore, RestoreIsOfVersion
<1>4. CASE UNCHANGED <<restoring, restored>>
  BY <1>1, <1>4 DEF RestoreIsOfVersion
<1>5. CASE \E v \in Version : StartRestore(v)
  BY <1>1, <1>2, <1>5 DEF RestoreIsOfVersion
<1>6. \/ FinishRestore \/ (\E v \in Version : StartRestore(v)) \/ CancelRestore
      \/ UNCHANGED <<restoring, restored>>
  BY DEF EditorNext, vars, previewVars, Mount, Render, Effect, RetryPending, Edit, PeerEdit, Announce,
     Connect, Sync, Disconnect, Problem, RetryConnection, EnterPreview, ExitPreview, StartSave,
     TakePicture, SendSave, EndSave, Freeze, SaveCopy, Recover, RecoveryFails, Apply
<1> QED
  BY <1>1, <1>3, <1>4, <1>5, <1>6

LEMMA StepInv == EditorInv /\ [EditorNext]_vars => EditorInv'
<1> SUFFICES ASSUME EditorInv, [EditorNext]_vars PROVE EditorInv'
  OBVIOUS
<1>1. RestoreIsOfVersion' /\ (restored' = NoCanvas => restored = NoCanvas /\ ~FinishRestore)
  BY RestoreInv DEF EditorInv
<1>2. ASSUME restored' = NoCanvas
      PROVE  PrivateInv'
  <2>1. PrivateInv /\ ~FinishRestore
    BY <1>1, <1>2 DEF EditorInv
  <2>2. CASE UNCHANGED vars
    BY <2>1, <2>2, QuietStep DEF vars, core, canvasVars, linkVars, previewVars
  <2>3. CASE EditorNext
    BY <2>1, <2>3, CanvasInv, SnapshotInv, LinkInv, EffectInv, PreviewInv, SaveInv, RecoveryInv
    DEF EditorNext
  <2> QED
    BY <2>2, <2>3
<1> QED
  BY <1>1, <1>2 DEF EditorInv

\* EditorInv is inductive: it says where a canvas of an old version can be until one
\* is restored.
THEOREM EditorInvariant == EditorSpec => []EditorInv
BY InitInv, StepInv, PTL DEF EditorSpec

\* What is only previewed reaches neither the shared document, nor the room, nor a
\* cloud save or its picture, for any fields, versions and number of edits
\* (canPublishVersionSnapshot, withVersionPreviewPersistence).
THEOREM PreviewStaysPrivate == EditorSpec => []PreviewIsPrivate
<1>1. EditorInv => PreviewIsPrivate
  <2> SUFFICES ASSUME EditorInv, restored = NoCanvas
               PROVE  /\ doc # NoCanvas => ~IsHistoric(doc)
                      /\ ~IsHistoric(room)
                      /\ saving.stage = "sent" => ~saving.historic
    BY DEF PreviewIsPrivate
  <2> QED
    BY FreshIsNotHistoric DEF EditorInv, PrivateInv, DocumentIsFresh, SaveIsFresh
<1> QED
  BY EditorInvariant, <1>1, PTL

-----------------------------------------------------------------------------
(* The owner's recovery: where the edits of the canvas can be read. *)

\* Canvases that show edits made so far, and what versions show.
Known == {c \in Canvas : \A f \in Field : c[f] \in 0..made \/ \E v \in Version : v[f] = c[f]}

CanvasesAreKnown ==
    /\ made \in 0..MaxEdit
    /\ state \in Known /\ shown \in Known /\ room \in Known
    /\ doc \in Known \cup {NoCanvas} /\ pending \in Known \cup {NoCanvas}
    /\ link = "synced" => doc # NoCanvas
    /\ restoring # NoRestore => restoring.version \in Version

\* A session has a canvas to come back to, which is the canvas once the preview has
\* been left.
SessionIsKnown ==
    /\ session \in [phase : {"none", "preview", "resuming"}, live : Known \cup {NoCanvas}]
    /\ session.phase # "none" => session.live \in Known
    /\ session.phase = "resuming" => state = session.live

\* Whoever reads the bridge after the effects have run finds the edits of a canvas
\* that has been rendered.
BridgeShowsRendered ==
    ~due => \A f \in Field : Edited(state, f) /\ shown[f] = state[f] => refs[f] = state[f]

\* While a recovery is planned the canvas is frozen, rendered and in the bridge,
\* but for a preview; no snapshot waits that could thaw it.
PlanIsFrozen ==
    /\ link = "stopped" => pending = NoCanvas
    /\ recovery # "none" => link = "stopped" /\ frozen
    /\ recovery = "plan" /\ session.phase = "none" =>
           \A f \in Field : Edited(state, f) => shown[f] = state[f] /\ refs[f] = state[f]

\* A copy lasts while the canvas stays frozen and no version is previewed.
CopyIsFrozen == copy # NoCanvas => frozen /\ session.phase # "preview"

KnownInv ==
    /\ CanvasesAreKnown /\ SessionIsKnown /\ BridgeShowsRendered
    /\ PlanIsFrozen /\ CopyIsFrozen /\ RecoveryKeepsEdits

LEMMA PartsOfKnownInv ==
    ASSUME KnownInv
    PROVE  /\ CanvasesAreKnown /\ SessionIsKnown /\ BridgeShowsRendered
           /\ PlanIsFrozen /\ CopyIsFrozen /\ RecoveryKeepsEdits
BY DEF KnownInv

LEMMA KnownGrows ==
    ASSUME made \in 0..MaxEdit, made' \in 0..MaxEdit, made <= made'
    PROVE  Known \subseteq Known'
BY EditorAssumption DEF Known

LEMMA KnownFacts == NoCanvas \notin Known /\ Version \subseteq Known /\ (made \in 0..MaxEdit => Opened \in Known)
BY EditorAssumption DEF Known, Canvas, Opened

LEMMA EditIsKnown ==
    ASSUME made \in 0..MaxEdit, made < MaxEdit, made' = made + 1, NEW c \in Known, NEW f \in Field
    PROVE  [c EXCEPT ![f] = made + 1] \in Known' /\ made' \in 0..MaxEdit
<1> DEFINE d == [c EXCEPT ![f] = made + 1]
<1>1. made + 1 \in 0..MaxEdit /\ c \in Known' /\ c \in Canvas /\ Known \subseteq Known'
  BY EditorAssumption, KnownGrows DEF Known
<1>2. d \in Canvas
  BY <1>1 DEF Canvas
<1>3. d[f] = made' /\ \A g \in Field \ {f} : d[g] = c[g]
  BY <1>1 DEF Canvas
<1>4. \A g \in Field : c[g] \in 0..made' \/ \E v \in Version : v[g] = c[g]
  BY <1>1 DEF Known
<1>5. \A g \in Field : d[g] \in 0..made' \/ \E v \in Version : v[g] = d[g]
  BY <1>1, <1>3, <1>4
<1> QED
  BY <1>1, <1>2, <1>5 DEF Known

LEMMA PatchIsKnown ==
    ASSUME doc \in Known, NEW c \in Known
    PROVE  Patched(c) \in Known
<1> DEFINE p == Patched(c)
<1>1. p \in [Field -> 0..MaxEdit \cup {Historic}] /\ \A f \in Field : p[f] = doc[f] \/ p[f] = c[f]
  BY DEF Patched, Known, Canvas
<1> HIDE DEF p
<1>2. p \in Known
  BY <1>1 DEF Known, Canvas
<1> QED
  BY <1>2 DEF p

\* What a version holds is no edit of the canvas only.
LEMMA VersionIsUnedited == \A v \in Version, f \in Field : ~Edited(v, f)
BY DEF Edited

LEMMA KnownSession ==
    ASSUME SessionIsKnown, NEW x
    PROVE  /\ [session EXCEPT !.live = x] = [phase |-> session.phase, live |-> x]
           /\ [session EXCEPT !.phase = x] = [phase |-> x, live |-> session.live]
<1>1. PICK p, l : session = [phase |-> p, live |-> l]
  BY Zenon DEF SessionIsKnown
<1>2. session.phase = p /\ session.live = l
  BY <1>1
<1> QED
  BY <1>1, <1>2

\* The canvas is kept, a preview retains the snapshot, or the canvas is replaced.
LEMMA TakeMoves ==
    ASSUME SessionIsKnown, NEW c, NEW a, Take(c, a)
    PROVE  \/ /\ ~ready /\ pending' = c
              /\ UNCHANGED <<state, session, frozen, copy>>
           \/ /\ ready /\ session.phase = "preview" /\ pending' \in {c, NoCanvas}
              /\ session' = [phase |-> "preview", live |-> c]
              /\ copy' = NoCanvas /\ UNCHANGED <<state, frozen>>
           \/ /\ ready /\ session.phase # "preview" /\ pending' = NoCanvas
              /\ state' = c /\ copy' = NoCanvas
              /\ \/ session' = session /\ session.phase = "none"
                 \/ session' = [phase |-> "resuming", live |-> c] /\ session.phase = "resuming"
<1>1. session.phase \in {"none", "preview", "resuming"}
  BY DEF SessionIsKnown
<1>2. [session EXCEPT !.live = c] = [phase |-> session.phase, live |-> c]
  BY KnownSession
<1> QED
  BY <1>1, <1>2 DEF Take

\* So canvas, session and copy stay in agreement.
LEMMA TakeKeeps ==
    ASSUME KnownInv, NEW c, NEW a, c \in Known', Known \subseteq Known', Take(c, a)
    PROVE  /\ state' \in Known' /\ pending' \in Known' \cup {NoCanvas}
           /\ SessionIsKnown' /\ CopyIsFrozen' /\ RecoveryKeepsEdits'
           /\ UNCHANGED state \/ (ready /\ session.phase # "preview" /\ state' = c)
<1>1. CanvasesAreKnown /\ SessionIsKnown /\ CopyIsFrozen /\ RecoveryKeepsEdits
  BY PartsOfKnownInv
<1>2. CASE ~ready /\ pending' = c /\ UNCHANGED <<state, session, frozen, copy>>
  BY <1>1, <1>2 DEF CanvasesAreKnown, SessionIsKnown, CopyIsFrozen, RecoveryKeepsEdits, Edited
<1>3. CASE /\ ready /\ session.phase = "preview" /\ pending' \in {c, NoCanvas}
           /\ session' = [phase |-> "preview", live |-> c]
           /\ copy' = NoCanvas /\ UNCHANGED <<state, frozen>>
  <2>1. session'.phase = "preview" /\ session'.live = c
    BY <1>3
  <2>2. SessionIsKnown'
    BY <1>3, <2>1 DEF SessionIsKnown
  <2> QED
    BY <1>1, <1>3, <2>2 DEF CanvasesAreKnown, CopyIsFrozen, RecoveryKeepsEdits
<1>4. CASE /\ ready /\ session.phase # "preview" /\ pending' = NoCanvas
           /\ state' = c /\ copy' = NoCanvas
           /\ \/ session' = session /\ session.phase = "none"
              \/ session' = [phase |-> "resuming", live |-> c] /\ session.phase = "resuming"
  <2>1. CASE session' = session /\ session.phase = "none"
    BY <1>1, <1>4, <2>1 DEF CanvasesAreKnown, SessionIsKnown, CopyIsFrozen, RecoveryKeepsEdits
  <2>2. CASE session' = [phase |-> "resuming", live |-> c]
    <3>1. session'.phase = "resuming" /\ session'.live = c
      BY <2>2
    <3>2. SessionIsKnown'
      BY <1>4, <2>2, <3>1 DEF SessionIsKnown
    <3> QED
      BY <1>4, <3>2 DEF CopyIsFrozen, RecoveryKeepsEdits
  <2> QED
    BY <1>4, <2>1, <2>2
<1> QED
  BY <1>1, <1>2, <1>3, <1>4, TakeMoves

\* A snapshot outside an effect comes from a link that is not stopped, so that no
\* recovery is planned.
LEMMA ApplyKeeps ==
    ASSUME KnownInv, NEW c, NEW a, Apply(c, a), c \in Known', link # "stopped", link' # "stopped",
           made' \in 0..MaxEdit, made <= made', room' \in Known', doc' \in Known' \cup {NoCanvas},
           link' = "synced" => doc' # NoCanvas
    PROVE  KnownInv'
<1>1. CanvasesAreKnown /\ SessionIsKnown /\ BridgeShowsRendered /\ PlanIsFrozen
  BY PartsOfKnownInv
<1>2. Known \subseteq Known'
  BY <1>1, KnownGrows DEF CanvasesAreKnown
<1>3. /\ Take(c, a) /\ UNCHANGED <<shown, due, restoring, recovery>>
      /\ refs' = IF ready /\ session.phase # "preview" THEN c ELSE refs
  BY DEF Apply
<1>4. /\ state' \in Known' /\ pending' \in Known' \cup {NoCanvas}
      /\ SessionIsKnown' /\ CopyIsFrozen' /\ RecoveryKeepsEdits'
      /\ UNCHANGED state \/ (ready /\ session.phase # "preview" /\ state' = c)
  BY <1>2, <1>3, TakeKeeps
<1>5. CanvasesAreKnown'
  BY <1>1, <1>2, <1>3, <1>4 DEF CanvasesAreKnown
<1>6. PlanIsFrozen'
  BY <1>1, <1>3 DEF PlanIsFrozen
<1>7. BridgeShowsRendered'
  <2>1. CASE refs' = c /\ state' = c
    BY <2>1 DEF BridgeShowsRendered
  <2>2. CASE UNCHANGED <<state, refs>>
    BY <1>1, <1>3, <2>2 DEF BridgeShowsRendered, Edited
  <2>3. (refs' = c /\ state' = c) \/ UNCHANGED <<state, refs>>
    BY <1>1, <1>3, TakeMoves
  <2> QED
    BY <2>1, <2>2, <2>3
<1> QED
  BY <1>4, <1>5, <1>6, <1>7 DEF KnownInv

\* What KnownInv reads of the state, in parts.
canvasCore == <<state, shown, due, refs>>
linkCore == <<made, link, room, doc, pending>>
recoveryCore == <<recovery, frozen, copy>>

LEMMA KnownStays ==
    ASSUME KnownInv, UNCHANGED <<canvasCore, linkCore, recoveryCore, session, restoring>>
    PROVE  KnownInv'
BY DEF KnownInv, canvasCore, linkCore, recoveryCore, CanvasesAreKnown, Known, SessionIsKnown,
       BridgeShowsRendered, PlanIsFrozen, CopyIsFrozen, RecoveryKeepsEdits, Edited

LEMMA RenderKeeps == ASSUME KnownInv, Render PROVE KnownInv'
<1>1. /\ shown' = state /\ due' = TRUE
      /\ UNCHANGED <<state, refs, linkCore, recoveryCore, session, restoring>>
  BY DEF Render, linkVars, previewVars, recoveryVars, linkCore, recoveryCore
<1> QED
  BY <1>1 DEF KnownInv, linkCore, recoveryCore, CanvasesAreKnown, Known, SessionIsKnown,
              BridgeShowsRendered, PlanIsFrozen, CopyIsFrozen, RecoveryKeepsEdits, Edited

\* An edit is not in the canvas rendered last, so that nobody freezes it before it
\* has been rendered.
LEMMA EditKeeps == ASSUME KnownInv, NEW f \in Field, Edit(f) PROVE KnownInv'
<1>1. CanvasesAreKnown /\ SessionIsKnown /\ BridgeShowsRendered /\ PlanIsFrozen /\ CopyIsFrozen
  BY PartsOfKnownInv
<1>2. /\ session.phase = "none" /\ ~frozen /\ made < MaxEdit /\ made' = made + 1
      /\ state' = [state EXCEPT ![f] = made + 1]
      /\ UNCHANGED <<shown, due, refs, link, room, doc, pending, recoveryCore, session, restoring>>
  BY DEF Edit, ReadOnly, linkVars, previewVars, recoveryVars, recoveryCore
<1>3. recovery = "none" /\ copy = NoCanvas
  BY <1>1, <1>2 DEF PlanIsFrozen, CopyIsFrozen
<1>4. made \in 0..MaxEdit /\ made' \in 0..MaxEdit /\ made <= made' /\ state' \in Known'
      /\ Known \subseteq Known'
  <2>1. made \in 0..MaxEdit /\ state \in Known
    BY <1>1 DEF CanvasesAreKnown
  <2>2. state' \in Known' /\ made' \in 0..MaxEdit
    BY <1>2, <2>1, EditIsKnown
  <2>3. made <= made'
    BY <1>2, <2>1, EditorAssumption
  <2> QED
    BY <2>1, <2>2, <2>3, KnownGrows
<1>5. CanvasesAreKnown'
  BY <1>1, <1>2, <1>4 DEF CanvasesAreKnown
<1>6. SessionIsKnown'
  BY <1>1, <1>2, <1>4 DEF SessionIsKnown
<1>7. BridgeShowsRendered'
  <2> SUFFICES ASSUME ~due, NEW g \in Field, Edited(state', g), shown[g] = state'[g]
               PROVE  refs[g] = state'[g]
    BY <1>2 DEF BridgeShowsRendered, Edited
  <2>1. state \in Canvas /\ shown \in Known
    BY <1>1 DEF CanvasesAreKnown, Known
  <2>2. CASE g = f
    <3>1. state'[g] = made + 1 /\ \A v \in Version : v[g] # made + 1
      BY <1>2, <2>1, <2>2 DEF Canvas, Edited
    <3>2. shown[g] \in 0..made
      BY <2>1, <3>1 DEF Known
    <3> QED
      BY <1>4, <3>1, <3>2, EditorAssumption
  <2>3. CASE g # f
    <3>1. state'[g] = state[g]
      BY <1>2, <2>1, <2>3 DEF Canvas
    <3> QED
      BY <1>1, <3>1 DEF BridgeShowsRendered, Edited
  <2> QED
    BY <2>2, <2>3
<1>8. PlanIsFrozen' /\ CopyIsFrozen' /\ RecoveryKeepsEdits'
  BY <1>1, <1>2, <1>3 DEF PlanIsFrozen, CopyIsFrozen, RecoveryKeepsEdits, recoveryCore
<1> QED
  BY <1>5, <1>6, <1>7, <1>8 DEF KnownInv

LEMMA SnapshotKeeps ==
    ASSUME KnownInv, RetryPending \/ Announce \/ Sync \/ \E f \in Field : PeerEdit(f)
    PROVE  KnownInv'
<1>1. CanvasesAreKnown /\ PlanIsFrozen /\ made \in 0..MaxEdit
  BY PartsOfKnownInv DEF CanvasesAreKnown
<1>2. UNCHANGED made => Known = Known'
  BY DEF Known
<1>3. CASE RetryPending
  <2>1. pending \in Known /\ link # "stopped" /\ Apply(pending, accepted)
        /\ UNCHANGED <<link, doc, room, made>>
    BY <1>1, <1>3 DEF RetryPending, CanvasesAreKnown, PlanIsFrozen
  <2> QED
    BY <1>1, <1>2, <2>1, ApplyKeeps, EditorAssumption DEF CanvasesAreKnown
<1>4. CASE Announce
  <2>1. doc \in Known /\ link = "synced" /\ Apply(doc, "news") /\ UNCHANGED <<link, doc, room, made>>
    BY <1>1, <1>4 DEF Announce, CanvasesAreKnown
  <2> QED
    BY <1>1, <1>2, <2>1, ApplyKeeps, EditorAssumption DEF CanvasesAreKnown
<1>5. CASE Sync
  <2>1. PICK m \in Canvas :
          /\ \A f \in Field : m[f] = room[f] \/ (doc # NoCanvas /\ m[f] = doc[f])
          /\ doc' = m /\ room' = m /\ Apply(m, accepted)
    BY <1>5 DEF Sync
  <2>2. m \in Known
    BY <1>1, <2>1 DEF Known, CanvasesAreKnown
  <2>3. link = "connected" /\ link' = "synced" /\ made' = made
    BY <1>5 DEF Sync
  <2> QED
    BY <1>1, <1>2, <2>1, <2>2, <2>3, ApplyKeeps, KnownFacts, EditorAssumption DEF CanvasesAreKnown
<1>6. ASSUME NEW f \in Field, PeerEdit(f)
      PROVE  KnownInv'
  <2>1. room' = [room EXCEPT ![f] = made + 1] /\ made < MaxEdit /\ made' = made + 1 /\ link' = link
    BY <1>6 DEF PeerEdit
  <2>2. room' \in Known' /\ made' \in 0..MaxEdit /\ made <= made'
    <3>1. room \in Known
      BY <1>1 DEF CanvasesAreKnown
    <3>2. room' \in Known' /\ made' \in 0..MaxEdit
      BY <1>1, <2>1, <3>1, EditIsKnown
    <3> QED
      BY <1>1, <2>1, <3>2, EditorAssumption
  <2>3. Known \subseteq Known' /\ NoCanvas \notin Known'
    BY <1>1, <2>2, KnownGrows, EditorAssumption DEF Known, Canvas
  <2>4. CASE link = "synced"
    <3>1. doc' = room' /\ Apply(room', accepted)
      BY <1>6, <2>4 DEF PeerEdit
    <3> QED
      BY <2>1, <2>2, <2>3, <2>4, <3>1, ApplyKeeps
  <2>5. CASE link # "synced"
    <3>1. UNCHANGED <<canvasCore, doc, pending, recoveryCore, session, restoring>>
      BY <1>6, <2>5 DEF PeerEdit, canvasVars, previewVars, recoveryVars, canvasCore, recoveryCore
    <3>2. CanvasesAreKnown' /\ SessionIsKnown'
      BY <1>1, <2>1, <2>2, <2>3, <3>1, PartsOfKnownInv DEF CanvasesAreKnown, SessionIsKnown, canvasCore
    <3>3. BridgeShowsRendered' /\ PlanIsFrozen' /\ CopyIsFrozen' /\ RecoveryKeepsEdits'
      BY <2>1, <3>1, PartsOfKnownInv
      DEF canvasCore, recoveryCore, BridgeShowsRendered, PlanIsFrozen, CopyIsFrozen, RecoveryKeepsEdits, Edited
    <3> QED
      BY <3>2, <3>3 DEF KnownInv
  <2> QED
    BY <2>4, <2>5
<1> QED
  BY <1>3, <1>4, <1>5, <1>6

LEMMA LinkKeeps ==
    ASSUME KnownInv,
           (\E r \in {"editor", "viewer"} : Connect(r)) \/ Disconnect \/ Problem \/ RetryConnection
    PROVE  KnownInv'
<1>1. /\ UNCHANGED <<canvasCore, recoveryCore, session, restoring, made, room>>
      /\ doc' \in {doc, NoCanvas} /\ pending' \in {pending, NoCanvas}
      /\ link' # "synced" /\ (link' = "stopped" => pending' = NoCanvas) /\ recovery = "none"
  BY PartsOfKnownInv
  DEF PlanIsFrozen, Connect, Disconnect, Problem, RetryConnection, Reconnected, canvasVars, previewVars,
      recoveryVars, canvasCore, recoveryCore
<1> QED
  BY <1>1
  DEF KnownInv, canvasCore, recoveryCore, CanvasesAreKnown, Known, SessionIsKnown,
      BridgeShowsRendered, PlanIsFrozen, CopyIsFrozen, RecoveryKeepsEdits, Edited

\* The effects put the rendered canvas into the bridge; a session ends when that is
\* the canvas it came back to.
LEMMA EffectKeeps == ASSUME KnownInv, Effect PROVE KnownInv'
<1>1. CanvasesAreKnown /\ SessionIsKnown /\ PlanIsFrozen /\ CopyIsFrozen /\ RecoveryKeepsEdits
  BY PartsOfKnownInv
<1>2. refs' = shown /\ due' = FALSE /\ UNCHANGED <<shown, link, restoring, recovery, made>> /\ Known' = Known
  BY DEF Effect, Known
<1>3. BridgeShowsRendered'
  BY <1>2 DEF BridgeShowsRendered
<1>4. CASE session.phase # "none"
  <2>1. /\ UNCHANGED <<state, doc, room, pending, frozen, copy>>
        /\ \/ session' = session
           \/ session.phase = "resuming" /\ shown = session.live /\ session' = NoSession
    BY <1>4 DEF Effect, Observed
  <2>2. CanvasesAreKnown' /\ RecoveryKeepsEdits'
    BY <1>1, <1>2, <2>1 DEF CanvasesAreKnown, RecoveryKeepsEdits, Edited
  <2>3. CASE session' = session
    BY <1>1, <1>2, <1>3, <1>4, <2>1, <2>2, <2>3
    DEF KnownInv, SessionIsKnown, PlanIsFrozen, CopyIsFrozen
  <2>4. CASE session.phase = "resuming" /\ shown = session.live /\ session' = NoSession
    <3>1. session'.phase = "none" /\ state' = shown' /\ refs' = shown'
      BY <1>1, <1>2, <2>1, <2>4 DEF SessionIsKnown, NoSession
    <3>2. SessionIsKnown'
      BY <2>4 DEF SessionIsKnown, NoSession
    <3>3. PlanIsFrozen' /\ CopyIsFrozen'
      BY <1>1, <1>2, <2>1, <3>1 DEF PlanIsFrozen, CopyIsFrozen
    <3> QED
      BY <1>3, <2>2, <3>2, <3>3 DEF KnownInv
  <2> QED
    BY <2>1, <2>3, <2>4
<1>5. CASE session.phase = "none" /\ pending # NoCanvas
  <2>1. Take(pending, accepted) /\ UNCHANGED <<doc, room>> /\ pending \in Known
    BY <1>1, <1>5 DEF Effect, CanvasesAreKnown
  <2>2. /\ state' \in Known /\ pending' \in Known \cup {NoCanvas}
        /\ SessionIsKnown' /\ CopyIsFrozen' /\ RecoveryKeepsEdits'
    BY <1>2, <2>1, TakeKeeps
  <2>3. CanvasesAreKnown'
    BY <1>1, <1>2, <2>1, <2>2 DEF CanvasesAreKnown
  <2>4. PlanIsFrozen'
    BY <1>1, <1>2, <1>5 DEF PlanIsFrozen
  <2> QED
    BY <1>3, <2>2, <2>3, <2>4 DEF KnownInv
<1>6. CASE session.phase = "none" /\ pending = NoCanvas
  <2>1. /\ UNCHANGED <<state, session, pending, frozen, copy>>
        /\ IF MayPublish THEN Published ELSE UNCHANGED <<doc, room, baseline>>
    BY <1>6 DEF Effect
  <2>2. CanvasesAreKnown'
    <3>1. CASE MayPublish
      <4>1. doc \in Known /\ shown \in Known
        BY <1>1, <3>1 DEF MayPublish, CanvasesAreKnown
      <4>2. doc' = Patched(shown) /\ (room' = doc' \/ room' = room)
        BY <2>1, <3>1 DEF Published
      <4>3. doc' \in Known
        BY <4>1, <4>2, PatchIsKnown
      <4> QED
        BY <1>1, <1>2, <2>1, <4>2, <4>3, KnownFacts DEF CanvasesAreKnown
    <3>2. CASE ~MayPublish
      BY <1>1, <1>2, <2>1, <3>2 DEF CanvasesAreKnown
    <3> QED
      BY <3>1, <3>2
  <2>3. PlanIsFrozen'
    BY <1>1, <1>2, <2>1 DEF PlanIsFrozen, Edited
  <2>4. SessionIsKnown' /\ CopyIsFrozen' /\ RecoveryKeepsEdits'
    BY <1>1, <1>2, <2>1 DEF SessionIsKnown, CopyIsFrozen, RecoveryKeepsEdits, Edited
  <2> QED
    BY <1>3, <2>2, <2>3, <2>4 DEF KnownInv
<1> QED
  BY <1>4, <1>5, <1>6

LEMMA PreviewKeeps ==
    ASSUME KnownInv,
           (\E v \in Version : EnterPreview(v) \/ StartRestore(v)) \/ ExitPreview \/ FinishRestore \/ CancelRestore
    PROVE  KnownInv'
<1>1. CanvasesAreKnown /\ SessionIsKnown /\ PlanIsFrozen /\ CopyIsFrozen /\ BridgeShowsRendered
      /\ RecoveryKeepsEdits
  BY PartsOfKnownInv
<1>2. UNCHANGED linkVars /\ UNCHANGED made /\ UNCHANGED <<shown, due, recovery, frozen>> /\ Known' = Known
  BY DEF EnterPreview, StartRestore, ExitPreview, FinishRestore, CancelRestore, canvasVars, recoveryVars, Known
<1>3. UNCHANGED linkCore
  BY <1>2 DEF linkVars, linkCore
<1>4. ASSUME NEW v \in Version, EnterPreview(v)
      PROVE  KnownInv'
  <2> DEFINE live == IF session.phase = "none" THEN shown ELSE session.live
  <2>1. session' = [phase |-> "preview", live |-> live] /\ state' = v /\ refs' = v /\ copy' = NoCanvas
        /\ UNCHANGED restoring
    BY <1>4 DEF EnterPreview, Replace
  <2>2. live \in Known
    BY <1>1 DEF SessionIsKnown, CanvasesAreKnown
  <2>3. session'.phase = "preview" /\ session'.live = live
    BY <2>1
  <2> HIDE DEF live
  <2>4. CanvasesAreKnown'
    BY <1>1, <1>2, <1>3, <2>1, KnownFacts DEF CanvasesAreKnown, linkCore
  <2>5. SessionIsKnown'
    BY <1>2, <2>1, <2>2, <2>3 DEF SessionIsKnown
  <2>6. PlanIsFrozen'
    BY <1>1, <1>2, <1>3, <2>3 DEF PlanIsFrozen, linkCore
  <2> QED
    BY <2>1, <2>4, <2>5, <2>6 DEF KnownInv, BridgeShowsRendered, CopyIsFrozen, RecoveryKeepsEdits
<1>5. ASSUME (\E v \in Version : StartRestore(v)) \/ CancelRestore
      PROVE  KnownInv'
  <2>1. /\ UNCHANGED <<canvasCore, recoveryCore, session>>
        /\ restoring' # NoRestore => restoring'.version \in Version
    BY <1>5 DEF StartRestore, CancelRestore, canvasVars, recoveryVars, canvasCore, recoveryCore
  <2>2. CanvasesAreKnown' /\ SessionIsKnown'
    BY <1>1, <1>2, <1>3, <2>1 DEF CanvasesAreKnown, SessionIsKnown, canvasCore, linkCore
  <2>3. BridgeShowsRendered' /\ PlanIsFrozen' /\ CopyIsFrozen' /\ RecoveryKeepsEdits'
    BY <1>1, <1>3, <2>1
    DEF canvasCore, linkCore, recoveryCore, BridgeShowsRendered, PlanIsFrozen, CopyIsFrozen, RecoveryKeepsEdits, Edited
  <2> QED
    BY <2>2, <2>3 DEF KnownInv
<1>6. CASE ExitPreview
  <2>1. /\ session.phase = "preview" /\ session' = [phase |-> "resuming", live |-> session.live]
        /\ state' = session.live /\ refs' = session.live /\ UNCHANGED <<restoring, copy>>
    BY <1>1, <1>6, KnownSession DEF ExitPreview, Replace, recoveryVars
  <2>2. session'.phase = "resuming" /\ session'.live = session.live /\ session.live \in Known /\ copy = NoCanvas
    BY <1>1, <2>1 DEF SessionIsKnown, CopyIsFrozen
  <2>3. CanvasesAreKnown'
    BY <1>1, <1>2, <1>3, <2>1, <2>2 DEF CanvasesAreKnown, linkCore
  <2>4. SessionIsKnown'
    BY <1>2, <2>1, <2>2 DEF SessionIsKnown
  <2>5. PlanIsFrozen'
    BY <1>1, <1>2, <1>3, <2>2 DEF PlanIsFrozen, linkCore
  <2> QED
    BY <2>1, <2>2, <2>3, <2>4, <2>5 DEF KnownInv, BridgeShowsRendered, CopyIsFrozen, RecoveryKeepsEdits
<1>7. CASE FinishRestore
  <2>1. /\ restoring.version \in Version /\ restoring' = NoRestore /\ session' = NoSession
        /\ state' = restoring.version /\ refs' = restoring.version /\ copy' = NoCanvas
    BY <1>1, <1>7 DEF FinishRestore, Replace, CanvasesAreKnown
  <2>2. session'.phase = "none" /\ SessionIsKnown'
    BY <2>1 DEF SessionIsKnown, NoSession
  <2>3. CanvasesAreKnown'
    BY <1>1, <1>2, <1>3, <2>1, KnownFacts DEF CanvasesAreKnown, linkCore
  <2>4. \A f \in Field : ~Edited(state', f)
    BY <2>1, VersionIsUnedited
  <2>5. PlanIsFrozen'
    BY <1>1, <1>2, <1>3, <2>4 DEF PlanIsFrozen, linkCore, Edited
  <2> QED
    BY <2>1, <2>2, <2>3, <2>5 DEF KnownInv, BridgeShowsRendered, CopyIsFrozen, RecoveryKeepsEdits
<1> QED
  BY <1>4, <1>5, <1>6, <1>7

\* The canvas that is frozen has been rendered and its effects have run: it is in
\* the bridge, from which the copy is made.
LEMMA RecoveryKeeps ==
    ASSUME KnownInv, Freeze \/ SaveCopy \/ Recover \/ RecoveryFails
    PROVE  KnownInv'
<1>1. CanvasesAreKnown /\ SessionIsKnown /\ PlanIsFrozen /\ CopyIsFrozen /\ BridgeShowsRendered
      /\ RecoveryKeepsEdits
  BY PartsOfKnownInv
<1>2. UNCHANGED <<canvasCore, session, restoring, made>> /\ Known' = Known
  BY DEF Freeze, SaveCopy, Recover, RecoveryFails, canvasVars, previewVars, canvasCore, Known
<1>3. /\ room' \in {room, Opened}
      /\ \/ UNCHANGED <<doc, pending, link>>
         \/ doc' = NoCanvas /\ pending' = NoCanvas /\ link' = "offline"
  BY DEF Freeze, SaveCopy, Recover, RecoveryFails, Reconnected, linkVars
<1>4. CanvasesAreKnown' /\ SessionIsKnown' /\ BridgeShowsRendered'
  BY <1>1, <1>2, <1>3, KnownFacts
  DEF CanvasesAreKnown, SessionIsKnown, BridgeShowsRendered, Edited, canvasCore
<1>5. CASE Freeze
  <2>1. link = "stopped" /\ shown = state /\ ~due /\ recovery' = "plan" /\ frozen'
        /\ UNCHANGED <<link, pending, copy>>
    BY <1>5 DEF Freeze, linkVars
  <2>2. PlanIsFrozen'
    BY <1>1, <1>2, <2>1 DEF PlanIsFrozen, BridgeShowsRendered, canvasCore, Edited
  <2> QED
    BY <1>1, <1>2, <1>4, <2>1, <2>2 DEF KnownInv, CopyIsFrozen, RecoveryKeepsEdits, canvasCore, Edited
<1>6. CASE SaveCopy
  <2>1. recovery = "plan" /\ session.phase = "none" /\ recovery' = "answer" /\ copy' = refs
        /\ UNCHANGED <<link, pending, frozen>>
    BY <1>6 DEF SaveCopy, linkVars
  <2> QED
    BY <1>1, <1>2, <1>4, <2>1
    DEF KnownInv, PlanIsFrozen, CopyIsFrozen, RecoveryKeepsEdits, canvasCore, Edited
<1>7. CASE Recover
  <2>1. recovery' = "none" /\ link' = "offline" /\ pending' = NoCanvas /\ UNCHANGED <<frozen, copy>>
    BY <1>7 DEF Recover, Reconnected
  <2> QED
    BY <1>1, <1>2, <1>4, <2>1
    DEF KnownInv, PlanIsFrozen, CopyIsFrozen, RecoveryKeepsEdits, canvasCore, Edited
<1>8. CASE RecoveryFails
  <2>1. recovery' = "none" /\ copy' = NoCanvas /\ UNCHANGED <<link, pending>>
    BY <1>8 DEF RecoveryFails
  <2> QED
    BY <1>1, <1>4, <2>1 DEF KnownInv, PlanIsFrozen, CopyIsFrozen, RecoveryKeepsEdits
<1> QED
  BY <1>5, <1>6, <1>7, <1>8

LEMMA KnownInit == EditorInit => KnownInv
<1> SUFFICES ASSUME EditorInit PROVE KnownInv
  OBVIOUS
<1>1. made \in 0..MaxEdit /\ Opened \in Known
  BY KnownFacts, EditorAssumption DEF EditorInit
<1>2. CanvasesAreKnown
  BY <1>1 DEF EditorInit, CanvasesAreKnown
<1>3. SessionIsKnown
  BY DEF EditorInit, SessionIsKnown, NoSession
<1> QED
  BY <1>2, <1>3
  DEF EditorInit, KnownInv, BridgeShowsRendered, PlanIsFrozen, CopyIsFrozen, RecoveryKeepsEdits

LEMMA KnownStep == KnownInv /\ [EditorNext]_vars => KnownInv'
<1> SUFFICES ASSUME KnownInv, [EditorNext]_vars PROVE KnownInv'
  OBVIOUS
<1>1. CASE Mount \/ StartSave \/ TakePicture \/ SendSave \/ EndSave \/ UNCHANGED vars
  <2>1. UNCHANGED <<canvasCore, linkCore, recoveryCore, session, restoring>>
    BY <1>1
    DEF Mount, StartSave, TakePicture, SendSave, EndSave, vars, canvasVars, linkVars, previewVars, recoveryVars,
        canvasCore, linkCore, recoveryCore
  <2> QED
    BY <2>1, KnownStays
<1>2. CASE Render \/ Effect \/ \E f \in Field : Edit(f)
  BY <1>2, RenderKeeps, EffectKeeps, EditKeeps
<1>3. CASE RetryPending \/ Announce \/ Sync \/ \E f \in Field : PeerEdit(f)
  BY <1>3, SnapshotKeeps
<1>4. CASE (\E r \in {"editor", "viewer"} : Connect(r)) \/ Disconnect \/ Problem \/ RetryConnection
  BY <1>4, LinkKeeps
<1>5. CASE (\E v \in Version : EnterPreview(v) \/ StartRestore(v)) \/ ExitPreview \/ FinishRestore \/ CancelRestore
  BY <1>5, PreviewKeeps
<1>6. CASE Freeze \/ SaveCopy \/ Recover \/ RecoveryFails
  BY <1>6, RecoveryKeeps
<1> QED
  BY <1>1, <1>2, <1>3, <1>4, <1>5, <1>6 DEF EditorNext

\* KnownInv is inductive: it says where the edits of a canvas can be read, from their
\* making to the end of a recovery.
THEOREM KnownInvariant == EditorSpec => []KnownInv
BY KnownInit, KnownStep, PTL DEF EditorSpec

\* A recovery takes no edit with it: from the moment the copy is saved until the
\* canvas is replaced, every edit the canvas shows is in the copy, for any fields,
\* versions and number of edits (useDiagramViewerCollaboration.ts).
THEOREM RecoveryKeepsAllEdits == EditorSpec => []RecoveryKeepsEdits
<1>1. KnownInv => RecoveryKeepsEdits
  BY DEF KnownInv
<1> QED
  BY KnownInvariant, <1>1, PTL
=============================================================================
