----------------------------- MODULE EditorSession -----------------------------
(***************************************************************************)
(* One editor of a cloud diagram: what its canvas shows, what it publishes *)
(* into the room's document, and what it saves to the cloud.  Canvas and   *)
(* document meet in callbacks that run between renders: a remote snapshot  *)
(* replaces the canvas at once (useDiagramViewerCollaboration.ts,          *)
(* YjsProviderHooks.ts), while the canvas is published by an effect that   *)
(* runs some time after it was rendered.  A version preview                *)
(* (versionPreviewSession.ts, useVersionHistory.ts), a restored version, a *)
(* cloud save (useCloudSave.ts) and the owner's recovery                   *)
(* (collaborationRecoveryFlow.ts) work on the same canvas, with awaits     *)
(* between their steps.                                                    *)
(*                                                                         *)
(* A canvas gives every field a value: 0 is what the diagram was opened    *)
(* with, 1, 2, ... are edits, and Historic is what only an old version has.*)
(***************************************************************************)
EXTENDS Integers

CONSTANTS
    Field,      \* fields of the diagram's elements
    MaxEdit,    \* edits of this editor and of its peers (a bound of the model only)
    Historic,   \* the value of a field in an old version, unlike every later one
    Version,    \* the canvases the version history offers
    NoCanvas

Canvas == [Field -> 0..MaxEdit \cup {Historic}]

ASSUME EditorAssumption ==
    MaxEdit \in Nat /\ Historic \notin Int /\ Version \subseteq Canvas /\ NoCanvas \notin Canvas

Opened == [f \in Field |-> 0]
IsHistoric(c) == \E f \in Field : c[f] = Historic

VARIABLES
    state,     \* the canvas as the editor's state holds it
    shown,     \* the canvas rendered last
    due,       \* the effects of the last render have not run yet
    refs,      \* the canvas as others read it from the flow-data bridge
    ready,     \* isCanvasReady
    link,      \* the provider: offline, connected, synced, or stopped by a problem
    role,      \* accessRole
    doc,       \* this editor's copy of the shared document, NoCanvas before its first sync
    room,      \* the document as the room has it
    baseline,  \* lastSynced..Ref: the canvas published last
    pending,   \* pendingRemoteSnapshotRef
    accepted,  \* acceptedCloudRevision: none, newer than the bridge's revision, or known to it
    session,   \* the version preview
    restoring, \* a restore that waits for its safety backup
    restored,  \* the version restored last
    saving,    \* the cloud save under way
    recovery,  \* what the owner's recovery waits for
    frozen,    \* recoveryReadOnly
    copy,      \* the recovery copy, until its canvas is replaced
    made       \* edits so far

canvasVars == <<state, shown, due, refs, ready>>
linkVars == <<link, role, doc, room, baseline, pending, accepted>>
previewVars == <<session, restoring, restored>>
recoveryVars == <<recovery, frozen, copy>>
vars == <<canvasVars, linkVars, previewVars, saving, recoveryVars, made>>

NoSession == [phase |-> "none", live |-> NoCanvas]
NoRestore == [version |-> NoCanvas, backup |-> NoCanvas]
NoSave == [stage |-> "none", historic |-> FALSE, valid |-> TRUE]

EditorInit ==
    /\ state = Opened /\ shown = Opened /\ refs = Opened
    /\ due = TRUE /\ ready = FALSE
    /\ link = "offline" /\ role = "none" /\ doc = NoCanvas /\ room = Opened
    /\ baseline = NoCanvas /\ pending = NoCanvas /\ accepted = "none"
    /\ session = NoSession /\ restoring = NoRestore /\ restored = NoCanvas
    /\ saving = NoSave
    /\ recovery = "none" /\ frozen = FALSE /\ copy = NoCanvas
    /\ made = 0

-----------------------------------------------------------------------------
(* Rendering                                                                *)

\* The canvas reports that it is initialised.
Mount ==
    /\ ~ready
    /\ ready' = TRUE
    /\ UNCHANGED <<state, shown, due, refs, linkVars, previewVars, saving, recoveryVars, made>>

\* The host renders, for a new canvas or for any other reason; the effects of a
\* render run before the next one.
Render ==
    /\ ~due
    /\ shown' = state /\ due' = TRUE
    /\ UNCHANGED <<state, refs, ready, linkVars, previewVars, saving, recoveryVars, made>>

ReadOnly == role # "editor" \/ session.phase # "none" \/ frozen

Edit(f) ==
    /\ ready /\ ~ReadOnly /\ made < MaxEdit
    /\ made' = made + 1
    /\ state' = [state EXCEPT ![f] = made + 1]
    /\ UNCHANGED <<shown, due, refs, ready, linkVars, previewVars, saving, recoveryVars>>

-----------------------------------------------------------------------------
(* Remote snapshots                                                         *)

\* A newer revision that is shown with its canvas enters the bridge's metadata,
\* which ends the save under way (assertCloudSaveViewCurrent).
AdoptRevision(a) ==
    /\ accepted' = IF a = "news" THEN "known" ELSE a
    /\ saving' = IF a = "news" /\ saving # NoSave THEN [saving EXCEPT !.valid = FALSE] ELSE saving

\* Mutant of Take: a snapshot that arrives while the live canvas comes back is
\* shown, but the preview goes on waiting for the older one.
TakeKeepingLive(c, a) ==
    \/ /\ ~ready
       /\ pending' = c /\ accepted' = a
       /\ UNCHANGED <<state, session, saving, frozen, copy>>
    \/ /\ ready /\ session.phase = "preview"
       /\ session' = [session EXCEPT !.live = c]
       /\ pending' = (IF a = "none" THEN NoCanvas ELSE c) /\ accepted' = a
       /\ copy' = NoCanvas
       /\ UNCHANGED <<state, saving, frozen>>
    \/ /\ ready /\ session.phase # "preview"
       /\ state' = c
       /\ pending' = NoCanvas /\ frozen' = FALSE /\ copy' = NoCanvas
       /\ AdoptRevision(a)
       /\ UNCHANGED session

\* flushPendingRemoteSnapshot and commitRemoteSnapshot, of the canvas c that has
\* the accepted revision a: a canvas that is not ready keeps the snapshot waiting,
\* a preview retains it, and keeps it waiting if it brings a revision.
Take(c, a) ==
    \/ /\ ~ready
       /\ pending' = c /\ accepted' = a
       /\ UNCHANGED <<state, session, saving, frozen, copy>>
    \/ /\ ready /\ session.phase = "preview"
       /\ session' = [session EXCEPT !.live = c]
       /\ pending' = (IF a = "none" THEN NoCanvas ELSE c) /\ accepted' = a
       /\ copy' = NoCanvas
       /\ UNCHANGED <<state, saving, frozen>>
    \/ /\ ready /\ session.phase # "preview"
       /\ session' = IF session.phase = "resuming" THEN [session EXCEPT !.live = c] ELSE session
       /\ state' = c
       /\ pending' = NoCanvas /\ frozen' = FALSE /\ copy' = NoCanvas
       /\ AdoptRevision(a)

\* A snapshot outside an effect: a canvas that is replaced is in the bridge at once.
Apply(c, a) ==
    /\ Take(c, a)
    /\ refs' = IF ready /\ session.phase # "preview" THEN c ELSE refs
    /\ UNCHANGED <<shown, due, ready, baseline, restoring, restored, recovery>>

\* The timer of retryPendingRemoteSnapshot.
RetryPending ==
    /\ pending # NoCanvas
    /\ Apply(pending, accepted)
    /\ UNCHANGED <<link, role, doc, room, made>>

\* A peer edits; the room sends the edit on to an editor it has synchronised.
PeerEdit(f) ==
    /\ made < MaxEdit
    /\ made' = made + 1
    /\ room' = [room EXCEPT ![f] = made + 1]
    /\ IF link = "synced"
       THEN doc' = room' /\ Apply(room', accepted)
       ELSE UNCHANGED <<canvasVars, doc, pending, baseline, accepted, previewVars, saving, recoveryVars>>
    /\ UNCHANGED <<link, role>>

\* Message 6: the room has accepted a cloud revision that the document contains.
Announce ==
    /\ link = "synced"
    /\ Apply(doc, "news")
    /\ UNCHANGED <<link, role, doc, room, made>>

-----------------------------------------------------------------------------
(* The connection                                                           *)

\* The server opens the connection and tells what the user may do.
Connect(r) ==
    /\ link = "offline"
    /\ link' = "connected" /\ role' = r
    /\ UNCHANGED <<canvasVars, doc, room, baseline, pending, accepted, previewVars, saving, recoveryVars, made>>

\* The first exchange of states; which of two writes to a field stays is up to
\* the document (Yjs).
Sync ==
    /\ link = "connected"
    /\ link' = "synced"
    /\ \E m \in Canvas :
           /\ \A f \in Field : m[f] = room[f] \/ (doc # NoCanvas /\ m[f] = doc[f])
           /\ doc' = m /\ room' = m
           /\ Apply(m, accepted)
    /\ UNCHANGED <<role, made>>

Disconnect ==
    /\ link \in {"connected", "synced"}
    /\ link' = "offline"
    /\ UNCHANGED <<canvasVars, role, doc, room, baseline, pending, accepted, previewVars, saving, recoveryVars, made>>

\* COORDINATION_STATUS_MESSAGE: no automatic retries, no publication.
Problem ==
    /\ link \in {"connected", "synced"}
    /\ link' = "stopped" /\ pending' = NoCanvas
    /\ UNCHANGED <<canvasVars, role, doc, room, baseline, accepted, previewVars, saving, recoveryVars, made>>

\* retryCollaboration: a new connection has a new document.
Reconnected ==
    /\ link' = "offline" /\ role' = "none" /\ doc' = NoCanvas /\ baseline' = NoCanvas
    /\ pending' = NoCanvas /\ accepted' = "none"

\* The user retries; the button is disabled during a recovery.
RetryConnection ==
    /\ link = "stopped" /\ recovery = "none"
    /\ Reconnected
    /\ UNCHANGED <<canvasVars, room, previewVars, saving, recoveryVars, made>>

-----------------------------------------------------------------------------
(* Publication                                                              *)

\* pushLocalChangesToYjs: while synced and allowed to write, or after a
\* connection that was lost.
MayPublish ==
    /\ ready /\ role = "editor"
    /\ link = "synced" \/ (link = "offline" /\ doc # NoCanvas)

\* publishCollaborationElement: only what differs from the canvas published last.
Patched(c) ==
    [f \in Field |-> IF baseline # NoCanvas /\ c[f] = baseline[f] THEN doc[f] ELSE c[f]]

Published ==
    /\ doc' = Patched(shown) /\ baseline' = shown
    /\ room' = IF link = "synced" THEN Patched(shown) ELSE room

\* canPublishVersionSnapshot: a preview publishes nothing, and ends when the live
\* canvas is seen to be rendered again.
Observed ==
    session' = IF session.phase = "resuming" /\ shown = session.live THEN NoSession ELSE session

\* The effects of the last render, in their order: the canvas is published, then
\* the bridge gets to read it.
Effect ==
    /\ due
    /\ due' = FALSE /\ refs' = shown
    /\ \/ /\ session.phase # "none"
          /\ Observed
          /\ UNCHANGED <<state, doc, room, baseline, pending, accepted, saving, frozen, copy>>
       \/ /\ session.phase = "none" /\ pending # NoCanvas
          /\ Take(pending, accepted)
          /\ UNCHANGED <<doc, room, baseline>>
       \/ /\ session.phase = "none" /\ pending = NoCanvas
          /\ IF MayPublish THEN Published ELSE UNCHANGED <<doc, room, baseline>>
          /\ UNCHANGED <<state, session, pending, accepted, saving, frozen, copy>>
    /\ UNCHANGED <<shown, ready, link, role, restoring, restored, recovery, made>>

-----------------------------------------------------------------------------
(* Version preview and restore                                              *)

\* replaceCanvasSnapshot of the bridge
Replace(c) == state' = c /\ refs' = c

\* beginVersionPreview of the version that has been loaded; a save under way
\* loses its lease.
EnterPreview(v) ==
    /\ ready /\ restoring = NoRestore
    /\ session' = [phase |-> "preview", live |-> IF session.phase = "none" THEN shown ELSE session.live]
    /\ saving' = IF saving = NoSave THEN NoSave ELSE [saving EXCEPT !.valid = FALSE]
    /\ Replace(v) /\ copy' = NoCanvas
    /\ UNCHANGED <<shown, due, ready, linkVars, restoring, restored, recovery, frozen, made>>

\* Mutant of ExitPreview: the session ends with the preview.
ExitPreviewAtOnce ==
    /\ session.phase = "preview"
    /\ session' = NoSession
    /\ Replace(session.live)
    /\ UNCHANGED <<shown, due, ready, linkVars, restoring, restored, saving, recoveryVars, made>>

ExitPreview ==
    /\ session.phase = "preview"
    /\ session' = [session EXCEPT !.phase = "resuming"]
    /\ Replace(session.live)
    /\ UNCHANGED <<shown, due, ready, linkVars, restoring, restored, saving, recoveryVars, made>>

Live == IF session.phase = "none" THEN refs ELSE session.live

\* restoreVersion up to its safety backup.
StartRestore(v) ==
    /\ ready /\ restoring = NoRestore
    /\ restoring' = [version |-> v, backup |-> Live]
    /\ UNCHANGED <<canvasVars, linkVars, session, restored, saving, recoveryVars, made>>

FinishRestore ==
    /\ restoring # NoRestore /\ restoring.backup = Live
    /\ restoring' = NoRestore /\ restored' = restoring.version
    /\ session' = NoSession
    /\ Replace(restoring.version) /\ copy' = NoCanvas
    /\ UNCHANGED <<shown, due, ready, linkVars, saving, recovery, frozen, made>>

\* The live canvas has changed meanwhile, or the backup has failed.
CancelRestore ==
    /\ restoring # NoRestore
    /\ restoring' = NoRestore
    /\ UNCHANGED <<canvasVars, linkVars, session, restored, saving, recoveryVars, made>>

-----------------------------------------------------------------------------
(* Cloud save                                                               *)

\* performCloudSave captures the content, then waits for a picture of the canvas.
StartSave ==
    /\ ready /\ saving = NoSave /\ session.phase = "none"
    /\ saving' = [stage |-> "captured", historic |-> IsHistoric(refs), valid |-> TRUE]
    /\ UNCHANGED <<canvasVars, linkVars, previewVars, recoveryVars, made>>

TakePicture ==
    /\ saving.stage = "captured"
    /\ saving' = [stage |-> "attached", historic |-> saving.historic \/ IsHistoric(shown), valid |-> saving.valid]
    /\ UNCHANGED <<canvasVars, linkVars, previewVars, recoveryVars, made>>

\* withVersionPreviewPersistence: no preview has been entered since the capture.
Current == session.phase = "none" /\ saving.valid

SendSave ==
    /\ saving.stage = "attached" /\ Current /\ ready
    /\ saving' = [saving EXCEPT !.stage = "sent"]
    /\ UNCHANGED <<canvasVars, linkVars, previewVars, recoveryVars, made>>

\* The save has been answered, has failed or is not current.
EndSave ==
    /\ saving # NoSave
    /\ saving' = NoSave
    /\ UNCHANGED <<canvasVars, linkVars, previewVars, recoveryVars, made>>

-----------------------------------------------------------------------------
(* The owner's recovery                                                     *)

\* restoreCloudRoom freezes the editor with flushSync: what was set has been
\* rendered and its effects have run.
Freeze ==
    /\ link = "stopped" /\ recovery = "none" /\ shown = state /\ ~due
    /\ recovery' = "plan" /\ frozen' = TRUE
    /\ UNCHANGED <<canvasVars, linkVars, previewVars, saving, copy, made>>

\* saveDiagramViewerRecoveryCopy, once the server has told what it would replace.
SaveCopy ==
    /\ recovery = "plan" /\ session.phase = "none" /\ ready
    /\ recovery' = "answer" /\ copy' = refs
    /\ UNCHANGED <<canvasVars, linkVars, previewVars, saving, frozen, made>>

\* Mutant of Recover: the editor thaws when the server has recovered.
RecoverThawing ==
    /\ recovery = "answer"
    /\ room' = Opened
    /\ recovery' = "none" /\ frozen' = FALSE
    /\ Reconnected
    /\ UNCHANGED <<canvasVars, previewVars, saving, copy, made>>

\* The room is replaced by the cloud's canvas, and the editor connects to it.
Recover ==
    /\ recovery = "answer"
    /\ room' = Opened
    /\ recovery' = "none"
    /\ Reconnected
    /\ UNCHANGED <<canvasVars, previewVars, saving, frozen, copy, made>>

\* Refused, out of time, or the copy has failed; the server may have recovered.
RecoveryFails ==
    /\ recovery # "none"
    /\ recovery' = "none" /\ frozen' = FALSE /\ copy' = NoCanvas
    /\ room' = room \/ (recovery = "answer" /\ room' = Opened)
    /\ UNCHANGED <<canvasVars, link, role, doc, baseline, pending, accepted, previewVars, saving, made>>

-----------------------------------------------------------------------------

EditorNext ==
    \/ Mount \/ Render \/ Effect \/ RetryPending
    \/ \E f \in Field : Edit(f) \/ PeerEdit(f)
    \/ Announce
    \/ \E r \in {"editor", "viewer"} : Connect(r)
    \/ Sync \/ Disconnect \/ Problem \/ RetryConnection
    \/ \E v \in Version : EnterPreview(v) \/ StartRestore(v)
    \/ ExitPreview \/ FinishRestore \/ CancelRestore
    \/ StartSave \/ TakePicture \/ SendSave \/ EndSave
    \/ Freeze \/ SaveCopy \/ Recover \/ RecoveryFails

EditorSpec == EditorInit /\ [][EditorNext]_vars

\* Canvases are mounted and rendered, effects run, and the timer of a waiting
\* snapshot fires.  Nothing else has to happen.
FairEditorSpec ==
    EditorSpec /\ WF_vars(Mount) /\ WF_vars(Render) /\ WF_vars(Effect) /\ WF_vars(RetryPending)

\* The same where nothing happens between a new canvas, its rendering and its effects.
Prompt == (due => Effect) /\ (~due /\ shown # state => Render)
PromptSpec == EditorInit /\ [][EditorNext /\ Prompt]_vars

-----------------------------------------------------------------------------
(* Properties                                                               *)

\* What is only previewed reaches neither the shared document, nor the room, nor
\* a cloud save or its picture, however late effects run and saves go on
\* (canPublishVersionSnapshot, withVersionPreviewPersistence).
PreviewIsPrivate ==
    restored = NoCanvas =>
        /\ doc # NoCanvas => ~IsHistoric(doc)
        /\ ~IsHistoric(room)
        /\ saving.stage = "sent" => ~saving.historic

\* An edit that is on this canvas only, not in a version of the history.
Edited(c, f) == c[f] \in 1..MaxEdit /\ \A v \in Version : v[f] # c[f]

\* From the moment its copy is saved until the recovered room's snapshot, a preview
\* or a restored version replaces the canvas, every edit the canvas shows is in the
\* copy: a recovery takes none with it (useDiagramViewerCollaboration.ts, "Freeze the
\* editor before capturing the durable recovery copy").
RecoveryKeepsEdits ==
    copy # NoCanvas => \A f \in Field : Edited(state, f) => copy[f] = state[f]

\* A preview that has been left ends, so that the editor can be used again, and
\* an announced cloud revision is adopted, though the canvas was not ready or
\* previewed a version when it came, unless the preview is never left.
EditorCatchesUp ==
    /\ session.phase = "resuming" ~> session.phase # "resuming"
    /\ accepted = "news" ~> accepted # "news" \/ link = "stopped" \/ []<>(session.phase = "preview")

\* What useVersionHistory.ts reports as restored is what the shared document is
\* after the restored canvas has been published (src/locales/en.json, restoreSuccess).
RestoreIsPublished ==
    /\ restored # NoCanvas /\ state = restored
    /\ session.phase = "none" /\ pending = NoCanvas /\ link = "synced" /\ MayPublish
    => Patched(restored) = restored
=============================================================================
